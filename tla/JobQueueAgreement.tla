-------------------------- MODULE JobQueueAgreement -------------------------
(***************************************************************************)
(* Proofs that the columns of a run, what hangs below it, the requests to  *)
(* retry it and the outcomes counted for it agree with each other, and     *)
(* that a live worker keeps its run, for any jobs, workers and creators.   *)
(***************************************************************************)
EXTENDS JobQueueProofs

-----------------------------------------------------------------------------
(* Retries.                                                                *)

\* A run a retry is made for.
FellShort(p) == status[p] \in {"partial_success", "failed"} /\ failedChain[p]
StillShort(p) == status'[p] \in {"partial_success", "failed"} /\ failedChain'[p]

\* A request to retry a run, checked but not yet inserted, is for such a run.
RequestsFollowFailure ==
    \A c \in Creators :
        req[c] # None /\ req[c].parent # None => FellShort(req[c].parent)

\* A verdict is final, so a parent found to have failed still has when the
\* retry is inserted, and ever after.
LEMMA FellShortStays ==
    ASSUME Timely, Inv, [Next]_vars, NEW p \in Jobs, FellShort(p)
    PROVE  StillShort(p)
<1>1. status[p] \in Terminal
  BY DEF FellShort, Terminal
<1>2. ASSUME NEW v \in Workers, WorkerStep(v) \/ Abandon(v)
      PROVE  UNCHANGED Record(p)
  BY <1>1, <1>2, StartedRun DEF Final
<1>3. UNCHANGED Record(p)
  BY <1>1, <1>2, StartedRunOthers DEF Inv, Next, Row
<1>4. QED
  BY <1>3 DEF FellShort, StillShort, Record

\* Every step keeps requests and runs on parents that have failed.
LEMMA NextRetries ==
    ASSUME Timely, Inv, RequestsFollowFailure, RetriesFollowFailure, [Next]_vars
    PROVE  RequestsFollowFailure' /\ RetriesFollowFailure'
<1> USE DEF table, asked
<1>1. TypeOK /\ None \notin Jobs
  BY ConstantFacts DEF Inv
<1>2. ASSUME NEW p \in Jobs \cup {None}, p # None, FellShort(p)
      PROVE  StillShort(p)
  BY <1>2, FellShortStays
<1>3. ASSUME UNCHANGED parent
      PROVE  RetriesFollowFailure'
  <2>1. ASSUME NEW j \in Jobs, parent[j] # None
        PROVE  StillShort(parent[j])
    BY <2>1, <1>1, <1>2 DEF RetriesFollowFailure, FellShort, TypeOK
  <2>2. QED
    BY <1>3, <2>1 DEF RetriesFollowFailure, FellShort, StillShort
<1>4. ASSUME NEW c \in Creators, req[c] # None, req[c].parent # None
      PROVE  StillShort(req[c].parent)
  <2>1. req[c].parent \in Jobs \cup {None}
    BY <1>1, <1>4 DEF TypeOK, Request
  <2>2. QED
    BY <1>2, <1>4, <2>1 DEF RequestsFollowFailure
<1>5. ASSUME UNCHANGED req
      PROVE  RequestsFollowFailure'
  BY <1>4, <1>5 DEF RequestsFollowFailure, FellShort, StillShort
<1>6. ASSUME NEW c \in Creators, NEW r, req' = [req EXCEPT ![c] = r],
             r # None /\ r.parent # None => StillShort(r.parent)
      PROVE  RequestsFollowFailure'
  <2> SUFFICES ASSUME NEW d \in Creators, req'[d] # None, req'[d].parent # None
               PROVE  StillShort(req'[d].parent)
    BY DEF RequestsFollowFailure, FellShort, StillShort
  <2>1. CASE d = c
    BY <1>1, <1>6, <2>1 DEF TypeOK
  <2>2. CASE d # c
    <3>1. req'[d] = req[d]
      BY <1>1, <1>6, <2>2 DEF TypeOK
    <3>2. QED
      BY <1>4, <3>1
  <2>3. QED
    BY <2>1, <2>2
<1>7. ASSUME NEW c \in Creators, NEW k \in Kinds, NEW t \in Targets, CreateJob(c, k, t)
      PROVE  RequestsFollowFailure' /\ RetriesFollowFailure'
  BY <1>3, <1>6, <1>7 DEF CreateJob
<1>8. ASSUME NEW c \in Creators, NEW p \in Jobs, RetryFailedJob(c, p)
      PROVE  RequestsFollowFailure' /\ RetriesFollowFailure'
  <2>1. StillShort(p)
    BY <1>8, FellShortStays DEF RetryFailedJob, FellShort
  <2>2. QED
    BY <1>3, <1>6, <1>8, <2>1 DEF RetryFailedJob
<1>9. ASSUME NEW c \in Creators, NEW j \in Jobs, NEW r, InsertRun(c, j, r)
      PROVE  RequestsFollowFailure' /\ RetriesFollowFailure'
  <2>1. RequestsFollowFailure'
    BY <1>6, <1>9 DEF InsertRun
  <2>2. ASSUME NEW i \in Jobs, parent'[i] # None
        PROVE  StillShort(parent'[i])
    <3>1. CASE i = j
      BY <1>1, <1>4, <1>9, <2>2, <3>1 DEF InsertRun, TypeOK
    <3>2. CASE i # j
      <4>1. parent'[i] = parent[i]
        BY <1>1, <1>9, <3>2 DEF InsertRun, TypeOK
      <4>2. QED
        BY <1>1, <1>2, <2>2, <4>1 DEF RetriesFollowFailure, FellShort, TypeOK
    <3>3. QED
      BY <3>1, <3>2
  <2>3. QED
    BY <2>1, <2>2 DEF RetriesFollowFailure, FellShort, StillShort
<1>10. ASSUME NEW c \in Creators, AbortCreate(c)
       PROVE  RequestsFollowFailure' /\ RetriesFollowFailure'
  BY <1>3, <1>6, <1>10 DEF AbortCreate
<1>11. ASSUME NEW w \in Workers, WorkerStep(w) \/ Abandon(w)
       PROVE  UNCHANGED <<req, parent>>
  BY <1>11 DEF WorkerStep, Abandon, BeginClaim, PickPending, CommitClaim, Renew, LoseLease,
     LoadWallets, NoWallets, OpenWallet, CommitWallet, FailRun, FailOutsideWallet,
     FinishRun, EndRun, Observe
<1>12. CASE Tick \/ UNCHANGED vars
  BY <1>3, <1>5, <1>12 DEF Tick, vars
<1>13. QED
  BY <1>3, <1>5, <1>7, <1>8, <1>9, <1>10, <1>11, <1>12 DEF Next, CreatorStep

\* Timing does not change.
LEMMA TimelyStays == Timely => []Timely
<1>1. Timely => Timely'
  BY DEF Timely
<1>2. QED
  BY <1>1, PTL

\* Under Timely, what was found out for a retry keeps holding, whatever the workers
\* do between its check and its insertion.
LEMMA RetriesHold == Timely /\ Spec => [](RequestsFollowFailure /\ RetriesFollowFailure)
<1>1. Init => RequestsFollowFailure /\ RetriesFollowFailure
  BY DEF Init, RequestsFollowFailure, RetriesFollowFailure
<1>2. Timely /\ Inv /\ RequestsFollowFailure /\ RetriesFollowFailure /\ [Next]_vars
         => RequestsFollowFailure' /\ RetriesFollowFailure'
  BY NextRetries
<1>3. QED
  BY <1>1, <1>2, Invariance, TimelyStays, PTL DEF Spec

\* Under Timely, a retry has a parent that fell short of success.
THEOREM RetriesAreOfFailures == Timely /\ Spec => []RetriesFollowFailure
BY RetriesHold, PTL

-----------------------------------------------------------------------------
(* Verdicts.                                                               *)

\* A run nobody has started is empty, and one that is running has no error yet.
RunContents(j) ==
    /\ status[j] \in {"absent", "pending"} =>
          error[j] = "none" /\ wallets[j] = 0 /\ ~failedChain[j]
    /\ status[j] = "running" => error[j] = "none"
    /\ status[j] = "success" =>
          error[j] = "none" /\ ~failedChain[j] /\ wallets[j] > 0
    /\ status[j] = "partial_success" =>
          error[j] = "none" /\ failedChain[j]
    /\ error[j] = "no_wallets" => wallets[j] = 0

\* What a worker remembers of the wallets it has written is what is in the
\* table below the run it owns.
WorkerContents(w) ==
    /\ pc[w] \in {"idle", "claiming", "picked", "claimed", "loading"} => seen[w] = {}
    /\ pc[w] \in Processing /\ Owns(w, job[w]) =>
          /\ failedChain[job[w]] <=> ~(seen[w] \subseteq {"success"})
          /\ pc[w] \in {"claimed", "loading"} => wallets[job[w]] = 0
    /\ pc[w] = "collected" \/ (pc[w] = "between" /\ todo[w] = 0) => wallets[job[w]] > 0

Contents ==
    /\ \A j \in Jobs : RunContents(j)
    /\ \A w \in Workers : WorkerContents(w)

\* The verdict says whether any wallet fell short, and success whether all did well.
LEMMA RunStatusFacts ==
    \A S : /\ RunStatus(S) = "success" <=> S \subseteq {"success"}
           /\ RunStatus(S) \in {"success", "partial_success", "failed"}
BY DEF RunStatus

\* A worker that ends a run, or writes under it, owns it.
LEMMA WritersOwn ==
    ASSUME TypeOK, RowLocks, Owned, NEW w \in Workers,
           pc[w] \in {"claimed", "loading", "between", "writing", "collecting"}
    PROVE  /\ job[w] \in Jobs /\ Owns(w, job[w]) /\ status[job[w]] = "running"
BY ProcessedRun DEF Owned, Ownership, Processing, Owns

\* The run of a step's worker, and every other run, keep to RunContents.
LEMMA NextRunContents ==
    ASSUME TypeOK, WalletsLeft, RowLocks, Owned, Contents, [Next]_vars, NEW j \in Jobs
    PROVE  RunContents(j)'
<1> USE DEF table, asked, held, contents
<1>1. RunContents(j)
  BY DEF Contents
<1>2. ASSUME UNCHANGED <<status[j], error[j], wallets[j], failedChain[j]>>
      PROVE  RunContents(j)'
  BY <1>1, <1>2 DEF RunContents
<1>3. ASSUME NEW w \in Workers, CommitClaim(w)
      PROVE  RunContents(j)'
  <2>1. CASE j \in stale[w]
    <3>1. status'[j] = "failed" /\ error'[j] = "lease_expired"
      BY <1>3, <2>1 DEF CommitClaim
    <3>2. QED
      BY <3>1 DEF RunContents
  <2>2. CASE j \notin stale[w] /\ j = job[w]
    <3>1. status[j] = "pending"
      BY <1>3, <2>2, ConstantFacts DEF CommitClaim, RowLocks
    <3>2. status'[j] = "running" /\ error'[j] = error[j]
      BY <1>3, <2>2 DEF CommitClaim
    <3>3. QED
      BY <1>1, <3>1, <3>2 DEF RunContents
  <2>3. CASE j \notin stale[w] /\ j # job[w]
    BY <1>2, <1>3, <2>3 DEF CommitClaim
  <2>4. QED
    BY <2>1, <2>2, <2>3
<1>4. ASSUME NEW w \in Workers, NEW verdict, NEW reason, EndRun(w, verdict, reason)
      PROVE  /\ j # job[w] => UNCHANGED <<status[j], error[j]>>
             /\ j = job[w] => /\ status'[j] = verdict
                              /\ error'[j] = IF reason = "none" THEN error[j] ELSE reason
  BY <1>4 DEF EndRun, TypeOK
<1>5. ASSUME NEW w \in Workers, NoWallets(w)
      PROVE  RunContents(j)'
  <2>1. j = job[w] => wallets[j] = 0
    BY <1>5, WritersOwn DEF NoWallets, Contents, WorkerContents, Processing
  <2>2. /\ j # job[w] => UNCHANGED <<status[j], error[j]>>
        /\ j = job[w] => status'[j] = "failed" /\ error'[j] = "no_wallets"
        /\ UNCHANGED <<wallets, failedChain>>
    BY <1>4, <1>5 DEF NoWallets
  <2>3. QED
    BY <1>2, <2>1, <2>2 DEF RunContents
<1>6. ASSUME NEW w \in Workers, NEW f \in BOOLEAN, FailRun(w, f)
      PROVE  RunContents(j)'
  <2>1. /\ j # job[w] => UNCHANGED <<status[j], error[j]>>
        /\ j = job[w] => status'[j] = "failed" /\ error'[j] = "exception"
    BY <1>4, <1>6 DEF FailRun
  <2>2. j # job[w] => UNCHANGED <<wallets[j], failedChain[j]>>
    BY <1>6 DEF FailRun, TypeOK
  <2>3. QED
    BY <1>2, <2>1, <2>2 DEF RunContents
<1>7. ASSUME NEW w \in Workers, FinishRun(w)
      PROVE  RunContents(j)'
  <2>1. /\ j # job[w] => UNCHANGED <<status[j], error[j]>>
        /\ j = job[w] => status'[j] = RunStatus(seen[w]) /\ error'[j] = error[j]
        /\ UNCHANGED <<wallets, failedChain>>
    BY <1>4, <1>7 DEF FinishRun
  <2>2. CASE j = job[w]
    <3>1. /\ error[j] = "none" /\ wallets[j] > 0
          /\ failedChain[j] <=> ~(seen[w] \subseteq {"success"})
      BY <1>1, <1>7, <2>2, WritersOwn DEF FinishRun, Contents, WorkerContents, Processing,
         RunContents
    <3>2. QED
      BY <2>1, <2>2, <3>1, RunStatusFacts DEF RunContents
  <2>3. QED
    BY <1>2, <2>1, <2>2
<1>8. ASSUME NEW w \in Workers, NEW outcome \in WalletOutcomes, CommitWallet(w, outcome)
      PROVE  RunContents(j)'
  <2>1. CASE j = job[w]
    <3>1. status[j] = "running" /\ UNCHANGED <<status, error>>
      BY <1>8, <2>1, WritersOwn DEF CommitWallet
    <3>2. QED
      BY <1>1, <3>1 DEF RunContents
  <2>2. CASE j # job[w]
    BY <1>2, <1>8, <2>2 DEF CommitWallet, TypeOK
  <2>3. QED
    BY <2>1, <2>2
<1>9. ASSUME NEW c \in Creators, NEW i \in Jobs, NEW r, InsertRun(c, i, r)
      PROVE  RunContents(j)'
  <2>1. CASE j = i
    BY <1>1, <1>9, <2>1 DEF InsertRun, RunContents, TypeOK
  <2>2. CASE j # i
    BY <1>2, <1>9, <2>2 DEF InsertRun, TypeOK
  <2>3. QED
    BY <2>1, <2>2
<1>10. ASSUME NEW w \in Workers, FailOutsideWallet(w)
       PROVE  RunContents(j)'
  <2>1. /\ j # job[w] => UNCHANGED <<status[j], error[j]>>
        /\ j = job[w] => status'[j] = "failed" /\ error'[j] = "exception"
        /\ UNCHANGED <<wallets, failedChain>>
    BY <1>4, <1>10 DEF FailOutsideWallet
  <2>2. QED
    BY <1>2, <2>1 DEF RunContents
<1>11. ASSUME NEW w \in Workers, WorkerStep(w) \/ Abandon(w)
       PROVE  RunContents(j)'
  BY <1>2, <1>3, <1>5, <1>6, <1>7, <1>8, <1>11, <1>10 DEF WorkerStep, Abandon, BeginClaim,
     PickPending, Renew, LoseLease, LoadWallets, OpenWallet, Observe
<1>12. ASSUME NEW c \in Creators, CreatorStep(c)
       PROVE  RunContents(j)'
  BY <1>2, <1>9, <1>12 DEF CreatorStep, CreateJob, RetryFailedJob, AbortCreate
<1>13. CASE Tick \/ UNCHANGED vars
  BY <1>2, <1>13 DEF Tick, vars
<1>14. QED
  BY <1>11, <1>12, <1>13 DEF Next

\* A worker whose step is not the one taken keeps to WorkerContents, if only its
\* own steps write below a run it owns.
LEMMA OthersContents ==
    ASSUME NEW w \in Workers, WorkerContents(w),
           pc'[w] = pc[w], job'[w] = job[w], seen'[w] = seen[w], todo'[w] = todo[w],
           pc[w] \in Processing /\ status'[job[w]] = "running" /\ owner'[job[w]] = w =>
              Owns(w, job[w]) /\ UNCHANGED <<wallets[job[w]], failedChain[job[w]]>>,
           pc[w] \in Processing /\ wallets[job[w]] > 0 => wallets'[job[w]] > 0
    PROVE  WorkerContents(w)'
BY DEF WorkerContents, Owns, Processing

\* Nobody but its own worker writes below a run that is owned, and nothing below
\* any run is ever removed.
LEMMA OtherWorkers ==
    ASSUME TypeOK, RowLocks, Owned, Contents, NEW w \in Workers, NEW v \in Workers, v # w,
           WorkerStep(v) \/ Abandon(v)
    PROVE  WorkerContents(w)'
<1> USE DEF table, asked, held, contents
<1>1. WorkerContents(w)
  BY DEF Contents
<1>2. pc'[w] = pc[w] /\ job'[w] = job[w] /\ seen'[w] = seen[w] /\ todo'[w] = todo[w]
  BY DEF WorkerStep, BeginClaim, PickPending, CommitClaim, Renew, LoseLease, LoadWallets,
     NoWallets, OpenWallet, CommitWallet, FailRun, FailOutsideWallet, FinishRun, EndRun, Observe, Abandon,
     Drop, TypeOK
<1>3. SUFFICES ASSUME pc[w] \in Processing
               PROVE  /\ status'[job[w]] = "running" /\ owner'[job[w]] = w =>
                            /\ Owns(w, job[w])
                            /\ UNCHANGED <<wallets[job[w]], failedChain[job[w]]>>
                      /\ wallets[job[w]] > 0 => wallets'[job[w]] > 0
  BY <1>1, <1>2, OthersContents, Zenon
<1>4. job[w] \in Jobs /\ wallets[job[w]] \in Nat
  BY <1>3, ProcessedRun DEF TypeOK
<1>5. ASSUME UNCHANGED <<status, owner, wallets, failedChain>>
      PROVE  /\ status'[job[w]] = "running" /\ owner'[job[w]] = w =>
                   /\ Owns(w, job[w])
                   /\ UNCHANGED <<wallets[job[w]], failedChain[job[w]]>>
             /\ wallets[job[w]] > 0 => wallets'[job[w]] > 0
  BY <1>2, <1>5 DEF Owns
<1>6. CASE CommitClaim(v)
  <2>1. UNCHANGED <<wallets, failedChain>>
    BY <1>6 DEF CommitClaim
  <2>2. /\ status'[job[w]] = IF job[w] \in stale[v] THEN "failed"
                             ELSE IF job[w] = job[v] THEN "running" ELSE status[job[w]]
        /\ owner'[job[w]] = IF job[w] \in stale[v] THEN None
                            ELSE IF job[w] = job[v] THEN v ELSE owner[job[w]]
    BY <1>4, <1>6 DEF CommitClaim
  <2>3. QED
    BY <1>2, <2>1, <2>2 DEF Owns
<1>7. ASSUME NEW verdict \in Terminal, NEW reason, EndRun(v, verdict, reason)
      PROVE  status'[job[w]] = "running" /\ owner'[job[w]] = w =>
                Owns(w, job[w]) /\ job[w] # job[v]
  BY <1>4, <1>7 DEF EndRun, Owns, TypeOK, Terminal
<1>8. CASE NoWallets(v)
  BY <1>2, <1>7, <1>8 DEF NoWallets, Terminal
<1>9. CASE FinishRun(v)
  BY <1>2, <1>7, <1>9, RunStatusType DEF FinishRun
<1>10. ASSUME NEW f \in BOOLEAN, FailRun(v, f)
       PROVE  /\ status'[job[w]] = "running" /\ owner'[job[w]] = w =>
                    /\ Owns(w, job[w])
                    /\ UNCHANGED <<wallets[job[w]], failedChain[job[w]]>>
              /\ wallets[job[w]] > 0 => wallets'[job[w]] > 0
  <2>1. /\ wallets'[job[w]] = IF job[w] = job[v] THEN wallets[job[w]] + 1 ELSE wallets[job[w]]
        /\ job[w] # job[v] => failedChain'[job[w]] = failedChain[job[w]]
    BY <1>4, <1>10 DEF FailRun, TypeOK
  <2>2. QED
    BY <1>2, <1>4, <1>7, <1>10, <2>1 DEF FailRun, Terminal
<1>11. ASSUME NEW outcome \in WalletOutcomes, CommitWallet(v, outcome)
       PROVE  /\ status'[job[w]] = "running" /\ owner'[job[w]] = w =>
                    /\ Owns(w, job[w])
                    /\ UNCHANGED <<wallets[job[w]], failedChain[job[w]]>>
              /\ wallets[job[w]] > 0 => wallets'[job[w]] > 0
  <2>1. /\ wallets'[job[w]] = IF job[w] = job[v] THEN wallets[job[w]] + 1 ELSE wallets[job[w]]
        /\ job[w] # job[v] => failedChain'[job[w]] = failedChain[job[w]]
        /\ UNCHANGED <<status, owner>>
    BY <1>4, <1>11 DEF CommitWallet, TypeOK
  <2>2. owner[job[v]] = v
    BY <1>11, WritersOwn DEF CommitWallet, Owns
  <2>3. QED
    BY <1>2, <1>4, <2>1, <2>2 DEF Owns
<1>12. CASE FailOutsideWallet(v)
  BY <1>2, <1>7, <1>12 DEF FailOutsideWallet, Terminal
<1>13. QED
  BY <1>5, <1>6, <1>8, <1>9, <1>10, <1>11, <1>12 DEF WorkerStep, Abandon, BeginClaim,
     PickPending, Renew, LoseLease, LoadWallets, OpenWallet, Observe

\* What a worker writes below its run it also remembers.
LEMMA OwnContents ==
    ASSUME TypeOK, WalletsLeft, RowLocks, Owned, Contents, NEW w \in Workers,
           WorkerStep(w) \/ Abandon(w)
    PROVE  WorkerContents(w)'
<1> USE DEF table, asked, held, contents
<1>1. WorkerContents(w)
  BY DEF Contents
<1>2. CASE Drop(w)
  BY <1>2 DEF Drop, WorkerContents, Processing, TypeOK
<1>3. ASSUME NEW r \in Clock, BeginClaim(w, r)
      PROVE  WorkerContents(w)'
  BY <1>1, <1>3 DEF BeginClaim, WorkerContents, Processing, TypeOK
<1>4. CASE PickPending(w)
  BY <1>1, <1>4 DEF PickPending, WorkerContents, Processing, TypeOK
<1>5. CASE CommitClaim(w)
  <2>1. CASE job[w] = None
    BY <1>1, <1>5, <2>1 DEF CommitClaim, WorkerContents, Processing, TypeOK
  <2>2. CASE job[w] # None
    <3>1. job[w] \in Jobs /\ status[job[w]] = "pending"
      BY <1>5, <2>2 DEF CommitClaim, RowLocks, TypeOK
    <3>2. wallets[job[w]] = 0 /\ ~failedChain[job[w]] /\ seen[w] = {}
      BY <1>1, <1>5, <3>1 DEF CommitClaim, Contents, RunContents, WorkerContents
    <3>3. /\ pc'[w] = "claimed" /\ job'[w] = job[w] /\ seen'[w] = seen[w]
          /\ UNCHANGED <<wallets, failedChain>>
      BY <1>5, <2>2 DEF CommitClaim, TypeOK
    <3>4. QED
      BY <3>2, <3>3 DEF WorkerContents
  <2>3. QED
    BY <2>1, <2>2
<1>6. ASSUME NEW r \in Clock, Renew(w, r)
      PROVE  WorkerContents(w)'
  <2>1. /\ pc'[w] = AfterRenewal(pc[w]) /\ pc[w] \in {"claimed", "between", "collected"}
        /\ pc[w] = "between" => todo[w] > 0
        /\ UNCHANGED <<status, owner, job, seen, todo, wallets, failedChain>>
    BY <1>6 DEF Renew, TypeOK
  <2>2. QED
    BY <1>1, <1>6, <2>1 DEF Renew, AfterRenewal, WorkerContents, Processing, Owns
<1>7. ASSUME NEW n \in 1 .. MaxWallets, LoadWallets(w, n)
      PROVE  WorkerContents(w)'
  <2>1. /\ pc'[w] = "between" /\ pc[w] = "loading" /\ todo'[w] = n /\ n > 0
        /\ UNCHANGED <<status, owner, job, seen, wallets, failedChain>>
    BY <1>7 DEF LoadWallets, TypeOK
  <2>2. QED
    BY <1>1, <2>1 DEF WorkerContents, Processing, Owns
<1>8. ASSUME NEW verdict, NEW reason, EndRun(w, verdict, reason)
      PROVE  WorkerContents(w)'
  BY <1>8 DEF EndRun, WorkerContents, Processing, TypeOK
<1>9. CASE OpenWallet(w)
  <2>1. /\ pc'[w] = "collecting" /\ pc[w] = "writing"
        /\ UNCHANGED <<status, owner, job, seen, todo, wallets, failedChain>>
    BY <1>9 DEF OpenWallet, TypeOK
  <2>2. QED
    BY <1>1, <2>1 DEF WorkerContents, Processing, Owns
<1>10. ASSUME NEW outcome \in WalletOutcomes, CommitWallet(w, outcome)
       PROVE  WorkerContents(w)'
  <2>1. job[w] \in Jobs /\ Owns(w, job[w]) /\ wallets[job[w]] \in Nat
    BY <1>10, WritersOwn DEF CommitWallet, TypeOK
  <2>2. failedChain[job[w]] <=> ~(seen[w] \subseteq {"success"})
    BY <1>1, <1>10, <2>1 DEF CommitWallet, WorkerContents, Processing
  <2>3. /\ pc'[w] = "collected" /\ job'[w] = job[w]
        /\ seen'[w] = seen[w] \cup {outcome}
        /\ wallets'[job[w]] = wallets[job[w]] + 1
    BY <1>10, <2>1 DEF CommitWallet, TypeOK
  <2>4. failedChain'[job[w]] <=> failedChain[job[w]] \/ outcome # "success"
    BY <1>10, <2>1, Zenon DEF CommitWallet, TypeOK
  <2>5. failedChain'[job[w]] <=> ~(seen'[w] \subseteq {"success"})
    BY <2>2, <2>3, <2>4
  <2>6. QED
    BY <2>1, <2>3, <2>5 DEF WorkerContents, Processing
<1>11. QED
  BY <1>2, <1>3, <1>4, <1>5, <1>6, <1>7, <1>8, <1>9, <1>10 DEF WorkerStep, Abandon,
     LoseLease, NoWallets, FailRun, FailOutsideWallet, FinishRun, Observe

\* Creators, the clock and the worker loops agree with the table throughout.
LEMMA NextContents ==
    ASSUME TypeOK, WalletsLeft, RowLocks, Owned, Contents, [Next]_vars
    PROVE  Contents'
<1>1. \A j \in Jobs : RunContents(j)'
  BY NextRunContents
<1>2. ASSUME NEW w \in Workers
      PROVE  WorkerContents(w)'
  <2>1. CASE \/ \E c \in Creators : CreatorStep(c)
             \/ Tick
             \/ UNCHANGED vars
    <3>1. UNCHANGED worker /\ UNCHANGED contents /\ WorkerContents(w)
      BY <2>1 DEF CreatorStep, CreateJob, RetryFailedJob, InsertRun, AbortCreate, Tick, vars,
         table, Contents
    <3>2. ASSUME pc[w] \in Processing
          PROVE  status'[job[w]] = status[job[w]] /\ owner'[job[w]] = owner[job[w]]
      <4>1. PICK j \in Jobs : j = job[w] /\ status[j] \in {"running"} \cup Terminal
        BY <3>2, ProcessedRun
      <4>2. UNCHANGED Row(j)
        BY <2>1, <4>1, StartedRunOthers
      <4>3. QED
        BY <4>1, <4>2 DEF Row, Record
    <3>3. QED
      BY <3>1, <3>2, OthersContents DEF worker, contents, Owns
  <2>2. QED
    BY <2>1, OtherWorkers, OwnContents DEF Next
<1>3. QED
  BY <1>1, <1>2 DEF Contents

\* Under Timely, workers and the table agree on what is below a run throughout.
LEMMA ContentsHold == Timely /\ Spec => []Contents
<1>1. Init => Contents
  BY DEF Init, Contents, RunContents, WorkerContents, Processing
<1>2. Inv /\ Contents /\ [Next]_vars => Contents'
  BY NextContents DEF Inv
<1>3. QED
  BY <1>1, <1>2, Invariance, PTL DEF Spec

\* Under Timely, the verdict of a run agrees with what has been written below it.
THEOREM VerdictsAreTrue == Timely /\ Spec => []StatusMatchesContents
<1>1. Contents => StatusMatchesContents
  BY DEF Contents, RunContents, StatusMatchesContents
<1>2. QED
  BY <1>1, ContentsHold, PTL

-----------------------------------------------------------------------------
(* Live workers.                                                           *)

\* A wallet, with the renewal after it, takes less than the lease.
ShortWallets == MaxWallet + 2 * MaxSkew < Lease

\* Inside a wallet too, a worker owns its run under a lease that lasts until the
\* renewal after the wallet.
HeldThroughout ==
    \A w \in Workers : pc[w] \in {"collecting", "collected"} =>
        /\ Owns(w, job[w])
        /\ lease[job[w]] >= since[w] - MaxSkew + Lease
        /\ since[w] <= now
        /\ now <= since[w] + MaxStall \/ now <= since[w] + MaxWallet

\* No claim has locked a run a live worker is processing.
LEMMA LiveRunIsNotStale ==
    ASSUME Timely, ShortWallets, Inv, HeldThroughout,
           NEW w \in Workers, NEW v \in Workers, pc[w] \in Processing,
           job[w] \in stale[v]
    PROVE  FALSE
<1>1. TypeOK /\ RowLocks /\ Owned
  BY DEF Inv
<1>2. pc[w] \in {"collecting", "collected"}
  BY <1>1, NeverStale DEF Processing
<1>3. /\ pc[v] \in {"claiming", "picked"} /\ Expired(job[w], reading[v])
      /\ job[w] \in Jobs
  BY <1>1 DEF RowLocks, TypeOK
<1>4. reading[v] <= since[v] + MaxSkew /\ since[v] <= now
  BY <1>1, <1>3 DEF Owned, PromptWorkers
<1>5. /\ now \in Nat /\ since[w] \in Nat /\ since[v] \in Nat /\ reading[v] \in Nat
      /\ lease[job[w]] \in Nat \cup {NoTime} /\ MaxWallet \in Nat
  BY <1>1, <1>3, TimeAssumption DEF TypeOK
<1>6. /\ lease[job[w]] >= since[w] - MaxSkew + Lease
      /\ now <= since[w] + MaxStall \/ now <= since[w] + MaxWallet
  BY <1>2 DEF HeldThroughout
<1>7. lease[job[w]] # NoTime
  BY <1>5, <1>6, ConstantFacts DEF Timely, NoTime
<1>8. lease[job[w]] <= reading[v]
  BY <1>3, <1>7 DEF Expired
<1>9. QED
  BY <1>4, <1>5, <1>6, <1>7, <1>8, ConstantFacts DEF Timely, ShortWallets, NoTime

\* A run nobody else has locked stays with the worker that owns it.
LEMMA OwnerStays ==
    ASSUME TypeOK, RowLocks, Owned, NEW w \in Workers, NEW v \in Workers, v # w,
           pc[w] \in Processing, Owns(w, job[w]), job[w] \notin stale[v],
           WorkerStep(v) \/ Abandon(v)
    PROVE  /\ status'[job[w]] = "running" /\ owner'[job[w]] = w
           /\ lease'[job[w]] = lease[job[w]]
           /\ pc'[w] = pc[w] /\ job'[w] = job[w] /\ since'[w] = since[w]
<1> USE DEF table, asked, held
<1>1. job[w] \in Jobs /\ status[job[w]] = "running" /\ owner[job[w]] = w
  BY ProcessedRun DEF Owns
<1>2. pc'[w] = pc[w] /\ job'[w] = job[w] /\ since'[w] = since[w]
  BY DEF WorkerStep, BeginClaim, PickPending, CommitClaim, Renew, LoseLease, LoadWallets,
     NoWallets, OpenWallet, CommitWallet, FailRun, FailOutsideWallet, FinishRun, EndRun, Observe, Abandon,
     Drop, TypeOK
<1>3. CASE CommitClaim(v)
  <2>1. job[w] # job[v]
    BY <1>1, <1>3, ConstantFacts DEF CommitClaim, RowLocks
  <2>2. QED
    BY <1>1, <1>2, <1>3, <2>1 DEF CommitClaim
<1>4. ASSUME NEW r \in Clock, Renew(v, r)
      PROVE  UNCHANGED <<status, owner>> /\ lease'[job[w]] = lease[job[w]]
  <2>1. job[v] # job[w]
    BY <1>1, <1>4 DEF Renew, Owns
  <2>2. QED
    BY <1>1, <1>4, <2>1 DEF Renew, TypeOK
<1>5. ASSUME NEW verdict, NEW reason, EndRun(v, verdict, reason), pc[v] \in Processing
      PROVE  /\ status'[job[w]] = "running" /\ owner'[job[w]] = w
             /\ lease'[job[w]] = lease[job[w]]
  <2>1. job[v] # job[w]
    BY <1>1, <1>5 DEF Owned, Ownership, Owns, Taken, Processing
  <2>2. QED
    BY <1>1, <1>5, <2>1 DEF EndRun, TypeOK
<1>6. ASSUME UNCHANGED <<status, owner, lease>>
      PROVE  /\ status'[job[w]] = "running" /\ owner'[job[w]] = w
             /\ lease'[job[w]] = lease[job[w]]
  BY <1>1, <1>6
<1>7. QED
  BY <1>1, <1>2, <1>3, <1>4, <1>5, <1>6 DEF WorkerStep, Abandon, BeginClaim, PickPending,
     LoseLease, LoadWallets, NoWallets, OpenWallet, CommitWallet, FailRun,
     FailOutsideWallet, FinishRun, Observe, Processing

\* Every step of the queue leaves workers inside a wallet in possession.
LEMMA NextHeld ==
    ASSUME Timely, ShortWallets, Inv, HeldThroughout, [Next]_vars
    PROVE  HeldThroughout'
<1>1. TypeOK /\ RowLocks /\ Owned
  BY DEF Inv
<1> SUFFICES ASSUME NEW w \in Workers, pc'[w] \in {"collecting", "collected"}
             PROVE  /\ Owns(w, job[w])'
                    /\ lease'[job'[w]] >= since'[w] - MaxSkew + Lease
                    /\ since'[w] <= now'
                    /\ now' <= since'[w] + MaxStall \/ now' <= since'[w] + MaxWallet
  BY DEF HeldThroughout
<1>2. ASSUME NEW v \in Workers, v # w, WorkerStep(v) \/ Abandon(v)
      PROVE  /\ Owns(w, job[w])'
             /\ lease'[job'[w]] >= since'[w] - MaxSkew + Lease
             /\ since'[w] <= now'
             /\ now' <= since'[w] + MaxStall \/ now' <= since'[w] + MaxWallet
  <2>1. pc'[w] = pc[w] /\ now' = now
    BY <1>1, <1>2 DEF WorkerStep, BeginClaim, PickPending, CommitClaim, Renew, LoseLease,
       LoadWallets, NoWallets, OpenWallet, CommitWallet, FailRun, FailOutsideWallet,
       FinishRun, EndRun, Observe, Abandon, Drop, TypeOK
  <2>2. /\ Owns(w, job[w])
        /\ lease[job[w]] >= since[w] - MaxSkew + Lease
        /\ since[w] <= now
        /\ now <= since[w] + MaxStall \/ now <= since[w] + MaxWallet
    BY <2>1 DEF HeldThroughout
  <2>3. pc[w] \in Processing
    BY <2>1 DEF Processing
  <2>4. job[w] \notin stale[v]
    BY <2>3, LiveRunIsNotStale
  <2>5. /\ status'[job[w]] = "running" /\ owner'[job[w]] = w
        /\ lease'[job[w]] = lease[job[w]]
        /\ job'[w] = job[w] /\ since'[w] = since[w]
    BY <1>1, <1>2, <2>2, <2>3, <2>4, OwnerStays
  <2>6. QED
    BY <2>1, <2>2, <2>5 DEF Owns
<1>3. CASE OpenWallet(w)
  <2>1. /\ pc[w] = "writing"
        /\ UNCHANGED <<now, status, owner, lease, job, since>>
    BY <1>3 DEF OpenWallet, table, held
  <2>2. QED
    BY <1>1, <2>1 DEF Owned, Ownership, PromptWorkers, Owns
<1>4. ASSUME NEW outcome \in WalletOutcomes, CommitWallet(w, outcome)
      PROVE  /\ Owns(w, job[w])'
             /\ lease'[job'[w]] >= since'[w] - MaxSkew + Lease
             /\ since'[w] <= now'
             /\ now' <= since'[w] + MaxStall \/ now' <= since'[w] + MaxWallet
  <2>1. /\ pc[w] = "collecting"
        /\ UNCHANGED <<now, status, owner, lease, job, since>>
    BY <1>4 DEF CommitWallet, held
  <2>2. QED
    BY <2>1 DEF HeldThroughout, Owns
<1>5. CASE WorkerStep(w) \/ Abandon(w)
  <2>1. ASSUME NEW r \in Clock, Renew(w, r)
        PROVE  FALSE
    BY <1>1, <2>1 DEF Renew, AfterRenewal, TypeOK
  <2>2. QED
    BY <1>1, <1>3, <1>4, <1>5, <2>1 DEF WorkerStep, BeginClaim, PickPending, CommitClaim,
       LoseLease, LoadWallets, NoWallets, FailRun, FailOutsideWallet, FinishRun, EndRun, Observe, Abandon,
       Drop, TypeOK
<1>6. CASE (\E c \in Creators : CreatorStep(c)) \/ UNCHANGED vars
  <2>1. UNCHANGED <<now, worker>>
    BY <1>6 DEF CreatorStep, CreateJob, RetryFailedJob, InsertRun, AbortCreate, vars
  <2>2. pc[w] \in Processing
    BY <2>1 DEF worker, Processing
  <2>3. PICK j \in Jobs : j = job[w] /\ status[j] \in {"running"} \cup Terminal
    BY <1>1, <2>2, ProcessedRun
  <2>4. UNCHANGED Row(j)
    BY <1>1, <1>6, <2>3, StartedRunOthers
  <2>5. QED
    BY <2>1, <2>3, <2>4 DEF worker, Row, Record, Owns, HeldThroughout
<1>7. CASE Tick
  <2>1. UNCHANGED worker /\ UNCHANGED <<status, owner, lease>> /\ now' = now + 1
    BY <1>7 DEF Tick, table, held
  <2>2. now - since[w] < MaxWallet
    BY <1>7, <2>1 DEF Tick, worker
  <2>3. now \in Nat /\ since[w] \in Nat /\ MaxWallet \in Nat
    BY <1>1, TimeAssumption DEF TypeOK
  <2>4. now' <= since[w] + MaxWallet /\ since[w] <= now'
    BY <2>1, <2>2, <2>3 DEF HeldThroughout, worker
  <2>5. QED
    BY <2>1, <2>4 DEF worker, HeldThroughout, Owns
<1>8. QED
  BY <1>2, <1>5, <1>6, <1>7 DEF Next

\* Under the README's advice that the lease outlast a wallet, a worker that is
\* alive never has its run taken away.
THEOREM LiveOwners == Timely /\ ShortWallets /\ Spec => []LiveOwnerKeepsRun
<1>1. Init => HeldThroughout
  BY DEF Init, HeldThroughout
<1>2. Timely /\ ShortWallets /\ Inv /\ HeldThroughout /\ [Next]_vars => HeldThroughout'
  BY NextHeld
<1>3. Inv /\ HeldThroughout => LiveOwnerKeepsRun
  BY DEF Inv, Owned, Ownership, HeldThroughout, LiveOwnerKeepsRun, Processing
<1>4. ShortWallets => []ShortWallets
  <2>1. ShortWallets => ShortWallets'
    BY DEF ShortWallets
  <2>2. QED
    BY <2>1, PTL
<1>5. QED
  BY <1>1, <1>2, <1>3, <1>4, Invariance, TimelyStays, PTL DEF Spec

-----------------------------------------------------------------------------
(* The first-snapshot outcome.                                             *)

\* The count an exception's handler may add to a recovery's.
Excess(j) == IF error[j] = "exception" THEN 1 ELSE 0

\* A run whose outcome is still to be counted has only been counted by claims
\* that were rolled back, or by the recovery its handler knows nothing of; one
\* worker at most is about to count it, and nobody processes it any more.
CountsAreOwed ==
    /\ \A j \in Jobs : outcomes[j] <= 1 + Excess(j) + abandons
    /\ \A j \in Jobs : status[j] \notin Terminal => error[j] # "exception"
    /\ \A j \in Jobs :
          status[j] \notin Terminal /\ (\A w \in Workers : j \notin stale[w])
             => outcomes[j] <= abandons
    /\ \A w \in Workers : pc[w] = "observing" =>
          /\ status[job[w]] \in Terminal
          /\ outcomes[job[w]] <= Excess(job[w]) + abandons
    /\ \A v, w \in Workers :
          pc[v] = "observing" /\ pc[w] \in Processing \cup {"observing"} /\ job[v] = job[w]
             => v = w

\* Every step of the queue counts an outcome that is owed, or none.
LEMMA NextCounts ==
    ASSUME Timely, Inv, CountsAreOwed, [Next]_vars
    PROVE  CountsAreOwed'
<1> USE DEF table, asked, held
<1>1. /\ TypeOK /\ RowLocks /\ OneWorkerPerRun /\ Owned
      /\ "running" \notin Terminal /\ "pending" \notin Terminal
      /\ "absent" \notin Terminal /\ "failed" \in Terminal
  BY DEF Inv, Terminal
<1>2. /\ outcomes \in [Jobs -> Nat] /\ abandons \in Nat
      /\ \A v \in Workers : pc[v] = "observing" => job[v] \in Jobs
  BY <1>1 DEF TypeOK, RowLocks
<1>3. ASSUME NEW w \in Workers, NEW r \in Clock, BeginClaim(w, r)
      PROVE  CountsAreOwed'
  <2>1. /\ \A v \in Workers :
              /\ pc'[v] \in Processing \cup {"observing"} => pc'[v] = pc[v]
              /\ stale'[v] = IF v = w THEN StaleRuns(r) ELSE stale[v]
        /\ stale[w] = {}
        /\ UNCHANGED <<status, error, job, abandons>>
    BY <1>1, <1>3 DEF BeginClaim, RowLocks, TypeOK, StaleRuns, Processing
  <2>2. \A j \in Jobs : outcomes'[j] = IF j \in StaleRuns(r) THEN outcomes[j] + 1
                                                             ELSE outcomes[j]
    BY <1>3 DEF BeginClaim
  <2>3. ASSUME NEW j \in StaleRuns(r)
        PROVE  j \in Jobs /\ status[j] \notin Terminal /\ outcomes[j] <= abandons
    <3>1. j \in Jobs /\ status[j] = "running" /\ ~Locked(j)
      BY <2>3 DEF StaleRuns, Expired
    <3>2. \A v \in Workers : j \notin stale[v]
      BY <1>1, <3>1 DEF Locked, RowLocks
    <3>3. QED
      BY <1>1, <3>1, <3>2 DEF CountsAreOwed
  <2>4. \A v \in Workers : pc'[v] = "observing" => job[v] \notin StaleRuns(r)
    BY <2>1, <2>3 DEF CountsAreOwed
  <2>5. \A j \in Jobs : outcomes'[j] <= 1 + Excess(j)' + abandons'
    BY <1>2, <2>1, <2>2, <2>3 DEF CountsAreOwed, Excess
  <2>6. ASSUME NEW j \in Jobs, status'[j] \notin Terminal, \A v \in Workers : j \notin stale'[v]
        PROVE  outcomes'[j] <= abandons'
    BY <2>1, <2>2, <2>6 DEF CountsAreOwed
  <2>7. \A v \in Workers : pc'[v] = "observing" =>
           status'[job'[v]] \in Terminal /\ outcomes'[job'[v]] <= Excess(job[v])' + abandons'
    BY <1>2, <2>1, <2>2, <2>4 DEF CountsAreOwed, Excess
  <2>8. QED
    BY <2>1, <2>5, <2>6, <2>7 DEF CountsAreOwed
<1>4. ASSUME NEW w \in Workers, CommitClaim(w)
      PROVE  CountsAreOwed'
  <2>1. /\ UNCHANGED <<outcomes, abandons, job>>
        /\ \A v \in Workers : /\ v # w => stale'[v] = stale[v] /\ pc'[v] = pc[v]
                              /\ pc'[w] \in {"idle", "claimed"}
                              /\ pc'[w] = "claimed" => job[w] # None
    BY <1>1, <1>4 DEF CommitClaim, TypeOK
  <2>2. \A j \in Jobs :
           /\ status'[j] = IF j \in stale[w] THEN "failed"
                           ELSE IF j = job[w] THEN "running" ELSE status[j]
           /\ error'[j] = IF j \in stale[w] THEN "lease_expired" ELSE error[j]
    BY <1>4 DEF CommitClaim
  <2>3. ASSUME NEW j \in Jobs, status[j] \in Terminal
        PROVE  status'[j] \in Terminal /\ error'[j] = error[j] /\ j # job[w]
    <3>1. j \notin stale[w]
      BY <1>1, <2>3 DEF RowLocks
    <3>2. j # job[w]
      BY <1>1, <1>4, <2>3, ConstantFacts DEF CommitClaim, RowLocks
    <3>3. QED
      BY <2>2, <2>3, <3>1, <3>2
  <2>4. ASSUME NEW j \in Jobs, status'[j] \notin Terminal
        PROVE  status[j] \notin Terminal /\ j \notin stale[w] /\ error'[j] = error[j]
    BY <1>1, <2>2, <2>3, <2>4
  <2>5. ASSUME NEW j \in Jobs, status'[j] \notin Terminal, \A v \in Workers : j \notin stale'[v]
        PROVE  outcomes'[j] <= abandons'
    <3>1. status[j] \notin Terminal /\ j \notin stale[w]
      BY <2>4, <2>5
    <3>2. \A v \in Workers : j \notin stale[v]
      BY <2>1, <2>5, <3>1
    <3>3. QED
      BY <2>1, <3>1, <3>2 DEF CountsAreOwed
  <2>6. ASSUME NEW j \in Jobs
        PROVE  outcomes'[j] <= 1 + Excess(j)' + abandons'
    <3>1. CASE status[j] \in Terminal
      BY <1>2, <2>1, <2>3, <3>1 DEF CountsAreOwed, Excess
    <3>2. CASE status[j] \notin Terminal
      BY <1>2, <2>1, <3>2 DEF CountsAreOwed, Excess
    <3>3. QED
      BY <3>1, <3>2
  <2>7. ASSUME NEW v \in Workers, pc'[v] = "observing"
        PROVE  /\ pc[v] = "observing" /\ v # w /\ job[v] # job[w]
               /\ status'[job'[v]] \in Terminal
               /\ outcomes'[job'[v]] <= Excess(job[v])' + abandons'
    <3>1. pc[v] = "observing" /\ v # w
      BY <2>1, <2>7
    <3>2. job[v] \in Jobs /\ status[job[v]] \in Terminal
      BY <1>2, <3>1 DEF CountsAreOwed
    <3>3. QED
      BY <2>1, <2>3, <3>1, <3>2 DEF CountsAreOwed, Excess
  <2>8. ASSUME NEW v \in Workers, NEW u \in Workers, pc'[v] = "observing",
               pc'[u] \in Processing \cup {"observing"}, job'[v] = job'[u]
        PROVE  v = u
    <3>1. u # w
      BY <2>1, <2>7, <2>8
    <3>2. QED
      BY <2>1, <2>7, <2>8, <3>1 DEF CountsAreOwed
  <2>9. QED
    BY <2>4, <2>5, <2>6, <2>7, <2>8 DEF CountsAreOwed
<1>5. ASSUME NEW w \in Workers, NEW verdict \in Terminal, NEW reason, EndRun(w, verdict, reason),
             pc[w] \in Processing,
             \/ outcomes[job[w]] <= abandons
             \/ reason = "exception" /\ outcomes[job[w]] <= 1 + abandons
      PROVE  CountsAreOwed'
  <2>1. job[w] \in Jobs
    BY <1>1, <1>5, ProcessedRun
  <2>2. /\ UNCHANGED <<outcomes, abandons, job, stale>>
        /\ \A v \in Workers : pc'[v] = IF v = w THEN "observing" ELSE pc[v]
        /\ \A j \in Jobs : status'[j] = IF j = job[w] THEN verdict ELSE status[j]
        /\ \A j \in Jobs : j # job[w] => error'[j] = error[j]
        /\ error'[job[w]] = IF reason = "none" THEN error[job[w]] ELSE reason
    BY <1>1, <1>5, <2>1 DEF EndRun, TypeOK
  <2>3. \A v \in Workers :
           pc[v] \in Processing \cup {"observing"} /\ v # w => job[v] # job[w]
    BY <1>1, <1>5 DEF CountsAreOwed, OneWorkerPerRun, Processing
  <2>4. outcomes[job[w]] <= Excess(job[w])' + abandons
    BY <1>2, <1>5, <2>1, <2>2 DEF Excess
  <2>5. \A j \in Jobs : outcomes'[j] <= 1 + Excess(j)' + abandons'
    BY <1>2, <2>1, <2>2, <2>4 DEF CountsAreOwed, Excess
  <2>6. \A v, u \in Workers :
           pc'[v] = "observing" /\ pc'[u] \in Processing \cup {"observing"}
              /\ job'[v] = job'[u] => v = u
    BY <2>2, <2>3 DEF CountsAreOwed, Processing
  <2>7. ASSUME NEW v \in Workers, pc'[v] = "observing"
        PROVE  status'[job'[v]] \in Terminal /\ outcomes'[job'[v]] <= Excess(job[v])' + abandons'
    <3>1. CASE v = w
      BY <1>5, <2>1, <2>2, <2>4, <3>1 DEF Excess
    <3>2. CASE v # w
      <4>1. pc[v] = "observing" /\ job[v] \in Jobs /\ job[v] # job[w]
        BY <1>2, <2>2, <2>3, <2>7, <3>2
      <4>2. QED
        BY <2>2, <4>1 DEF CountsAreOwed, Excess
    <3>3. QED
      BY <3>1, <3>2
  <2>8. ASSUME NEW j \in Jobs, status'[j] \notin Terminal
        PROVE  /\ error'[j] # "exception"
               /\ (\A v \in Workers : j \notin stale'[v]) => outcomes'[j] <= abandons'
    BY <1>5, <2>2, <2>8 DEF CountsAreOwed
  <2>9. QED
    BY <2>5, <2>6, <2>7, <2>8 DEF CountsAreOwed
<1>6. ASSUME NEW w \in Workers, Observe(w)
      PROVE  CountsAreOwed'
  <2>1. /\ job[w] \in Jobs /\ pc[w] = "observing" /\ stale[w] = {}
        /\ UNCHANGED <<status, error, abandons>>
    BY <1>1, <1>2, <1>6 DEF Observe, RowLocks
  <2>2. \A v \in Workers : /\ stale'[v] = stale[v]
                           /\ pc'[v] \in Processing \cup {"observing"} =>
                                 pc'[v] = pc[v] /\ v # w /\ job'[v] = job[v]
    BY <1>1, <1>6, <2>1 DEF Observe, Drop, TypeOK, Processing
  <2>3. \A j \in Jobs : outcomes'[j] = IF j = job[w] THEN outcomes[j] + 1 ELSE outcomes[j]
    BY <1>2, <1>6 DEF Observe
  <2>4. status[job[w]] \in Terminal /\ outcomes[job[w]] <= Excess(job[w]) + abandons
    BY <2>1 DEF CountsAreOwed
  <2>5. \A v \in Workers : pc'[v] = "observing" => job[v] # job[w]
    BY <2>1, <2>2 DEF CountsAreOwed
  <2>6. \A j \in Jobs : outcomes'[j] <= 1 + Excess(j)' + abandons'
    BY <1>2, <2>1, <2>3, <2>4 DEF CountsAreOwed, Excess
  <2>7. \A v \in Workers : pc'[v] = "observing" =>
           status'[job'[v]] \in Terminal /\ outcomes'[job'[v]] <= Excess(job[v])' + abandons'
    BY <1>2, <2>1, <2>2, <2>3, <2>5 DEF CountsAreOwed, Excess
  <2>8. \A v, u \in Workers :
           pc'[v] = "observing" /\ pc'[u] \in Processing \cup {"observing"}
              /\ job'[v] = job'[u] => v = u
    BY <2>2 DEF CountsAreOwed
  <2>9. QED
    BY <1>2, <2>1, <2>2, <2>3, <2>4, <2>6, <2>7, <2>8 DEF CountsAreOwed
<1>7. ASSUME UNCHANGED <<outcomes, error>>,
             \A v \in Workers :
                /\ stale'[v] = stale[v] \/ abandons' = abandons + 1
                /\ pc'[v] = "observing" => pc[v] = "observing" /\ job'[v] = job[v]
                /\ pc'[v] \in Processing => pc[v] \in Processing /\ job'[v] = job[v],
             \A j \in Jobs : /\ status'[j] \in Terminal <=> status[j] \in Terminal,
             abandons' \in {abandons, abandons + 1}
      PROVE  CountsAreOwed'
  <2>1. \A j \in Jobs : outcomes'[j] <= 1 + Excess(j)' + abandons'
    BY <1>2, <1>7 DEF CountsAreOwed, Excess
  <2>2. ASSUME NEW j \in Jobs, status'[j] \notin Terminal, \A v \in Workers : j \notin stale'[v]
        PROVE  outcomes'[j] <= abandons'
    <3>1. CASE abandons' = abandons + 1
      BY <1>2, <1>7, <2>2, <3>1 DEF CountsAreOwed, Excess
    <3>2. CASE abandons' = abandons
      <4>1. \A v \in Workers : stale'[v] = stale[v]
        BY <1>2, <1>7, <3>2
      <4>2. QED
        BY <1>7, <2>2, <3>2, <4>1 DEF CountsAreOwed
    <3>3. QED
      BY <1>7, <3>1, <3>2
  <2>3. \A v \in Workers : pc'[v] = "observing" =>
           status'[job'[v]] \in Terminal /\ outcomes'[job'[v]] <= Excess(job[v])' + abandons'
    BY <1>2, <1>7 DEF CountsAreOwed, Excess
  <2>4. \A v, u \in Workers :
           pc'[v] = "observing" /\ pc'[u] \in Processing \cup {"observing"}
              /\ job'[v] = job'[u] => v = u
    BY <1>7 DEF CountsAreOwed
  <2>5. QED
    BY <1>7, <2>1, <2>2, <2>3, <2>4 DEF CountsAreOwed
<1>8. ASSUME NEW w \in Workers, Abandon(w)
      PROVE  CountsAreOwed'
  <2>1. UNCHANGED <<status, error, outcomes>> /\ abandons' = abandons + 1
    BY <1>8 DEF Abandon
  <2>2. \A v \in Workers : pc'[v] \in Processing \cup {"observing"} =>
           pc'[v] = pc[v] /\ job'[v] = job[v]
    BY <1>1, <1>8 DEF Abandon, Drop, TypeOK, Processing
  <2>3. QED
    BY <1>7, <2>1, <2>2
<1>9. ASSUME NEW w \in Workers, PickPending(w) \/ LoseLease(w)
      PROVE  CountsAreOwed'
  <2>1. UNCHANGED <<status, error, outcomes, abandons>>
    BY <1>9 DEF PickPending, LoseLease
  <2>2. CASE PickPending(w)
    <3>1. UNCHANGED stale
      BY <2>2 DEF PickPending
    <3>2. \A v \in Workers : pc'[v] \in Processing \cup {"observing"} =>
             pc'[v] = pc[v] /\ job'[v] = job[v]
      BY <1>1, <2>2 DEF PickPending, TypeOK, Processing
    <3>3. QED
      BY <1>7, <2>1, <3>1, <3>2
  <2>3. CASE LoseLease(w)
    <3>1. stale[w] = {}
      BY <1>1, <2>3 DEF LoseLease, RowLocks
    <3>2. \A v \in Workers : stale'[v] = stale[v]
      BY <1>1, <2>3, <3>1 DEF LoseLease, Drop, TypeOK
    <3>3. \A v \in Workers : pc'[v] \in Processing \cup {"observing"} =>
             pc'[v] = pc[v] /\ job'[v] = job[v]
      BY <1>1, <2>3 DEF LoseLease, Drop, TypeOK, Processing
    <3>4. QED
      BY <1>7, <2>1, <3>2, <3>3
  <2>4. QED
    BY <1>9, <2>2, <2>3
<1>10. ASSUME NEW c \in Creators, NEW j \in Jobs, NEW r, InsertRun(c, j, r)
       PROVE  CountsAreOwed'
  <2>1. \A i \in Jobs : status'[i] \in Terminal <=> status[i] \in Terminal
    BY <1>1, <1>10 DEF InsertRun, TypeOK
  <2>2. QED
    BY <1>7, <1>10, <2>1 DEF InsertRun, worker
<1>11. ASSUME NEW w \in Workers, NEW verdict \in Terminal, NEW reason, EndRun(w, verdict, reason),
             pc[w] \in {"loading", "between", "collecting"}
       PROVE  CountsAreOwed'
  <2>1. job[w] \in Jobs /\ status[job[w]] = "running"
    BY <1>1, <1>11, WritersOwn
  <2>2. \A v \in Workers : job[w] \notin stale[v]
    BY <1>1, <1>11, NeverStale
  <2>3. outcomes[job[w]] <= abandons
    BY <1>1, <2>1, <2>2 DEF CountsAreOwed
  <2>4. QED
    BY <1>5, <1>11, <2>3 DEF Processing
<1>12. ASSUME NEW w \in Workers, FailOutsideWallet(w)
       PROVE  CountsAreOwed'
  <2>1. pc[w] \in Processing /\ job[w] \in Jobs /\ EndRun(w, "failed", "exception")
    BY <1>1, <1>12, ProcessedRun DEF FailOutsideWallet
  <2>2. outcomes[job[w]] <= 1 + abandons
    <3>1. Owns(w, job[w]) \/ Taken(job[w])
      BY <1>1, <2>1 DEF Owned, Ownership, Processing
    <3>2. error[job[w]] # "exception"
      BY <1>1, <2>1, <3>1 DEF CountsAreOwed, Owns, Taken
    <3>3. QED
      BY <1>2, <2>1, <3>2 DEF CountsAreOwed, Excess
  <2>3. QED
    BY <1>1, <1>5, <2>1, <2>2
<1>13. ASSUME NEW w \in Workers, WorkerStep(w)
       PROVE  CountsAreOwed'
  <2>1. ASSUME \/ \E r \in Clock : Renew(w, r)
               \/ \E n \in 1 .. MaxWallets : LoadWallets(w, n)
               \/ OpenWallet(w)
               \/ \E outcome \in WalletOutcomes : CommitWallet(w, outcome)
        PROVE  CountsAreOwed'
    <3>1. UNCHANGED <<outcomes, abandons, stale, job, status, error>>
      BY <2>1 DEF Renew, LoadWallets, OpenWallet, CommitWallet
    <3>2. \A v \in Workers : /\ pc'[v] = "observing" => pc[v] = "observing"
                             /\ pc'[v] \in Processing => pc[v] \in Processing
      BY <1>1, <2>1 DEF Renew, AfterRenewal, LoadWallets, OpenWallet, CommitWallet, TypeOK,
         Processing
    <3>3. QED
      BY <1>7, <3>1, <3>2
  <2>2. QED
    BY <1>1, <1>3, <1>4, <1>6, <1>9, <1>11, <1>12, <1>13, <2>1, RunStatusType
       DEF WorkerStep, NoWallets, FailRun, FinishRun
<1>14. ASSUME NEW c \in Creators, CreatorStep(c)
       PROVE  CountsAreOwed'
  BY <1>7, <1>10, <1>14 DEF CreatorStep, CreateJob, RetryFailedJob, AbortCreate, worker
<1>15. CASE Tick \/ UNCHANGED vars
  BY <1>7, <1>15 DEF Tick, vars, worker
<1>16. QED
  BY <1>8, <1>13, <1>14, <1>15 DEF Next

\* Under Timely, every count of a run's outcome beyond the first is owed to a
\* rollback, but for one more when an exception's handler ended the run.
THEOREM OneOutcome == Timely /\ Spec => []OutcomeCountedOnce
<1>1. Init => CountsAreOwed
  BY DEF Init, CountsAreOwed, Excess
<1>2. Timely /\ Inv /\ CountsAreOwed /\ [Next]_vars => CountsAreOwed'
  BY NextCounts
<1>3. Inv /\ CountsAreOwed => OutcomeCountedOnce
  BY DEF Inv, TypeOK, CountsAreOwed, OutcomeCountedOnce, Excess
<1>4. QED
  BY <1>1, <1>2, <1>3, Invariance, TimelyStays, PTL DEF Spec

-----------------------------------------------------------------------------
=============================================================================
