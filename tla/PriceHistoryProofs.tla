------------------------- MODULE PriceHistoryProofs -------------------------
(***************************************************************************)
(* Proofs about PriceHistory, for every number of workers, runs, wallets,  *)
(* balances and errors, with a unique index on assets and without one.     *)
(* The inductive invariant says that a worker remembers exactly the assets *)
(* that have their row for its run, in the open transaction or committed.  *)
(***************************************************************************)
EXTENDS PriceHistory, TLAPS

\* What holds of one worker between any two steps.
WorkerOK(w) ==
    /\ pc[w] # "idle" => job[w] \in Jobs
    /\ pc[w] \in {"idle", "between"} =>
          txAssets[w] = {} /\ txRows[w] = {} /\ written[w] = {}
    /\ txAssets[w] \subseteq txRows[w]
    /\ pc[w] # "idle" =>
          \A a \in Assets :
              /\ a \in recorded[w] <=> a \in txRows[w] \/ history[job[w]][a] = 1
              /\ a \in txRows[w] => history[job[w]][a] = 0
    /\ pc[w] = "recording" =>
          current[w] \in Balances /\ Identity(current[w]) \notin recorded[w]
    /\ pc[w] \in {"writing", "recording"} => written[w] = Balances \ left[w]

\* A run belongs to one worker.
JobsDiffer ==
    \A v, w \in Workers : v # w /\ job[v] = job[w] => job[v] = None

\* Rows are of runs that have begun.
HistoryOK ==
    \A j \in Jobs, a \in Assets :
        /\ history[j][a] <= 1
        /\ history[j][a] # 0 => \E v \in Workers : job[v] # None /\ j <= job[v]

IInv ==
    /\ TypeOK
    /\ JobsDiffer
    /\ HistoryOK
    /\ NoStrayAssets
    /\ \A w \in Workers : WorkerOK(w)

LEMMA IdentityIsAsset == \A b \in Balances : Identity(b) \in Assets
BY DEF Assets

\* What a worker knows of itself is not changed by the steps of others, unless
\* they write rows of its run.
LEMMA Frame ==
    ASSUME NEW v \in Workers, WorkerOK(v),
           pc'[v] = pc[v], job'[v] = job[v], left'[v] = left[v],
           written'[v] = written[v], current'[v] = current[v],
           recorded'[v] = recorded[v], txAssets'[v] = txAssets[v], txRows'[v] = txRows[v],
           pc[v] # "idle" => history'[job[v]] = history[job[v]]
    PROVE  WorkerOK(v)'
BY DEF WorkerOK

\* The local variables of the other workers.
OthersSame(w) ==
    \A v \in Workers \ {w} :
        /\ pc'[v] = pc[v] /\ job'[v] = job[v] /\ left'[v] = left[v]
        /\ written'[v] = written[v] /\ current'[v] = current[v]
        /\ recorded'[v] = recorded[v] /\ txAssets'[v] = txAssets[v]
        /\ txRows'[v] = txRows[v]

\* A step of w that leaves the tables alone and does not change its run.
LEMMA LocalStep ==
    ASSUME IInv, NEW w \in Workers, TypeOK', OthersSame(w),
           UNCHANGED <<tables, job>>, WorkerOK(w)'
    PROVE  IInv'
<1>1. \A v \in Workers : WorkerOK(v)'
  <2> SUFFICES ASSUME NEW v \in Workers, v # w PROVE WorkerOK(v)'
    OBVIOUS
  <2> QED BY Frame DEF IInv, OthersSame, tables
<1> QED BY <1>1 DEF IInv, JobsDiffer, HistoryOK, NoStrayAssets, tables

LEMMA BeginJobPreserves ==
    ASSUME IInv, NEW w \in Workers, NEW j \in Jobs, BeginJob(w, j)
    PROVE  IInv'
<1>1. /\ TypeOK /\ pc[w] = "idle"
      /\ \A v \in Workers : job[v] # None => job[v] < j
      /\ job' = [job EXCEPT ![w] = j]
      /\ recorded' = [recorded EXCEPT ![w] = {}]
      /\ pc' = [pc EXCEPT ![w] = "between"]
      /\ UNCHANGED <<tables, open, errors>>
  BY DEF BeginJob, IInv, RecordedAtBegin
<1>2. j \in Nat /\ j # None /\ MaxWallets[j] \in Nat
  BY JobsAssumption, NoneAssumption, BoundAssumption
<1>3. TypeOK'
  <2>1. wallets' \in [Workers -> Nat]
    BY <1>1, <1>2 DEF BeginJob, TypeOK
  <2> QED BY <1>1, <2>1 DEF TypeOK, tables, open
<1>4. job'[w] = j /\ \A v \in Workers \ {w} : job'[v] = job[v]
  BY <1>1 DEF TypeOK
<1>5. \A v \in Workers : job[v] # None => job[v] \in Nat /\ job[v] < j
  BY <1>1, JobsAssumption DEF TypeOK
<1>6. JobsDiffer'
  BY <1>2, <1>4, <1>5 DEF IInv, JobsDiffer
<1>7. \A a \in Assets : history[j][a] = 0
  BY <1>2, <1>5 DEF IInv, HistoryOK
<1>8. HistoryOK'
  <2> SUFFICES ASSUME NEW i \in Jobs, NEW a \in Assets
               PROVE  /\ history[i][a] <= 1
                      /\ history[i][a] # 0 => \E v \in Workers : job'[v] # None /\ i <= job'[v]
    BY <1>1 DEF HistoryOK, tables
  <2>1. CASE history[i][a] = 0
    BY <2>1
  <2>2. CASE history[i][a] # 0
    <3>1. PICK v \in Workers : job[v] # None /\ i <= job[v]
      BY <2>2 DEF IInv, HistoryOK
    <3>2. i \in Nat /\ i <= j
      BY <3>1, <1>2, <1>5, JobsAssumption
    <3> QED BY <3>2, <1>2, <1>4 DEF IInv, HistoryOK
  <2> QED BY <2>1, <2>2
<1>9. WorkerOK(w)'
  <2>1. /\ pc'[w] = "between" /\ recorded'[w] = {} /\ job'[w] = j
        /\ txAssets'[w] = {} /\ txRows'[w] = {} /\ written'[w] = {}
    BY <1>1, <1>4 DEF IInv, WorkerOK, TypeOK, open
  <2>2. history' = history
    BY <1>1 DEF tables
  <2> QED BY <2>1, <2>2, <1>7 DEF WorkerOK
<1>10. ASSUME NEW v \in Workers, v # w PROVE WorkerOK(v)'
  <2>1. /\ pc'[v] = pc[v] /\ job'[v] = job[v] /\ left'[v] = left[v]
        /\ written'[v] = written[v] /\ current'[v] = current[v]
        /\ recorded'[v] = recorded[v] /\ txAssets'[v] = txAssets[v]
        /\ txRows'[v] = txRows[v] /\ history' = history
    BY <1>1, <1>10 DEF TypeOK, open, tables
  <2> QED BY <2>1, Frame DEF IInv
<1> QED BY <1>1, <1>3, <1>6, <1>8, <1>9, <1>10 DEF IInv, NoStrayAssets, tables

LEMMA OpenWalletPreserves ==
    ASSUME IInv, NEW w \in Workers, OpenWallet(w)
    PROVE  IInv'
<1>1. TypeOK /\ WorkerOK(w)
  BY DEF IInv
<1>2. TypeOK'
  <2>1. wallets[w] \in Nat /\ wallets[w] > 0
    BY <1>1 DEF OpenWallet, TypeOK
  <2> QED BY <1>1, <2>1 DEF OpenWallet, TypeOK, tables
<1>3. OthersSame(w)
  BY <1>1 DEF OpenWallet, TypeOK, OthersSame
<1>4. WorkerOK(w)'
  <2>1. /\ pc[w] = "between" /\ pc'[w] = "writing" /\ left'[w] = Balances
        /\ UNCHANGED <<tables, job, written, current, recorded, txAssets, txRows>>
    BY <1>1 DEF OpenWallet, TypeOK
  <2> QED BY <1>1, <2>1 DEF WorkerOK, tables
<1> QED BY <1>2, <1>3, <1>4, LocalStep DEF OpenWallet

\* The end of a transaction empties what belongs to it.
LEMMA EndsEmpty ==
    ASSUME TypeOK, NEW w \in Workers, TransactionEnds(w)
    PROVE  /\ left' \in [Workers -> SUBSET Balances]
           /\ written' \in [Workers -> SUBSET Balances]
           /\ current' \in [Workers -> Balances \cup {None}]
           /\ found' \in [Workers -> BOOLEAN]
           /\ txAssets' \in [Workers -> SUBSET Assets]
           /\ txRows' \in [Workers -> SUBSET Assets]
           /\ txAssets'[w] = {} /\ txRows'[w] = {} /\ written'[w] = {}
           /\ \A v \in Workers \ {w} :
                 /\ left'[v] = left[v] /\ written'[v] = written[v]
                 /\ current'[v] = current[v] /\ txAssets'[v] = txAssets[v]
                 /\ txRows'[v] = txRows[v]
BY DEF TypeOK, TransactionEnds

\* A commit adds one row for each asset of the open transaction, none of which has
\* one for this run, and only assets that have their row with them.
LEMMA CommitStep ==
    ASSUME IInv, NEW w \in Workers, pc[w] = "writing", Commit(w),
           pc'[w] \in {"between", "idle"},
           pc' \in [Workers -> {"idle", "between", "writing", "recording"}],
           wallets' \in [Workers -> Nat], errors' \in 0 .. MaxErrors,
           \A v \in Workers \ {w} : pc'[v] = pc[v],
           UNCHANGED <<job, recorded>>
    PROVE  IInv'
<1> DEFINE j == job[w]
<1>1. TypeOK /\ WorkerOK(w) /\ j \in Jobs
  BY DEF IInv, WorkerOK
<1>2. \A a \in Assets :
         /\ assets[a] \in Nat /\ ours[a] \in Nat
         /\ a \in txRows[w] => history[j][a] = 0
         /\ a \in txAssets[w] => a \in txRows[w]
  BY <1>1 DEF TypeOK, WorkerOK
<1> DEFINE rows == [a \in Assets |-> IF a \in txRows[w] THEN history[j][a] + 1
                                     ELSE history[j][a]]
<1>3. /\ history' = [history EXCEPT ![j] = rows]
      /\ assets' = [a \in Assets |-> IF a \in txAssets[w] THEN assets[a] + 1 ELSE assets[a]]
      /\ ours' = [a \in Assets |-> IF a \in txAssets[w] THEN ours[a] + 1 ELSE ours[a]]
      /\ UNCHANGED unique /\ TransactionEnds(w)
  BY DEF Commit
<1>4. history'[j] = rows /\ \A i \in Jobs \ {j} : history'[i] = history[i]
  BY <1>1, <1>3 DEF TypeOK
<1>5. \A a \in Assets : /\ history[j][a] \in Nat
                        /\ rows[a] = IF a \in txRows[w] THEN 1 ELSE history[j][a]
  BY <1>1, <1>2 DEF TypeOK
<1>6. TypeOK'
  <2>1. rows \in [Assets -> Nat]
    BY <1>5
  <2>2. history' \in [Jobs -> [Assets -> Nat]]
    BY <1>1, <1>3, <2>1 DEF TypeOK
  <2>3. assets' \in [Assets -> Nat] /\ ours' \in [Assets -> Nat]
    BY <1>2, <1>3
  <2> QED BY <1>1, <1>3, <2>2, <2>3, EndsEmpty DEF TypeOK
<1>7. HistoryOK'
  <2> SUFFICES ASSUME NEW i \in Jobs, NEW a \in Assets
               PROVE  /\ history'[i][a] <= 1
                      /\ history'[i][a] # 0 => \E v \in Workers : job[v] # None /\ i <= job[v]
    BY DEF HistoryOK
  <2>1. CASE i = j
    <3>1. j # None
      BY <1>1, NoneAssumption
    <3>2. j \in Nat
      BY <1>1, JobsAssumption
    <3> QED BY <2>1, <3>1, <3>2, <1>4, <1>5 DEF IInv, HistoryOK
  <2>2. CASE i # j
    BY <2>2, <1>4 DEF IInv, HistoryOK
  <2> QED BY <2>1, <2>2
<1>8. NoStrayAssets'
  <2> SUFFICES ASSUME NEW a \in Assets, ours'[a] > 0
               PROVE  \E i \in Jobs : history'[i][a] > 0
    BY DEF NoStrayAssets
  <2>1. CASE a \in txRows[w]
    BY <2>1, <1>1, <1>4, <1>5
  <2>2. CASE a \notin txRows[w]
    <3>1. ours[a] > 0
      BY <2>2, <1>2, <1>3
    <3>2. PICK i \in Jobs : history[i][a] > 0
      BY <3>1 DEF IInv, NoStrayAssets
    <3>3. history'[i][a] = history[i][a]
      BY <2>2, <1>4, <1>5
    <3> QED BY <3>2, <3>3
  <2> QED BY <2>1, <2>2
<1>9. WorkerOK(w)'
  <2>1. /\ txAssets'[w] = {} /\ txRows'[w] = {} /\ written'[w] = {}
    BY <1>1, <1>3, EndsEmpty
  <2>2. ASSUME NEW a \in Assets
        PROVE  a \in recorded[w] <=> history'[j][a] = 1
    BY <1>1, <1>4, <1>5 DEF WorkerOK
  <2> QED BY <2>1, <2>2, <1>1 DEF WorkerOK
<1>10. ASSUME NEW v \in Workers, v # w PROVE WorkerOK(v)'
  <2>1. /\ pc'[v] = pc[v] /\ job'[v] = job[v] /\ left'[v] = left[v]
        /\ written'[v] = written[v] /\ current'[v] = current[v]
        /\ recorded'[v] = recorded[v] /\ txAssets'[v] = txAssets[v]
        /\ txRows'[v] = txRows[v]
    BY <1>1, <1>3, <1>10, EndsEmpty
  <2>2. pc[v] # "idle" => job[v] \in Jobs /\ job[v] # j
    BY <1>1, <1>10, NoneAssumption DEF IInv, WorkerOK, JobsDiffer
  <2>3. pc[v] # "idle" => history'[job[v]] = history[job[v]]
    BY <2>2, <1>4
  <2> QED BY <2>1, <2>3, Frame DEF IInv
<1> QED BY <1>6, <1>7, <1>8, <1>9, <1>10 DEF IInv, JobsDiffer

LEMMA CommitWalletPreserves ==
    ASSUME IInv, NEW w \in Workers, CommitWallet(w)
    PROVE  IInv'
BY CommitStep DEF CommitWallet, IInv, TypeOK

LEMMA WalletRaisesPreserves ==
    ASSUME IInv, NEW w \in Workers, WalletRaises(w)
    PROVE  IInv'
BY CommitStep, BoundAssumption DEF WalletRaises, IInv, TypeOK

LEMMA WalletLostPreserves ==
    ASSUME IInv, NEW w \in Workers, WalletLost(w)
    PROVE  IInv'
<1>1. TypeOK
  BY DEF IInv
<1>2. TypeOK'
  BY <1>1, EndsEmpty, BoundAssumption DEF WalletLost, TypeOK, tables
<1>3. OthersSame(w)
  BY <1>1, EndsEmpty DEF WalletLost, TypeOK, OthersSame
<1>4. WorkerOK(w)'
  <2>1. pc'[w] = "idle" /\ txAssets'[w] = {} /\ txRows'[w] = {} /\ written'[w] = {}
    BY <1>1, EndsEmpty DEF WalletLost, TypeOK
  <2> QED BY <2>1 DEF WorkerOK
<1> QED BY <1>2, <1>3, <1>4, LocalStep DEF WalletLost

LEMMA EndJobPreserves ==
    ASSUME IInv, NEW w \in Workers, EndJob(w)
    PROVE  IInv'
<1>1. TypeOK /\ WorkerOK(w)
  BY DEF IInv
<1>2. TypeOK'
  BY <1>1 DEF EndJob, TypeOK, tables, open
<1>3. OthersSame(w)
  BY <1>1 DEF EndJob, TypeOK, OthersSame, open
<1>4. WorkerOK(w)'
  BY <1>1 DEF EndJob, WorkerOK, TypeOK, open
<1> QED BY <1>2, <1>3, <1>4, LocalStep DEF EndJob

LEMMA SkipPreserves ==
    ASSUME IInv, NEW w \in Workers, NEW b \in Balances, Skip(w, b)
    PROVE  IInv'
<1>1. TypeOK /\ WorkerOK(w)
  BY DEF IInv
<1>2. TypeOK'
  BY <1>1 DEF Skip, TypeOK, tables
<1>3. OthersSame(w)
  BY <1>1 DEF Skip, TypeOK, OthersSame
<1>4. WorkerOK(w)'
  <2>1. /\ pc[w] = "writing" /\ b \in left[w] /\ left[w] \subseteq Balances
        /\ left'[w] = left[w] \ {b} /\ written'[w] = written[w] \cup {b}
        /\ UNCHANGED <<tables, pc, job, current, recorded, txAssets, txRows>>
    BY <1>1 DEF Skip, TypeOK
  <2> QED BY <1>1, <2>1 DEF WorkerOK, tables
<1> QED BY <1>2, <1>3, <1>4, LocalStep DEF Skip

LEMMA FindAssetPreserves ==
    ASSUME IInv, NEW w \in Workers, NEW b \in Balances, FindAsset(w, b)
    PROVE  IInv'
<1>1. TypeOK /\ WorkerOK(w)
  BY DEF IInv
<1>2. TypeOK'
  BY <1>1 DEF FindAsset, TypeOK, tables
<1>3. OthersSame(w)
  BY <1>1 DEF FindAsset, TypeOK, OthersSame
<1>4. WorkerOK(w)'
  <2>1. /\ pc[w] = "writing" /\ b \in left[w] /\ left[w] \subseteq Balances
        /\ Identity(b) \notin recorded[w]
        /\ left'[w] = left[w] \ {b} /\ written'[w] = written[w] \cup {b}
        /\ current'[w] = b /\ pc'[w] = "recording"
        /\ UNCHANGED <<tables, job, recorded, txAssets, txRows>>
    BY <1>1 DEF FindAsset, Known, TypeOK
  <2>2. written'[w] = Balances \ left'[w]
    BY <1>1, <2>1 DEF WorkerOK
  <2>3. Identity(current'[w]) \notin recorded[w]
    BY <2>1
  <2>4. pc[w] # "idle" /\ pc'[w] \notin {"idle", "between", "writing"}
    BY <2>1
  <2> HIDE DEF Identity
  <2> QED BY <1>1, <2>1, <2>2, <2>3, <2>4 DEF WorkerOK, tables
<1> QED BY <1>2, <1>3, <1>4, LocalStep DEF FindAsset

LEMMA RecordPricePreserves ==
    ASSUME IInv, NEW w \in Workers, RecordPrice(w)
    PROVE  IInv'
<1> DEFINE x == Asset(w)
<1>1. TypeOK /\ WorkerOK(w) /\ pc[w] = "recording" /\ job[w] \in Jobs
  BY DEF IInv, RecordPrice, WorkerOK
<1>2. x \in Assets /\ x \notin recorded[w]
  BY <1>1, IdentityIsAsset DEF WorkerOK, Asset
<1>3. /\ txAssets' = [txAssets EXCEPT ![w] = IF found[w] THEN @ ELSE @ \cup {x}]
      /\ txRows' = [txRows EXCEPT ![w] = @ \cup {x}]
      /\ recorded' = [recorded EXCEPT ![w] = recorded[w] \cup {x}]
      /\ current' = [current EXCEPT ![w] = None]
      /\ found' = [found EXCEPT ![w] = FALSE]
      /\ pc' = [pc EXCEPT ![w] = "writing"]
      /\ UNCHANGED <<tables, job, wallets, left, written, errors>>
  BY DEF RecordPrice, Remember
<1> HIDE DEF x
<1>4. TypeOK'
  BY <1>1, <1>2, <1>3 DEF TypeOK, tables
<1>5. OthersSame(w)
  BY <1>1, <1>3 DEF TypeOK, OthersSame
<1>6. WorkerOK(w)'
  <2>1. /\ txAssets'[w] \subseteq txAssets[w] \cup {x}
        /\ txRows'[w] = txRows[w] \cup {x} /\ recorded'[w] = recorded[w] \cup {x}
        /\ pc'[w] = "writing" /\ left' = left /\ written' = written
        /\ history' = history /\ job' = job
    BY <1>1, <1>3 DEF TypeOK, tables
  <2>2. history[job[w]][x] = 0
    <3>1. history[job[w]][x] \in Nat /\ history[job[w]][x] <= 1
      BY <1>1, <1>2 DEF TypeOK, IInv, HistoryOK
    <3>2. history[job[w]][x] # 1
      BY <1>1, <1>2 DEF WorkerOK
    <3> QED BY <3>1, <3>2
  <2> QED BY <1>1, <1>2, <2>1, <2>2 DEF WorkerOK
<1> QED BY <1>3, <1>4, <1>5, <1>6, LocalStep

LEMMA RecordFailsPreserves ==
    ASSUME IInv, NEW w \in Workers, pc[w] = "recording", RecordFails(w),
           errors' \in 0 .. MaxErrors
    PROVE  IInv'
<1>1. TypeOK /\ WorkerOK(w)
  BY DEF IInv
<1>2. /\ current' = [current EXCEPT ![w] = None]
      /\ found' = [found EXCEPT ![w] = FALSE]
      /\ pc' = [pc EXCEPT ![w] = "writing"]
      /\ UNCHANGED <<tables, job, wallets, recorded, left, written, txAssets, txRows>>
  BY DEF RecordFails, BackToSavepoint
<1>3. TypeOK'
  BY <1>1, <1>2 DEF TypeOK, tables
<1>4. OthersSame(w)
  BY <1>1, <1>2 DEF TypeOK, OthersSame
<1>5. WorkerOK(w)'
  BY <1>1, <1>2 DEF WorkerOK, TypeOK, tables
<1> QED BY <1>2, <1>3, <1>4, <1>5, LocalStep

-----------------------------------------------------------------------------
(* The theorems.                                                           *)

LEMMA InitIInv == Init => IInv
<1> SUFFICES ASSUME Init PROVE IInv
  OBVIOUS
<1>1. TypeOK
  BY BoundAssumption DEF Init, TypeOK
<1> QED BY <1>1 DEF Init, IInv, JobsDiffer, HistoryOK, NoStrayAssets, WorkerOK

LEMMA NextIInv == IInv /\ [Next]_vars => IInv'
<1> SUFFICES ASSUME IInv, [Next]_vars PROVE IInv'
  OBVIOUS
<1>1. errors \in 0 .. MaxErrors /\ MaxErrors \in Nat
  BY BoundAssumption DEF IInv, TypeOK
<1>2. ASSUME NEW w \in Workers, NEW j \in Jobs, BeginJob(w, j) PROVE IInv'
  BY <1>2, BeginJobPreserves
<1>3. ASSUME NEW w \in Workers, OpenWallet(w) PROVE IInv'
  BY <1>3, OpenWalletPreserves
<1>4. ASSUME NEW w \in Workers, EndJob(w) PROVE IInv'
  BY <1>4, EndJobPreserves
<1>5. ASSUME NEW w \in Workers, WorkerStep(w) PROVE IInv'
  <2>1. CASE CommitWallet(w) BY <2>1, CommitWalletPreserves
  <2>2. ASSUME NEW b \in Balances, Skip(w, b) PROVE IInv'
    BY <2>2, SkipPreserves
  <2>3. ASSUME NEW b \in Balances, FindAsset(w, b) PROVE IInv'
    BY <2>3, FindAssetPreserves
  <2>4. CASE RecordPrice(w) BY <2>4, RecordPricePreserves
  <2>5. CASE InsertDuplicate(w)
    BY <1>1, <2>5, RecordFailsPreserves DEF InsertDuplicate
  <2>6. CASE BreakDeadlock(w)
    BY <1>1, <2>6, RecordFailsPreserves DEF BreakDeadlock, Waiting
  <2> QED BY <1>5, <2>1, <2>2, <2>3, <2>4, <2>5, <2>6 DEF WorkerStep
<1>6. ASSUME NEW w \in Workers, Failure(w) PROVE IInv'
  <2>1. CASE WalletRaises(w) BY <2>1, WalletRaisesPreserves
  <2>2. CASE WalletLost(w) BY <2>2, WalletLostPreserves
  <2>3. CASE StatementFails(w)
    BY <1>1, <2>3, RecordFailsPreserves DEF StatementFails
  <2> QED BY <1>6, <2>1, <2>2, <2>3 DEF Failure
<1>7. CASE UNCHANGED vars
  BY <1>7 DEF vars, tables, open, IInv, TypeOK, JobsDiffer, HistoryOK, NoStrayAssets,
              WorkerOK
<1> QED BY <1>2, <1>3, <1>4, <1>5, <1>6, <1>7 DEF Next

LEMMA Invariance == Spec => []IInv
<1> QED BY InitIInv, NextIInv, PTL DEF Spec

\* Every variable of the recorders keeps its type.
THEOREM PriceHistoryTypes == Spec => []TypeOK
<1>1. IInv => TypeOK
  BY DEF IInv
<1> QED BY <1>1, Invariance, PTL

\* An asset has at most one observation of a run, whatever fails, is rolled back or
\* is spelled differently, and however workers share the tables.
THEOREM OneObservation == Spec => []OneObservationPerJob
<1>1. IInv => OneObservationPerJob
  BY DEF IInv, HistoryOK, OneObservationPerJob
<1> QED BY <1>1, Invariance, PTL

\* What a recorder remembers is written: no observation is skipped for one that was
\* rolled back, or that another run made.
THEOREM RememberedIsWritten == Spec => []RecordedIsWritten
<1>1. IInv => RecordedIsWritten
  BY DEF IInv, TypeOK, WorkerOK, RecordedIsWritten
<1> QED BY <1>1, Invariance, PTL

\* py_wallet's table gets no asset without an observation.
THEOREM AssetsComeWithPrices == Spec => []NoStrayAssets
<1>1. IInv => NoStrayAssets
  BY DEF IInv
<1> QED BY <1>1, Invariance, PTL

\* No failure to record a price takes a balance out of the open transaction.
THEOREM BalancesAreKept == Spec => []BalancesSurvive
<1>1. IInv => BalancesSurvive
  BY DEF IInv, WorkerOK, BalancesSurvive
<1> QED BY <1>1, Invariance, PTL

-----------------------------------------------------------------------------
(* The refinement.                                                         *)

\* Where assets has a unique index, an open transaction has created an asset only
\* that nobody has committed, and that no other open transaction has created.
IndexHolds ==
    unique => \A w \in Workers : \A a \in txAssets[w] :
        assets[a] = 0 /\ \A v \in Workers \ {w} : a \notin txAssets[v]

\* An INSERT that does not wait and finds no duplicate keeps to the index, and so do
\* those of the others after a commit.
LEMMA NextIndexHolds ==
    ASSUME IInv, IndexHolds, [Next]_vars
    PROVE  IndexHolds'
<1>0. TypeOK
  BY DEF IInv
<1>1. ASSUME unique' = unique, assets' = assets,
             \A v \in Workers : txAssets'[v] \subseteq txAssets[v]
      PROVE  IndexHolds'
  BY <1>1 DEF IndexHolds
<1>2. ASSUME NEW w \in Workers, RecordPrice(w)
      PROVE  IndexHolds'
  <2>1. unique' = unique /\ assets' = assets
    BY <1>2 DEF RecordPrice, tables
  <2>2. CASE found[w]
    BY <1>0, <1>1, <1>2, <2>1, <2>2 DEF RecordPrice, TypeOK
  <2>3. CASE ~found[w]
    <3>1. /\ txAssets'[w] = txAssets[w] \cup {Asset(w)}
          /\ \A v \in Workers \ {w} : txAssets'[v] = txAssets[v]
      BY <1>0, <1>2, <2>3 DEF RecordPrice, TypeOK
    <3>2. unique => \A v \in Workers \ {w} : Asset(w) \notin txAssets[v]
      BY <1>2, <2>3 DEF RecordPrice, Before
    <3>3. unique => ~(assets[Asset(w)] > 0)
      BY <1>2, <2>3 DEF RecordPrice, Duplicate
    <3>4. Asset(w) \in Assets => assets[Asset(w)] \in Nat
      BY <1>0 DEF TypeOK
    <3>5. Asset(w) \in Assets
      BY <1>2, IdentityIsAsset DEF RecordPrice, IInv, WorkerOK, Asset
    <3>6. QED
      BY <2>1, <3>1, <3>2, <3>3, <3>4, <3>5 DEF IndexHolds
  <2>4. QED
    BY <2>2, <2>3
<1>3. ASSUME NEW w \in Workers, Commit(w)
      PROVE  IndexHolds'
  <2>1. /\ unique' = unique /\ txAssets'[w] = {}
        /\ \A v \in Workers \ {w} : txAssets'[v] = txAssets[v]
        /\ \A a \in Assets : a \notin txAssets[w] => assets'[a] = assets[a]
    BY <1>0, <1>3, EndsEmpty DEF Commit
  <2>2. \A v \in Workers : txAssets[v] \subseteq Assets
    BY <1>0 DEF TypeOK
  <2>3. QED
    BY <2>1, <2>2 DEF IndexHolds
<1>4. ASSUME NEW w \in Workers, WalletLost(w)
      PROVE  IndexHolds'
  <2>1. \A v \in Workers : txAssets'[v] \subseteq txAssets[v]
    BY <1>0, <1>4, EndsEmpty DEF WalletLost
  <2>2. QED
    BY <1>1, <1>4, <2>1 DEF WalletLost, tables
<1>5. ASSUME UNCHANGED <<unique, assets, txAssets>>
      PROVE  IndexHolds'
  BY <1>1, <1>5
<1>6. QED
  BY <1>2, <1>3, <1>4, <1>5 DEF Next, WorkerStep, Failure, BeginJob, OpenWallet, EndJob,
     CommitWallet, Skip, FindAsset, InsertDuplicate, BreakDeadlock, RecordFails,
     BackToSavepoint, WalletRaises, StatementFails, tables, open, vars

\* A commit observes what the transaction has rows of, each for the first time in its
\* run, and creates assets among them only.
LEMMA CommitObserves ==
    ASSUME IInv, IndexHolds, NEW w \in Workers, pc[w] = "writing", Commit(w)
    PROVE  Ledger!Next
<1>1. /\ TypeOK /\ WorkerOK(w) /\ job[w] \in Jobs
      /\ txRows[w] \in SUBSET Assets /\ txAssets[w] \in SUBSET Assets
  BY DEF IInv, WorkerOK, TypeOK
<1>2. /\ \A a \in txRows[w] : history[job[w]][a] = 0
      /\ txAssets[w] \subseteq txRows[w]
      /\ \A a \in txAssets[w] : unique => assets[a] = 0
  BY <1>1 DEF WorkerOK, IndexHolds
<1>3. /\ history' = [history EXCEPT ![job[w]] = Ledger!Plus(@, txRows[w])]
      /\ assets' = Ledger!Plus(assets, txAssets[w])
      /\ ours' = Ledger!Plus(ours, txAssets[w])
      /\ UNCHANGED unique
  BY DEF Commit, Ledger!Plus
<1>4. Ledger!Observe(job[w], txRows[w], txAssets[w])
  BY <1>2, <1>3 DEF Ledger!Observe
<1>5. QED
  BY <1>1, <1>4 DEF Ledger!Next

\* The recorders implement the ledger: of all they do in their transactions, readers
\* see commits that observe an asset once for a run and create none without need.
THEOREM RecorderImplementsLedger == Spec => ImplementsLedger
<1>1. Init => Ledger!Init /\ IndexHolds
  BY DEF Init, Ledger!Init, IndexHolds
<1>2. Spec => []IndexHolds
  <2>1. IInv /\ IndexHolds /\ [Next]_vars => IndexHolds'
    BY NextIndexHolds
  <2>2. QED
    BY <1>1, <2>1, Invariance, PTL DEF Spec
<1>3. ASSUME IInv, IndexHolds, [Next]_vars
      PROVE  [Ledger!Next]_(Ledger!ledger)
  <2>1. ASSUME NEW w \in Workers, CommitWallet(w) \/ WalletRaises(w)
        PROVE  Ledger!Next
    BY <1>3, <2>1, CommitObserves DEF CommitWallet, WalletRaises
  <2>2. ASSUME UNCHANGED tables
        PROVE  UNCHANGED Ledger!ledger
    BY <2>2 DEF tables, Ledger!ledger
  <2>3. QED
    BY <1>3, <2>1, <2>2 DEF Next, WorkerStep, Failure, BeginJob, OpenWallet, EndJob, Skip,
       FindAsset, RecordPrice, InsertDuplicate, BreakDeadlock, RecordFails, WalletLost,
       StatementFails, vars
<1>4. QED
  BY <1>1, <1>2, <1>3, Invariance, PTL DEF Spec, ImplementsLedger, Ledger!Spec
=============================================================================
