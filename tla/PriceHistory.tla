---------------------------- MODULE PriceHistory ----------------------------
(***************************************************************************)
(* PriceHistoryRecorder in the transactions it lives in: workers write the *)
(* balances of one wallet after another, each wallet in one transaction,   *)
(* and record an observed price in a savepoint of it.  The tables assets   *)
(* and prices_history are shared, with py_wallet too.                      *)
(*                                                                         *)
(* assets belongs to py_wallet, and its index is not known here: with a    *)
(* unique one an INSERT waits for the transaction that has inserted the    *)
(* same asset, and fails when that commits; without one both succeed.      *)
(***************************************************************************)
EXTENDS Naturals

CONSTANTS
    Workers,     \* worker loops, each with a recorder
    Balances,    \* what wallets hold: chain, address and symbol as collected
    Jobs,        \* bound: the runs processed, by id
    MaxWallets,  \* bound: wallets of a run, by run
    MaxErrors,   \* bound: statements that fail, and crashes
    None

ASSUME JobsAssumption == Jobs \subseteq Nat \ {0}
ASSUME BoundAssumption == MaxWallets \in [Jobs -> Nat] /\ MaxErrors \in Nat
ASSUME NoneAssumption == None \notin Jobs /\ None \notin Balances

-----------------------------------------------------------------------------
(* Identities.                                                             *)

\* Hexadecimal addresses are compared in lower case, others as they are.
NormalizeAddress(address) ==
    IF address = None THEN None
    ELSE IF address.hex THEN address.lower ELSE address.text

\* The chain and the address, or the symbol when there is no address.
Identity(b) ==
    IF b.address = None THEN <<b.chain, "symbol", b.symbol>>
    ELSE <<b.chain, "address", NormalizeAddress(b.address)>>

\* The assets as the queries of _find_or_create_asset tell them apart.
Assets == {Identity(b) : b \in Balances}

-----------------------------------------------------------------------------

VARIABLES
    unique,    \* assets has a unique index on what identifies an asset
    assets,    \* rows of assets, committed
    ours,      \* those of them recorders have created
    history,   \* rows of prices_history, committed, by job and asset
    pc,        \* where a worker is
    job,       \* the run it processes
    wallets,   \* wallets of the run still to write
    left,      \* balances of the open wallet still to write
    written,   \* balances written in the open transaction
    current,   \* the balance being recorded, and whether its asset was found
    found,
    recorded,  \* _recorded_assets
    txAssets,  \* assets inserted in the open transaction
    txRows,    \* assets with a prices_history row in it
    errors     \* failures so far

tables == <<unique, assets, ours, history>>
open == <<left, written, current, found, txAssets, txRows>>
vars == <<tables, pc, job, wallets, open, recorded, errors>>

TypeOK ==
    /\ unique \in BOOLEAN
    /\ assets \in [Assets -> Nat]
    /\ ours \in [Assets -> Nat]
    /\ history \in [Jobs -> [Assets -> Nat]]
    /\ pc \in [Workers -> {"idle", "between", "writing", "recording"}]
    /\ job \in [Workers -> Jobs \cup {None}]
    /\ wallets \in [Workers -> Nat]
    /\ left \in [Workers -> SUBSET Balances]
    /\ written \in [Workers -> SUBSET Balances]
    /\ current \in [Workers -> Balances \cup {None}]
    /\ found \in [Workers -> BOOLEAN]
    /\ recorded \in [Workers -> SUBSET Assets]
    /\ txAssets \in [Workers -> SUBSET Assets]
    /\ txRows \in [Workers -> SUBSET Assets]
    /\ errors \in 0 .. MaxErrors

\* py_wallet has some of the assets already.
Init ==
    /\ unique \in BOOLEAN
    /\ assets \in [Assets -> {0, 1}]
    /\ ours = [a \in Assets |-> 0]
    /\ history = [j \in Jobs |-> [a \in Assets |-> 0]]
    /\ pc = [w \in Workers |-> "idle"]
    /\ job = [w \in Workers |-> None]
    /\ wallets = [w \in Workers |-> 0]
    /\ left = [w \in Workers |-> {}]
    /\ written = [w \in Workers |-> {}]
    /\ current = [w \in Workers |-> None]
    /\ found = [w \in Workers |-> FALSE]
    /\ recorded = [w \in Workers |-> {}]
    /\ txAssets = [w \in Workers |-> {}]
    /\ txRows = [w \in Workers |-> {}]
    /\ errors = 0

-----------------------------------------------------------------------------
(* Runs and wallets: SnapshotProcessor.                                    *)

\* Mutant: begin_job forgets to clear.
KeptFrom(w) == recorded[w]

\* _recorded_assets at the start of a run.
RecordedAtBegin(w) == {}

\* Jobs are claimed one at a time, in order; each is processed once.
BeginJob(w, j) ==
    /\ pc[w] = "idle"
    /\ \A v \in Workers : job[v] # None => job[v] < j
    /\ \A i \in Jobs : i < j => \E v \in Workers : job[v] # None /\ job[v] >= i
    /\ job' = [job EXCEPT ![w] = j]
    /\ \E n \in 1 .. MaxWallets[j] : wallets' = [wallets EXCEPT ![w] = n]
    /\ recorded' = [recorded EXCEPT ![w] = RecordedAtBegin(w)]
    /\ pc' = [pc EXCEPT ![w] = "between"]
    /\ UNCHANGED <<tables, open, errors>>

\* A wallet may hold any of the balances: those it does not are skipped.
OpenWallet(w) ==
    /\ pc[w] = "between"
    /\ wallets[w] > 0
    /\ wallets' = [wallets EXCEPT ![w] = @ - 1]
    /\ left' = [left EXCEPT ![w] = Balances]
    /\ pc' = [pc EXCEPT ![w] = "writing"]
    /\ UNCHANGED <<tables, job, written, current, found, txAssets, txRows, recorded, errors>>

\* The open transaction is over, with or without an effect.
TransactionEnds(w) ==
    /\ left' = [left EXCEPT ![w] = {}]
    /\ written' = [written EXCEPT ![w] = {}]
    /\ current' = [current EXCEPT ![w] = None]
    /\ found' = [found EXCEPT ![w] = FALSE]
    /\ txAssets' = [txAssets EXCEPT ![w] = {}]
    /\ txRows' = [txRows EXCEPT ![w] = {}]

Commit(w) ==
    /\ assets' = [a \in Assets |-> IF a \in txAssets[w] THEN assets[a] + 1 ELSE assets[a]]
    /\ ours' = [a \in Assets |-> IF a \in txAssets[w] THEN ours[a] + 1 ELSE ours[a]]
    /\ history' = [history EXCEPT ![job[w]] =
                      [a \in Assets |-> IF a \in txRows[w] THEN @[a] + 1 ELSE @[a]]]
    /\ UNCHANGED unique
    /\ TransactionEnds(w)

CommitWallet(w) ==
    /\ pc[w] = "writing"
    /\ left[w] = {}
    /\ Commit(w)
    /\ pc' = [pc EXCEPT ![w] = "between"]
    /\ UNCHANGED <<job, wallets, recorded, errors>>

\* An exception that is not the database's: the worker loop marks the run failed
\* and commits what has been written.
WalletRaises(w) ==
    /\ pc[w] = "writing"
    /\ errors < MaxErrors
    /\ errors' = errors + 1
    /\ Commit(w)
    /\ pc' = [pc EXCEPT ![w] = "idle"]
    /\ wallets' = [wallets EXCEPT ![w] = 0]
    /\ UNCHANGED <<job, recorded>>

\* A crash, or a balance whose own INSERT fails: that one is flushed before the
\* savepoint, so the whole transaction is lost, and the run is given up.
WalletLost(w) ==
    /\ pc[w] \in {"writing", "recording"}
    /\ errors < MaxErrors
    /\ errors' = errors + 1
    /\ TransactionEnds(w)
    /\ pc' = [pc EXCEPT ![w] = "idle"]
    /\ wallets' = [wallets EXCEPT ![w] = 0]
    /\ UNCHANGED <<tables, job, recorded>>

EndJob(w) ==
    /\ pc[w] = "between"
    /\ wallets[w] = 0
    /\ pc' = [pc EXCEPT ![w] = "idle"]
    /\ UNCHANGED <<tables, job, wallets, open, recorded, errors>>

-----------------------------------------------------------------------------
(* Recording: record and _find_or_create_asset.                            *)

Known(w, a) == a \in recorded[w]

\* A balance that is not held, not priced by a provider, or known already: only
\* its own row is written.
Skip(w, b) ==
    /\ pc[w] = "writing"
    /\ b \in left[w]
    /\ left' = [left EXCEPT ![w] = @ \ {b}]
    /\ written' = [written EXCEPT ![w] = @ \cup {b}]
    /\ UNCHANGED <<tables, pc, job, wallets, current, found, txAssets, txRows,
                   recorded, errors>>

\* The balance's row is flushed, the savepoint begins, and the asset is looked
\* for among what is committed and what this transaction has inserted.
FindAsset(w, b) ==
    /\ pc[w] = "writing"
    /\ b \in left[w]
    /\ ~Known(w, Identity(b))
    /\ left' = [left EXCEPT ![w] = @ \ {b}]
    /\ written' = [written EXCEPT ![w] = @ \cup {b}]
    /\ current' = [current EXCEPT ![w] = b]
    /\ found' = [found EXCEPT ![w] = assets[Identity(b)] > 0 \/ Identity(b) \in txAssets[w]]
    /\ pc' = [pc EXCEPT ![w] = "recording"]
    /\ UNCHANGED <<tables, job, wallets, txAssets, txRows, recorded, errors>>

Asset(w) == Identity(current[w])

\* Who has inserted the asset w is about to insert, and has yet to commit.
Before(w) == {v \in Workers \ {w} : unique /\ ~found[w] /\ Asset(w) \in txAssets[v]}

\* The INSERT finds the asset committed by somebody else meanwhile.
Duplicate(w) == unique /\ ~found[w] /\ assets[Asset(w)] > 0

\* Mutant: the address is remembered as it was collected.
RememberCollected(w) ==
    LET b == current[w]
    IN  recorded[w] \cup {IF b.address = None THEN Asset(w)
                          ELSE <<b.chain, "address", b.address.text>>}

\* "self._recorded_assets.add(identity)"
Remember(w) == recorded[w] \cup {Asset(w)}

\* The savepoint is released; what was inserted in it is part of the transaction.
RecordPrice(w) ==
    /\ pc[w] = "recording"
    /\ Before(w) = {} /\ ~Duplicate(w)
    /\ txAssets' = [txAssets EXCEPT ![w] = IF found[w] THEN @ ELSE @ \cup {Asset(w)}]
    /\ txRows' = [txRows EXCEPT ![w] = @ \cup {Asset(w)}]
    /\ recorded' = [recorded EXCEPT ![w] = Remember(w)]
    /\ current' = [current EXCEPT ![w] = None]
    /\ found' = [found EXCEPT ![w] = FALSE]
    /\ pc' = [pc EXCEPT ![w] = "writing"]
    /\ UNCHANGED <<tables, job, wallets, left, written, errors>>

\* Mutants: no savepoint, the transaction is rolled back; the asset is inserted
\* outside the savepoint.
WithoutSavepoint(w) ==
    /\ written' = [written EXCEPT ![w] = {}]
    /\ txAssets' = [txAssets EXCEPT ![w] = {}]
    /\ txRows' = [txRows EXCEPT ![w] = {}]
    /\ UNCHANGED left
AssetStays(w) ==
    /\ txAssets' = [txAssets EXCEPT ![w] = IF Before(w) = {} THEN @ \cup {Asset(w)} ELSE @]
    /\ UNCHANGED <<written, txRows, left>>

\* ROLLBACK TO SAVEPOINT leaves what was there before it.
BackToSavepoint(w) == UNCHANGED <<left, written, txAssets, txRows>>

\* Mutant: the INSERT is tried again in a new savepoint, until it succeeds.
InsertAgain(w) ==
    /\ BackToSavepoint(w)
    /\ UNCHANGED <<tables, pc, job, wallets, current, found, recorded>>

\* SQLAlchemyError in the savepoint: logged, and the wallet goes on.
RecordFails(w) ==
    /\ BackToSavepoint(w)
    /\ current' = [current EXCEPT ![w] = None]
    /\ found' = [found EXCEPT ![w] = FALSE]
    /\ pc' = [pc EXCEPT ![w] = "writing"]
    /\ UNCHANGED <<tables, job, wallets, recorded>>

StatementFails(w) ==
    /\ pc[w] = "recording"
    /\ errors < MaxErrors
    /\ errors' = errors + 1
    /\ RecordFails(w)

\* The unique index: IntegrityError.
InsertDuplicate(w) ==
    /\ pc[w] = "recording"
    /\ Before(w) = {} /\ Duplicate(w)
    /\ RecordFails(w)
    /\ UNCHANGED errors

Waiting(w) == pc[w] = "recording" /\ Before(w) # {}

\* PostgreSQL lets one of two transactions fail that wait for each other.
BreakDeadlock(w) ==
    /\ Waiting(w)
    /\ \E v \in Before(w) : Waiting(v) /\ w \in Before(v)
    /\ RecordFails(w)
    /\ UNCHANGED errors

-----------------------------------------------------------------------------
(* The specification.                                                      *)

WorkerStep(w) ==
    \/ CommitWallet(w)
    \/ \E b \in Balances : Skip(w, b) \/ FindAsset(w, b)
    \/ RecordPrice(w) \/ InsertDuplicate(w) \/ BreakDeadlock(w)

Failure(w) == WalletRaises(w) \/ WalletLost(w) \/ StatementFails(w)

Next ==
    \E w \in Workers :
        \/ \E j \in Jobs : BeginJob(w, j)
        \/ OpenWallet(w)
        \/ EndJob(w)
        \/ WorkerStep(w)
        \/ Failure(w)

Spec == Init /\ [][Next]_vars

\* A worker goes on with an open wallet, and PostgreSQL finds its deadlocks.
FairSpec == Spec /\ \A w \in Workers : WF_vars(WorkerStep(w))

-----------------------------------------------------------------------------
(* Properties.                                                             *)

\* "At most once per asset in each snapshot job", however its wallets spell the
\* address, and whatever failed or was tried before.
OneObservationPerJob == \A j \in Jobs, a \in Assets : history[j][a] <= 1

\* An asset the recorder will not record again has its row, in the open
\* transaction or committed: no failure and no earlier job makes it skip one.
RecordedIsWritten ==
    \A w \in Workers : pc[w] # "idle" =>
        \A a \in recorded[w] : a \in txRows[w] \/ history[job[w]][a] = 1

\* An asset is only added to py_wallet's table together with a price of it.
NoStrayAssets ==
    \A a \in Assets : ours[a] > 0 => \E j \in Jobs : history[j][a] > 0

\* PriceHistory implements PriceLedger: savepoints, rollbacks and waits for the
\* index come to commits of which each is right at once.
Ledger == INSTANCE PriceLedger

ImplementsLedger == Ledger!Spec

\* No failure to record a price costs the wallet one of its balances: what a
\* worker is about to commit is complete.
BalancesSurvive ==
    \A w \in Workers :
        pc[w] = "writing" => written[w] = Balances \ left[w]

\* With a unique index, workers inserting the same assets in any order never
\* block each other for good.
EveryWalletEnds ==
    \A w \in Workers : pc[w] \in {"writing", "recording"} ~> pc[w] \in {"between", "idle"}
=============================================================================
