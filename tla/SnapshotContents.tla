-------------------------- MODULE SnapshotContents --------------------------
(***************************************************************************)
(* What hangs below the rows of snapshot_runs: which wallets a run loads,  *)
(* which chains it collects for each, what a retry carries over from its   *)
(* parent, and what the statuses and the timestamps say about it.          *)
(*                                                                         *)
(* Claims, leases and recoveries are JobQueue's business: here a run is    *)
(* started once, by one worker, and may be abandoned at any wallet.  A     *)
(* wallet is written in one transaction, so its processing is one action,  *)
(* for which the clock is read several times.                              *)
(***************************************************************************)
EXTENDS Naturals, FiniteSets

CONSTANTS
    Runs,       \* ids of snapshot_runs, in serial order
    Wallets,    \* ids of py_wallet's wallets
    Scopes,     \* sets of wallets that are all wallets of a user or a group
    EvmChains,  \* names SNAPSHOT_ENABLED_CHAINS may hold
    TypeOf,     \* wallet_type of a wallet
    AddressOf,  \* address of a wallet, as entered but for surrounding blanks
    Lower,      \* str.lower on those addresses
    Listed,     \* place of a chain in SNAPSHOT_ENABLED_CHAINS
    Named,      \* place of its name in the order of names
    None,
    MaxTime,    \* bound: readings of the hosts' clocks
    MaxEdits,   \* bound: changes made by py_wallet and by deployments
    MaxSubmits  \* bound: runs that are not retries

ASSUME IdsAssumption == Runs \subseteq Nat /\ Wallets \subseteq Nat /\ None \notin Runs
ASSUME WalletsAssumption ==
    /\ TypeOf \in [Wallets -> {"evm", "solana", "manual", "other"}]
    /\ AddressOf \in [Wallets -> DOMAIN Lower]
    /\ Scopes \subseteq SUBSET Wallets
ASSUME ChainsAssumption == EvmChains # {} /\ EvmChains \cap {"solana", "manual", "other"} = {}
ASSUME OrderAssumption ==
    /\ Listed \in [EvmChains -> Nat]
    /\ Named \in [EvmChains -> Nat]
    /\ \A c, d \in EvmChains : Listed[c] = Listed[d] \/ Named[c] = Named[d] => c = d
ASSUME BoundAssumption == MaxTime \in Nat /\ MaxEdits \in Nat /\ MaxSubmits \in Nat

Chains == EvmChains \cup {"solana", "manual", "other"}
\* What datetime.now(UTC) may give: hosts differ and clocks are set back, so two
\* readings are in no order.
Reading == 0 .. MaxTime

Observation == [ok : BOOLEAN, at : Reading]    \* a row of chain_snapshots
WalletStatus == {"running", "success", "partial_success", "failed"}
Ended == {"success", "partial_success", "failed"}

\* A row of wallet_snapshots with the rows of chain_snapshots below it.
WalletSnapshot ==
    [status : WalletStatus, chains : UNION {[S -> Observation] : S \in SUBSET Chains},
     finished : Reading]

ASSUME NoneAssumption == None \notin WalletSnapshot

VARIABLES
    active,     \* wallets.is_active
    enabled,    \* SNAPSHOT_ENABLED_CHAINS of the workers started from now on
    kind,       \* scope_type: "all" (or "group"), "wallet", "failed_chains"
    within,     \* the wallets of the run's scope
    parent,     \* parent_run_id
    status,     \* status of the run
    chains,     \* enabled_chains of the processor of the run
    todo,       \* loaded wallets not yet processed
    snap,       \* wallet_snapshots with their chain_snapshots, by run and wallet
    edits

rows == <<kind, within, parent>>
vars == <<active, enabled, rows, status, chains, todo, snap, edits>>

TypeOK ==
    /\ active \in [Wallets -> BOOLEAN]
    /\ enabled \in SUBSET EvmChains
    /\ kind \in [Runs -> {"all", "wallet", "failed_chains"}]
    /\ within \in [Runs -> SUBSET Wallets]
    /\ parent \in [Runs -> Runs \cup {None}]
    /\ status \in [Runs -> {"absent", "pending", "running"} \cup Ended]
    /\ chains \in [Runs -> SUBSET EvmChains]
    /\ todo \in [Runs -> SUBSET Wallets]
    /\ \A r \in Runs, w \in Wallets : snap[r][w] # None =>
          /\ snap[r][w].status \in WalletStatus
          /\ snap[r][w].finished \in Reading
          /\ DOMAIN snap[r][w].chains \subseteq Chains
          /\ \A c \in DOMAIN snap[r][w].chains : snap[r][w].chains[c] \in Observation
    /\ edits \in 0 .. MaxEdits

Init ==
    /\ active \in [Wallets -> BOOLEAN]
    /\ enabled = EvmChains
    /\ kind = [r \in Runs |-> "all"]
    /\ within = [r \in Runs |-> {}]
    /\ parent = [r \in Runs |-> None]
    /\ status = [r \in Runs |-> "absent"]
    /\ chains = [r \in Runs |-> {}]
    /\ todo = [r \in Runs |-> {}]
    /\ snap = [r \in Runs |-> [w \in Wallets |-> None]]
    /\ edits = 0

-----------------------------------------------------------------------------
(* Creating runs.                                                          *)

NextId(r) == status[r] = "absent" /\ \A q \in Runs : q < r => status[q] # "absent"

\* create_job.  That a scope has one active run is JobQueue's business: two
\* scopes may hold the same wallets.
Submit(r, k, S) ==
    /\ NextId(r)
    /\ Cardinality({q \in Runs : status[q] # "absent" /\ parent[q] = None}) < MaxSubmits
    /\ status' = [status EXCEPT ![r] = "pending"]
    /\ kind' = [kind EXCEPT ![r] = k]
    /\ within' = [within EXCEPT ![r] = S]
    /\ UNCHANGED <<active, enabled, parent, chains, todo, snap, edits>>

FailedChains(s) == {c \in DOMAIN s.chains : ~s.chains[c].ok}

FailedWallets(r) ==
    {w \in Wallets : snap[r][w] # None /\ FailedChains(snap[r][w]) # {}}

\* create_retry_failed_job.
Retry(r, p) ==
    /\ NextId(r)
    /\ status[p] \in {"partial_success", "failed"}
    /\ FailedWallets(p) # {}
    /\ \A q \in Runs : parent[q] = p => status[q] \notin {"pending", "running"}
    /\ status' = [status EXCEPT ![r] = "pending"]
    /\ kind' = [kind EXCEPT ![r] = "failed_chains"]
    /\ within' = [within EXCEPT ![r] = within[p]]
    /\ parent' = [parent EXCEPT ![r] = p]
    /\ UNCHANGED <<active, enabled, chains, todo, snap, edits>>

-----------------------------------------------------------------------------
(* WalletLoader.                                                           *)

\* Mutant: one key for both kinds of addresses, in lower case.
LowerKey(w) == <<"address", Lower[AddressOf[w]]>>

\* EVM addresses are compared without case, Solana addresses with it; what is
\* not on a chain is never a duplicate.
AddressKey(w) ==
    IF TypeOf[w] = "evm" THEN <<"evm", Lower[AddressOf[w]]>>
    ELSE IF TypeOf[w] = "solana" THEN <<"solana", AddressOf[w]>>
    ELSE <<"wallet", w>>

\* Mutant: duplicates are kept.
KeepAll(S) == S

\* The first of each address in the order of ids.
Deduplicate(S) == {w \in S : \A v \in S : AddressKey(v) = AddressKey(w) => w <= v}

\* A retry does not look at its parent's scope, only at its failed chains.
LoadForJob(r) ==
    CASE kind[r] = "wallet" -> {w \in within[r] : active[w]}
      [] kind[r] = "all" -> Deduplicate({w \in within[r] : active[w]})
      [] kind[r] = "failed_chains" -> Deduplicate({w \in FailedWallets(parent[r]) : active[w]})

-----------------------------------------------------------------------------
(* SnapshotProcessor.                                                      *)

\* The claimed run's wallets are loaded; a run without one fails.
Start(r) ==
    /\ status[r] = "pending"
    /\ chains' = [chains EXCEPT ![r] = enabled]
    /\ todo' = [todo EXCEPT ![r] = LoadForJob(r)]
    /\ status' = [status EXCEPT ![r] = IF LoadForJob(r) = {} THEN "failed" ELSE "running"]
    /\ UNCHANGED <<active, enabled, rows, snap, edits>>

\* The wallets are processed in the order of their ids.
Turn(r, w) == status[r] = "running" /\ w \in todo[r] /\ \A v \in todo[r] : w <= v

\* Mutant: chain_type is stored as it is, NULL for a wallet of another type.
ChainsOrNull(r, w) == IF TypeOf[w] = "evm" THEN chains[r]
                      ELSE {IF TypeOf[w] = "other" THEN None ELSE TypeOf[w]}

\* The chains a wallet of a type is collected on, when nothing is carried.
ChainsFor(r, w) == IF TypeOf[w] = "evm" THEN chains[r] ELSE {TypeOf[w]}

IsRetry(r, w) == parent[r] # None /\ TypeOf[w] \in {"evm", "solana"}

\* Mutant: what is enabled is collected again, whether it failed or not.
RetryEnabled(r, w) == ChainsFor(r, w) \cap DOMAIN snap[parent[r]][w].chains

\* _retry_plan: of the parent's chains those that failed and are still enabled
\* are collected again; all others are carried, the failed ones among them too.
RetryChains(r, w) == FailedChains(snap[parent[r]][w]) \cap ChainsFor(r, w)

Carried(r, w) ==
    IF IsRetry(r, w) THEN DOMAIN snap[parent[r]][w].chains \ RetryChains(r, w) ELSE {}

ToCollect(r, w) == IF IsRetry(r, w) THEN RetryChains(r, w) ELSE ChainsFor(r, w)

\* What the collectors may answer, with the reading each answer is stamped with
\* when it is written; a wallet of another type fails at once.
Answers(r, w) ==
    [ToCollect(r, w) -> {o \in Observation : TypeOf[w] = "other" => ~o.ok}]

\* Mutant: copies are stamped with the time of the copy.
CopyNow(r, w, c) == [snap[parent[r]][w].chains[c] EXCEPT !.at = MaxTime]

\* _copy_chain_snapshot keeps status and finished_at.
Copy(r, w, c) == snap[parent[r]][w].chains[c]

\* Mutant: one good chain makes the wallet a success.
AnyGood(obs) ==
    IF \E c \in DOMAIN obs : obs[c].ok THEN "success" ELSE "failed"

StatusOf(obs) ==
    IF \A c \in DOMAIN obs : obs[c].ok THEN "success"
    ELSE IF \E c \in DOMAIN obs : obs[c].ok THEN "partial_success"
    ELSE "failed"

\* Mutant: the timestamp is that of the run.
FinishNow(r, w, completed) == completed

\* The oldest of the carried observations, or the reading taken when all is
\* written.
FinishedAt(r, w, completed) ==
    LET times == {completed} \cup {Copy(r, w, c).at : c \in Carried(r, w)}
    IN  CHOOSE t \in times : \A u \in times : t <= u

\* The chain rows of a wallet: the carried ones and the collected ones in S.
Rows(r, w, S, got) ==
    [c \in Carried(r, w) \cup S |-> IF c \in S THEN got[c] ELSE Copy(r, w, c)]

\* _process_wallet, to its commit.
ProcessWallet(r, w, got, completed) ==
    /\ Turn(r, w)
    /\ todo' = [todo EXCEPT ![r] = @ \ {w}]
    /\ snap' = [snap EXCEPT ![r][w] =
          [status |-> StatusOf(Rows(r, w, ToCollect(r, w), got)),
           chains |-> Rows(r, w, ToCollect(r, w), got),
           finished |-> FinishedAt(r, w, completed)]]
    /\ UNCHANGED <<active, enabled, rows, status, chains, edits>>

\* The results up to c, in the order they are collected and written in: that of
\* the settings, or for a retry that of the names.
UpTo(r, w, c) ==
    LET place == IF IsRetry(r, w) THEN Named ELSE Listed
    IN  {d \in ToCollect(r, w) : d = c \/ place[d] <= place[c]}

\* A failed result has no balances, but for that of a manual wallet.
HasBalances(w, result) == result.ok \/ TypeOf[w] = "manual"

\* The results written when an exception, not a database error, ends a wallet:
\* none, when a collector raised it, for all are collected before any is written;
\* or those up to one whose balances were being recorded.
Written(r, w, got) ==
    {S \in {{}} : ToCollect(r, w) # {} /\ TypeOf[w] # "other"} \cup
    {UpTo(r, w, c) : c \in {d \in ToCollect(r, w) : HasBalances(w, got[d])}}

\* Such an exception: the loop commits the run as failed together with the rows
\* written so far.  The wallet's row is still marked running.
FailWallet(r, w, S, got) ==
    /\ Turn(r, w)
    /\ S \in Written(r, w, got)
    /\ snap' = [snap EXCEPT ![r][w] =
          [status |-> "running", chains |-> Rows(r, w, S, got), finished |-> 0]]
    /\ status' = [status EXCEPT ![r] = "failed"]
    /\ todo' = [todo EXCEPT ![r] = {}]
    /\ UNCHANGED <<active, enabled, rows, chains, edits>>

\* The worker disappears; the wallet it had open is rolled back and the run is
\* failed by another worker's recovery.  Or an exception between two wallets: the
\* loop fails the run.
Abandon(r) ==
    /\ status[r] = "running"
    /\ status' = [status EXCEPT ![r] = "failed"]
    /\ todo' = [todo EXCEPT ![r] = {}]
    /\ UNCHANGED <<active, enabled, rows, chains, snap, edits>>

\* Mutant: no failed wallet is needed for a partial success.
RunStatusAny(S) == IF "success" \in S THEN "success"
                   ELSE IF "partial_success" \in S THEN "partial_success" ELSE "failed"

RunStatus(S) ==
    IF S \subseteq {"success"} THEN "success"
    ELSE IF S \cap {"success", "partial_success"} # {} THEN "partial_success"
    ELSE "failed"

Finish(r) ==
    /\ status[r] = "running"
    /\ todo[r] = {}
    /\ status' = [status EXCEPT ![r] =
          RunStatus({snap[r][w].status : w \in {v \in Wallets : snap[r][v] # None}})]
    /\ UNCHANGED <<active, enabled, rows, chains, todo, snap, edits>>

-----------------------------------------------------------------------------
(* The surroundings.                                                       *)

\* py_wallet activates or deactivates a wallet.
Toggle(w) ==
    /\ edits < MaxEdits
    /\ edits' = edits + 1
    /\ active' = [active EXCEPT ![w] = ~@]
    /\ UNCHANGED <<enabled, rows, status, chains, todo, snap>>

\* A deployment changes the enabled chains; running processors keep theirs.
Deploy(S) ==
    /\ edits < MaxEdits
    /\ edits' = edits + 1
    /\ enabled' = S
    /\ UNCHANGED <<active, rows, status, chains, todo, snap>>

Next ==
    \/ \E r \in Runs :
          \/ \E S \in Scopes : Submit(r, "all", S)
          \/ \E w \in Wallets : Submit(r, "wallet", {w})
          \/ \E p \in Runs : Retry(r, p)
          \/ Start(r)
          \/ \E w \in todo[r] :
                \E got \in Answers(r, w) :
                   \/ \E completed \in Reading : ProcessWallet(r, w, got, completed)
                   \/ \E S \in SUBSET ToCollect(r, w) : FailWallet(r, w, S, got)
          \/ Abandon(r)
          \/ Finish(r)
    \/ \E w \in Wallets : Toggle(w)
    \/ \E S \in (SUBSET EvmChains) \ {{}} : Deploy(S)

Spec == Init /\ [][Next]_vars

-----------------------------------------------------------------------------
(* Properties.                                                             *)

Complete(r, w) == snap[r][w] # None /\ snap[r][w].status # "running"

\* A retry shows the same chains of a wallet as its parent, and everything that
\* had succeeded is there as it was observed then: no success is collected
\* again, lost, or overwritten, whatever is deployed or fails in between.
RetryCarriesTheRest ==
    \A r \in Runs, w \in Wallets :
        parent[r] # None /\ Complete(r, w) =>
            LET before == snap[parent[r]][w].chains
                after == snap[r][w].chains
            IN  /\ DOMAIN after = DOMAIN before
                /\ \A c \in DOMAIN before : before[c].ok => after[c] = before[c]

\* The runs a run has a chain of a wallet from: itself, the parent it carries it
\* from, and so on to the one that collected it.
Trail(r, w, c) ==
    {q \in Runs : \A S \in SUBSET Runs :
        r \in S /\ (\A p \in S : c \in Carried(p, w) => parent[p] \in S) => q \in S}

\* A wallet's finished_at is never later than an observation carried below it, as
\* the run that made it stamped it, however many retries have handed it on
\* (README: "the child wallet timestamp remains conservative").  Of what a run
\* collects itself this does not hold: finished_at is read after those stamps.
ConservativeTimestamps ==
    \A r \in Runs, w \in Wallets : Complete(r, w) =>
        \A c \in Carried(r, w) : \A q \in Trail(r, w, c) :
            snap[r][w].finished <= snap[q][w].chains[c].at

\* No run collects one on-chain address for two wallets, whatever is
\* deactivated between a run and its retries.
OneWalletPerAddress ==
    \A r \in Runs : \A v, w \in Wallets :
        /\ snap[r][v] # None /\ snap[r][w] # None
        /\ AddressKey(v) = AddressKey(w)
        => v = w

\* Loading a run of a user or a group leaves no address out: whatever is active
\* is collected, under the oldest active wallet of its address.
SameAddress(v, w) ==
    /\ TypeOf[v] = TypeOf[w]
    /\ \/ v = w
       \/ TypeOf[v] = "evm" /\ Lower[AddressOf[v]] = Lower[AddressOf[w]]
       \/ TypeOf[v] = "solana" /\ AddressOf[v] = AddressOf[w]

NoAddressLeftOut ==
    [][\A r \in Runs :
         status[r] = "pending" /\ status'[r] # "pending" /\ kind[r] = "all" =>
            \A w \in within[r] : active[w] =>
                \E v \in todo'[r] : v <= w /\ SameAddress(v, w)]_vars

\* The verdict of a run tells what a reader finds below it, and what ended short
\* of success for a failed chain can be retried.
VerdictMatchesChains ==
    \A r \in Runs :
        /\ status[r] = "success" =>
              \A w \in Wallets : snap[r][w] # None =>
                  snap[r][w].status = "success" /\ FailedChains(snap[r][w]) = {}
        /\ status[r] = "partial_success" =>
              /\ FailedWallets(r) # {}
              /\ \E w \in Wallets : snap[r][w] # None /\
                    \E c \in DOMAIN snap[r][w].chains : snap[r][w].chains[c].ok

\* The processor keeps its part of what it shares with the job queue: whatever the
\* loader, the collectors and an exception leave below a run fits RunRecords.
Records == INSTANCE RunRecords WITH
    filled <- {r \in Runs : \E w \in Wallets : snap[r][w] # None},
    failed <- {r \in Runs : FailedWallets(r) # {}}

ImplementsRecords == Records!Spec

\* A run, the run it retries, and so on back to one that is no retry.
Line(r) ==
    {q \in Runs : \A S \in SUBSET Runs :
        r \in S /\ (\A p \in S : parent[p] # None => parent[p] \in S) => q \in S}

\* The first processor of a line fixes what a complete snapshot of a wallet shows.
ShowsAllChains(r, w) ==
    \A q \in Line(r) :
        parent[q] = None => ChainsFor(q, w) \subseteq DOMAIN snap[r][w].chains

\* A wallet shown as a success shows all the chains that were enabled when it
\* was first collected (README: "a recovered retry remains a complete readable
\* portfolio snapshot").
SuccessIsComplete ==
    \A r \in Runs, w \in Wallets :
        snap[r][w] # None /\ snap[r][w].status = "success" => ShowsAllChains(r, w)
=============================================================================
