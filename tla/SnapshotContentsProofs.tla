----------------------- MODULE SnapshotContentsProofs -----------------------
(***************************************************************************)
(* Proofs about SnapshotContents, for any runs, wallets, chains and        *)
(* addresses, and any number of retries of retries.                        *)
(***************************************************************************)
EXTENDS SnapshotContents, WellFoundedInduction, TLAPS

\* The assumptions on the constants, under one name.
LEMMA ConstantFacts ==
    /\ Runs \subseteq Nat /\ Wallets \subseteq Nat /\ None \notin Runs
    /\ \A w \in Wallets : TypeOf[w] \in {"evm", "solana", "manual", "other"}
    /\ Scopes \subseteq SUBSET Wallets
    /\ EvmChains # {}
    /\ MaxTime \in Nat /\ MaxEdits \in Nat
BY IdsAssumption, WalletsAssumption, ChainsAssumption, BoundAssumption

-----------------------------------------------------------------------------
(* The invariant.                                                          *)

\* The types of the columns.  A table has a place for every run and wallet.
Columns ==
    /\ active \in [Wallets -> BOOLEAN]
    /\ enabled \in SUBSET EvmChains /\ enabled # {}
    /\ kind \in [Runs -> {"all", "wallet", "failed_chains"}]
    /\ within \in [Runs -> SUBSET Wallets]
    /\ parent \in [Runs -> Runs \cup {None}]
    /\ status \in [Runs -> {"absent", "pending", "running"} \cup Ended]
    /\ chains \in [Runs -> SUBSET EvmChains]
    /\ todo \in [Runs -> SUBSET Wallets]
    /\ snap = [r \in Runs |-> [w \in Wallets |-> snap[r][w]]]
    /\ edits \in 0 .. MaxEdits

\* The wallets a run has loaded, processed or not.
Loaded(r) == todo[r] \cup {w \in Wallets : snap[r][w] # None}

OneKeyEach(S) == \A v, w \in S : AddressKey(v) = AddressKey(w) => v = w

\* Nothing hangs below a run before it starts; a retry has a parent that has
\* ended, and loads wallets that failed there; no run loads an address twice.
RunLineage(r) ==
    /\ status[r] = "absent" => kind[r] = "all" /\ parent[r] = None
    /\ kind[r] = "failed_chains" <=> parent[r] # None
    /\ kind[r] = "wallet" => \E w \in Wallets : within[r] = {w}
    /\ status[r] \in {"absent", "pending"} => Loaded(r) = {}
    /\ todo[r] # {} => status[r] = "running"
    /\ status[r] = "running" => chains[r] # {}
    /\ OneKeyEach(Loaded(r))
    /\ \A p \in Runs : parent[r] = p =>
          status[p] \in Ended /\ todo[r] \subseteq FailedWallets(p)

Lineage == \A r \in Runs : RunLineage(r)

\* A well-formed wallet snapshot: outside EVM and Solana a wallet has one chain, and
\* a status other than running is that of its chains.
WellFormed(w, s) ==
    /\ s.status \in WalletStatus
    /\ s.finished \in Reading
    /\ DOMAIN s.chains \subseteq Chains
    /\ \A c \in DOMAIN s.chains : s.chains[c] \in Observation
    /\ TypeOf[w] \notin {"evm", "solana"} => DOMAIN s.chains \subseteq {TypeOf[w]}
    /\ s.status # "running" =>
          /\ s.status = StatusOf(s.chains)
          /\ DOMAIN s.chains # {}

RunContents(r) ==
    \A w \in Wallets : snap[r][w] # None =>
        /\ WellFormed(w, snap[r][w])
        /\ status[r] = "running" => snap[r][w].status # "running"

Contents == \A r \in Runs : RunContents(r)

Inv == Columns /\ Lineage /\ Contents

-----------------------------------------------------------------------------
(* Tables and times.                                                       *)

\* Writing one wallet's snapshot leaves all others as they are.
LEMMA WriteSnap ==
    ASSUME Columns, NEW r \in Runs, NEW w \in Wallets, NEW x,
           snap' = [snap EXCEPT ![r][w] = x]
    PROVE  /\ snap' = [q \in Runs |-> [v \in Wallets |-> snap'[q][v]]]
           /\ \A q \in Runs, v \in Wallets :
                 snap'[q][v] = IF q = r /\ v = w THEN x ELSE snap[q][v]
<1>1. DOMAIN snap = Runs /\ \A q \in Runs : DOMAIN snap[q] = Wallets
  BY DEF Columns
<1>2. snap' = [q \in Runs |-> IF q = r THEN [snap[r] EXCEPT ![w] = x] ELSE snap[q]]
  BY <1>1
<1>3. \A q \in Runs, v \in Wallets :
         snap'[q][v] = IF q = r /\ v = w THEN x ELSE snap[q][v]
  BY <1>1, <1>2
<1>4. ASSUME NEW q \in Runs
      PROVE  snap'[q] = [v \in Wallets |-> snap'[q][v]]
  <2>1. \A p \in Runs : snap[p] = [v \in Wallets |-> snap[p][v]]
    BY DEF Columns
  <2>2. CASE q = r
    BY <1>2, <2>1, <2>2
  <2>3. CASE q # r
    BY <1>2, <2>1, <2>3
  <2>4. QED
    BY <2>2, <2>3
<1>5. QED
  BY <1>2, <1>3, <1>4

\* What is loaded for a run are wallets, no two of one address; a retry's wallets
\* have failed in its parent.
LEMMA LoadedWallets ==
    ASSUME Columns, Lineage, NEW r \in Runs
    PROVE  /\ LoadForJob(r) \subseteq Wallets
           /\ parent[r] # None => LoadForJob(r) \subseteq FailedWallets(parent[r])
           /\ OneKeyEach(LoadForJob(r))
<1>1. ASSUME NEW S, S \subseteq Wallets
      PROVE  OneKeyEach(Deduplicate(S))
  BY <1>1, ConstantFacts DEF Deduplicate, OneKeyEach
<1>2. Deduplicate({w \in within[r] : active[w]}) \subseteq Wallets
         /\ {w \in within[r] : active[w]} \subseteq Wallets
  BY DEF Columns, Deduplicate
<1>3. /\ {w \in FailedWallets(parent[r]) : active[w]} \subseteq Wallets
      /\ Deduplicate({w \in FailedWallets(parent[r]) : active[w]})
            \subseteq FailedWallets(parent[r]) \cap Wallets
  BY DEF Deduplicate, FailedWallets
<1>4. CASE kind[r] = "wallet"
  <2>1. PICK w \in Wallets : within[r] = {w}
    BY <1>4 DEF Lineage, RunLineage
  <2>2. LoadForJob(r) \subseteq {w} /\ parent[r] = None
    BY <1>4, <2>1 DEF LoadForJob, Lineage, RunLineage
  <2>3. QED
    BY <2>2 DEF OneKeyEach
<1>5. CASE kind[r] = "all"
  <2>1. LoadForJob(r) = Deduplicate({w \in within[r] : active[w]}) /\ parent[r] = None
    BY <1>5 DEF LoadForJob, Lineage, RunLineage
  <2>2. QED
    BY <1>1, <1>2, <2>1
<1>6. CASE kind[r] = "failed_chains"
  <2>1. LoadForJob(r) = Deduplicate({w \in FailedWallets(parent[r]) : active[w]})
    BY <1>6 DEF LoadForJob
  <2>2. QED
    BY <1>1, <1>3, <2>1
<1>7. QED
  BY <1>4, <1>5, <1>6 DEF Columns

\* Among natural numbers there is a least one.
LEMMA LeastTime ==
    ASSUME NEW T, T \subseteq Nat, T # {}
    PROVE  \E t \in T : \A u \in T : t <= u
<1>1. PICK t \in T : \A u \in T : ~(<<u, t>> \in OpToRel(<, Nat))
  BY NatLessThanWellFounded, WFMin, Zenon
<1>2. \A u \in T : ~(u < t)
  BY <1>1 DEF OpToRel
<1>3. QED
  BY <1>2

-----------------------------------------------------------------------------
(* The rows of a wallet.                                                   *)

\* What a retry carries and what it collects are the chains of its parent; other
\* wallets are collected on some chain, and have nothing to carry.
LEMMA CarriedFacts ==
    ASSUME Inv, NEW r \in Runs, NEW w \in Wallets, w \in todo[r]
    PROVE  /\ Carried(r, w) \cap ToCollect(r, w) = {}
           /\ Carried(r, w) \cup ToCollect(r, w) # {}
           /\ Carried(r, w) \cup ToCollect(r, w) \subseteq Chains
           /\ \A c \in Carried(r, w) : snap[parent[r]][w].chains[c] \in Observation
           /\ TypeOf[w] \notin {"evm", "solana"} =>
                 Carried(r, w) \cup ToCollect(r, w) = {TypeOf[w]}
           /\ IsRetry(r, w) =>
                 Carried(r, w) \cup ToCollect(r, w) = DOMAIN snap[parent[r]][w].chains
<1> DEFINE before == snap[parent[r]][w].chains
<1>1. status[r] = "running"
  BY DEF Inv, Lineage, RunLineage
<1>2. ASSUME parent[r] # None
      PROVE  /\ WellFormed(w, snap[parent[r]][w])
             /\ FailedChains(snap[parent[r]][w]) # {}
  <2>1. parent[r] \in Runs
    BY <1>2 DEF Inv, Columns
  <2>2. w \in FailedWallets(parent[r])
    BY <2>1 DEF Inv, Lineage, RunLineage
  <2>3. QED
    BY <2>1, <2>2 DEF Inv, Contents, RunContents, FailedWallets
<1>3. ASSUME IsRetry(r, w)
      PROVE  /\ Carried(r, w) \cup ToCollect(r, w) = DOMAIN before
             /\ Carried(r, w) \cap ToCollect(r, w) = {}
             /\ DOMAIN before # {} /\ DOMAIN before \subseteq Chains
             /\ \A c \in Carried(r, w) : before[c] \in Observation
  <2>1. /\ Carried(r, w) = DOMAIN before \ RetryChains(r, w)
        /\ ToCollect(r, w) = RetryChains(r, w)
        /\ RetryChains(r, w) \subseteq FailedChains(snap[parent[r]][w])
        /\ FailedChains(snap[parent[r]][w]) \subseteq DOMAIN before
    BY <1>3 DEF Carried, ToCollect, RetryChains, FailedChains
  <2>2. QED
    BY <1>2, <1>3, <2>1 DEF IsRetry, WellFormed
<1>4. ASSUME ~IsRetry(r, w)
      PROVE  /\ Carried(r, w) = {} /\ ToCollect(r, w) = ChainsFor(r, w)
             /\ ChainsFor(r, w) # {} /\ ChainsFor(r, w) \subseteq Chains
             /\ TypeOf[w] \notin {"evm", "solana"} => ChainsFor(r, w) = {TypeOf[w]}
  BY <1>1, <1>4, ConstantFacts DEF Carried, ToCollect, ChainsFor, Chains, Inv, Columns, Lineage, RunLineage
<1>5. TypeOf[w] \notin {"evm", "solana"} => ~IsRetry(r, w)
  BY DEF IsRetry
<1>6. QED
  BY <1>3, <1>4, <1>5

\* All rows of a wallet are observations, collected or carried.
LEMMA RowFacts ==
    ASSUME Inv, NEW r \in Runs, NEW w \in Wallets, NEW got, NEW S,
           w \in todo[r], got \in Answers(r, w), S \subseteq ToCollect(r, w)
    PROVE  /\ DOMAIN Rows(r, w, S, got) = Carried(r, w) \cup S
           /\ \A c \in DOMAIN Rows(r, w, S, got) : Rows(r, w, S, got)[c] \in Observation
<1>1. \A c \in Carried(r, w) : snap[parent[r]][w].chains[c] \in Observation
  BY CarriedFacts
<1>2. \A c \in S : got[c] \in Observation
  BY DEF Answers
<1>3. DOMAIN Rows(r, w, S, got) = Carried(r, w) \cup S
  BY DEF Rows
<1>4. \A c \in Carried(r, w) \cup S :
         Rows(r, w, S, got)[c] = IF c \in S THEN got[c] ELSE snap[parent[r]][w].chains[c]
  BY DEF Rows, Copy
<1>5. QED
  BY <1>1, <1>2, <1>3, <1>4

\* A wallet's timestamp is one of the readings, and no later than any observation
\* it carries.
LEMMA Finished ==
    ASSUME Inv, NEW r \in Runs, NEW w \in Wallets, NEW t \in Reading, w \in todo[r]
    PROVE  /\ FinishedAt(r, w, t) \in Reading
           /\ \A c \in Carried(r, w) : FinishedAt(r, w, t) <= Copy(r, w, c).at
<1> DEFINE times == {t} \cup {Copy(r, w, c).at : c \in Carried(r, w)}
<1>1. \A c \in Carried(r, w) : Copy(r, w, c).at \in Reading
  BY CarriedFacts DEF Copy, Observation
<1>2. times \subseteq Reading /\ times \subseteq Nat /\ times # {}
  BY <1>1, ConstantFacts DEF Reading
<1>3. \E u \in times : \A v \in times : u <= v
  <2> HIDE DEF times
  <2>1. QED
    BY <1>2, LeastTime
<1>4. FinishedAt(r, w, t) \in times /\ \A v \in times : FinishedAt(r, w, t) <= v
  BY <1>3 DEF FinishedAt
<1>5. \A c \in Carried(r, w) : Copy(r, w, c).at \in times
  OBVIOUS
<1>6. QED
  <2> HIDE DEF times
  <2>1. QED
    BY <1>2, <1>4, <1>5

-----------------------------------------------------------------------------
(* Steps.                                                                  *)

\* Every step keeps the types of the columns.
LEMMA NextColumns ==
    ASSUME Inv, [Next]_vars
    PROVE  Columns'
<1>1. Columns /\ Lineage
  BY DEF Inv
<1> USE DEF rows
<1>2. ASSUME UNCHANGED <<active, enabled, rows, chains, snap, edits>>,
             todo' \in [Runs -> SUBSET Wallets],
             status' \in [Runs -> {"absent", "pending", "running"} \cup Ended]
      PROVE  Columns'
  BY <1>1, <1>2 DEF Columns
<1>3. ASSUME NEW r \in Runs, NEW k \in {"all", "wallet"}, NEW S \in SUBSET Wallets,
             Submit(r, k, S)
      PROVE  Columns'
  BY <1>1, <1>3 DEF Submit, Columns
<1>4. ASSUME NEW r \in Runs, NEW p \in Runs, Retry(r, p)
      PROVE  Columns'
  BY <1>1, <1>4 DEF Retry, Columns
<1>5. ASSUME NEW r \in Runs, Start(r)
      PROVE  Columns'
  <2>1. LoadForJob(r) \subseteq Wallets
    BY <1>1, LoadedWallets
  <2>2. /\ todo' \in [Runs -> SUBSET Wallets]
        /\ chains' \in [Runs -> SUBSET EvmChains]
        /\ status' \in [Runs -> {"absent", "pending", "running"} \cup Ended]
    BY <1>1, <1>5, <2>1 DEF Start, Columns, Ended
  <2>3. QED
    BY <1>1, <1>5, <2>2 DEF Start, Columns
<1>6. ASSUME NEW r \in Runs, NEW w \in todo[r], NEW x,
             snap' = [snap EXCEPT ![r][w] = x],
             UNCHANGED <<active, enabled, rows, chains, edits>>,
             todo' \in [Runs -> SUBSET Wallets],
             status' \in [Runs -> {"absent", "pending", "running"} \cup Ended]
      PROVE  Columns'
  <2>1. w \in Wallets
    BY <1>1 DEF Columns
  <2>2. snap' = [q \in Runs |-> [v \in Wallets |-> snap'[q][v]]]
    BY <1>1, <1>6, <2>1, WriteSnap
  <2>3. QED
    BY <1>1, <1>6, <2>2 DEF Columns
<1>7. ASSUME NEW r \in Runs, NEW w \in todo[r], NEW got, NEW t, ProcessWallet(r, w, got, t)
      PROVE  Columns'
  <2>1. todo' \in [Runs -> SUBSET Wallets]
    BY <1>1, <1>7 DEF ProcessWallet, Columns
  <2>2. QED
    BY <1>1, <1>6, <1>7, <2>1 DEF ProcessWallet, Columns
<1>8. ASSUME NEW r \in Runs, NEW w \in todo[r], NEW S, NEW got, FailWallet(r, w, S, got)
      PROVE  Columns'
  <2>1. /\ todo' \in [Runs -> SUBSET Wallets]
        /\ status' \in [Runs -> {"absent", "pending", "running"} \cup Ended]
    BY <1>1, <1>8 DEF FailWallet, Columns, Ended
  <2>2. QED
    BY <1>6, <1>8, <2>1 DEF FailWallet
<1>9. ASSUME NEW r \in Runs, Abandon(r)
      PROVE  Columns'
  <2>1. /\ todo' \in [Runs -> SUBSET Wallets]
        /\ status' \in [Runs -> {"absent", "pending", "running"} \cup Ended]
    BY <1>1, <1>9 DEF Abandon, Columns, Ended
  <2>2. QED
    BY <1>2, <1>9, <2>1 DEF Abandon
<1>10. ASSUME NEW r \in Runs, Finish(r)
       PROVE  Columns'
  <2>1. \A S : RunStatus(S) \in Ended
    BY DEF RunStatus, Ended
  <2>2. status' \in [Runs -> {"absent", "pending", "running"} \cup Ended]
    BY <1>1, <1>10, <2>1 DEF Finish, Columns
  <2>3. QED
    BY <1>1, <1>2, <1>10, <2>2 DEF Finish, Columns
<1>11. ASSUME NEW w \in Wallets, Toggle(w)
       PROVE  Columns'
  <2>1. active' \in [Wallets -> BOOLEAN]
    BY <1>1, <1>11, Zenon DEF Toggle, Columns
  <2>2. edits' \in 0 .. MaxEdits
    BY <1>1, <1>11, ConstantFacts DEF Toggle, Columns
  <2>3. QED
    BY <1>1, <1>11, <2>1, <2>2 DEF Toggle, Columns
<1>12. ASSUME NEW S \in SUBSET EvmChains, S # {}, Deploy(S)
       PROVE  Columns'
  BY <1>1, <1>12, ConstantFacts DEF Deploy, Columns
<1>13. CASE UNCHANGED vars
  BY <1>1, <1>13 DEF vars, Columns
<1>14. QED
  <2>1. ASSUME NEW r \in Runs, NEW S \in Scopes, Submit(r, "all", S)
        PROVE  Columns'
    BY <1>3, <2>1, ConstantFacts
  <2>2. ASSUME NEW r \in Runs, NEW w \in Wallets, Submit(r, "wallet", {w})
        PROVE  Columns'
    BY <1>3, <2>2
  <2>3. CASE Next
    BY <2>1, <2>2, <1>4, <1>5, <1>7, <1>8, <1>9, <1>10, <1>11, <1>12, <2>3 DEF Next
  <2>4. QED
    BY <1>13, <2>3

-----------------------------------------------------------------------------
(* What a step does to one run.                                            *)

SameRow(q) == kind'[q] = kind[q] /\ within'[q] = within[q] /\ parent'[q] = parent[q]

Same(q) ==
    /\ SameRow(q)
    /\ status'[q] = status[q] /\ chains'[q] = chains[q]
    /\ todo'[q] = todo[q] /\ snap'[q] = snap[q]

Created(q) ==
    /\ status[q] = "absent" /\ status'[q] = "pending"
    /\ chains'[q] = chains[q] /\ todo'[q] = todo[q] /\ snap'[q] = snap[q]
    /\ \/ kind'[q] = "all" /\ parent'[q] = parent[q]
       \/ /\ kind'[q] = "wallet" /\ parent'[q] = parent[q]
          /\ \E w \in Wallets : within'[q] = {w}
       \/ /\ kind'[q] = "failed_chains"
          /\ \E p \in Runs : parent'[q] = p /\ status[p] \in Ended

Started(q) ==
    /\ SameRow(q) /\ status[q] = "pending"
    /\ chains'[q] = enabled /\ todo'[q] = LoadForJob(q) /\ snap'[q] = snap[q]
    /\ status'[q] = IF LoadForJob(q) = {} THEN "failed" ELSE "running"

\* The snapshot x is written for the wallet w, and no other one.
Puts(q, w, x) ==
    \A v \in Wallets : snap'[q][v] = IF v = w THEN x ELSE snap[q][v]

Processed(q) ==
    /\ SameRow(q) /\ status[q] = "running" /\ status'[q] = "running"
    /\ chains'[q] = chains[q]
    /\ \E w \in todo[q] : \E got \in Answers(q, w), t \in Reading :
          /\ todo'[q] = todo[q] \ {w}
          /\ Puts(q, w, [status |-> StatusOf(Rows(q, w, ToCollect(q, w), got)),
                         chains |-> Rows(q, w, ToCollect(q, w), got),
                         finished |-> FinishedAt(q, w, t)])

Broken(q) ==
    /\ SameRow(q) /\ status[q] = "running" /\ status'[q] = "failed"
    /\ chains'[q] = chains[q] /\ todo'[q] = {}
    /\ \E w \in todo[q] : \E got \in Answers(q, w), S \in SUBSET ToCollect(q, w) :
          Puts(q, w, [status |-> "running", chains |-> Rows(q, w, S, got), finished |-> 0])

Closed(q) ==
    /\ SameRow(q) /\ status[q] = "running"
    /\ chains'[q] = chains[q] /\ todo'[q] = {} /\ snap'[q] = snap[q]
    /\ \/ status'[q] = "failed"
       \/ /\ todo[q] = {}
          /\ status'[q] = RunStatus({snap[q][w].status : w \in {v \in Wallets : snap[q][v] # None}})

Change(q) ==
    Same(q) \/ Created(q) \/ Started(q) \/ Processed(q) \/ Broken(q) \/ Closed(q)

\* Every step changes every run in one of these ways, most of them not at all.
LEMMA Changes ==
    ASSUME Inv, [Next]_vars, NEW q \in Runs
    PROVE  Change(q)
<1>1. Columns /\ Lineage
  BY DEF Inv
<1> USE DEF rows, SameRow
<1>2. ASSUME NEW r \in Runs, NEW S, Submit(r, "all", S)
      PROVE  Change(q)
  BY <1>1, <1>2 DEF Submit, NextId, Columns, Change, Same, Created
<1>3. ASSUME NEW r \in Runs, NEW w \in Wallets, Submit(r, "wallet", {w})
      PROVE  Change(q)
  BY <1>1, <1>3 DEF Submit, NextId, Columns, Change, Same, Created
<1>4. ASSUME NEW r \in Runs, NEW p \in Runs, Retry(r, p)
      PROVE  Change(q)
  BY <1>1, <1>4 DEF Retry, NextId, Columns, Change, Same, Created, Ended
<1>5. ASSUME NEW r \in Runs, Start(r)
      PROVE  Change(q)
  BY <1>1, <1>5 DEF Start, Columns, Change, Same, Started
<1>6. ASSUME NEW r \in Runs, NEW w \in todo[r], NEW got \in Answers(r, w), NEW t \in Reading,
             ProcessWallet(r, w, got, t)
      PROVE  Change(q)
  <2> DEFINE x == [status |-> StatusOf(Rows(r, w, ToCollect(r, w), got)),
                   chains |-> Rows(r, w, ToCollect(r, w), got),
                   finished |-> FinishedAt(r, w, t)]
  <2>1. w \in Wallets /\ snap' = [snap EXCEPT ![r][w] = x]
    BY <1>1, <1>6 DEF ProcessWallet, Columns
  <2>2. /\ \A p \in Runs, v \in Wallets :
              snap'[p][v] = IF p = r /\ v = w THEN x ELSE snap[p][v]
        /\ q # r => snap'[q] = snap[q]
    <3> HIDE DEF x
    <3>1. QED
      BY <1>1, <2>1, WriteSnap DEF Columns
  <2>3. CASE q = r
    <3>1. Puts(r, w, x)
      BY <2>2 DEF Puts
    <3>2. /\ SameRow(r) /\ status[r] = "running" /\ status'[r] = "running"
          /\ chains'[r] = chains[r] /\ todo'[r] = todo[r] \ {w}
      BY <1>1, <1>6 DEF ProcessWallet, Turn, Columns
    <3>3. QED
      BY <2>3, <3>1, <3>2 DEF Change, Processed
  <2>4. CASE q # r
    BY <1>1, <1>6, <2>2, <2>4 DEF ProcessWallet, Columns, Change, Same
  <2>5. QED
    BY <2>3, <2>4
<1>7. ASSUME NEW r \in Runs, NEW w \in todo[r], NEW got \in Answers(r, w),
             NEW S, FailWallet(r, w, S, got)
      PROVE  Change(q)
  <2> DEFINE x == [status |-> "running", chains |-> Rows(r, w, S, got), finished |-> 0]
  <2>0. S \in SUBSET ToCollect(r, w)
    BY <1>7 DEF FailWallet, Written, UpTo
  <2>1. w \in Wallets /\ snap' = [snap EXCEPT ![r][w] = x]
    BY <1>1, <1>7 DEF FailWallet, Columns
  <2>2. /\ \A p \in Runs, v \in Wallets :
              snap'[p][v] = IF p = r /\ v = w THEN x ELSE snap[p][v]
        /\ q # r => snap'[q] = snap[q]
    <3> HIDE DEF x
    <3>1. QED
      BY <1>1, <2>1, WriteSnap DEF Columns
  <2>3. CASE q = r
    <3>1. Puts(r, w, x)
      BY <2>2 DEF Puts
    <3>2. /\ SameRow(r) /\ status[r] = "running" /\ status'[r] = "failed"
          /\ chains'[r] = chains[r] /\ todo'[r] = {}
      BY <1>1, <1>7 DEF FailWallet, Turn, Columns
    <3>3. QED
      BY <2>0, <2>3, <3>1, <3>2 DEF Change, Broken
  <2>4. CASE q # r
    BY <1>1, <1>7, <2>2, <2>4 DEF FailWallet, Columns, Change, Same
  <2>5. QED
    BY <2>3, <2>4
<1>8. ASSUME NEW r \in Runs, Abandon(r)
      PROVE  Change(q)
  BY <1>1, <1>8 DEF Abandon, Columns, Change, Same, Closed
<1>9. ASSUME NEW r \in Runs, Finish(r)
      PROVE  Change(q)
  <2> DEFINE verdict == RunStatus({snap[r][w].status : w \in {v \in Wallets : snap[r][v] # None}})
  <2>1. status' = [status EXCEPT ![r] = verdict]
    BY <1>9 DEF Finish
  <2>2. status'[r] = verdict /\ (q # r => status'[q] = status[q])
    <3> HIDE DEF verdict
    <3>1. QED
      BY <1>1, <2>1 DEF Columns
  <2>3. CASE q = r
    BY <1>9, <2>2, <2>3 DEF Finish, Change, Closed
  <2>4. CASE q # r
    BY <1>9, <2>2, <2>4 DEF Finish, Change, Same
  <2>5. QED
    BY <2>3, <2>4
<1>10. ASSUME NEW w \in Wallets, Toggle(w)
       PROVE  Change(q)
  BY <1>10 DEF Toggle, Change, Same
<1>11. ASSUME NEW S, Deploy(S)
       PROVE  Change(q)
  BY <1>11 DEF Deploy, Change, Same
<1>12. ASSUME UNCHANGED vars
       PROVE  Change(q)
  BY <1>12 DEF vars, Change, Same
<1>13. QED
  <2>1. CASE Next
    BY <1>2, <1>3, <1>4, <1>5, <1>6, <1>7, <1>8, <1>9, <1>10, <1>11, <2>1 DEF Next
  <2>2. QED
    BY <1>12, <2>1

\* What an ended run shows never changes.
LEMMA EndedStays ==
    ASSUME NEW q \in Runs, Change(q), status[q] \in Ended
    PROVE  status'[q] = status[q] /\ snap'[q] = snap[q] /\ todo'[q] = todo[q] /\ parent'[q] = parent[q]
BY DEF Change, Same, SameRow, Created, Started, Processed, Broken, Closed, Ended

-----------------------------------------------------------------------------
(* The invariant is kept.                                                  *)

\* What is loaded only shrinks after the start.
LEMMA LoadedNext ==
    ASSUME Inv, NEW q \in Runs, Change(q)
    PROVE  /\ Started(q) => Loaded(q)' = LoadForJob(q)
           /\ ~Started(q) => Loaded(q)' \subseteq Loaded(q)
<1>1. Columns /\ RunLineage(q)
  BY DEF Inv, Lineage
<1>2. CASE Same(q) \/ Created(q) \/ Closed(q)
  BY <1>1, <1>2 DEF Same, Created, Closed, Started, Loaded
<1>3. CASE Started(q)
  BY <1>1, <1>3 DEF Started, Loaded, RunLineage
<1>4. CASE Processed(q)
  <2>1. PICK w \in todo[q] : \A v \in Wallets : v # w => snap'[q][v] = snap[q][v]
    BY <1>4 DEF Processed, Puts
  <2>2. todo'[q] \subseteq todo[q] /\ status[q] = "running"
    BY <1>4 DEF Processed
  <2>3. QED
    BY <2>1, <2>2 DEF Loaded, Started
<1>5. CASE Broken(q)
  <2>1. PICK w \in todo[q] : \A v \in Wallets : v # w => snap'[q][v] = snap[q][v]
    BY <1>5 DEF Broken, Puts
  <2>2. todo'[q] = {} /\ status[q] = "running"
    BY <1>5 DEF Broken
  <2>3. QED
    BY <2>1, <2>2 DEF Loaded, Started
<1>6. QED
  BY <1>2, <1>3, <1>4, <1>5 DEF Change

LEMMA LineageNext ==
    ASSUME Inv, [Next]_vars
    PROVE  Lineage'
<1> SUFFICES ASSUME NEW q \in Runs PROVE RunLineage(q)'
  BY DEF Lineage
<1>1. \A p \in Runs : Change(p)
  BY Changes
<1>2. Columns /\ Lineage /\ RunLineage(q)
  BY DEF Inv, Lineage
<1>3. \A p \in Runs : status[p] \in Ended =>
         status'[p] \in Ended /\ snap'[p] = snap[p]
  BY <1>1, EndedStays
<1>4. /\ Started(q) => Loaded(q)' = LoadForJob(q)
      /\ ~Started(q) => Loaded(q)' \subseteq Loaded(q)
  BY <1>1, LoadedNext
<1>5. /\ LoadForJob(q) \subseteq Wallets
      /\ parent[q] # None => LoadForJob(q) \subseteq FailedWallets(parent[q])
      /\ OneKeyEach(LoadForJob(q))
  BY <1>2, LoadedWallets
<1>6. OneKeyEach(Loaded(q)')
  BY <1>2, <1>4, <1>5 DEF RunLineage, OneKeyEach
<1>7. /\ (status[q] = "absent" => kind[q] = "all" /\ parent[q] = None)'
      /\ (kind[q] = "failed_chains" <=> parent[q] # None)'
      /\ (kind[q] = "wallet" => \E w \in Wallets : within[q] = {w})'
  <2>1. CASE Created(q)
    <3>1. parent[q] = None
      BY <1>2, <2>1 DEF RunLineage, Created
    <3>2. status'[q] = "pending"
      BY <2>1 DEF Created
    <3>3. QED
      BY <2>1, <3>1, <3>2, ConstantFacts DEF Created
  <2>2. CASE ~Created(q)
    <3>1. SameRow(q)
      BY <1>1, <2>2 DEF Change, Same, Started, Processed, Broken, Closed
    <3>2. status'[q] = "absent" => status[q] = "absent"
      BY <1>1, <2>2 DEF Change, Same, Started, Processed, Broken, Closed, RunStatus
    <3>3. QED
      BY <1>2, <3>1, <3>2 DEF SameRow, RunLineage
  <2>3. QED
    BY <2>1, <2>2
<1>8. /\ (status[q] \in {"absent", "pending"} => Loaded(q) = {})'
  <2>1. status'[q] \in {"absent", "pending"} => ~Started(q) /\ status[q] \in {"absent", "pending"}
    BY <1>1 DEF Change, Same, Created, Started, Processed, Broken, Closed, RunStatus
  <2>2. QED
    BY <1>2, <1>4, <2>1 DEF RunLineage
<1>9. /\ (todo[q] # {} => status[q] = "running")'
      /\ (status[q] = "running" => chains[q] # {})'
  BY <1>1, <1>2
     DEF RunLineage, Columns, Change, Same, Created, Started, Processed, Broken, Closed, RunStatus
<1>10. ASSUME NEW p \in Runs, parent'[q] = p
       PROVE  /\ status'[p] \in Ended
              /\ todo'[q] \subseteq FailedWallets(p)'
  <2>1. FailedWallets(p)' = FailedWallets(p) \/ status[p] \notin Ended
    BY <1>3 DEF FailedWallets
  <2>2. CASE Created(q)
    <3>1. status[p] \in Ended /\ todo'[q] = {}
      BY <1>2, <1>10, <2>2, ConstantFacts DEF Created, RunLineage, Loaded
    <3>2. QED
      BY <1>3, <3>1
  <2>3. CASE ~Created(q)
    <3>1. parent[q] = p
      BY <1>1, <1>10, <2>3 DEF Change, Same, SameRow, Started, Processed, Broken, Closed
    <3>2. status[p] \in Ended /\ todo[q] \subseteq FailedWallets(p) /\ p # None
      BY <1>2, <3>1, ConstantFacts DEF RunLineage
    <3>3. todo'[q] \subseteq FailedWallets(p)
      BY <1>1, <1>5, <2>3, <3>1, <3>2
         DEF Change, Same, Started, Processed, Broken, Closed
    <3>4. QED
      BY <1>3, <2>1, <3>2, <3>3
  <2>4. QED
    BY <2>2, <2>3
<1>11. QED
  BY <1>6, <1>7, <1>8, <1>9, <1>10 DEF RunLineage

\* What a worker writes is well-formed, whether it gets to the end or not.
LEMMA WrittenWellFormed ==
    ASSUME Inv, NEW r \in Runs, NEW w \in todo[r], NEW got \in Answers(r, w),
           NEW S \in SUBSET ToCollect(r, w), NEW t \in Reading
    PROVE  /\ WellFormed(w, [status |-> StatusOf(Rows(r, w, ToCollect(r, w), got)),
                             chains |-> Rows(r, w, ToCollect(r, w), got),
                             finished |-> FinishedAt(r, w, t)])
           /\ StatusOf(Rows(r, w, ToCollect(r, w), got)) \in Ended
           /\ WellFormed(w, [status |-> "running", chains |-> Rows(r, w, S, got), finished |-> 0])
<1> DEFINE all == Rows(r, w, ToCollect(r, w), got)
<1>1. w \in Wallets /\ MaxTime \in Nat
  BY ConstantFacts DEF Inv, Columns
<1>2. /\ Carried(r, w) \cup ToCollect(r, w) # {}
      /\ Carried(r, w) \cup ToCollect(r, w) \subseteq Chains
      /\ TypeOf[w] \notin {"evm", "solana"} => Carried(r, w) \cup ToCollect(r, w) = {TypeOf[w]}
  BY <1>1, CarriedFacts
<1>3. /\ DOMAIN all = Carried(r, w) \cup ToCollect(r, w)
      /\ \A c \in DOMAIN all : all[c] \in Observation
  BY <1>1, RowFacts
<1>4. /\ DOMAIN Rows(r, w, S, got) = Carried(r, w) \cup S
      /\ \A c \in DOMAIN Rows(r, w, S, got) : Rows(r, w, S, got)[c] \in Observation
  BY <1>1, RowFacts
<1>5. FinishedAt(r, w, t) \in Reading /\ 0 \in Reading
  BY <1>1, Finished DEF Reading
<1>6. StatusOf(all) \in Ended
  BY DEF StatusOf, Ended
<1>7. WellFormed(w, [status |-> StatusOf(all), chains |-> all, finished |-> FinishedAt(r, w, t)])
  <2> HIDE DEF all
  <2>1. QED
    BY <1>2, <1>3, <1>5, <1>6 DEF WellFormed, WalletStatus, Ended
<1>8. WellFormed(w, [status |-> "running", chains |-> Rows(r, w, S, got), finished |-> 0])
  BY <1>2, <1>4, <1>5 DEF WellFormed, WalletStatus
<1>9. QED
  BY <1>6, <1>7, <1>8

LEMMA ContentsNext ==
    ASSUME Inv, [Next]_vars
    PROVE  Contents'
<1> SUFFICES ASSUME NEW q \in Runs PROVE RunContents(q)'
  BY DEF Contents
<1>1. Change(q)
  BY Changes
<1>2. RunContents(q) /\ RunLineage(q)
  BY DEF Inv, Contents, Lineage
<1>3. CASE Same(q) \/ Created(q) \/ Closed(q)
  BY <1>2, <1>3 DEF RunContents, Same, Created, Closed, RunStatus, WellFormed
<1>4. CASE Started(q)
  BY <1>2, <1>4 DEF RunLineage, RunContents, Loaded, Started, WellFormed
<1>5. CASE Processed(q)
  <2>0. PICK w \in todo[q] : \E got \in Answers(q, w), t \in Reading :
           Puts(q, w, [status |-> StatusOf(Rows(q, w, ToCollect(q, w), got)),
                       chains |-> Rows(q, w, ToCollect(q, w), got),
                       finished |-> FinishedAt(q, w, t)])
    BY <1>5 DEF Processed
  <2>1. PICK got \in Answers(q, w), t \in Reading :
           Puts(q, w, [status |-> StatusOf(Rows(q, w, ToCollect(q, w), got)),
                       chains |-> Rows(q, w, ToCollect(q, w), got),
                       finished |-> FinishedAt(q, w, t)])
    BY <2>0
  <2> DEFINE x == [status |-> StatusOf(Rows(q, w, ToCollect(q, w), got)),
                   chains |-> Rows(q, w, ToCollect(q, w), got),
                   finished |-> FinishedAt(q, w, t)]
  <2>2. WellFormed(w, x) /\ x.status \in Ended
    BY WrittenWellFormed
  <2>3. status[q] = "running"
    BY <1>5 DEF Processed
  <2>4. QED
    <3> HIDE DEF x
    <3>1. \A v \in Wallets : snap'[q][v] = IF v = w THEN x ELSE snap[q][v]
      BY <2>1 DEF x, Puts
    <3>2. QED
      BY <1>2, <2>2, <2>3, <3>1 DEF RunContents, Ended, WellFormed
<1>6. CASE Broken(q)
  <2>0. PICK w \in todo[q] : \E got \in Answers(q, w), S \in SUBSET ToCollect(q, w) :
           Puts(q, w, [status |-> "running", chains |-> Rows(q, w, S, got), finished |-> 0])
    BY <1>6 DEF Broken
  <2>1. PICK got \in Answers(q, w), S \in SUBSET ToCollect(q, w) :
           Puts(q, w, [status |-> "running", chains |-> Rows(q, w, S, got), finished |-> 0])
    BY <2>0
  <2> DEFINE x == [status |-> "running", chains |-> Rows(q, w, S, got), finished |-> 0]
  <2>2. WellFormed(w, x)
    <3>1. 0 \in Reading
      BY ConstantFacts DEF Reading
    <3> HIDE DEF x
    <3>2. \A t \in Reading : WellFormed(w, x)
      BY WrittenWellFormed DEF x
    <3>3. QED
      BY <3>1, <3>2
  <2>3. status'[q] = "failed"
    BY <1>6 DEF Broken
  <2>4. QED
    <3> HIDE DEF x
    <3>1. \A v \in Wallets : snap'[q][v] = IF v = w THEN x ELSE snap[q][v]
      BY <2>1 DEF x, Puts
    <3>2. QED
      BY <1>2, <2>2, <2>3, <3>1 DEF RunContents, WellFormed
<1>7. QED
  BY <1>1, <1>3, <1>4, <1>5, <1>6 DEF Change

LEMMA InvInit == Init => Inv
<1> SUFFICES ASSUME Init PROVE Inv
  OBVIOUS
<1>1. Columns
  BY ConstantFacts DEF Init, Columns
<1>2. Lineage
  BY ConstantFacts DEF Init, Lineage, RunLineage, Loaded, OneKeyEach
<1>3. Contents
  BY DEF Init, Contents, RunContents
<1>4. QED
  BY <1>1, <1>2, <1>3 DEF Inv

LEMMA InvAlways == Spec => []Inv
<1>1. Inv /\ [Next]_vars => Inv'
  BY NextColumns, LineageNext, ContentsNext DEF Inv
<1>2. QED
  BY InvInit, <1>1, PTL DEF Spec

-----------------------------------------------------------------------------
(* Theorems.                                                               *)

\* Every column of every row has its type, in every reachable state.
THEOREM TypeCorrect == Spec => []TypeOK
<1>1. Inv => TypeOK
  <2>1. SUFFICES ASSUME Inv PROVE TypeOK
    OBVIOUS
  <2>2. Columns /\ \A r \in Runs : RunContents(r)
    BY <2>1 DEF Inv, Contents
  <2>3. QED
    BY <2>2 DEF TypeOK, Columns, RunContents, WellFormed
<1>2. QED
  BY InvAlways, <1>1, PTL

\* No run collects one on-chain address for two wallets: neither load_for_job nor
\* a retry's selection lets two of them in, and nothing is loaded later.
THEOREM AddressesAreUnique == Spec => []OneWalletPerAddress
<1>1. Inv => OneWalletPerAddress
  <2>1. SUFFICES ASSUME Inv, NEW r \in Runs, NEW v \in Wallets, NEW w \in Wallets,
                        snap[r][v] # None, snap[r][w] # None,
                        AddressKey(v) = AddressKey(w)
                 PROVE  v = w
    BY DEF OneWalletPerAddress
  <2>2. OneKeyEach(Loaded(r))
    BY <2>1 DEF Inv, Lineage, RunLineage
  <2>3. v \in Loaded(r) /\ w \in Loaded(r)
    BY <2>1 DEF Loaded
  <2>4. QED
    BY <2>1, <2>2, <2>3 DEF OneKeyEach
<1>2. QED
  BY InvAlways, <1>1, PTL

\* The rows _process_wallet writes for a wallet of a retry: the parent's chains,
\* and its successes as they were.
LEMMA CarriedOver ==
    ASSUME Inv, NEW r \in Runs, NEW w \in todo[r], NEW got \in Answers(r, w),
           parent[r] # None
    PROVE  LET before == snap[parent[r]][w].chains
               all == Rows(r, w, ToCollect(r, w), got)
           IN  /\ DOMAIN all = DOMAIN before
               /\ \A c \in DOMAIN before : before[c].ok => all[c] = before[c]
<1> DEFINE before == snap[parent[r]][w].chains
<1> DEFINE all == Rows(r, w, ToCollect(r, w), got)
<1>1. w \in Wallets /\ parent[r] \in Runs
  BY DEF Inv, Columns
<1>2. w \in FailedWallets(parent[r])
  BY <1>1 DEF Inv, Lineage, RunLineage
<1>3. /\ FailedChains(snap[parent[r]][w]) # {}
      /\ WellFormed(w, snap[parent[r]][w])
  BY <1>1, <1>2 DEF FailedWallets, Inv, Contents, RunContents
<1>4. DOMAIN all = Carried(r, w) \cup ToCollect(r, w)
  BY DEF Rows
<1>5. CASE IsRetry(r, w)
  <2>1. /\ Carried(r, w) \cup ToCollect(r, w) = DOMAIN before
        /\ ToCollect(r, w) \subseteq FailedChains(snap[parent[r]][w])
    BY <1>1, <1>5, CarriedFacts DEF ToCollect, RetryChains
  <2>2. \A c \in DOMAIN before : before[c].ok => c \notin ToCollect(r, w)
    BY <2>1 DEF FailedChains
  <2>3. \A c \in DOMAIN all : c \notin ToCollect(r, w) => all[c] = before[c]
    BY <1>4 DEF Rows, Copy
  <2>4. QED
    BY <1>4, <2>1, <2>2, <2>3
<1>6. CASE ~IsRetry(r, w)
  <2>1. TypeOf[w] \notin {"evm", "solana"}
    BY <1>6 DEF IsRetry
  <2>2. DOMAIN before \subseteq {TypeOf[w]} /\ DOMAIN all = {TypeOf[w]}
    BY <1>1, <1>3, <1>4, <2>1, CarriedFacts DEF WellFormed
  <2>3. DOMAIN before = {TypeOf[w]} /\ ~before[TypeOf[w]].ok
    BY <1>3, <2>2 DEF FailedChains
  <2>4. QED
    BY <2>2, <2>3
<1>7. QED
  BY <1>5, <1>6

\* A retry shows its parent's chains, with every success as it was observed then:
\* the parent has ended and stays as it is, and what was written stays too.
THEOREM SuccessesAreCarried == Spec => []RetryCarriesTheRest
<1>1. Init => RetryCarriesTheRest
  BY DEF Init, RetryCarriesTheRest
<1>2. RetryCarriesTheRest /\ Inv /\ [Next]_vars => RetryCarriesTheRest'
  <2> SUFFICES ASSUME RetryCarriesTheRest, Inv, [Next]_vars,
                      NEW q \in Runs, NEW w \in Wallets,
                      parent'[q] # None, snap'[q][w] # None, snap'[q][w].status # "running"
               PROVE  LET before == snap'[parent'[q]][w].chains
                          after == snap'[q][w].chains
                      IN  /\ DOMAIN after = DOMAIN before
                          /\ \A c \in DOMAIN before : before[c].ok => after[c] = before[c]
    BY DEF RetryCarriesTheRest, Complete
  <2>1. Change(q) /\ \A p \in Runs : Change(p)
    BY Changes
  <2>2. ~Created(q)
    <3>1. RunLineage(q)'
      BY LineageNext DEF Lineage
    <3>2. snap'[q][w] # None => Loaded(q)' # {}
      BY DEF Loaded
    <3>3. QED
      BY <3>1, <3>2 DEF Created, RunLineage
  <2>3. parent'[q] = parent[q]
    BY <2>1, <2>2 DEF Change, Same, SameRow, Started, Processed, Broken, Closed
  <2>4. parent[q] \in Runs /\ status[parent[q]] \in Ended
    BY <2>3 DEF Inv, Columns, Lineage, RunLineage
  <2>5. snap'[parent'[q]] = snap[parent[q]]
    BY <2>1, <2>3, <2>4, EndedStays
  <2>6. CASE snap'[q][w] = snap[q][w]
    BY <2>3, <2>5, <2>6 DEF RetryCarriesTheRest, Complete
  <2>7. CASE Processed(q)
    <3>1. PICK u \in todo[q] : \E got \in Answers(q, u), t \in Reading :
             Puts(q, u, [status |-> StatusOf(Rows(q, u, ToCollect(q, u), got)),
                         chains |-> Rows(q, u, ToCollect(q, u), got),
                         finished |-> FinishedAt(q, u, t)])
      BY <2>7 DEF Processed
    <3>2. PICK got \in Answers(q, u), t \in Reading :
             Puts(q, u, [status |-> StatusOf(Rows(q, u, ToCollect(q, u), got)),
                         chains |-> Rows(q, u, ToCollect(q, u), got),
                         finished |-> FinishedAt(q, u, t)])
      BY <3>1
    <3>3. CASE w = u
      <4>1. snap'[q][w].chains = Rows(q, u, ToCollect(q, u), got)
        BY <3>2, <3>3 DEF Puts
      <4>2. QED
        BY <2>3, <2>5, <3>3, <4>1, CarriedOver
    <3>4. CASE w # u
      BY <2>6, <3>2, <3>4 DEF Puts
    <3>5. QED
      BY <3>3, <3>4
  <2>8. CASE Broken(q)
    <3>1. PICK u \in todo[q] : \E got \in Answers(q, u), S \in SUBSET ToCollect(q, u) :
             Puts(q, u, [status |-> "running", chains |-> Rows(q, u, S, got), finished |-> 0])
      BY <2>8 DEF Broken
    <3>2. w # u /\ snap'[q][w] = snap[q][w]
      BY <3>1 DEF Puts
    <3>3. QED
      BY <2>6, <3>2
  <2>9. QED
    BY <2>1, <2>2, <2>6, <2>7, <2>8 DEF Change, Same, Started, Closed
<1>3. QED
  BY InvAlways, <1>1, <1>2, PTL DEF Spec

\* A run's verdict is the one its wallets and chains give: success means that all
\* of it succeeded, and partial success that there is something to show and
\* something to retry.
RunVerdict(r) ==
    /\ status[r] = "success" =>
          \A w \in Wallets : snap[r][w] # None =>
              snap[r][w].status = "success" /\ FailedChains(snap[r][w]) = {}
    /\ status[r] = "partial_success" =>
          /\ FailedWallets(r) # {}
          /\ \E w \in Wallets : snap[r][w] # None /\
                \E c \in DOMAIN snap[r][w].chains : snap[r][w].chains[c].ok

THEOREM VerdictsAreReadable == Spec => []VerdictMatchesChains
<1>1. VerdictMatchesChains <=> \A r \in Runs : RunVerdict(r)
  BY DEF VerdictMatchesChains, RunVerdict
<1>2. Init => \A r \in Runs : RunVerdict(r)
  BY DEF Init, RunVerdict
<1>3. (\A r \in Runs : RunVerdict(r)) /\ Inv /\ [Next]_vars => (\A r \in Runs : RunVerdict(r))'
  <2> SUFFICES ASSUME \A r \in Runs : RunVerdict(r), Inv, [Next]_vars, NEW q \in Runs
               PROVE  RunVerdict(q)'
    OBVIOUS
  <2>1. Change(q) /\ RunVerdict(q) /\ RunContents(q)
    BY Changes DEF Inv, Contents
  <2>2. CASE status[q] \in Ended
    <3>1. status'[q] = status[q] /\ snap'[q] = snap[q]
      BY <2>1, <2>2, EndedStays
    <3>2. FailedWallets(q)' = FailedWallets(q)
      BY <3>1 DEF FailedWallets
    <3>3. QED
      BY <2>1, <3>1, <3>2 DEF RunVerdict
  <2>3. CASE status[q] \notin Ended /\ Closed(q)
    <3> DEFINE mine == {v \in Wallets : snap[q][v] # None}
    <3> DEFINE found == {snap[q][w].status : w \in mine}
    <3>1. snap'[q] = snap[q] /\ (status'[q] = "failed" \/ status'[q] = RunStatus(found))
      BY <2>3 DEF Closed
    <3>2. \A w \in mine : /\ snap[q][w].status = StatusOf(snap[q][w].chains)
                           /\ DOMAIN snap[q][w].chains # {}
      BY <2>1, <2>3 DEF RunContents, WellFormed, Closed
    <3>3. \A w \in mine : snap[q][w].status = "success" <=> FailedChains(snap[q][w]) = {}
      BY <3>2 DEF StatusOf, FailedChains
    <3>4. \A w \in mine : snap[q][w].status \in {"success", "partial_success"} =>
             \E c \in DOMAIN snap[q][w].chains : snap[q][w].chains[c].ok
      BY <3>2 DEF StatusOf
    <3>5. FailedWallets(q)' = FailedWallets(q)
      BY <3>1 DEF FailedWallets
    <3>6. ASSUME status'[q] = "success"
          PROVE  \A w \in mine : snap[q][w].status = "success"
      BY <3>1, <3>6 DEF RunStatus
    <3>7. ASSUME status'[q] = "partial_success"
          PROVE  /\ \E w \in mine : snap[q][w].status # "success"
                 /\ \E w \in mine : snap[q][w].status \in {"success", "partial_success"}
      BY <3>1, <3>7 DEF RunStatus
    <3>8. ASSUME status'[q] = "partial_success"
          PROVE  FailedWallets(q) # {}
      BY <3>3, <3>7, <3>8 DEF FailedWallets
    <3>9. QED
      BY <3>1, <3>3, <3>4, <3>5, <3>6, <3>7, <3>8 DEF RunVerdict
  <2>4. CASE status[q] \notin Ended /\ ~Closed(q)
    <3>1. status'[q] \notin {"success", "partial_success"}
      BY <2>1, <2>4 DEF Change, Same, Created, Started, Processed, Broken, Ended
    <3>2. QED
      BY <3>1 DEF RunVerdict
  <2>5. QED
    BY <2>2, <2>3, <2>4
<1>4. QED
  BY InvAlways, <1>1, <1>2, <1>3, PTL DEF Spec

\* Every address has an oldest active wallet, and that is the one load_for_job
\* keeps: deduplication leaves no address out.
LEMMA OldestIsKept ==
    ASSUME NEW S, S \subseteq Wallets, NEW w \in S
    PROVE  \E v \in Deduplicate(S) : v <= w /\ SameAddress(v, w)
<1> DEFINE alike == {v \in S : AddressKey(v) = AddressKey(w)}
<1>1. alike \subseteq Nat /\ w \in alike
  BY ConstantFacts
<1>2. PICK v \in alike : \A u \in alike : v <= u
  <2> HIDE DEF alike
  <2>1. QED
    BY <1>1, LeastTime
<1>3. v \in Deduplicate(S) /\ v <= w
  BY <1>1, <1>2 DEF Deduplicate
<1>4. SameAddress(v, w)
  <2>1. AddressKey(v) = AddressKey(w)
    BY <1>2
  <2>2. QED
    BY <2>1 DEF AddressKey, SameAddress
<1>5. QED
  BY <1>3, <1>4

\* A run of a user or a group leaves no active wallet's address out.
THEOREM AllAddressesAreLoaded == Spec => NoAddressLeftOut
<1> DEFINE Loads(r) ==
        status[r] = "pending" /\ status'[r] # "pending" /\ kind[r] = "all" =>
            \A w \in within[r] : active[w] =>
                \E v \in todo'[r] : v <= w /\ SameAddress(v, w)
<1>1. Inv /\ [Next]_vars => \A r \in Runs : Loads(r)
  <2> SUFFICES ASSUME Inv, [Next]_vars, NEW r \in Runs,
                      status[r] = "pending", status'[r] # "pending", kind[r] = "all",
                      NEW w \in within[r], active[w]
               PROVE  \E v \in todo'[r] : v <= w /\ SameAddress(v, w)
    OBVIOUS
  <2> DEFINE S == {v \in within[r] : active[v]}
  <2>1. Started(r)
    BY Changes DEF Change, Same, Created, Processed, Broken, Closed
  <2>2. todo'[r] = Deduplicate(S)
    BY <2>1 DEF Started, LoadForJob
  <2>3. S \subseteq Wallets /\ w \in S
    BY DEF Inv, Columns
  <2>4. QED
    BY <2>2, <2>3, OldestIsKept
<1>2. Inv /\ [Next]_vars => [\A r \in Runs : Loads(r)]_vars
  BY <1>1
<1>3. QED
  BY InvAlways, <1>2, PTL DEF Spec, NoAddressLeftOut

-----------------------------------------------------------------------------
(* What is committed stands, and the records shared with the job queue.    *)

\* A running run has loaded a wallet, and writes each of its wallets once; a retry
\* writes only wallets its parent has.
RunProgress(r) ==
    /\ status[r] = "running" => Loaded(r) # {}
    /\ \A w \in todo[r] : snap[r][w] = None
    /\ parent[r] # None =>
          \A w \in Wallets : snap[r][w] # None => snap[parent[r]][w] # None

Progress == \A r \in Runs : RunProgress(r)

\* What a worker writes for a wallet is a row.
LEMMA WrittenIsNotNull ==
    ASSUME Inv, NEW r \in Runs, NEW w \in todo[r], NEW got \in Answers(r, w),
           NEW S \in SUBSET ToCollect(r, w), NEW s \in WalletStatus, NEW t \in Reading
    PROVE  [status |-> s, chains |-> Rows(r, w, S, got), finished |-> t] # None
<1>1. w \in Wallets
  BY DEF Inv, Columns
<1>2. /\ DOMAIN Rows(r, w, S, got) = Carried(r, w) \cup S
      /\ \A c \in DOMAIN Rows(r, w, S, got) : Rows(r, w, S, got)[c] \in Observation
  BY <1>1, RowFacts
<1>3. Carried(r, w) \cup S \subseteq Chains
  BY <1>1, CarriedFacts
<1>4. Rows(r, w, S, got) \in [Carried(r, w) \cup S -> Observation]
  BY <1>2 DEF Rows
<1>5. QED
  BY <1>3, <1>4, NoneAssumption DEF WalletSnapshot

\* Every step keeps the runs' progress: what a run writes leaves what it has to do.
LEMMA ProgressNext ==
    ASSUME Inv, Progress, [Next]_vars
    PROVE  Progress'
<1> SUFFICES ASSUME NEW q \in Runs PROVE RunProgress(q)'
  BY DEF Progress
<1>1. Change(q) /\ RunProgress(q) /\ RunLineage(q) /\ Columns
  BY Changes DEF Progress, Inv, Lineage
<1> DEFINE Before == parent'[q] # None =>
        \A w \in Wallets : snap'[q][w] # None => snap'[parent'[q]][w] # None
<1>0. Before
  <2> SUFFICES ASSUME parent'[q] # None, NEW w \in Wallets, snap'[q][w] # None
               PROVE  snap'[parent'[q]][w] # None
    OBVIOUS
  <2>1. ~Created(q)
    BY <1>1 DEF Created, RunLineage, Loaded
  <2>2. parent'[q] = parent[q] /\ parent[q] \in Runs
    BY <1>1, <2>1 DEF Change, Same, SameRow, Started, Processed, Broken, Closed, Columns
  <2>3. /\ status[parent[q]] \in Ended /\ snap'[parent[q]] = snap[parent[q]]
        /\ todo[q] \subseteq FailedWallets(parent[q])
    BY <1>1, <2>2, Changes, EndedStays DEF RunLineage
  <2>4. snap[q][w] # None \/ w \in todo[q]
    BY <1>1, <2>1 DEF Change, Same, Started, Processed, Broken, Closed, Puts
  <2>5. QED
    BY <1>1, <2>2, <2>3, <2>4 DEF RunProgress, FailedWallets
<1> HIDE DEF Before
<1>2. CASE Same(q) \/ Created(q)
  <2>1. /\ status'[q] = "running" => Loaded(q)' # {}
        /\ \A w \in todo'[q] : snap'[q][w] = None
    BY <1>1, <1>2 DEF Same, Created, RunProgress, Loaded
  <2>2. QED
    BY <1>0, <2>1 DEF RunProgress, Before
<1>3. CASE Started(q)
  <2>1. Loaded(q) = {} /\ todo'[q] = LoadForJob(q) /\ snap'[q] = snap[q]
        /\ (status'[q] = "running" => LoadForJob(q) # {})
    BY <1>1, <1>3 DEF Started, RunLineage
  <2>2. LoadForJob(q) \subseteq Wallets
    BY <1>1, LoadedWallets DEF Inv
  <2>3. QED
    BY <1>0, <2>1, <2>2 DEF RunProgress, Loaded, Before
<1>4. CASE Processed(q)
  <2>1. PICK w \in todo[q] : \E got \in Answers(q, w), t \in Reading :
           /\ todo'[q] = todo[q] \ {w}
           /\ Puts(q, w, [status |-> StatusOf(Rows(q, w, ToCollect(q, w), got)),
                          chains |-> Rows(q, w, ToCollect(q, w), got),
                          finished |-> FinishedAt(q, w, t)])
    BY <1>4 DEF Processed
  <2>2. w \in Wallets
    BY <1>1, <2>1 DEF Columns
  <2>3. snap'[q][w] # None /\ (\A v \in Wallets : v # w => snap'[q][v] = snap[q][v])
    <3>1. PICK got \in Answers(q, w), t \in Reading :
             Puts(q, w, [status |-> StatusOf(Rows(q, w, ToCollect(q, w), got)),
                         chains |-> Rows(q, w, ToCollect(q, w), got),
                         finished |-> FinishedAt(q, w, t)])
      BY <2>1
    <3> DEFINE x == [status |-> StatusOf(Rows(q, w, ToCollect(q, w), got)),
                     chains |-> Rows(q, w, ToCollect(q, w), got),
                     finished |-> FinishedAt(q, w, t)]
    <3>2. x # None
      <4>1. StatusOf(Rows(q, w, ToCollect(q, w), got)) \in WalletStatus
        BY DEF StatusOf, WalletStatus
      <4>2. FinishedAt(q, w, t) \in Reading
        BY <2>2, Finished
      <4>3. QED
        BY <4>1, <4>2, WrittenIsNotNull
    <3> HIDE DEF x
    <3>3. QED
      BY <2>2, <3>1, <3>2 DEF Puts, x
  <2>4. todo'[q] = todo[q] \ {w} /\ todo[q] \subseteq Wallets
    BY <1>1, <2>1 DEF Columns
  <2>5. QED
    BY <1>0, <1>1, <2>2, <2>3, <2>4 DEF RunProgress, Loaded, Before
<1>5. CASE Broken(q) \/ Closed(q)
  BY <1>0, <1>5 DEF Broken, Closed, RunProgress, RunStatus, Before
<1>6. QED
  BY <1>1, <1>2, <1>3, <1>4, <1>5 DEF Change

\* A run never stops having made progress.
LEMMA ProgressHolds == Spec => []Progress
<1>1. Init => Progress
  BY DEF Init, Progress, RunProgress, Loaded
<1>2. QED
  BY <1>1, InvAlways, ProgressNext, PTL DEF Spec

\* A wallet that is committed stays as it is, to a reader and to every retry.
LEMMA WrittenStays ==
    ASSUME Inv, Progress, [Next]_vars, NEW r \in Runs, NEW w \in Wallets, snap[r][w] # None
    PROVE  snap'[r][w] = snap[r][w]
<1>1. Change(r) /\ w \notin todo[r]
  BY Changes DEF Progress, RunProgress
<1>2. QED
  BY <1>1 DEF Change, Same, Created, Started, Processed, Broken, Closed, Puts

\* A step leaves what is committed for a run as it is.
CommittedStays(r) ==
    /\ \A w \in Wallets : snap[r][w] # None => snap'[r][w] = snap[r][w]
    /\ status[r] \in Ended => status'[r] = status[r] /\ snap'[r] = snap[r]

\* What a reader has seen never changes: not a wallet snapshot, once committed, nor
\* anything of a run that has ended, whatever is retried, deployed or edited later.
THEOREM CommittedStands == Spec => [][\A r \in Runs : CommittedStays(r)]_vars
<1>1. Inv /\ Progress /\ [Next]_vars => [\A r \in Runs : CommittedStays(r)]_vars
  <2>1. ASSUME Inv, Progress, [Next]_vars, NEW r \in Runs
        PROVE  CommittedStays(r)
    BY <2>1, WrittenStays, Changes, EndedStays DEF CommittedStays
  <2>2. QED
    BY <2>1
<1>2. QED
  BY <1>1, InvAlways, ProgressHolds, PTL DEF Spec

\* Every change of a run but its creation is one that the queue expects.
LEMMA ChangeKeepsRecords ==
    ASSUME Inv, Progress, VerdictMatchesChains', [Next]_vars, NEW q \in Runs, ~Created(q)
    PROVE  Records!Same(q) \/ Records!Start(q) \/ Records!Process(q)
<1> DEFINE Filled(r) == \E w \in Wallets : snap[r][w] # None
<1>1. Change(q) /\ RunLineage(q) /\ RunProgress(q) /\ Columns
  BY Changes DEF Inv, Lineage, Progress
<1>2. snap'[q] = snap[q] => /\ Filled(q)' = Filled(q)
                            /\ FailedWallets(q)' = FailedWallets(q)
  BY DEF FailedWallets
<1>3. CASE Same(q)
  BY <1>2, <1>3 DEF Same, Records!Same
<1>4. CASE Started(q)
  <2>1. snap'[q] = snap[q] /\ Loaded(q) = {} /\ status[q] = "pending"
        /\ status'[q] \in {"running", "failed"}
    BY <1>1, <1>4 DEF Started, RunLineage
  <2>2. ~Filled(q)' /\ FailedWallets(q)' = {}
    BY <2>1 DEF Loaded, FailedWallets
  <2>3. QED
    BY <2>1, <2>2 DEF Records!Start
<1>5. CASE Processed(q) \/ Broken(q)
  <2>1. status[q] = "running" /\ status'[q] \in {"running", "failed"}
    BY <1>5 DEF Processed, Broken
  <2>2. Filled(q) => Filled(q)'
    BY WrittenStays
  <2>3. FailedWallets(q) \subseteq FailedWallets(q)'
    BY WrittenStays DEF FailedWallets
  <2>4. FailedWallets(q)' # {} => Filled(q)'
    BY DEF FailedWallets
  <2>5. QED
    BY <2>1, <2>2, <2>3, <2>4 DEF Records!Process, Records!Fits
<1>6. CASE Closed(q)
  <2>1. status[q] = "running" /\ snap'[q] = snap[q]
    BY <1>6 DEF Closed
  <2>2. status'[q] # "failed" => status'[q] \in {"success", "partial_success"} /\ Filled(q)
    BY <1>1, <1>6 DEF Closed, RunStatus, RunProgress, Loaded
  <2>3. /\ status'[q] = "success" => FailedWallets(q)' = {}
        /\ status'[q] = "partial_success" => FailedWallets(q)' # {}
    BY DEF VerdictMatchesChains, FailedWallets
  <2>4. QED
    BY <1>2, <2>1, <2>2, <2>3 DEF Records!Process, Records!Fits
<1>7. QED
  BY <1>1, <1>3, <1>4, <1>5, <1>6 DEF Change

\* A creation adds a run of a scope, or a retry of a run that may be retried.
LEMMA CreationKeepsRecords ==
    ASSUME Inv, NEW r \in Runs,
           \/ \E k, S : Submit(r, k, S)
           \/ \E p \in Runs : Retry(r, p)
    PROVE  Records!Next
<1>1. Columns /\ RunLineage(r) /\ status[r] = "absent"
  BY DEF Inv, Lineage, Submit, Retry, NextId
<1>2. /\ snap' = snap /\ status' = [status EXCEPT ![r] = "pending"]
      /\ {q \in Runs : \E w \in Wallets : snap[q][w] # None}'
           = {q \in Runs : \E w \in Wallets : snap[q][w] # None}
      /\ {q \in Runs : FailedWallets(q) # {}}' = {q \in Runs : FailedWallets(q) # {}}
  <2>1. snap' = snap /\ status' = [status EXCEPT ![r] = "pending"]
    BY DEF Submit, Retry
  <2>2. QED
    BY <2>1 DEF FailedWallets
<1>3. ASSUME NEW k, NEW S, Submit(r, k, S)
      PROVE  Records!Next
  <2>1. parent' = [parent EXCEPT ![r] = None]
    BY <1>1, <1>3 DEF Submit, RunLineage, Columns
  <2>2. QED
    BY <1>1, <1>2, <2>1 DEF Records!Next, Records!Insert
<1>4. ASSUME NEW p \in Runs, Retry(r, p)
      PROVE  Records!Next
  <2>1. Records!MayRetry(p) /\ parent' = [parent EXCEPT ![r] = p]
    BY <1>4 DEF Retry, Records!MayRetry
  <2>2. QED
    BY <1>1, <1>2, <2>1 DEF Records!Next, Records!Insert
<1>5. QED
  BY <1>3, <1>4

\* The processor keeps the records it shares with the job queue: what hangs below a
\* run only grows, while it runs, and the verdict fits it.
THEOREM ProcessorKeepsRecords == Spec => ImplementsRecords
<1>1. Init => Records!Init
  BY DEF Init, Records!Init, FailedWallets
<1>2. ASSUME Inv, Progress, VerdictMatchesChains', [Next]_vars
      PROVE  [Records!Next]_(Records!records)
  <2>1. CASE \E r \in Runs : \/ \E k, S : Submit(r, k, S)
                            \/ \E p \in Runs : Retry(r, p)
    BY <1>2, <2>1, CreationKeepsRecords
  <2>2. ASSUME parent' = parent, \A q \in Runs : ~Created(q)
        PROVE  Records!Next
    BY <1>2, <2>2, ChangeKeepsRecords DEF Records!Next, Records!Work
  <2>3. ASSUME UNCHANGED <<parent, status>>
        PROVE  Records!Next
    BY <2>2, <2>3 DEF Created
  <2>4. ASSUME NEW r \in Runs,
               \/ Start(r) \/ Abandon(r) \/ Finish(r)
               \/ \E w \in todo[r] : \E S, got : FailWallet(r, w, S, got)
        PROVE  Records!Next
    <3>1. parent' = parent /\ \E v : v # "pending" /\ status' = [status EXCEPT ![r] = v]
      BY <2>4 DEF Start, Abandon, Finish, FailWallet, rows, RunStatus
    <3>2. \A q \in Runs : ~Created(q)
      BY <1>2, <3>1 DEF Created, Inv, Columns
    <3>3. QED
      BY <2>2, <3>1, <3>2
  <2>5. QED
    BY <1>2, <2>1, <2>3, <2>4 DEF Next, vars, rows, ProcessWallet, Toggle, Deploy
<1>3. QED
  BY <1>1, <1>2, InvAlways, ProgressHolds, VerdictsAreReadable, PTL
     DEF Spec, ImplementsRecords, Records!Spec

-----------------------------------------------------------------------------
(* What a success shows.                                                   *)

\* Collected for the first time, a wallet gets the chains enabled then.
FirstIsComplete ==
    \A r \in Runs, w \in Wallets :
        parent[r] = None /\ Complete(r, w) => DOMAIN snap[r][w].chains = ChainsFor(r, w)

\* Every step keeps it: what is carried is carried by retries only.
LEMMA FirstIsCompleteNext ==
    ASSUME Inv, FirstIsComplete, [Next]_vars
    PROVE  FirstIsComplete'
<1> SUFFICES ASSUME NEW q \in Runs, NEW w \in Wallets, parent'[q] = None, Complete(q, w)'
             PROVE  DOMAIN snap'[q][w].chains = ChainsFor(q, w)'
  BY DEF FirstIsComplete
<1>1. Change(q) /\ RunLineage(q) /\ Columns
  BY Changes DEF Inv, Lineage
<1>2. CASE snap'[q][w] = snap[q][w]
  <2>1. ~Created(q) /\ ~Started(q)
    BY <1>1, <1>2 DEF Created, Started, RunLineage, Loaded, Complete
  <2>2. parent'[q] = parent[q] /\ chains'[q] = chains[q]
    BY <1>1, <2>1 DEF Change, Same, SameRow, Processed, Broken, Closed
  <2>3. QED
    BY <1>2, <2>2 DEF FirstIsComplete, Complete, ChainsFor
<1>3. CASE snap'[q][w] # snap[q][w]
  <2>1. Processed(q) \/ Broken(q)
    BY <1>1, <1>3 DEF Change, Same, Created, Started, Closed
  <2>2. CASE Broken(q)
    <3>1. PICK v \in todo[q] : \E got \in Answers(q, v), S \in SUBSET ToCollect(q, v) :
             Puts(q, v, [status |-> "running", chains |-> Rows(q, v, S, got), finished |-> 0])
      BY <2>2 DEF Broken
    <3>2. snap'[q][w].status = "running"
      BY <1>3, <3>1 DEF Puts
    <3>3. QED
      BY <3>2 DEF Complete
  <2>3. CASE Processed(q)
    <3>1. PICK v \in todo[q] : \E got \in Answers(q, v), t \in Reading :
             Puts(q, v, [status |-> StatusOf(Rows(q, v, ToCollect(q, v), got)),
                         chains |-> Rows(q, v, ToCollect(q, v), got),
                         finished |-> FinishedAt(q, v, t)])
      BY <2>3 DEF Processed
    <3>2. PICK got : snap'[q][w].chains = Rows(q, w, ToCollect(q, w), got)
      BY <1>3, <3>1 DEF Puts
    <3>3. parent[q] = None /\ chains'[q] = chains[q]
      BY <2>3 DEF Processed, SameRow
    <3>4. Carried(q, w) = {} /\ ToCollect(q, w) = ChainsFor(q, w)
      BY <3>3 DEF Carried, ToCollect, IsRetry
    <3>5. QED
      BY <3>2, <3>3, <3>4 DEF Rows, ChainsFor
  <2>4. QED
    BY <2>1, <2>2, <2>3
<1>4. QED
  BY <1>2, <1>3

\* An exception has left the wallet unfinished in a run of the line.
LeftUnfinished(r, w) ==
    \E q \in Line(r) : snap[q][w] # None /\ snap[q][w].status = "running"

\* A line holds its run, and with a retry its parent.
LEMMA LineFacts ==
    ASSUME Columns, NEW r \in Runs
    PROVE  /\ r \in Line(r)
           /\ \A q \in Line(r) : parent[q] # None => parent[q] \in Line(r)
           /\ \A S \in SUBSET Runs :
                 r \in S /\ (\A p \in S : parent[p] # None => parent[p] \in S)
                    => Line(r) \subseteq S
BY DEF Line, Columns

\* Along a line without an exception, the chains of a wallet stay the same.
LEMMA LineCarries ==
    ASSUME Inv, Progress, RetryCarriesTheRest, FirstIsComplete, NEW r \in Runs, NEW w \in Wallets,
           Complete(r, w), ~LeftUnfinished(r, w)
    PROVE  ShowsAllChains(r, w)
<1> DEFINE S == {q \in Line(r) : snap[q][w] # None
                                  /\ DOMAIN snap[q][w].chains = DOMAIN snap[r][w].chains}
<1>1. Columns /\ Lineage /\ Line(r) \subseteq Runs
  BY DEF Inv, Line
<1>2. r \in S
  BY <1>1, LineFacts DEF Complete
<1>3. ASSUME NEW p \in S, parent[p] # None
      PROVE  parent[p] \in S
  <2>1. p \in Runs /\ parent[p] \in Line(r) /\ Complete(p, w)
    BY <1>1, <1>3, LineFacts DEF Complete, LeftUnfinished
  <2>2. snap[parent[p]][w] # None
    BY <1>3, <2>1 DEF Progress, RunProgress, Complete
  <2>3. DOMAIN snap[p][w].chains = DOMAIN snap[parent[p]][w].chains
    BY <1>3, <2>1 DEF RetryCarriesTheRest
  <2>4. QED
    BY <1>3, <2>1, <2>2, <2>3
<1>4. Line(r) \subseteq S
  <2>1. S \subseteq Runs
    BY <1>1
  <2> HIDE DEF S
  <2>2. QED
    BY <1>1, <1>2, <1>3, <2>1, LineFacts
<1>5. ASSUME NEW q \in Line(r), parent[q] = None
      PROVE  ChainsFor(q, w) \subseteq DOMAIN snap[r][w].chains
  <2>1. q \in Runs /\ Complete(q, w) /\ DOMAIN snap[q][w].chains = DOMAIN snap[r][w].chains
    BY <1>1, <1>4, <1>5 DEF Complete, LeftUnfinished
  <2>2. QED
    BY <1>5, <2>1 DEF FirstIsComplete
<1>6. QED
  BY <1>5 DEF ShowsAllChains

\* The exception SnapshotContents_exception shows is the only thing that can make a
\* finished wallet lack a chain: no deployment, edit, retry or failed chain does.
THEOREM OnlyExceptionsLoseChains ==
    Spec => [](\A r \in Runs, w \in Wallets :
                 Complete(r, w) => ShowsAllChains(r, w) \/ LeftUnfinished(r, w))
<1>1. Init => FirstIsComplete
  BY DEF Init, FirstIsComplete, Complete
<1>2. Spec => []FirstIsComplete
  BY <1>1, FirstIsCompleteNext, InvAlways, PTL DEF Spec
<1>3. Inv /\ Progress /\ RetryCarriesTheRest /\ FirstIsComplete =>
         \A r \in Runs, w \in Wallets :
            Complete(r, w) => ShowsAllChains(r, w) \/ LeftUnfinished(r, w)
  BY LineCarries
<1>4. QED
  BY <1>2, <1>3, InvAlways, ProgressHolds, SuccessesAreCarried, PTL

-----------------------------------------------------------------------------
(* What succeeded once.                                                    *)

\* The later run has every success of the earlier one, as it was observed there.
Holds(later, earlier, w) ==
    LET before == snap[earlier][w].chains
        after == snap[later][w].chains
    IN  \A c \in DOMAIN before :
           before[c].ok => c \in DOMAIN after /\ after[c] = before[c]

\* A wallet of a retry, finished or left by an exception, has what its parent had.
RetryHolds ==
    \A r \in Runs, w \in Wallets :
        parent[r] # None /\ snap[r][w] # None => Holds(r, parent[r], w)

\* Whatever part of the collected chains is written, what is carried is.
LEMMA CarriedInPart ==
    ASSUME Inv, NEW r \in Runs, NEW w \in todo[r], NEW got \in Answers(r, w),
           NEW S \in SUBSET ToCollect(r, w), parent[r] # None
    PROVE  LET before == snap[parent[r]][w].chains
           IN  \A c \in DOMAIN before : before[c].ok =>
                  c \in DOMAIN Rows(r, w, S, got) /\ Rows(r, w, S, got)[c] = before[c]
<1> DEFINE before == snap[parent[r]][w].chains
<1> SUFFICES ASSUME NEW c \in DOMAIN before, before[c].ok
             PROVE  c \in DOMAIN Rows(r, w, S, got) /\ Rows(r, w, S, got)[c] = before[c]
  OBVIOUS
<1>1. w \in Wallets /\ parent[r] \in Runs
  BY DEF Inv, Columns
<1>2. w \in FailedWallets(parent[r])
  BY <1>1 DEF Inv, Lineage, RunLineage
<1>3. /\ FailedChains(snap[parent[r]][w]) # {}
      /\ WellFormed(w, snap[parent[r]][w])
  BY <1>1, <1>2 DEF FailedWallets, Inv, Contents, RunContents
<1>4. CASE IsRetry(r, w)
  <2>1. c \in Carried(r, w) /\ c \notin ToCollect(r, w)
    BY <1>4 DEF Carried, ToCollect, RetryChains, FailedChains
  <2>2. QED
    BY <2>1 DEF Rows, Copy
<1>5. CASE ~IsRetry(r, w)
  <2>1. DOMAIN before \subseteq {TypeOf[w]}
    BY <1>3, <1>5 DEF IsRetry, WellFormed
  <2>2. QED
    BY <1>3, <2>1 DEF FailedChains
<1>6. QED
  BY <1>4, <1>5

LEMMA RetryHoldsNext ==
    ASSUME Inv, RetryHolds, [Next]_vars
    PROVE  RetryHolds'
<1> SUFFICES ASSUME NEW q \in Runs, NEW w \in Wallets, parent'[q] # None, snap'[q][w] # None
             PROVE  Holds(q, parent[q], w)' /\ parent'[q] = parent[q]
  BY DEF RetryHolds, Holds
<1>1. Change(q) /\ RunLineage(q)' /\ \A p \in Runs : Change(p)
  BY Changes, LineageNext DEF Lineage
<1>2. ~Created(q)
  BY <1>1 DEF Created, RunLineage, Loaded
<1>3. parent'[q] = parent[q]
  BY <1>1, <1>2 DEF Change, Same, SameRow, Started, Processed, Broken, Closed
<1>4. parent[q] \in Runs /\ status[parent[q]] \in Ended
  BY <1>3 DEF Inv, Columns, Lineage, RunLineage
<1>5. snap'[parent[q]] = snap[parent[q]]
  BY <1>1, <1>4, EndedStays
<1> DEFINE before == snap[parent[q]][w].chains
<1> SUFFICES \A c \in DOMAIN before : before[c].ok =>
                c \in DOMAIN snap'[q][w].chains /\ snap'[q][w].chains[c] = before[c]
  BY <1>3, <1>5 DEF Holds
<1>6. CASE snap'[q][w] = snap[q][w]
  BY <1>3, <1>6 DEF RetryHolds, Holds
<1>7. CASE snap'[q][w] # snap[q][w]
  <2>1. Processed(q) \/ Broken(q)
    BY <1>1, <1>2, <1>7 DEF Change, Same, Started, Closed
  <2>2. CASE Broken(q)
    <3>1. PICK u \in todo[q] : \E got \in Answers(q, u), S \in SUBSET ToCollect(q, u) :
             Puts(q, u, [status |-> "running", chains |-> Rows(q, u, S, got), finished |-> 0])
      BY <2>2 DEF Broken
    <3>2. PICK got \in Answers(q, u), S \in SUBSET ToCollect(q, u) :
             Puts(q, u, [status |-> "running", chains |-> Rows(q, u, S, got), finished |-> 0])
      BY <3>1
    <3>3. w = u /\ snap'[q][w].chains = Rows(q, u, S, got)
      BY <1>7, <3>2 DEF Puts
    <3>4. QED
      BY <1>3, <3>3, CarriedInPart
  <2>3. CASE Processed(q)
    <3>1. PICK u \in todo[q] : \E got \in Answers(q, u), t \in Reading :
             Puts(q, u, [status |-> StatusOf(Rows(q, u, ToCollect(q, u), got)),
                         chains |-> Rows(q, u, ToCollect(q, u), got),
                         finished |-> FinishedAt(q, u, t)])
      BY <2>3 DEF Processed
    <3>2. PICK got \in Answers(q, u), t \in Reading :
             Puts(q, u, [status |-> StatusOf(Rows(q, u, ToCollect(q, u), got)),
                         chains |-> Rows(q, u, ToCollect(q, u), got),
                         finished |-> FinishedAt(q, u, t)])
      BY <3>1
    <3>3. w = u /\ snap'[q][w].chains = Rows(q, u, ToCollect(q, u), got)
      BY <1>7, <3>2 DEF Puts
    <3>4. QED
      BY <1>3, <3>3, CarriedInPart
  <2>4. QED
    BY <2>1, <2>2, <2>3
<1>8. QED
  BY <1>6, <1>7

\* Up a line of retries: each run of it has the wallet, and no success that the last
\* one has not.
LEMMA LineHolds ==
    ASSUME Inv, Progress, RetryHolds, NEW r \in Runs, NEW w \in Wallets, snap[r][w] # None
    PROVE  \A q \in Line(r) : snap[q][w] # None /\ Holds(r, q, w)
<1> DEFINE S == {q \in Runs : snap[q][w] # None /\ Holds(r, q, w)}
<1>1. Columns /\ S \subseteq Runs
  BY DEF Inv
<1>2. r \in S
  BY DEF Holds
<1>3. ASSUME NEW p \in S, parent[p] # None
      PROVE  parent[p] \in S
  <2>1. p \in Runs /\ snap[p][w] # None /\ Holds(r, p, w) /\ parent[p] \in Runs
    BY <1>1, <1>3 DEF Columns
  <2>2. snap[parent[p]][w] # None
    BY <1>3, <2>1 DEF Progress, RunProgress
  <2>3. Holds(p, parent[p], w)
    BY <1>3, <2>1 DEF RetryHolds
  <2>4. Holds(r, parent[p], w)
    BY <2>1, <2>3 DEF Holds
  <2>5. QED
    BY <2>1, <2>2, <2>4
<1>4. Line(r) \subseteq S
  <2> HIDE DEF S
  <2>1. QED
    BY <1>1, <1>2, <1>3, LineFacts
<1>5. QED
  BY <1>4

\* A retry of a retry shows every success of every run it goes back to, with the time
\* it was observed then: whatever fails, is deployed or breaks off in between, also in
\* a wallet an exception has left unfinished.
THEOREM SuccessesOutliveRetries ==
    Spec => [](\A r \in Runs, w \in Wallets : snap[r][w] # None =>
                 \A q \in Line(r) : snap[q][w] # None /\ Holds(r, q, w))
<1>1. Init => RetryHolds
  BY DEF Init, RetryHolds
<1>2. Spec => []RetryHolds
  BY <1>1, RetryHoldsNext, InvAlways, PTL DEF Spec
<1>3. Inv /\ Progress /\ RetryHolds =>
         \A r \in Runs, w \in Wallets : snap[r][w] # None =>
            \A q \in Line(r) : snap[q][w] # None /\ Holds(r, q, w)
  BY LineHolds
<1>4. QED
  BY <1>2, <1>3, InvAlways, ProgressHolds, PTL

-----------------------------------------------------------------------------
(* What is handed on, and the time it is shown with.                       *)

\* A wallet shows what it carries as its parent has it, and once it is finished no
\* older than its own timestamp.
HandedOn(r, w) ==
    snap[r][w] # None =>
        \A c \in Carried(r, w) :
            /\ c \in DOMAIN snap[r][w].chains
            /\ snap[r][w].chains[c] = Copy(r, w, c)
            /\ Complete(r, w) => snap[r][w].finished <= snap[r][w].chains[c].at

Handing == \A r \in Runs, w \in Wallets : HandedOn(r, w)

\* Only a retry carries anything, and what it carries its parent shows.
LEMMA CarriedByRetries ==
    ASSUME NEW r \in Runs, NEW w \in Wallets, NEW c \in Carried(r, w)
    PROVE  parent[r] # None /\ c \in DOMAIN snap[parent[r]][w].chains
BY DEF Carried, IsRetry

\* Every step hands on: the parent has ended and stays as it is, and so does the
\* retry's choice of chains.
LEMMA HandingNext ==
    ASSUME Inv, Handing, [Next]_vars
    PROVE  Handing'
<1> SUFFICES ASSUME NEW q \in Runs, NEW w \in Wallets, snap'[q][w] # None,
                    NEW c, c \in Carried(q, w)'
             PROVE  /\ c \in DOMAIN snap'[q][w].chains
                    /\ snap'[q][w].chains[c] = Copy(q, w, c)'
                    /\ Complete(q, w)' => snap'[q][w].finished <= snap'[q][w].chains[c].at
  BY DEF Handing, HandedOn
<1>1. Change(q) /\ RunLineage(q) /\ RunLineage(q)' /\ \A p \in Runs : Change(p)
  BY Changes, LineageNext DEF Inv, Lineage
<1>2. ~Created(q) /\ ~Started(q)
  BY <1>1 DEF Created, Started, RunLineage, Loaded
<1>3. parent'[q] = parent[q] /\ chains'[q] = chains[q]
  BY <1>1, <1>2 DEF Change, Same, SameRow, Processed, Broken, Closed
<1>4. parent[q] \in Runs /\ snap'[parent[q]] = snap[parent[q]]
  <2>1. parent'[q] # None
    BY DEF Carried, IsRetry
  <2>2. parent[q] \in Runs /\ status[parent[q]] \in Ended
    BY <1>1, <1>3, <2>1 DEF Inv, Columns, RunLineage
  <2>3. QED
    BY <1>1, <2>2, EndedStays
<1>5. c \in Carried(q, w) /\ Copy(q, w, c)' = Copy(q, w, c)
  BY <1>3, <1>4 DEF Carried, IsRetry, RetryChains, ChainsFor, Copy
<1>6. CASE snap'[q][w] = snap[q][w]
  BY <1>5, <1>6 DEF Handing, HandedOn, Complete
<1>7. CASE snap'[q][w] # snap[q][w]
  <2>1. Processed(q) \/ Broken(q)
    BY <1>1, <1>2, <1>7 DEF Change, Same, Closed
  <2>2. CASE Broken(q)
    <3>1. PICK u \in todo[q] : \E got \in Answers(q, u), S \in SUBSET ToCollect(q, u) :
             Puts(q, u, [status |-> "running", chains |-> Rows(q, u, S, got), finished |-> 0])
      BY <2>2 DEF Broken
    <3>2. PICK got \in Answers(q, u), S \in SUBSET ToCollect(q, u) :
             Puts(q, u, [status |-> "running", chains |-> Rows(q, u, S, got), finished |-> 0])
      BY <3>1
    <3>3. w = u /\ snap'[q][w].chains = Rows(q, w, S, got) /\ ~Complete(q, w)'
      BY <1>7, <3>2 DEF Puts, Complete
    <3>4. c \notin S
      BY <1>5, <3>3, CarriedFacts
    <3>5. QED
      BY <1>5, <3>3, <3>4 DEF Rows
  <2>3. CASE Processed(q)
    <3>1. PICK u \in todo[q] : \E got \in Answers(q, u), t \in Reading :
             Puts(q, u, [status |-> StatusOf(Rows(q, u, ToCollect(q, u), got)),
                         chains |-> Rows(q, u, ToCollect(q, u), got),
                         finished |-> FinishedAt(q, u, t)])
      BY <2>3 DEF Processed
    <3>2. PICK got \in Answers(q, u), t \in Reading :
             Puts(q, u, [status |-> StatusOf(Rows(q, u, ToCollect(q, u), got)),
                         chains |-> Rows(q, u, ToCollect(q, u), got),
                         finished |-> FinishedAt(q, u, t)])
      BY <3>1
    <3>3. /\ w = u
          /\ snap'[q][w].chains = Rows(q, w, ToCollect(q, w), got)
          /\ snap'[q][w].finished = FinishedAt(q, w, t)
      BY <1>7, <3>2 DEF Puts
    <3>4. c \notin ToCollect(q, w) /\ FinishedAt(q, w, t) <= Copy(q, w, c).at
      BY <1>5, <3>3, CarriedFacts, Finished
    <3>5. QED
      BY <1>5, <3>3, <3>4 DEF Rows
  <2>4. QED
    BY <2>1, <2>2, <2>3
<1>8. QED
  BY <1>6, <1>7

\* A trail holds its run, and where a run carries the chain its parent.
LEMMA TrailFacts ==
    ASSUME Columns, NEW r \in Runs, NEW w \in Wallets, NEW c
    PROVE  \A S \in SUBSET Runs :
              r \in S /\ (\A p \in S : c \in Carried(p, w) => parent[p] \in S)
                 => Trail(r, w, c) \subseteq S
BY DEF Trail

\* Every run on the trail of an observation has it as the last one shows it.
LEMMA TrailShowsOne ==
    ASSUME Inv, Progress, Handing, NEW r \in Runs, NEW w \in Wallets, snap[r][w] # None,
           NEW c \in Carried(r, w)
    PROVE  \A q \in Trail(r, w, c) : snap[q][w].chains[c] = snap[r][w].chains[c]
<1> DEFINE S == {q \in Runs : snap[q][w] # None
                               /\ snap[q][w].chains[c] = snap[r][w].chains[c]}
<1>1. Columns /\ S \in SUBSET Runs
  BY DEF Inv
<1>2. r \in S
  OBVIOUS
<1>3. ASSUME NEW p \in S, c \in Carried(p, w)
      PROVE  parent[p] \in S
  <2>1. p \in Runs /\ snap[p][w] # None /\ snap[p][w].chains[c] = snap[r][w].chains[c]
    OBVIOUS
  <2>2. parent[p] \in Runs /\ snap[parent[p]][w] # None
    BY <1>1, <1>3, <2>1, CarriedByRetries DEF Columns, Progress, RunProgress
  <2>3. snap[p][w].chains[c] = snap[parent[p]][w].chains[c]
    BY <1>3, <2>1 DEF Handing, HandedOn, Copy
  <2>4. QED
    BY <2>1, <2>2, <2>3
<1>4. Trail(r, w, c) \subseteq S
  <2> HIDE DEF S
  <2>1. QED
    BY <1>1, <1>2, <1>3, TrailFacts
<1>5. QED
  BY <1>4

\* A wallet never claims to be newer than an observation carried below it, as the run
\* that made it stamped it, however many retries have handed it on.
THEOREM TimestampsAreConservative == Spec => []ConservativeTimestamps
<1>1. Init => Handing
  BY DEF Init, Handing, HandedOn
<1>2. Spec => []Handing
  BY <1>1, HandingNext, InvAlways, PTL DEF Spec
<1>3. Inv /\ Progress /\ Handing => ConservativeTimestamps
  <2> SUFFICES ASSUME Inv, Progress, Handing, NEW r \in Runs, NEW w \in Wallets, Complete(r, w),
                      NEW c \in Carried(r, w), NEW q \in Trail(r, w, c)
               PROVE  snap[r][w].finished <= snap[q][w].chains[c].at
    BY DEF ConservativeTimestamps
  <2>1. snap[q][w].chains[c] = snap[r][w].chains[c]
    BY TrailShowsOne DEF Complete
  <2>2. QED
    BY <2>1 DEF Handing, HandedOn, Complete
<1>4. QED
  BY <1>2, <1>3, InvAlways, ProgressHolds, PTL
=============================================================================
