----------------------------- MODULE PriceLedger -----------------------------
(***************************************************************************)
(* What readers of assets and prices_history may rely on, whatever         *)
(* savepoints, rollbacks, deadlocks and other workers do on the way: a     *)
(* commit adds one observation of an asset to a run that has none of it,   *)
(* and creates an asset only together with an observation of it, twice     *)
(* never where an index forbids that.                                      *)
(***************************************************************************)
EXTENDS Naturals

CONSTANTS Jobs, Assets

VARIABLES unique, assets, ours, history

ledger == <<unique, assets, ours, history>>

\* py_wallet has some assets, with or without an index on them.
Init ==
    /\ unique \in BOOLEAN
    /\ assets \in [Assets -> {0, 1}]
    /\ ours = [a \in Assets |-> 0]
    /\ history = [j \in Jobs |-> [a \in Assets |-> 0]]

\* Each of the counts is one higher for what is in S.
Plus(count, S) == [a \in Assets |-> IF a \in S THEN count[a] + 1 ELSE count[a]]

Observe(j, observed, created) ==
    /\ \A a \in observed : history[j][a] = 0
    /\ created \subseteq observed
    /\ \A a \in created : unique => assets[a] = 0
    /\ history' = [history EXCEPT ![j] = Plus(@, observed)]
    /\ assets' = Plus(assets, created)
    /\ ours' = Plus(ours, created)
    /\ UNCHANGED unique

Next == \E j \in Jobs, observed, created \in SUBSET Assets : Observe(j, observed, created)

Spec == Init /\ [][Next]_ledger
=============================================================================
