----------------------------- MODULE MCJobQueue -----------------------------
(* Instances of JobQueue for TLC.  Workers are interchangeable in it, and so *)
(* are creators; the runs that check no liveness use that.                   *)
EXTENDS JobQueue, TLC

WorkerSymmetry == Permutations(Workers)
CreatorSymmetry == Permutations(Creators)
=============================================================================
