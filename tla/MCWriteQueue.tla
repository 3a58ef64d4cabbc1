---------------------------- MODULE MCWriteQueue ----------------------------
(* Instances of WriteQueue for TLC. *)
EXTENDS WriteQueue, TLC

CONSTANTS j1, j2, j3, j4, w1, w2, w3

ThreeJobs == {j1, j2, j3}
FourJobs == {j1, j2, j3, j4}
OneUpsert == {j1}
TwoWorkers == {w1, w2}
ThreeWorkers == {w1, w2, w3}

\* Workers are interchangeable, and so are the requests of one kind.
Interchangeable ==
  Permutations(Workers) \cup Permutations(Replying) \cup Permutations(Jobs \ Replying)
=============================================================================
