------------------------------- MODULE MCScanner -------------------------------
(* Instances of Scanner for TLC: two locations that share a chunk. *)
EXTENDS Scanner

CONSTANTS h1, h2, a, b, big, i1, i2, i3, w1, w2

TwoSites == {h1, h2}
OneSite == {h1}
OneWorker == {w1}
TwoWorkers == {w1, w2}
ThreeIds == {i1, i2, i3}

\* One file is edited, the other, which shares a chunk with it, vanishes.
EditAndVanish == [s \in Sites |-> IF s = h1 THEN <<{a}, {b, big}>> ELSE <<{a}, Gone>>]

\* A file is edited and the edit undone.
Undone == [s \in Sites |-> <<{a}, {b}, {a}>>]
=============================================================================
