------------------------------- MODULE MCRegistry -------------------------------
(* Instances of Registry for TLC: two tool calls, one file, three authors. *)
EXTENDS Registry, TLC

CONSTANTS i1, i2, i3, t1, t2, h, own, u1, u2, u3, n1, n2, c1, c2, c3

TwoCalls == {c1, c2}
ThreeCalls == {c1, c2, c3}
ByName == [u \in Authors |-> n1]
Interchangeable == Permutations(Ids) \cup Permutations(Texts) \cup Permutations(Calls)
=============================================================================
