---------------------------- MODULE MCFactStore ----------------------------
(* Instances of FactStore for TLC. *)
EXTENDS FactStore, TLC

CONSTANTS f1, f2, d1, d2, d3, s1, s2, s3, tA, tB, p1, p2

OneFact == {f1}
TwoFacts == {f1, f2}
OneDissent == {d1}
TwoDissents == {d1, d2}
ThreeDissents == {d1, d2, d3}
TwoSessions == {s1, s2}
ThreeSessions == {s1, s2, s3}
OneType == {tA}
TwoTypes == {tA, tB}
OnePayload == {p1}
TwoPayloads == {p1, p2}

UserAndAgent == {"User", "AgentProposal"}
CuratorAndTask == {"Controller", "Task"}
ThreeTiers == {"User", "Controller", "AgentProposal"}

\* Ids, payloads and sessions are interchangeable in every safety property.
Interchangeable ==
  Permutations(FactIds) \cup Permutations(DissentIds)
    \cup Permutations(Sessions) \cup Permutations(Payloads) \cup Permutations(Types)
=============================================================================
