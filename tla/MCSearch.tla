------------------------------- MODULE MCSearch -------------------------------
(* Instances of Search for TLC: the third text is far from the query but holds  *)
(* its words, the fourth is far from it and does not.                           *)
EXTENDS Search

Near4 == [a |-> 70, b |-> 60, c |-> 50, d |-> 44]
Content(text, tier, stale, live) == [text |-> text, tier |-> tier, stale |-> stale, live |-> live]
SomeContents ==
  {Content(t, "hand", FALSE, TRUE) : t \in {"a", "c", "d"}}
  \cup {Content(t, "bulk", FALSE, TRUE) : t \in {"a", "b"}}
  \cup {Content("a", "extract", FALSE, TRUE), Content("b", "hand", TRUE, TRUE),
        Content("a", "hand", FALSE, FALSE)}

Asking(kind, limit, filtered, tagged, tolerant, wants, id) ==
  [kind |-> kind, limit |-> limit, filtered |-> filtered, tagged |-> tagged,
   tolerant |-> tolerant, wants |-> wants, id |-> id]
SomeRequests ==
  {Asking("search", n, FALSE, FALSE, TRUE, Ids, 1) : n \in {1, 2}}
  \cup {Asking("search", 2, FALSE, FALSE, FALSE, wants, 1) : wants \in {Points, Facts}}
  \cup {Asking("search", 1, TRUE, FALSE, TRUE, Ids, 1),
        Asking("search", 2, FALSE, TRUE, FALSE, Ids, 1)}
  \cup {Asking("related", n, FALSE, FALSE, FALSE, Ids, 1) : n \in {1, 2}}
  \cup {Asking("get", 1, FALSE, FALSE, FALSE, Ids, i) : i \in {1, 4}}
===============================================================================
