CONSTANTS
  Points = {1, 2, 3}
  Facts = {4}
  Events = {5}
  Texts = {"a", "b", "c", "d"}
  Cosine <- Near4
  Lexical = {"c"}
  Contents <- SomeContents
  Matching = {1, 2, 4}
  Tagged = {2, 3}
  Requests <- SomeRequests
  Fusion = "rrf"
  RrfK = 60
  Window = 2
  MaxTroubles = 1
SPECIFICATION Spec
INVARIANTS OneHitPerText ShortPageIsAll DeletedNotFound
CHECK_DEADLOCK FALSE
