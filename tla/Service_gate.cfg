CONSTANTS
  n1 = n1  n2 = n2  a1 = a1  a2 = a2  a3 = a3  b1 = b1  b2 = b2  kai = kai
  p1 = p1  p2 = p2  k1 = k1  k2 = k2  k3 = k3  t1 = t1  t2 = t2  m1 = m1  w1 = w1  w2 = w2
  None = None  NoValue = NoValue
  Names <- SomeNames  Authors <- SomeAuthors  NameOf <- Stands  Rows <- SomeRows
  Nodes <- SomeNodes  Enforce = TRUE
  Writers = {w1}  Requests = {w2}
  Tools = {"search", "memory_add"}
  MaxEdits = 1  MaxAdmin = 1  MaxFaults = 1
  Peers = {p1, p2}  Conns = {k1, k2, k3}  Cap = 2  KeepAlive = 3
  FactIds = {1, 2, 3}  Tasks = {t1, t2}  Movers = {m1}  BatchSize = 2  Clamp = 2  MaxMoves = 2
  Facts = {1, 2}  Events = {11, 12, 13}  Agents = {"a", "b"}  NoTask = "none"  ChunkOf = 2
  Mentions <- SomeMentions  Task <- SomeTasks  MaxDisturb = 1
  Points = {1, 2, 3, 4, 5}  PageOf = 2  MaxChanges = 2
  Units = {"svc", "other"}  Sink = "svc"  MaxTurns = 3  MaxLost = 1  MaxRestarts = 1
  Subs = {"pg", "qd"}  Optional = {}  Watchers = {w1, w2}  Ttl = 1  Slow = 1  MaxTime = 3
  LineKinds <- SomeLines  Langs = {"markdown", "code", "text"}  Target = 7  Overlap = 3  MinPiece = 3
  MinBody = 2  Ceiling = 12  MaxLines = 4
  Texts <- SomeTexts  MaxTokens = 3  ModelLimits = {2, 3}  Attempts = 3  MaxSends = 2
  Writes <- SomeWrites  Good <- Right  Proposals <- SomeProposals  Again <- SomeMore
SPECIFICATION MCSpec
INVARIANTS AcceptedFits
CHECK_DEADLOCK FALSE
