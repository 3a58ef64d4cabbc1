CONSTANTS
  Hosts = {"h1", "h2"}
  DayTicks = 2
  WindowTicks = 3
  PageSize = 3
  ClusterMin = 2
  MaxTick = 3
  MaxEvents = 3
  MaxCycleFaults = 1
  Facts = {11, 12}
  Chunks = {21, 22, 23}
  Stores <- SomeStores
  EventRow <- SomeEvents
  Budgets = {1, 10, 24, 60}
  HostFilters = {{"h1", "h2"}, {"h1"}}
  TopK = 3
  SummaryLimit = 2
  SummaryTokens = 3
  RrfK = 60
  RowIds = {1, 2, 3}
  MaxTime = 5
  TickOf <- TwoPerTick
  Window = 4
  Routes = {"memories", "author", "events", "events_asc", "deleted", "authors"}
  Limits = {1, 2}
  Overfetch = 2
  ScrollCap = 3
  MaxWrites = 1
SPECIFICATION MCSpec
INVARIANTS BudgetKept TruncationTold KnowledgeOnce
CHECK_DEADLOCK FALSE
PROPERTIES TaskCatchesUp ImplementsListing
