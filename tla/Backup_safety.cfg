CONSTANTS
  cli = cli  None = None  Torn = Torn
  Service = service
  Clis <- OneCli
  Strategies <- EitherStrategy
  MaxRuns = 2
  MaxDay = 1
  DailyCount = 1
  WeeklyCount = 0
SPECIFICATION MCFairSpec
INVARIANTS RunOwnsItsFiles ArtifactsWhole
PROPERTIES RestorableStays RunsLetGo HookReturns
