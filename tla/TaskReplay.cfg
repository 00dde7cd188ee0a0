SPECIFICATION Spec
CONSTANTS
  MaxTasks = 4
  Priorities = {0, 1}
  LogOrigins = {"user", "trigger"}
  LogStatuses = {"blocked", "done"}
INVARIANTS
  TypeOK
  LiveDescendantsAreTheLiveSubtree
  DepthAndRootFollowTheLine
  NextIsFirstRunnable
  ExclusionPrunesSubtree
  PreemptorIsBestOutranking
  PausedYieldsToContender
