SPECIFICATION Spec
CONSTANTS
  Static = {"digest"}
  Recurring = {"dyn-cron"}
  Once = {"dyn-once"}
  Templates = {"dyn-cron"}
  Clients = {c1}
  Ops = {"add", "remove", "clear", "enable", "disable", "static"}
  Period <- MCPeriod
  Grace = 1
  MaxTime = 2
  MaxFailures = 0
  MAX_DYNAMIC_TRIGGERS = 1
  QUEUE_CAPACITY = 1
  SlowBoot = FALSE
  MaxCrashes = 1
  None = None
INVARIANTS
  TypeOK
  LoopKnowsSoonest
  PlanMatchesFile
PROPERTIES
  KeepsSchedule
