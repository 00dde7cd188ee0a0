SPECIFICATION FairSpec
CONSTANTS
  Static = {}
  Recurring = {"dyn-cron", "dyn-hourly"}
  Once = {"dyn-once"}
  Templates = {"dyn-hourly"}
  Clients = {c1, c2}
  Ops = {"add", "fire"}
  Period <- MCPeriod
  Grace = 1
  MaxTime = 2
  MaxFailures = 3
  MAX_DYNAMIC_TRIGGERS = 1
  QUEUE_CAPACITY = 1
  SlowBoot = FALSE
  MaxCrashes = 0
  None = None
INVARIANTS
  CapOvershoot
  SkipsAreOwed
PROPERTIES
  DueIsHandled
