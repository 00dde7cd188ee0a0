SPECIFICATION Spec
CONSTANTS
  Clients = {c1, c2}
  MaxTasks = 2
  Priorities = {0}
  max_steps_per_run = 1
  QUEUE_CAPACITY = 3
  max_tree_depth = 1
  max_fanout = 2
  max_suspended = 1
  per_task_budget = FALSE
  preempt = "auto_by_priority"
  ControlOps = {"add", "resume", "delete", "query", "message", "cron", "task_hatch"}
  AgentOps = {"done"}
  RunsCanFail = TRUE
  WorkerCanCrash = TRUE
INVARIANTS
  TypeOK
  PendingMatchesQueue
  NoLostWakeup
PROPERTIES
  MessageBeforeTask
