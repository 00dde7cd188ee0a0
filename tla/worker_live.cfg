SPECIFICATION FairSpec
CONSTANTS
  Clients = {c1}
  MaxTasks = 2
  Priorities = {0, 1}
  max_steps_per_run = 2
  QUEUE_CAPACITY = 2
  max_tree_depth = 2
  max_fanout = 2
  max_suspended = 1
  per_task_budget = FALSE
  preempt = "ask"
  ControlOps = {"add", "cancel", "message", "cron"}
  AgentOps = {"add", "done", "ask"}
  RunsCanFail = FALSE
  WorkerCanCrash = FALSE
PROPERTIES
  UserAttended
  ActivationEnds
