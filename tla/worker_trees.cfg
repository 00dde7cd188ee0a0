SPECIFICATION Spec
CONSTANTS
  Clients = {c1}
  MaxTasks = 3
  Priorities = {0, 1}
  max_steps_per_run = 1
  QUEUE_CAPACITY = 1
  max_tree_depth = 3
  max_fanout = 2
  max_suspended = 1
  per_task_budget = FALSE
  preempt = "ask"
  ControlOps = {"add", "done", "cancel", "suspend", "resume", "delete"}
  AgentOps = {"add", "done", "cancel", "ask"}
  RunsCanFail = FALSE
  WorkerCanCrash = TRUE
INVARIANTS
  ActiveIsRunning
  ResultToldOnce
PROPERTIES
  KeepsLifecycle
