SPECIFICATION Spec
CONSTANTS
  Clients = {c1}
  MaxTasks = 4
  Priorities = {0, 1}
  max_steps_per_run = 1
  QUEUE_CAPACITY = 1
  max_tree_depth = 2
  max_fanout = 2
  max_suspended = 1
  per_task_budget = TRUE
  preempt = "auto_by_priority"
  ControlOps = {"add", "delete", "update"}
  AgentOps = {"add", "resume", "update", "delete"}
  RunsCanFail = FALSE
  WorkerCanCrash = FALSE
INVARIANTS
  SubtaskUnweighted
  CapsHold
  BacklogBounded
