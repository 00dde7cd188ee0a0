SPECIFICATION Spec
CONSTANTS
  MaxEvents = 5
  MaxCalls = 2
  MaxCrashes = 2
  ToolOps = {"plain", "compact", "propose", "compact_ltm", "pause", "resume"}
  max_steps_per_run = 2
  working_memory_tokens = 2
  keep_recent_messages_min = 1
  short_term_tokens = 2
  long_term_tokens = 1
  auto_compact = TRUE
INVARIANTS
  TypeOK
  FoldedOnce
  NoOrphanResult
  CallsAnswered
PROPERTIES
  WatermarkAdvances
CONSTRAINT
  CrashesCount
