SPECIFICATION MSpec
CONSTANTS
  Research = 1
  MaxAttempts = 2
  PlanCap = 2
  MaxCommands = 1
INVARIANTS MTypeOK
PROPERTIES GoalReleased PlanEnds
CHECK_DEADLOCK FALSE
