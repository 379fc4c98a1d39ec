CONSTANTS
  p1 = p1
  p2 = p2
  Procs <- Both
  Ops = {"create", "move"}
  Statuses = {"pending", "in_progress", "done"}
  Faults = {}
  Planned = 1
  MaxTasks = 2
  MaxDispatches = 0
  MaxRetries = 0
  MaxOps = 3
  MaxRestarts = 0
SYMMETRY Anyone
SPECIFICATION Spec
INVARIANT
  CheckpointIsCurrent
CHECK_DEADLOCK FALSE
