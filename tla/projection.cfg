CONSTANTS
  p1 = p1
  p2 = p2
  Procs <- Both
  Ops = {"create", "move", "retry", "resume", "gate", "remove", "resolve", "lease", "submit"}
  Statuses = {"pending", "in_progress", "done", "error"}
  Faults = {"refused"}
  Planned = 1
  MaxTasks = 2
  MaxDispatches = 2
  MaxRetries = 1
  MaxOps = 5
  MaxRestarts = 1
SYMMETRY Anyone
SPECIFICATION Spec
INVARIANTS
  TypeOK CompletionIsJournaled ResultOfThisAttempt TerminalReplays
CHECK_DEADLOCK FALSE
