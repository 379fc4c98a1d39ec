CONSTANTS
  c1 = c1
  c2 = c2
  c3 = c3
  main = main
  Calls <- Three
  Targets <- Models
  TargetOf <- AllMain
  Billing <- MainMetered
  Bound <- BoundTwo
  Usages <- CheapOrDear
  MaxRunMicros = 4
  WarningMicros = 3
  DenyUnknown = TRUE
  MaxMicros = 5
  MaxRuns = 2
  LedgerFaults = {}
  Streams = {c1}
  External = {c3}
  MaxConcurrent = 2
SPECIFICATION Spec
PROPERTY
  CrashKeepsBudget
CHECK_DEADLOCK FALSE
