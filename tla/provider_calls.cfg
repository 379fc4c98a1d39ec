CONSTANTS
  c1 = c1
  c2 = c2
  c3 = c3
  main = main
  Calls <- Two
  Targets <- Models
  TargetOf <- AllMain
  Billing <- MainMetered
  Bound <- BoundTwo
  Usages <- CheapOrDear
  MaxRunMicros = 4
  WarningMicros = 3
  DenyUnknown = TRUE
  MaxMicros = 5
  MaxRuns = 2
  LedgerFaults = {"refused", "lost"}
  Streams = {c1}
  External = {}
  MaxConcurrent = 2
SPECIFICATION FairSpec
INVARIANTS
  SlotsConserved TransportIsCharged ReturnedIsSettled
PROPERTIES
  BudgetHolds UnsettledStopsRun CancelReturnsSlot
CHECK_DEADLOCK FALSE
