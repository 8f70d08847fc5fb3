CONSTANTS
  r1 = r1
  r2 = r2
  Runs <- MCRuns
  Routes = {"meeting_memory", "read_only_code", "meeting_patch_closure", "general"}
  Budgets = {2, 7, 20}
  Crashes = TRUE
SPECIFICATION RunsSpec
CHECK_DEADLOCK FALSE
INVARIANTS
  RunningIsLive
  ProposalsAreAudited
  WithinBudget
PROPERTIES
  EndingsAreFinal
  CancelledProposesNothing
  RunsEnd
