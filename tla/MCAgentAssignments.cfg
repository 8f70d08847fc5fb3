CONSTANTS
  r1 = r1
  r2 = r2
  i1 = i1
  i2 = i2
  None = None
  Runs <- MCRuns
  Assignments <- MCAssignments
  Budgets = {20}
  Routes = {"general"}
  Crashes = TRUE
  ByHand = TRUE
SPECIFICATION Spec
CHECK_DEADLOCK FALSE
SYMMETRY Symmetry
INVARIANTS
  OneRunEach
  AgreesWithItsRun
