SPECIFICATION Spec
CONSTANTS
  None = None
  j1 = j1
  j2 = j2
  Jobs <- TwoJobs
INVARIANT FailureStands
INVARIANT EndIsComplete
PROPERTY JobsEnd
CHECK_DEADLOCK FALSE
