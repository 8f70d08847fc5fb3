CONSTANTS
  a1 = a1
  a2 = a2
  app = app
  readme = readme
  Main = Main
  Base = Base
  None = None
  Actions <- MCActions
  Files <- MCFiles
  FilesOf <- MCFilesOf
  Crashes = TRUE
  GitFails = TRUE
SPECIFICATION Spec
CHECK_DEADLOCK FALSE
INVARIANTS
  CompletedWasTested
  RejectedUntouched
  SettledLeavesNothingBehind
PROPERTIES
  ContractSpec
