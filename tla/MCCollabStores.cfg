SPECIFICATION Spec
CONSTANTS
  MaxChanges = 3
  None = None
  NoFile = NoFile
  Torn = Torn
INVARIANT LogRebuilds
INVARIANT DurableUnlessInDoubt
INVARIANT MigratedAll
CHECK_DEADLOCK FALSE
