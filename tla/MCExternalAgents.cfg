SPECIFICATION AgentsSpec
CONSTANTS
  None = None
  u1 = u1
  u2 = u2
  Users <- TwoUsers
  Flows <- TwoFlows
  Commands <- SomeCommands
  SettingsSet <- SomeSettings
  MaxConnects = 1
SYMMETRY Symmetry
INVARIANT OAuthOnce
INVARIANT ReadinessAgrees
INVARIANT RecommendsReady
CHECK_DEADLOCK FALSE
