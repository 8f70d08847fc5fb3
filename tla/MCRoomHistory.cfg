SPECIFICATION Spec
CONSTANTS
  None = None
  u1 = u1
  u2 = u2
  voice = voice
  self = self
  note = note
  Users <- TwoUsers
  Labels <- TwoLabels
  SelfLabel = self
  Notes <- OneNote
  MaxMessages = 4
  MaxActions = 2
  MaxRequests = 4
  MaxCrashes = 2
  IndexLimit = 2
  SnapshotLimit = 2
  ShortLimit = 1
  TrailLimit = 2
  QueryLimit = 3
  AnswerLimit = 1
  Scores = {0, 1}
  HealthLimit = 2
SYMMETRY Symmetry
INVARIANT SpeakersAgree
INVARIANT FirstSpeakerKept
INVARIANT AnswersAreCurrent
INVARIANT LongMemoryIsTrue
CHECK_DEADLOCK FALSE
