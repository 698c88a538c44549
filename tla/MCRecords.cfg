SPECIFICATION RecordsSpec
CONSTANTS
  s1 = s1
  s2 = s2
  q1 = q1
  a1 = a1
  a2 = a2
  x = x
  y = y
  Sessions = {s1, s2}
  Requests = {q1}
  MaxRuns = 2
  MaxRows = 2
  MaxTurns = 1
  MaxSweeps = 1
  Turns = {1}
  Texts = {x, y}
  MaxSteps = 2
  MaxChunks = 3
  Anchor = 1
  MaxTroubles = 1
  Shapes <- SomeShapes
  Scopes = {"session", "project", "document"}
  Replies <- SomeReplies
  RunCap = 1
  RowCap = 2
  EventCap = 2
  ArtifactCap = 1
  AnchorUnits = 3
  PerUnit = 5
  Budget = 4
  MaxRecords = 5
  AgentNames = {"p", "q"}
  FirstAgents = {"p"}
  Hosted = {"hosted"}
  UserDefined = {"local", "bare"}
  Mirrorable = {"local"}
  Admins = {a1, a2}
  Ttl = 1
  CallTimeout = 1
  MaxAdminWrites = 2
  MaxLost = 1
  MaxNow = 2
SYMMETRY Symmetry
INVARIANTS
  SeqsContiguous
  RunningIsAttended
  StreamedIsKept
  ShownOnce
  AnswersAreGrounded
  ChosenModelsAreUsable
PROPERTIES
  ClosedRunsAreLeftAlone
CHECK_DEADLOCK FALSE
