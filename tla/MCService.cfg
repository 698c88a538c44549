SPECIFICATION Spec
CONSTANTS
  a1 = a1
  f1 = f1
  f2 = f2
  s1 = s1
  s2 = s2
  r1 = r1
  r2 = r2
  AppPrompts = {a1}
  ForeignPrompts = {f1, f2}
  MaxSummaries = 1
  MaxStops = 1
  Savers = {s1, s2}
  Texts = {"old", "new", "binary"}
  Binary = "binary"
  Seed = "seed"
  MaxSaves = 3
  MaxEdits = 2
  MaxErrors = 1
  Settings <- TwoSettings
  Unknown = "other"
  GoodValues = {"old", "new"}
  BadValues = {"bad"}
  Bodies <- SomeBodies
  HandEdits <- OneEdit
  Loop = "loop"
  Worker = "worker"
  MaxConfigWrites = 2
  MaxChanges = 2
  MaxOutages = 1
  Apps = {r1, r2}
  Approvals = {"run"}
  Questions = {"which"}
  Choices = {"once", "always", "deny"}
  MaxDrops = 2
SYMMETRY Sym
INVARIANTS
  OwnPrompt
  SavesAreSafe
  AppsAreToldTheTruth
PROPERTIES
  OverlayIsKept
CHECK_DEADLOCK FALSE
