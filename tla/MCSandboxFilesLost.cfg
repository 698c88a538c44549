SPECIFICATION SandboxSpec
CONSTANTS
  s1 = s1
  s2 = s2
  Savers = {s1, s2}
  Texts = {"old", "new", "binary"}
  Binary = "binary"
  Seed = "seed"
  MaxSaves = 3
  MaxEdits = 0
  MaxErrors = 0
PROPERTY ComparedIsReplaced
CHECK_DEADLOCK FALSE
