SPECIFICATION Spec
CONSTANTS
  c1 = c1
  c2 = c2
  s1 = s1
  s2 = s2
  h1 = h1
  h2 = h2
  Calls = {c1, c2}
  Sessions = {s1, s2}
  Handles = {h1, h2}
  MaxGeneration = 2
SYMMETRY Symmetry
INVARIANTS
  RightSession
  NobodyIsStranded
PROPERTIES
  ImplementsContract
