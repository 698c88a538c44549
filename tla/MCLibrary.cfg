SPECIFICATION Spec
CONSTANTS
  Paths = {f, i}
  Denied = {i}
  Nested = {f}
  Contents = {a, b}
  Turns = {t1, t2}
  MaxPending = 1
  MaxWrites = 2
  MaxAsked = 1
  MaxFailures = 1
  Artifacts = {a1, a2}
  Boards = {p}
  TagIds = {g1, g2}
  draft = draft
  Draft = Draft
  final = final
  blank = blank
  Typed = {draft, Draft, final, blank}
  Normal <- NormalNames
  Refused = Refused
  CollectionIds = {c1}
  Titles = {one, two}
  MaxPosition = 4
  Projects = {p1, p2}
  Sessions = {"s1", "s2"}
  Profiles = {"default", "work"}
  DefaultProfile = "default"
  Home <- HomeOf
  MaxFilings = 2
  MaxRuns = 1
  MaxFiles = 1
  MaxCopies = 1
  MaxRequests = 1
  RowIds = {1, 2, 3}
  FilePaths <- SomePaths
  Ignored <- OneIgnored
  Kind <- Kinds
  Filters <- Wanted
  PageLimit = 1
  MaxTime = 1
SYMMETRY Symmetry
INVARIANTS
  ArtifactsAreVersions
  TurnsAreDiffed
  NothingDangles
  MissingIsGone
  ListingsAreComplete
PROPERTIES
  RenamesKeepOwners
  OrderIsTheOperators
CHECK_DEADLOCK FALSE
