SPECIFICATION Spec
CONSTANTS
  N = 2
  MaxPerPass = 2
  MaxTurns = 1
  MaxRequests = 2
  MaxFailures = 1
  MaxRestarts = 1
  document = document
  image = image
  Attachments = {document, image}
  Images = {image}
  MaxStops = 2
  MaxUploadFailures = 2
  Profiles = {"p"}
  Listings <- NoneOrP
  Processes = {1, 2, 3, 4, 5}
  Requests = {"r"}
  Timer = "timer"
  Nobody = Nobody
  ReapOrphans = TRUE
  MaxReconciles = 2
  MaxProfileFaults = 2
INVARIANTS
  FewDashboards
PROPERTIES
  CopiesAreThere
  FiledSessionsBecomeDurable
  AttachedIsThere
  UploadsEnd
  ProfilesFollowHermes
CHECK_DEADLOCK FALSE
