SPECIFICATION Spec
CONSTANTS
  h1 = h1
  s1 = s1
  s2 = s2
  Handles = {h1}
  Sessions = {s1, s2}
  MaxInbox = 2
  PageSize = 1
  MaxOpened = 2
  MaxEvents = 2
  MaxHosts = 2
  MaxFailures = 1
INVARIANT
  OwnersPrecedeReceipt
