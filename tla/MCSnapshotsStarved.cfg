SPECIFICATION SnapshotFair
CONSTANTS
  N = 2
  MaxPerPass = 1
  MaxTurns = 2
  MaxRequests = 2
  MaxFailures = 0
  MaxRestarts = 0
PROPERTIES
  FiledSessionsBecomeDurable
