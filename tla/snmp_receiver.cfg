SPECIFICATION Spec
CONSTANTS
  QueueSize = 2
  MaxPackets = 4
  MaxFaults = 2
INVARIANT RecordsAgree
PROPERTY QueuedTrapsAreStored
PROPERTY DeadIsOffline
