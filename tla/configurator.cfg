SPECIFICATION Spec
CONSTANTS
  sw1 = sw1
  sw2 = sw2
  h1 = h1
  h2 = h2
  t1 = t1
  t2 = t2
  Names <- TwoNames
  Hosts <- TwoHosts
  Lines = 2
  MaxRows = 2
  MaxRuns = 2
  Threads <- TwoThreads
  MaxJobs = 2
INVARIANT BackupsAreNotShared
INVARIANT JobsAreAnnounced
PROPERTY ChangesAreBackedUp
PROPERTY EveryDeviceIsTried
