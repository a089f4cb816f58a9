SPECIFICATION Spec
CONSTANTS
  t1 = t1
  t2 = t2
  Threads <- OneThread
  AttackTypes <- AllAttacks
  LineKinds <- AllLines
  Rules <- AllRules
  Bodies <- AllBodies
  EventStatuses <- OnlyOpen
  IncidentStatuses <- OnlyOpen
  Minimum = 3
  MaxUpload = 3
  MaxRequests = 1
  MaxFaults = 1
  MaxEvents = 3
  MaxIncidents = 3
  MaxActivity = 3
  MaxEvidence = 3
INVARIANT OneIncidentPerEvent
PROPERTY UndisturbedAttacksAreFound
PROPERTY UploadsLeaveNoLooseEnds
