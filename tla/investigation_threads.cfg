SPECIFICATION Spec
CONSTANTS
  t1 = t1
  t2 = t2
  Threads <- TwoThreads
  AttackTypes <- Spray
  LineKinds <- AlertLines
  Rules <- AllRules
  Bodies <- AllBodies
  EventStatuses <- OnlyOpen
  IncidentStatuses <- OnlyOpen
  Minimum = 2
  MaxUpload = 1
  MaxRequests = 2
  MaxFaults = 1
  MaxEvents = 4
  MaxIncidents = 2
  MaxActivity = 2
  MaxEvidence = 2
SYMMETRY Symmetry
INVARIANT EvidenceMatchesIncident
INVARIANT DisabledRulesAreSilent
