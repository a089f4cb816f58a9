SPECIFICATION Spec
CONSTANTS
  r1 = r1
  r2 = r2
  Tabs <- OneTab
  Threshold = 2
  Window = 1
  RulesChange = FALSE
  MaxTime = 3
  MaxAttempts = 4
  MaxFaults = 0
PROPERTY FiveFailuresCreateAnIncident
