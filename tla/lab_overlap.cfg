SPECIFICATION Spec
CONSTANTS
  r1 = r1
  r2 = r2
  Tabs <- TwoTabs
  Threshold = 2
  Window = 2
  RulesChange = TRUE
  MaxTime = 3
  MaxAttempts = 3
  MaxFaults = 1
SYMMETRY Symmetry
INVARIANT AlertsAreBacked
INVARIANT IncidentsLinkTheWindow
INVARIANT BurstsAreReportedOnce
