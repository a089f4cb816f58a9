SPECIFICATION ReaderSpec
CONSTANTS
  r1 = r1
  Rules <- MCRules
  Bodies <- MCBodies
  EventStatuses <- MCEventStatuses
  IncidentStatuses <- MCIncidentStatuses
  MaxEvents = 2
  MaxIncidents = 1
  MaxActivity = 2
  MaxEvidence = 1
  PerPage = 1
INVARIANT TablesAgree
INVARIANT StatusIsExplained
INVARIANT RulesFollowTheAnalyst
INVARIANT ReportIsExplained
INVARIANT WalkMissesNothing
PROPERTY LinksAreNotReused
