SPECIFICATION Spec
CONSTANTS
  Requirements <- MCRequirements
  MaxChanges = 3
  MaxCrashes = 3
INVARIANT StampTellsTheTruth
PROPERTY ServedInTheEnd
