SPECIFICATION TrapSpec
CONSTANTS
  Oids <- MCOids
  RawOids <- MCRawOids
  Communities <- MCCommunities
  CriticalTexts <- MCCriticalTexts
  WarningTexts <- MCWarningTexts
INVARIANT TrapsAreReadAsMeant
INVARIANT DamagedTrapsAreRejected
INVARIANT OnlyPaddingIsTolerated
