SPECIFICATION FairWatchSpec
CONSTANTS
  unhinted = unhinted
  understated = understated
  NoHint = NoHint
  NoBudget = NoBudget
  Cid <- MCCid
  Release <- MCOneRelease
  Size <- MCSize
  Hint <- MCHint
  Budget = 2
  MaxCrashes = 1
INVARIANT BudgetHolds
PROPERTY LocationsGetAnnounced
PROPERTY TrustedGetsSeeded
