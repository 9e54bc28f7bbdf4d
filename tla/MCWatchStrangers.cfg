SPECIFICATION WatchSpec
CONSTANTS
  unhinted = unhinted
  understated = understated
  NoHint = NoHint
  NoBudget = NoBudget
  Cid <- MCOneCid
  Release <- MCRelease
  Size <- MCSize
  Hint <- MCHint
  Budget = NoBudget
  MaxCrashes = 0
INVARIANT StrangersAreSkipped
