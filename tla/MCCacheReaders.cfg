SPECIFICATION FairSpec
CONSTANTS
  Reader = {r1, r2}
  Id = {id1}
  MaxVersion = 2
  Unreadable = {}
  Holding = {2}
  Recurs = FALSE
  NoRow = NoRow
INVARIANTS
  RowsAreNotOlderThanTheirToken
  GetIsCurrent
  LoneReadsAreCurrent
PROPERTIES
  CacheConverges
