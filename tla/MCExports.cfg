SPECIFICATION FairSpec
CONSTANTS
  Export = {e1, e2}
  coll = coll
  blob = blob
  part1 = part1
  part2 = part2
  chunk = chunk
  Cid <- MCCid
  Part <- MCPart
  Parts <- MCParts
  Collections = {coll}
  Missing = Missing
INVARIANTS
  TypeOK
  DestIsWhole
  OkayMeansExported
  NothingIsLeftBehind
PROPERTIES
  OldStaysUntilNew
  VanishedClientStopsExport
