SPECIFICATION Spec
CONSTANTS
  Reader = {r1, r2}
  Id = {id1}
  MaxVersion = 2
  Unreadable = {}
  Holding = {}
  Recurs = FALSE
  NoRow = NoRow
INVARIANTS
  ReadsAreCurrent
