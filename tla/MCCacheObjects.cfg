SPECIFICATION Spec
CONSTANTS
  Reader = {r1}
  Id = {id1, id2}
  MaxVersion = 3
  Unreadable = {2}
  Holding = {3}
  Recurs = FALSE
  NoRow = NoRow
SYMMETRY Symmetry
PROPERTIES
  ReadsLikeGitOrLastGood
