SPECIFICATION Spec
CONSTANTS
  Did = {delegate, other}
  Delegates = {delegate}
  Local = other
  Cid = {cid1}
  Name = {name1, name2}
  Url = {url1}
  Reason = {reason1}
  Key = {key1}
  Value = {value1}
  Removed = Removed
  NoReason = NoReason
  Absent = Absent
  MaxOps = 4
INVARIANTS
  ReplayMeansHistory
  RedactionTakesEffect
  PeersAgree
PROPERTY WritesComeLast
SYMMETRY Symmetry
CHECK_DEADLOCK FALSE
