SPECIFICATION Spec
CONSTANTS
  Proc = {p1, p2}
  Id = {1, 2}
  cid1 = cid1
  tag1 = tag1
  delegate = delegate
  stranger = stranger
  Cid = {cid1}
  Tag = {tag1}
  NoTag = NoTag
  Local = local
  Did <- MCDid
  Delegates = {delegate}
  Absent = Absent
  Theirs <- MCTheirs
  ByHand = {"current"}
  Overlaps <- MCOverlaps
INVARIANTS
  TypeOK
  OneReleasePerTag
  
PROPERTIES
  RetractsNothingSeeded
SYMMETRY Symmetry
