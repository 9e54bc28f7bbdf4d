SPECIFICATION FairSpec
CONSTANTS
  Handler = {h1, h2}
  Repo = {repo}
  Release = {rel1, rel2}
  NoRelease = NoRelease
  coll = coll
  blob = blob
  seq = seq
  bytes = bytes
  Cid <- MCCid
  Hash <- MCHash
  Root <- MCRoot
  Members <- MCMembers
INVARIANTS
  TypeOK
  AcknowledgedIsComplete
  UnseedMissesNone
PROPERTIES
  KeptWhileSeeded
  UnseededIsReclaimed
