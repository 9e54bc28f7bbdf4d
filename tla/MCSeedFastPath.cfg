SPECIFICATION Spec
CONSTANTS
  Handler = {h1}
  Repo = {repo}
  Release = {rel1}
  NoRelease = NoRelease
  coll = coll
  blob = blob
  seq = seq
  bytes = bytes
  Cid <- MCCid
  Hash <- MCHash
  Root <- MCRoot
  Members <- MCMembers
INVARIANTS
  SeededIsComplete
