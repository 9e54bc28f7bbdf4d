SPECIFICATION Spec
CONSTANTS
  Did = {delegate, local, stranger}
  Delegates = {delegate}
  Local = local
  cid1 = cid1
  cid2 = cid2
  name1 = name1
  name2 = name2
  reason1 = reason1
  reason2 = reason2
  Cid <- MCCid
  Name <- MCName
  Url = {url1}
  Reason <- MCReason
  Key = {key1}
  Value = {value1}
  Removed = Removed
  NoReason = NoReason
  Absent = Absent
CONSTRAINT TwoBareOrOneFull
INVARIANTS
  TypeOK
  AttestationsAreIndependent
  OneWritePerParty
  ListingAgreesWithCheck
PROPERTIES
  RedactionIsPermanent
  OnlyTheSignerSpeaks
  StrangersHaveNoSay
