---------------------------- MODULE Release_proofs ----------------------------
(***************************************************************************)
(* Theorems about the replay: for every set of users, CIDs, values and     *)
(* delegates, in every sequence of operations.                             *)
(***************************************************************************)
EXTENDS Release, Artifacts_proofs

\* The inductive invariant.  Neither named invariant is inductive alone: that
\* a write list still names a party once after a write needs the list to have
\* done so before, and the type of the list after it needs that too (the place
\* of the removed entry is the only one).
IInv ==
  /\ TypeOK
  /\ \A cid \in Cid : Carries(artifacts, cid) => Sound(artifacts[cid])

\* One more action keeps a release sound, and takes no artifact, authorship or
\* redaction away from it.
LEMMA OpKeeps ==
  ASSUME IInv, NEW user \in Did, NEW action \in Action,
         artifacts' = Act(artifacts, user, action), creator' = creator
  PROVE  /\ IInv'
         /\ \A cid \in Cid : Carries(artifacts, cid) =>
              Carries(artifacts', cid) /\ Keeps(artifacts[cid], artifacts'[cid])
BY ActSound DEF IInv, TypeOK

\* A step of the replay is one action, or the two of register_artifact_with_size.
LEMMA StepIsActs ==
  ASSUME Next
  PROVE  /\ creator' = creator
         /\ \E user \in Did, first \in Action :
              \/ artifacts' = Act(artifacts, user, first)
              \/ /\ first.type = "register"
                 /\ \E second \in Action :
                      artifacts' = Act(Act(artifacts, user, first), user, second)
<1>1. PICK user \in Did :
        \/ CreateAgain(user)
        \/ \E cid \in Cid :
             \/ RegisterArtifact(user, cid)
             \/ RegisterArtifactWithSize(user, cid)
             \/ AddOrRemoveLocation(user, cid)
             \/ AttestArtifact(user, cid)
             \/ RedactArtifact(user, cid)
             \/ SetMetadata(user, cid)
             \/ RemoveMetadata(user, cid)
  BY DEF Next
<1>2. CASE CreateAgain(user)
  BY <1>2 DEF CreateAgain, Op, Action
<1>3. ASSUME NEW cid \in Cid, RegisterArtifact(user, cid)
      PROVE  creator' = creator /\ \E first \in Action :
               artifacts' = Act(artifacts, user, first)
  BY <1>3 DEF RegisterArtifact, Op, Action
<1>4. ASSUME NEW cid \in Cid, RegisterArtifactWithSize(user, cid)
      PROVE  creator' = creator /\ \E first \in Action, second \in Action :
               /\ first.type = "register"
               /\ artifacts' = Act(Act(artifacts, user, first), user, second)
  BY <1>4 DEF RegisterArtifactWithSize, Action
<1>5. ASSUME NEW cid \in Cid,
             \/ AddOrRemoveLocation(user, cid)
             \/ AttestArtifact(user, cid)
             \/ RedactArtifact(user, cid)
             \/ SetMetadata(user, cid)
             \/ RemoveMetadata(user, cid)
      PROVE  creator' = creator /\ \E first \in Action :
               artifacts' = Act(artifacts, user, first)
  BY <1>5 DEF AddOrRemoveLocation, AttestArtifact, RedactArtifact, SetMetadata,
              RemoveMetadata, Op, Action
<1>6. QED  BY <1>1, <1>2, <1>3, <1>4, <1>5

\* What every step does to a release that satisfies the invariant.
LEMMA StepKeeps ==
  ASSUME IInv, [Next]_vars
  PROVE  /\ IInv'
         /\ \A cid \in Cid : Carries(artifacts, cid) =>
              Carries(artifacts', cid) /\ Keeps(artifacts[cid], artifacts'[cid])
<1>1. CASE UNCHANGED vars
  BY <1>1 DEF vars, IInv, TypeOK, Keeps
<1>2. CASE Next
  <2>1. creator' = creator
    BY <1>2, StepIsActs
  <2>2. PICK user \in Did, first \in Action :
          \/ artifacts' = Act(artifacts, user, first)
          \/ \E second \in Action :
               artifacts' = Act(Act(artifacts, user, first), user, second)
    BY <1>2, StepIsActs
  <2>3. CASE artifacts' = Act(artifacts, user, first)
    BY <2>1, <2>3, OpKeeps
  <2>4. ASSUME NEW second \in Action,
               artifacts' = Act(Act(artifacts, user, first), user, second)
        PROVE  /\ IInv'
               /\ \A cid \in Cid : Carries(artifacts, cid) =>
                    Carries(artifacts', cid) /\ Keeps(artifacts[cid], artifacts'[cid])
    <3> DEFINE between == Act(artifacts, user, first)
    <3>1. /\ between \in Artifacts
          /\ \A cid \in Cid : Carries(between, cid) => Sound(between[cid])
          /\ \A cid \in Cid : Carries(artifacts, cid) =>
               Carries(between, cid) /\ Keeps(artifacts[cid], between[cid])
      BY ActSound DEF IInv, TypeOK
    <3> HIDE DEF between
    <3>2. artifacts' = Act(between, user, second)
      BY <2>4 DEF between
    <3>3. /\ artifacts' \in Artifacts
          /\ \A cid \in Cid : Carries(artifacts', cid) => Sound(artifacts'[cid])
          /\ \A cid \in Cid : Carries(between, cid) =>
               Carries(artifacts', cid) /\ Keeps(between[cid], artifacts'[cid])
      BY <3>1, <3>2, ActSound
    <3>4. QED  BY <2>1, <3>1, <3>3 DEF IInv, TypeOK, Keeps
  <2>5. QED  BY <2>2, <2>3, <2>4
<1>3. QED  BY <1>1, <1>2

LEMMA InitIInv == Init => IInv
BY DEF Init, IInv, TypeOK, NoArtifacts, Artifacts, Carries

\* The invariant holds throughout every replay.
THEOREM ReleaseInvariant == Spec => []IInv
<1>1. IInv /\ [Next]_vars => IInv'
  BY StepKeeps
<1>2. QED  BY InitIInv, <1>1, PTL DEF Spec

\* Every replay keeps a well-formed release.
THEOREM ReleaseTypeCorrect == Spec => []TypeOK
<1>1. IInv => TypeOK
  BY DEF IInv
<1>2. QED  BY ReleaseInvariant, <1>1, PTL

\* No attestation of an author or of a redactor is ever counted, in whatever
\* order attestations and redactions arrive.
THEOREM AttestationsStayIndependent == Spec => []AttestationsAreIndependent
<1>1. IInv => AttestationsAreIndependent
  BY DEF IInv, Sound, Independent, AttestationsAreIndependent
<1>2. QED  BY ReleaseInvariant, <1>1, PTL

\* No superseded metadata write survives next to its successor.
THEOREM WritesStayOnePerParty == Spec => []OneWritePerParty
<1>1. IInv => OneWritePerParty
  BY DEF IInv, Sound, WellWritten, OneEach, OneWritePerParty
<1>2. QED  BY ReleaseInvariant, <1>1, PTL

\* No operation of anybody lifts a redaction, moves an authorship or drops an
\* artifact.
THEOREM RedactionsStay == Spec => RedactionIsPermanent
<1>1. ASSUME IInv, [Next]_vars
      PROVE  [\A cid \in Cid : Carries(artifacts, cid) =>
                /\ Carries(artifacts', cid)
                /\ artifacts'[cid].author = artifacts[cid].author
                /\ \A did \in Did : RedactedBy(artifacts[cid], did)
                                      => RedactedBy(artifacts'[cid], did)]_vars
  BY <1>1, StepKeeps DEF Keeps
<1>2. QED  BY ReleaseInvariant, <1>1, PTL DEF Spec, RedactionIsPermanent

-----------------------------------------------------------------------------
\* What one party wrote into a write list.
WritesBy(writes, did) ==
  {writes[i].write : i \in {j \in DOMAIN writes : writes[j].by = did}}

\* A write of one user takes nothing from the others and gives them nothing.
LEMMA OthersKeepTheirWrites ==
  ASSUME NEW writes \in Seq(Write), OneEach(writes),
         NEW user \in Did, NEW write \in Value \cup {Removed}, NEW other \in Did \ {user}
  PROVE  WritesBy(WriteMetadata(writes, user, write), other) = WritesBy(writes, other)
<1> DEFINE new == WriteMetadata(writes, user, write)
<1>1. PICK f : Follows(f, new, writes, user)
  BY WriteFollows
<1>2. new \in Seq(Write) /\ Len(new) >= 1 /\ new[Len(new)].by = user
  <2>1. new[Len(new)] = [by |-> user, write |-> write]
    BY WriteMetadataProperties
  <2> HIDE DEF new
  <2>2. new[Len(new)].by = user
    BY <2>1
  <2>3. QED  BY <2>2, WriteMetadataProperties DEF new
<1> HIDE DEF new
<1>3. /\ Len(writes) \in Nat /\ DOMAIN writes = 1..Len(writes)
      /\ Len(new) \in Nat /\ DOMAIN new = 1..Len(new)
  BY <1>2, LenProperties
<1>4. ASSUME NEW i \in 1..Len(new), new[i].by = other
      PROVE  f[i] \in 1..Len(writes) /\ writes[f[i]] = new[i]
  <2>1. i \in 1..Len(new) - 1
    BY <1>2, <1>3, <1>4
  <2>2. QED  BY <1>1, <2>1 DEF Follows
<1>5. ASSUME NEW n \in 1..Len(writes), writes[n].by = other
      PROVE  \E i \in 1..Len(new) : new[i] = writes[n]
  <2>1. PICK i \in 1..Len(new) - 1 : f[i] = n
    BY <1>1, <1>5 DEF Follows
  <2>2. i \in 1..Len(new) /\ new[i] = writes[n]
    BY <1>1, <1>3, <2>1 DEF Follows
  <2>3. QED  BY <2>2
<1>6. WritesBy(new, other) \subseteq WritesBy(writes, other)
  BY <1>3, <1>4 DEF WritesBy
<1>7. WritesBy(writes, other) \subseteq WritesBy(new, other)
  BY <1>3, <1>5 DEF WritesBy
<1>8. QED  BY <1>6, <1>7 DEF new

\* The parts of what a user has said about an artifact of the release.
SaysTheSame(a, b, did) ==
  /\ \A url \in Url : <<did, url>> \in b.locations <=> <<did, url>> \in a.locations
  /\ did \in b.attestations <=> did \in a.attestations
  /\ b.redactions[did] = a.redactions[did]
  /\ \A key \in Key : WritesBy(b.metadata[key], did) = WritesBy(a.metadata[key], did)

\* Equivalent memberships are equal Booleans.
LEMMA SameTruth ==
  ASSUME NEW x, NEW S, NEW T, x \in S <=> x \in T
  PROVE  (x \in S) = (x \in T)
BY Z3

LEMMA SameWords ==
  ASSUME NEW as, NEW bs, NEW cid \in Cid, NEW did \in Did,
         Carries(as, cid), Carries(bs, cid), SaysTheSame(as[cid], bs[cid], did)
  PROVE  SaidBy(bs, cid, did) = SaidBy(as, cid, did)
<1>1. {url \in Url : <<did, url>> \in bs[cid].locations}
        = {url \in Url : <<did, url>> \in as[cid].locations}
  BY DEF SaysTheSame
<1>2. (did \in bs[cid].attestations) = (did \in as[cid].attestations)
  <2>1. PICK S, T : S = bs[cid].attestations /\ T = as[cid].attestations
    OBVIOUS
  <2>2. did \in S <=> did \in T
    BY <2>1 DEF SaysTheSame
  <2>3. (did \in S) = (did \in T)
    BY <2>2, SameTruth
  <2>4. QED  BY <2>1, <2>3, Zenon
<1>3. [key \in Key |-> WritesBy(bs[cid].metadata[key], did)]
        = [key \in Key |-> WritesBy(as[cid].metadata[key], did)]
  BY DEF SaysTheSame
<1>4. bs[cid].redactions[did] = as[cid].redactions[did]
  BY DEF SaysTheSame
<1>5. QED  BY <1>1, <1>2, <1>3, <1>4, Zenon DEF SaidBy, WritesBy

\* An action on a registered artifact leaves what others said alone.
LEMMA EditSpeaksForOne ==
  ASSUME NEW a, Sound(a), NEW user \in Did, NEW action \in Action,
         action.type \notin {"create", "register"}, NEW other \in Did \ {user}
  PROVE  SaysTheSame(a, Edit(a, user, action), other)
<1>1. PICK b : b = Edit(a, user, action)
  OBVIOUS
<1>2. /\ Edited(a, b, user, action)
      /\ a.redactions \in [Did -> Reason \cup {NoReason}]
      /\ a.metadata \in [Key -> Seq(Write)]
      /\ \A key \in Key : OneEach(a.metadata[key])
      /\ action.type = "metadata" => action.write \in Value \cup {Removed}
  BY <1>1, EditFields DEF Sound, Artifact, WellWritten, Action
<1>3. \A url \in Url : <<other, url>> \in b.locations <=> <<other, url>> \in a.locations
  BY <1>2 DEF Edited
<1>4. other \in b.attestations <=> other \in a.attestations
  BY <1>2 DEF Edited
<1>5. b.redactions[other] = a.redactions[other]
  BY <1>2 DEF Edited
<1>6. ASSUME NEW key \in Key
      PROVE  WritesBy(b.metadata[key], other) = WritesBy(a.metadata[key], other)
  <2>1. CASE action.type = "metadata" /\ action.key = key
    <3>1. b.metadata[key] = WriteMetadata(a.metadata[key], user, action.write)
      BY <1>2, <2>1 DEF Edited
    <3>2. QED  BY <1>2, <2>1, <3>1, OthersKeepTheirWrites
  <2>2. CASE ~ (action.type = "metadata" /\ action.key = key)
    <3>1. b.metadata[key] = a.metadata[key]
      BY <1>2, <2>2 DEF Edited
    <3>2. QED  BY <3>1
  <2>3. QED  BY <2>1, <2>2
<1>7. QED  BY <1>1, <1>3, <1>4, <1>5, <1>6 DEF SaysTheSame

\* An action of a user leaves what the others said alone, and what an artifact is
\* called unless the user is its author.
LEMMA ActSpeaksForOne ==
  ASSUME NEW as \in Artifacts, \A cid \in Cid : Carries(as, cid) => Sound(as[cid]),
         NEW user \in Did, NEW action \in Action, NEW cid \in Cid
  PROVE  LET new == Act(as, user, action)
         IN  /\ \A other \in Did \ {user} : SaidBy(new, cid, other) = SaidBy(as, cid, other)
             /\ Carries(as, cid) /\ new[cid].name # as[cid].name => user = as[cid].author
<1> DEFINE new == Act(as, user, action)
<1>1. CASE action.type = "create" \/ action.cid # cid
  <2>1. new[cid] = as[cid]
    BY <1>1, ActElsewhere
  <2> HIDE DEF new
  <2>2. QED  BY <2>1 DEF SaidBy, Carries, new
<1>2. CASE action.type = "register" /\ action.cid = cid
  <2>1. new[cid] = Register(as[cid], user, action.name) /\ action.name \in Name
    BY <1>2, ActElsewhere DEF Action
  <2> HIDE DEF new
  <2>2. CASE ~ Carries(as, cid)
    <3>1. new[cid] = NewArtifact(user, action.name)
      BY <2>1, <2>2 DEF Register, Carries
    <3>2. Carries(new, cid)
      BY <2>1, <3>1, NewArtifactSound, ArtifactsAssumption DEF Sound, Carries
    <3>3. ASSUME NEW other \in Did
          PROVE  SaidBy(new, cid, other) = SaidBy(as, cid, other)
      <4>1. /\ new[cid].locations = {} /\ new[cid].attestations = {}
            /\ new[cid].redactions = [did \in Did |-> NoReason]
            /\ new[cid].metadata = [key \in Key |-> <<>>]
        BY <3>1 DEF NewArtifact
      <4>2. /\ {url \in Url : <<other, url>> \in new[cid].locations} = {}
            /\ new[cid].redactions[other] = NoReason
        BY <4>1
      <4>3. (other \in new[cid].attestations) = FALSE
        BY <4>1
      <4>4. [key \in Key |-> WritesBy(new[cid].metadata[key], other)] = [key \in Key |-> {}]
        BY <4>1 DEF WritesBy
      <4>5. QED  BY <2>2, <3>2, <4>2, <4>3, <4>4, Zenon DEF SaidBy, WritesBy
    <3>4. QED  BY <2>2, <3>3 DEF new
  <2>3. CASE Carries(as, cid)
    <3>1. as[cid] \in Artifact /\ as[cid] # Absent
      BY <2>3 DEF Sound, Carries
    <3>2. /\ new[cid] # Absent
          /\ new[cid].locations = as[cid].locations
          /\ new[cid].attestations = as[cid].attestations
          /\ new[cid].redactions = as[cid].redactions
          /\ new[cid].metadata = as[cid].metadata
          /\ new[cid].name # as[cid].name => user = as[cid].author
      <4>1. new[cid] \in Artifact
        BY <2>1, <3>1 DEF Register, Artifact
      <4>2. QED  BY <2>1, <3>1, <4>1, ArtifactsAssumption DEF Register, Artifact
    <3>3. QED  BY <2>3, <3>2, SameWords DEF SaysTheSame, Carries, new
  <2>4. QED  BY <2>2, <2>3
<1>3. CASE action.type \notin {"create", "register"} /\ action.cid = cid
  <2>1. CASE ~ Carries(as, cid)
    <3>1. new[cid] = as[cid]
      BY <1>3, <2>1, ActElsewhere DEF Carries
    <3> HIDE DEF new
    <3>2. QED  BY <2>1, <3>1 DEF SaidBy, Carries, new
  <2>2. CASE Carries(as, cid)
    <3>1. new[cid] = Edit(as[cid], user, action)
      BY <1>3, <2>2, ActElsewhere
    <3>2. Carries(new, cid)
      BY <2>2, ActSound
    <3>3. new[cid].name = as[cid].name
      <4> HIDE DEF new
      <4>1. as[cid] \in Artifact
        BY <2>2 DEF Sound
      <4>2. Edit(as[cid], user, action).name = as[cid].name
        BY <1>3, <4>1, EditFields DEF Edited
      <4>3. QED  BY <3>1, <4>2
    <3>4. ASSUME NEW other \in Did \ {user}
          PROVE  SaidBy(new, cid, other) = SaidBy(as, cid, other)
      <4>1. SaysTheSame(as[cid], new[cid], other)
        BY <1>3, <2>2, <3>1, EditSpeaksForOne
      <4> HIDE DEF new
      <4>2. QED  BY <2>2, <3>2, <4>1, SameWords
    <3>5. QED  BY <3>3, <3>4
  <2>3. QED  BY <2>1, <2>2
<1>4. QED  BY <1>1, <1>2, <1>3

\* Nobody puts words into the mouth of another, nor renames their artifacts.
THEOREM SignersSpeakForThemselves == Spec => OnlyTheSignerSpeaks
<1> DEFINE Speaks ==
      \E user \in Did :
        /\ \A other \in Did \ {user}, cid \in Cid :
             SaidBy(artifacts', cid, other) = SaidBy(artifacts, cid, other)
        /\ \A cid \in Cid :
             Carries(artifacts, cid) /\ artifacts'[cid].name # artifacts[cid].name
               => user = artifacts[cid].author
<1>1. ASSUME IInv, Next  PROVE Speaks
  <2>1. PICK user \in Did, first \in Action :
          \/ artifacts' = Act(artifacts, user, first)
          \/ \E second \in Action :
               artifacts' = Act(Act(artifacts, user, first), user, second)
    BY <1>1, StepIsActs
  <2>2. CASE artifacts' = Act(artifacts, user, first)
    BY <1>1, <2>2, ActSpeaksForOne DEF IInv, TypeOK
  <2>3. ASSUME NEW second \in Action,
               artifacts' = Act(Act(artifacts, user, first), user, second)
        PROVE  Speaks
    <3>1. PICK between : between = Act(artifacts, user, first)
      OBVIOUS
    <3>2. /\ between \in Artifacts
          /\ \A cid \in Cid : Carries(between, cid) => Sound(between[cid])
          /\ \A cid \in Cid : Carries(artifacts, cid) =>
               Carries(between, cid) /\ Keeps(artifacts[cid], between[cid])
      BY <1>1, <3>1, ActSound DEF IInv, TypeOK
    <3>3. artifacts' = Act(between, user, second)
      BY <2>3, <3>1
    <3>4. ASSUME NEW cid \in Cid
          PROVE  /\ \A other \in Did \ {user} :
                      SaidBy(between, cid, other) = SaidBy(artifacts, cid, other)
                 /\ Carries(artifacts, cid) /\ between[cid].name # artifacts[cid].name
                      => user = artifacts[cid].author
      BY <1>1, <3>1, ActSpeaksForOne DEF IInv, TypeOK
    <3>5. ASSUME NEW cid \in Cid
          PROVE  /\ \A other \in Did \ {user} :
                      SaidBy(artifacts', cid, other) = SaidBy(between, cid, other)
                 /\ Carries(between, cid) /\ artifacts'[cid].name # between[cid].name
                      => user = between[cid].author
      BY <3>2, <3>3, ActSpeaksForOne
    <3>6. QED  BY <3>2, <3>4, <3>5 DEF Keeps
  <2>4. QED  BY <2>1, <2>2, <2>3
<1>2. IInv /\ [Next]_vars => [Speaks]_vars
  BY <1>1
<1>3. QED  BY ReleaseInvariant, <1>2, PTL DEF Spec, OnlyTheSignerSpeaks

\* The parts of an artifact that readers judge.
Judged(a) == <<a.author, a.redactions, a.metadata>>

LEMMA VerdictFollows ==
  ASSUME NEW a, NEW b, Judged(b) = Judged(a)
  PROVE  Verdict(b) = Verdict(a)
<1>1. b.author = a.author /\ b.redactions = a.redactions /\ b.metadata = a.metadata
  BY DEF Judged
<1>2. Withdrawals(b) = Withdrawals(a)
  BY <1>1 DEF Withdrawals, RedactedBy, IsAuthorOrDelegate
<1>3. [key \in Key |-> TrustedMetadata(b, key)] = [key \in Key |-> TrustedMetadata(a, key)]
  BY <1>1 DEF TrustedMetadata, IsAuthorOrDelegate
<1>4. QED  BY <1>2, <1>3, Zenon DEF Verdict, IsRedactedByTrusted

\* The user has a say and used it.
HadASay(a, b, user) ==
  /\ IsAuthorOrDelegate(user, a)
  /\ \/ b.redactions[user] # a.redactions[user]
     \/ \E key \in Key :
          /\ b.metadata[key] # a.metadata[key]
          /\ Last(b.metadata[key]).by = user

LEMMA EditJudged ==
  ASSUME NEW a, Sound(a), NEW user \in Did, NEW action \in Action,
         action.type \notin {"create", "register"}
  PROVE  LET b == Edit(a, user, action)
         IN  Verdict(b) # Verdict(a) => HadASay(a, b, user)
<1>1. PICK b : b = Edit(a, user, action)
  OBVIOUS
<1>2. /\ Edited(a, b, user, action)
      /\ a.redactions \in [Did -> Reason \cup {NoReason}]
      /\ a.metadata \in [Key -> Seq(Write)]
      /\ \A key \in Key : OneEach(a.metadata[key])
  BY <1>1, EditFields DEF Sound, Artifact, WellWritten
<1>3. b.author = a.author
  BY <1>2 DEF Edited
<1>4. CASE action.type \notin {"redact", "metadata"}
  <2>1. Judged(b) = Judged(a)
    BY <1>2, <1>4 DEF Edited, Judged
  <2>2. QED  BY <1>1, <2>1, VerdictFollows
<1>5. CASE action.type = "redact"
  <2>1. /\ b.redactions = [a.redactions EXCEPT ![user] = action.reason]
        /\ b.metadata = a.metadata
    BY <1>2, <1>5 DEF Edited
  <2>2. ASSUME ~ IsAuthorOrDelegate(user, a)  PROVE Verdict(b) = Verdict(a)
    <3>1. Withdrawals(b) = Withdrawals(a)
      BY <1>2, <1>3, <2>1, <2>2 DEF Withdrawals, RedactedBy, IsAuthorOrDelegate
    <3>2. [key \in Key |-> TrustedMetadata(b, key)] = [key \in Key |-> TrustedMetadata(a, key)]
      BY <1>3, <2>1 DEF TrustedMetadata, IsAuthorOrDelegate
    <3>3. QED  BY <3>1, <3>2, Zenon DEF Verdict, IsRedactedByTrusted
  <2>3. ASSUME b.redactions[user] = a.redactions[user]  PROVE Verdict(b) = Verdict(a)
    <3>1. b.redactions = a.redactions
      BY <1>2, <2>1, <2>3
    <3>2. Judged(b) = Judged(a)
      BY <1>3, <2>1, <3>1 DEF Judged
    <3>3. QED  BY <3>2, VerdictFollows
  <2>4. QED  BY <1>1, <2>2, <2>3 DEF HadASay
<1>6. CASE action.type = "metadata"
  <2>1. PICK key \in Key, write \in Value \cup {Removed} :
          key = action.key /\ write = action.write
    BY <1>6 DEF Action
  <2>2. PICK list : list = WriteMetadata(a.metadata[key], user, write)
    OBVIOUS
  <2>3. b.redactions = a.redactions /\ b.metadata = [a.metadata EXCEPT ![key] = list]
    BY <1>2, <1>6, <2>1, <2>2 DEF Edited
  <2>4. b = SetOrRemoveMetadata(a, user, key, write)
    BY <1>1, <1>6, <2>1 DEF Edit
  <2>5. ASSUME ~ IsAuthorOrDelegate(user, a)  PROVE Verdict(b) = Verdict(a)
    <3>1. \A k \in Key : TrustedMetadata(b, k) = TrustedMetadata(a, k)
      BY <2>4, <2>5, WriteTrusted
    <3>2. [k \in Key |-> TrustedMetadata(b, k)] = [k \in Key |-> TrustedMetadata(a, k)]
      BY <3>1
    <3>3. Withdrawals(b) = Withdrawals(a)
      BY <1>3, <2>3 DEF Withdrawals, RedactedBy, IsAuthorOrDelegate
    <3>4. QED  BY <3>2, <3>3, Zenon DEF Verdict, IsRedactedByTrusted
  <2>6. Last(b.metadata[key]).by = user
    <3>1. list[Len(list)] = [by |-> user, write |-> write]
      BY <1>2, <2>2, WriteMetadataProperties
    <3>2. b.metadata[key] = list
      BY <1>2, <2>3
    <3>3. QED  BY <3>1, <3>2 DEF Last
  <2>7. ASSUME b.metadata[key] = a.metadata[key]  PROVE Verdict(b) = Verdict(a)
    <3>1. b.metadata = a.metadata
      BY <1>2, <2>3, <2>7
    <3>2. Judged(b) = Judged(a)
      BY <1>3, <2>3, <3>1 DEF Judged
    <3>3. QED  BY <3>2, VerdictFollows
  <2>8. QED  BY <1>1, <2>5, <2>6, <2>7 DEF HadASay
<1>7. QED  BY <1>4, <1>5, <1>6

LEMMA ActJudged ==
  ASSUME NEW as \in Artifacts, \A cid \in Cid : Carries(as, cid) => Sound(as[cid]),
         NEW user \in Did, NEW action \in Action, NEW cid \in Cid, Carries(as, cid)
  PROVE  LET new == Act(as, user, action)
         IN  Verdict(new[cid]) # Verdict(as[cid]) =>
               /\ IsAuthorOrDelegate(user, as[cid])
               /\ \/ SaidBy(new, cid, user) # SaidBy(as, cid, user)
                  \/ \E key \in Key :
                       /\ new[cid].metadata[key] # as[cid].metadata[key]
                       /\ Last(new[cid].metadata[key]).by = user
<1> DEFINE new == Act(as, user, action)
<1>1. CASE action.type = "create" \/ action.cid # cid
  BY <1>1, ActElsewhere
<1>2. CASE action.type = "register" /\ action.cid = cid
  <2>1. /\ new[cid] = Register(as[cid], user, action.name)
        /\ as[cid] # Absent /\ as[cid] \in Artifact
    BY <1>2, ActElsewhere DEF Carries, Sound
  <2> HIDE DEF new
  <2>2. Judged(new[cid]) = Judged(as[cid])
    BY <2>1 DEF Register, Judged, Artifact
  <2>3. QED  BY <2>2, VerdictFollows DEF new
<1>3. CASE action.type \notin {"create", "register"} /\ action.cid = cid
  <2>1. Carries(new, cid)
    BY ActSound
  <2>2. new[cid] = Edit(as[cid], user, action)
    BY <1>3, ActElsewhere
  <2> HIDE DEF new
  <2>3. ASSUME Verdict(new[cid]) # Verdict(as[cid])
        PROVE  HadASay(as[cid], new[cid], user)
    BY <1>3, <2>2, <2>3, EditJudged
  <2>4. ASSUME new[cid].redactions[user] # as[cid].redactions[user]
        PROVE  SaidBy(new, cid, user) # SaidBy(as, cid, user)
    <3>1. /\ SaidBy(new, cid, user).reason = new[cid].redactions[user]
          /\ SaidBy(as, cid, user).reason = as[cid].redactions[user]
      BY <2>1 DEF SaidBy
    <3>2. QED  BY <2>4, <3>1
  <2>5. QED  BY <2>3, <2>4 DEF HadASay, new
<1>4. QED  BY <1>1, <1>2, <1>3

\* Registering again changes no more than the name.
LEMMA RegisterAgain ==
  ASSUME NEW as \in Artifacts, \A cid \in Cid : Carries(as, cid) => Sound(as[cid]),
         NEW user \in Did, NEW action \in Action, action.type = "register",
         NEW cid \in Cid, Carries(as, cid)
  PROVE  LET new == Act(as, user, action)
         IN  /\ Judged(new[cid]) = Judged(as[cid])
             /\ \A did \in Did : SaidBy(new, cid, did) = SaidBy(as, cid, did)
<1> DEFINE new == Act(as, user, action)
<1>1. Carries(new, cid)
  BY ActSound
<1>2. /\ new[cid] = as[cid] \/ new[cid] = Register(as[cid], user, action.name)
      /\ as[cid] # Absent /\ as[cid] \in Artifact
  BY ActElsewhere DEF Carries, Sound
<1> HIDE DEF new
<1>3. /\ Judged(new[cid]) = Judged(as[cid])
      /\ new[cid].locations = as[cid].locations
      /\ new[cid].attestations = as[cid].attestations
  BY <1>2 DEF Register, Judged, Artifact
<1>4. \A did \in Did : SaysTheSame(as[cid], new[cid], did)
  BY <1>3 DEF SaysTheSame, Judged
<1>5. QED  BY <1>1, <1>3, <1>4, SameWords DEF new

\* "No stranger can veto a release": whoever changes the verdict on an artifact is
\* its author or a delegate, in every sequence of operations of anybody.
THEOREM NoStrangerHasASay == Spec => StrangersHaveNoSay
<1> DEFINE Said ==
      \A cid \in Cid :
        Carries(artifacts, cid) /\ Verdict(artifacts'[cid]) # Verdict(artifacts[cid])
          => \E did \in Did :
               /\ IsAuthorOrDelegate(did, artifacts[cid])
               /\ \/ SaidBy(artifacts', cid, did) # SaidBy(artifacts, cid, did)
                  \/ \E key \in Key :
                       /\ artifacts'[cid].metadata[key] # artifacts[cid].metadata[key]
                       /\ Last(artifacts'[cid].metadata[key]).by = did
<1>1. ASSUME IInv, Next  PROVE Said
  <2>1. PICK user \in Did, first \in Action :
          \/ artifacts' = Act(artifacts, user, first)
          \/ /\ first.type = "register"
             /\ \E second \in Action :
                  artifacts' = Act(Act(artifacts, user, first), user, second)
    BY <1>1, StepIsActs
  <2>2. CASE artifacts' = Act(artifacts, user, first)
    BY <1>1, <2>2, ActJudged DEF IInv, TypeOK
  <2>3. ASSUME NEW second \in Action, first.type = "register",
               artifacts' = Act(Act(artifacts, user, first), user, second)
        PROVE  Said
    <3>1. PICK between : between = Act(artifacts, user, first)
      OBVIOUS
    <3>2. /\ between \in Artifacts
          /\ \A cid \in Cid : Carries(between, cid) => Sound(between[cid])
      BY <1>1, <3>1, ActSound DEF IInv, TypeOK
    <3>3. artifacts' = Act(between, user, second)
      BY <2>3, <3>1
    <3>4. ASSUME NEW cid \in Cid, Carries(artifacts, cid),
                 Verdict(artifacts'[cid]) # Verdict(artifacts[cid])
          PROVE  /\ IsAuthorOrDelegate(user, artifacts[cid])
                 /\ \/ SaidBy(artifacts', cid, user) # SaidBy(artifacts, cid, user)
                    \/ \E key \in Key :
                         /\ artifacts'[cid].metadata[key] # artifacts[cid].metadata[key]
                         /\ Last(artifacts'[cid].metadata[key]).by = user
      <4>1. /\ Judged(between[cid]) = Judged(artifacts[cid])
            /\ SaidBy(between, cid, user) = SaidBy(artifacts, cid, user)
        BY <1>1, <2>3, <3>1, <3>4, RegisterAgain DEF IInv, TypeOK
      <4>2. Carries(between, cid)
        BY <1>1, <3>1, <3>4, ActSound DEF IInv, TypeOK
      <4>3. Verdict(artifacts'[cid]) # Verdict(between[cid])
        BY <3>4, <4>1, VerdictFollows
      <4>4. /\ IsAuthorOrDelegate(user, between[cid])
            /\ \/ SaidBy(artifacts', cid, user) # SaidBy(between, cid, user)
               \/ \E key \in Key :
                    /\ artifacts'[cid].metadata[key] # between[cid].metadata[key]
                    /\ Last(artifacts'[cid].metadata[key]).by = user
        BY <3>2, <3>3, <4>2, <4>3, ActJudged
      <4>5. /\ between[cid].author = artifacts[cid].author
            /\ between[cid].metadata = artifacts[cid].metadata
        BY <4>1 DEF Judged
      <4>6. QED  BY <4>1, <4>4, <4>5 DEF IsAuthorOrDelegate
    <3>5. QED  BY <3>4
  <2>4. QED  BY <2>1, <2>2, <2>3
<1>2. IInv /\ [Next]_vars => [Said]_vars
  BY <1>1
<1>3. QED  BY ReleaseInvariant, <1>2, PTL DEF Spec, StrangersHaveNoSay

\* verify's verdict and the default listing coincide in every scope, whatever
\* the release carries.
THEOREM ListingFollowsCheck == Spec => []ListingAgreesWithCheck
<1>1. ListingAgreesWithCheck
  <2>1. SUFFICES ASSUME NEW scope \in Scope, NEW cid \in Cid,
                        Carries(artifacts, cid)
                 PROVE  CheckBy(scope, creator, artifacts[cid]) = "ok" <=>
                          /\ ShowsRelease(scope, FALSE, creator, artifacts)
                          /\ cid \in ShownArtifacts(scope, FALSE, artifacts)
    BY DEF ListingAgreesWithCheck
  <2>2. IsFullyRedacted(artifacts) => IsRedactedByTrusted(artifacts[cid])
    BY <2>1 DEF IsFullyRedacted
  <2>3. cid \in ShownArtifacts(scope, FALSE, artifacts) <=>
          /\ ~ IsRedactedByTrusted(artifacts[cid])
          /\ Admits(scope, artifacts[cid].author)
    BY <2>1 DEF ShownArtifacts, ShowsArtifact
  <2>4. QED  BY <2>2, <2>3 DEF CheckBy, ShowsRelease
<1>2. QED  BY <1>1, PTL
==============================================================================
