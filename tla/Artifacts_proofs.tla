-------------------------- MODULE Artifacts_proofs --------------------------
(***************************************************************************)
(* Facts about the effect of one action and what readers make of it, for   *)
(* every choice of the constants.  Release_proofs lifts them to one replay *)
(* and ReleaseReplicas_proofs to all the replays of a set of operations.   *)
(***************************************************************************)
EXTENDS Trust, SequenceTheorems, WellFoundedInduction, TLAPS

\* Every set of numbers but the empty one has a least element: what is proved
\* below by the least counterexample rests on this.
LEMMA LeastNumber ==
  ASSUME NEW S \in SUBSET Nat, S # {}
  PROVE  \E n \in S : \A m \in S : n <= m
<1> DEFINE R == OpToRel(<, Nat)
<1>1. IsWellFoundedOn(R, Nat)
  BY NatLessThanWellFounded
<1>2. \A x, y \in Nat : x < y => <<x, y>> \in R
  BY DEF OpToRel
<1> HIDE DEF R
<1>3. PICK n \in S : \A m \in S : ~ (<<m, n>> \in R)
  BY <1>1, WFMin
<1>4. \A m \in S : ~ (m < n)
  BY <1>2, <1>3
<1>5. QED  BY <1>4

\* Induction, as a fact about sets of numbers.
LEMMA NumbersFrom ==
  ASSUME NEW first \in Nat, NEW last \in Nat, NEW S, first \in S,
         \A n \in first + 1..last : n - 1 \in S => n \in S
  PROVE  first..last \subseteq S
<1>1. SUFFICES ASSUME (first..last) \ S # {}  PROVE FALSE
  OBVIOUS
<1>2. PICK n \in (first..last) \ S : \A m \in (first..last) \ S : n <= m
  BY <1>1, LeastNumber, (first..last) \ S \in SUBSET Nat
<1>3. n \in first + 1..last /\ n - 1 \in first..last /\ ~ (n <= n - 1)
  BY <1>2
<1>4. QED  BY <1>2, <1>3

\* A bounded one has a greatest element, and Max chooses it.
LEMMA GreatestNumber ==
  ASSUME NEW S \in SUBSET Nat, S # {}, NEW b \in Nat, \A m \in S : m <= b
  PROVE  Max(S) \in S /\ \A m \in S : m <= Max(S)
<1> DEFINE Bounds == {n \in Nat : \A m \in S : m <= n}
<1>1. PICK n \in Bounds : \A k \in Bounds : n <= k
  BY LeastNumber, Bounds \in SUBSET Nat, b \in Bounds
<1>2. n \in S
  <2>1. SUFFICES ASSUME n \notin S  PROVE FALSE
    OBVIOUS
  <2>2. PICK m \in S : TRUE
    OBVIOUS
  <2>3. n - 1 \in Bounds
    BY <1>1, <2>1, <2>2
  <2>4. QED  BY <1>1, <2>3
<1>3. \E x \in S : \A y \in S : x >= y
  BY <1>1, <1>2
<1>4. Max(S) \in S /\ \A y \in S : Max(S) >= y
  BY <1>3 DEF Max
<1>5. QED  BY <1>4
-----------------------------------------------------------------------------

\* The write list of a key names each party at most once.
OneEach(writes) ==
  \A i, j \in 1..Len(writes) : writes[i].by = writes[j].by => i = j

\* An artifact whose write lists all do.
WellWritten(artifact) == \A key \in Key : OneEach(artifact.metadata[key])

\* Dropping the element at k moves the later ones down by one place.
LEMMA RemoveAtProperties ==
  ASSUME NEW S, NEW s \in Seq(S), NEW k \in 1..Len(s)
  PROVE  /\ RemoveAt(s, k) \in Seq(S)
         /\ Len(RemoveAt(s, k)) = Len(s) - 1
         /\ \A i \in 1..Len(s) - 1 :
              RemoveAt(s, k)[i] = IF i < k THEN s[i] ELSE s[i + 1]
<1> DEFINE front == SubSeq(s, 1, k - 1)
           back  == SubSeq(s, k + 1, Len(s))
<1>1. /\ Len(s) \in Nat
      /\ \A i \in 1..Len(s) : s[i] \in S
  BY LenProperties, ElementOfSeq
<1>2. /\ front \in Seq(S)
      /\ Len(front) = k - 1
      /\ \A i \in 1..k - 1 : front[i] = s[i]
  BY <1>1, SubSeqProperties, Z3
<1>3. /\ back \in Seq(S)
      /\ Len(back) = Len(s) - k
      /\ \A i \in 1..Len(s) - k : back[i] = s[k + i]
  <2>1. \A i \in k + 1..Len(s) : s[i] \in S
    BY <1>1
  <2>2. /\ back \in Seq(S)
        /\ Len(back) = IF k + 1 <= Len(s) THEN Len(s) - (k + 1) + 1 ELSE 0
        /\ \A i \in 1..Len(s) - (k + 1) + 1 : back[i] = s[(k + 1) + i - 1]
    BY <1>1, <2>1, SubSeqProperties
  <2>3. QED  BY <1>1, <2>2
<1>4. /\ front \o back \in Seq(S)
      /\ Len(front \o back) = Len(front) + Len(back)
      /\ \A i \in 1..Len(front) + Len(back) :
           (front \o back)[i] =
             IF i <= Len(front) THEN front[i] ELSE back[i - Len(front)]
  BY <1>2, <1>3, ConcatProperties
<1>5. RemoveAt(s, k) = front \o back
  BY DEF RemoveAt
<1> HIDE DEF front, back
<1>6. ASSUME NEW i \in 1..Len(s) - 1
      PROVE  (front \o back)[i] = IF i < k THEN s[i] ELSE s[i + 1]
  <2>1. ASSUME i < k  PROVE (front \o back)[i] = s[i]
    BY <1>1, <1>2, <1>3, <1>4, <2>1
  <2>2. ASSUME ~ (i < k)  PROVE (front \o back)[i] = s[i + 1]
    <3>1. i - (k - 1) \in 1..Len(s) - k
      BY <1>1, <2>2
    <3>2. back[i - (k - 1)] = s[k + (i - (k - 1))]
      BY <1>3, <3>1
    <3>3. (front \o back)[i] = back[i - (k - 1)]
      BY <1>1, <1>2, <1>3, <1>4, <2>2
    <3>4. k + (i - (k - 1)) = i + 1
      BY <1>1
    <3>5. QED  BY <3>2, <3>3, <3>4
  <2>3. QED  BY <2>1, <2>2
<1>7. Len(front) + Len(back) = Len(s) - 1
  BY <1>1, <1>2, <1>3
<1>8. QED  BY <1>4, <1>5, <1>6, <1>7

\* In a list that names each party once, a write of `user` removes the entry
\* that was at some place k (or none, when the user never wrote) and puts the
\* new one last, the other entries keeping their order.
LEMMA WriteMetadataProperties ==
  ASSUME NEW writes \in Seq(Write), OneEach(writes),
         NEW user \in Did, NEW write \in Value \cup {Removed}
  PROVE  LET new == WriteMetadata(writes, user, write)
         IN  /\ new \in Seq(Write)
             /\ OneEach(new)
             /\ Len(new) >= 1
             /\ new[Len(new)] = [by |-> user, write |-> write]
             /\ \/ /\ \A i \in 1..Len(writes) : writes[i].by # user
                   /\ new = Append(writes, [by |-> user, write |-> write])
                \/ \E k \in 1..Len(writes) :
                     /\ writes[k].by = user
                     /\ Len(new) = Len(writes)
                     /\ \A i \in 1..Len(writes) - 1 :
                          new[i] = IF i < k THEN writes[i] ELSE writes[i + 1]
<1> DEFINE entry == [by |-> user, write |-> write]
           rest  == RemoveFirstMatch(writes, LAMBDA w : w.by = user)
           new   == Append(rest, entry)
           mine  == {i \in 1..Len(writes) : writes[i].by = user}
<1>1. /\ entry \in Write
      /\ entry.by = user
      /\ Len(writes) \in Nat
      /\ \A i \in 1..Len(writes) : writes[i] \in Write
  BY LenProperties, ElementOfSeq DEF Write
<1>2. WriteMetadata(writes, user, write) = new
  BY DEF WriteMetadata
<1>3. CASE mine = {}
  <2>1. \A i \in 1..Len(writes) : writes[i].by # user
    BY <1>3
  <2>2. rest = writes
    BY <2>1 DEF RemoveFirstMatch
  <2> HIDE DEF rest
  <2>3. /\ new \in Seq(Write)
        /\ Len(new) = Len(writes) + 1
        /\ \A i \in 1..Len(writes) : new[i] = writes[i]
        /\ new[Len(writes) + 1] = entry
    BY <1>1, <2>2, AppendProperties
  <2>4. OneEach(new)
    BY <1>1, <2>1, <2>3 DEF OneEach
  <2>5. new = Append(writes, entry)
    BY <2>2
  <2> HIDE DEF new
  <2>6. QED  BY <1>1, <1>2, <2>1, <2>3, <2>4, <2>5
<1>4. ASSUME NEW k \in mine
      PROVE  /\ new \in Seq(Write)
             /\ OneEach(new)
             /\ new[Len(new)] = entry
             /\ Len(new) = Len(writes)
             /\ \A i \in 1..Len(writes) - 1 :
                  new[i] = IF i < k THEN writes[i] ELSE writes[i + 1]
  <2>1. mine = {k}
    BY <1>1, <1>4 DEF OneEach
  <2>2. Min({k}) = k
    BY <1>1, <1>4 DEF Min
  <2>3. rest = RemoveAt(writes, k)
    BY <1>4, <2>1, <2>2 DEF RemoveFirstMatch, SelectInSeq
  <2>4. /\ rest \in Seq(Write)
        /\ Len(rest) = Len(writes) - 1
        /\ \A i \in 1..Len(writes) - 1 :
             rest[i] = IF i < k THEN writes[i] ELSE writes[i + 1]
    BY <1>4, <2>3, RemoveAtProperties
  <2> HIDE DEF rest
  <2>5. /\ new \in Seq(Write)
        /\ Len(new) = Len(writes)
        /\ \A i \in 1..Len(writes) - 1 : new[i] = rest[i]
        /\ new[Len(writes)] = entry
    BY <1>1, <2>4, AppendProperties
  <2>6. \A i \in 1..Len(writes) - 1 :
          new[i] = IF i < k THEN writes[i] ELSE writes[i + 1]
    BY <2>4, <2>5
  <2> HIDE DEF new
  <2>7. OneEach(new)
    <3>1. SUFFICES ASSUME NEW i \in 1..Len(writes), NEW j \in 1..Len(writes),
                          new[i].by = new[j].by
                   PROVE  i = j
      BY <2>5 DEF OneEach
    <3>2. \A n \in 1..Len(writes) - 1 : new[n].by # user
      BY <1>1, <1>4, <2>1, <2>6
    <3>3. CASE i = Len(writes) \/ j = Len(writes)
      BY <1>1, <2>5, <3>1, <3>2, <3>3
    <3>4. CASE i # Len(writes) /\ j # Len(writes)
      BY <1>1, <1>4, <2>6, <3>1, <3>4 DEF OneEach
    <3>5. QED  BY <3>3, <3>4
  <2>8. QED  BY <2>5, <2>6, <2>7
<1>5. QED
  <2>1. CASE mine # {}
    <3>1. PICK k \in mine : TRUE
      BY <2>1
    <3>2. k \in 1..Len(writes) /\ writes[k].by = user
      BY <3>1
    <3>3. Len(writes) >= 1
      BY <1>1, <3>2
    <3> HIDE DEF new
    <3>4. QED  BY <1>2, <1>4, <3>1, <3>2, <3>3
  <2>2. QED  BY <1>3, <2>1
\* But for its last, the entries of a list are entries of another in their order,
\* and f tells which; those of others than the user are all among them.
Follows(f, new, old, user) ==
  /\ \A i \in 1..Len(new) - 1 : f[i] \in 1..Len(old) /\ new[i] = old[f[i]]
  /\ \A i, j \in 1..Len(new) - 1 : i < j => f[i] < f[j]
  /\ \A n \in 1..Len(old) : old[n].by # user => \E i \in 1..Len(new) - 1 : f[i] = n

\* The same in other words, for all that depends on the order of entries only.
LEMMA WriteFollows ==
  ASSUME NEW writes \in Seq(Write), OneEach(writes),
         NEW user \in Did, NEW write \in Value \cup {Removed}
  PROVE  \E f : Follows(f, WriteMetadata(writes, user, write), writes, user)
<1> DEFINE new == WriteMetadata(writes, user, write)
           Drops(k) ==
             /\ writes[k].by = user
             /\ Len(new) = Len(writes)
             /\ \A i \in 1..Len(writes) - 1 :
                  new[i] = IF i < k THEN writes[i] ELSE writes[i + 1]
<1>1. Len(writes) \in Nat
  BY LenProperties
<1>2. \/ new = Append(writes, [by |-> user, write |-> write])
      \/ \E k \in 1..Len(writes) : Drops(k)
  BY WriteMetadataProperties
<1> HIDE DEF new
<1>3. CASE new = Append(writes, [by |-> user, write |-> write])
  <2>1. /\ Len(new) = Len(writes) + 1
        /\ \A i \in 1..Len(writes) : new[i] = writes[i]
    <3>1. [by |-> user, write |-> write] \in Write
      BY DEF Write
    <3>2. QED  BY <1>3, <3>1, AppendProperties
  <2> DEFINE f == [i \in 1..Len(writes) |-> i]
  <2>2. Follows(f, new, writes, user)
    BY <1>1, <2>1 DEF Follows
  <2> HIDE DEF f
  <2>3. QED  BY <2>2 DEF new
<1>4. ASSUME NEW k \in 1..Len(writes), Drops(k)
      PROVE  \E f : Follows(f, new, writes, user)
  <2> DEFINE f == [i \in 1..Len(writes) - 1 |-> IF i < k THEN i ELSE i + 1]
  <2>1. ASSUME NEW i \in 1..Len(new) - 1
        PROVE  f[i] \in 1..Len(writes) /\ new[i] = writes[f[i]]
    BY <1>1, <1>4
  <2>2. ASSUME NEW i \in 1..Len(new) - 1, NEW j \in 1..Len(new) - 1, i < j
        PROVE  f[i] < f[j]
    BY <1>1, <1>4, <2>2
  <2>3. ASSUME NEW n \in 1..Len(writes), writes[n].by # user
        PROVE  \E i \in 1..Len(new) - 1 : f[i] = n
    <3>1. n # k
      BY <1>4, <2>3
    <3>2. CASE n < k
      <4>1. n \in 1..Len(new) - 1 /\ f[n] = n
        BY <1>1, <1>4, <3>2
      <4>2. QED  BY <4>1
    <3>3. CASE n > k
      <4>1. n - 1 \in 1..Len(new) - 1 /\ f[n - 1] = n
        BY <1>1, <1>4, <3>3
      <4>2. QED  BY <4>1
    <3>4. n < k \/ n > k
      <4> HIDE DEF f
      <4>1. QED  BY <1>1, <3>1
    <3>5. QED  BY <3>2, <3>3, <3>4
  <2> HIDE DEF f
  <2>4. Follows(f, new, writes, user)
    BY <2>1, <2>2, <2>3 DEF Follows
  <2>5. QED  BY <2>4
<1> HIDE DEF Drops
<1>5. QED  BY <1>2, <1>3, <1>4 DEF new
-----------------------------------------------------------------------------
\* No attestation comes from the author or from a redactor.
Independent(artifact) ==
  \A did \in artifact.attestations :
    /\ did # artifact.author
    /\ ~ RedactedBy(artifact, did)

Sound(artifact) ==
  /\ artifact \in Artifact
  /\ WellWritten(artifact)
  /\ Independent(artifact)

\* What an action may never take from an artifact.
Keeps(old, new) ==
  /\ new.author = old.author
  /\ \A did \in Did : RedactedBy(old, did) => RedactedBy(new, did)

\* A fresh registration is sound.
LEMMA NewArtifactSound ==
  ASSUME NEW user \in Did, NEW name \in Name
  PROVE  Sound(NewArtifact(user, name))
BY EmptySeq DEF Sound, NewArtifact, Artifact, WellWritten, OneEach, Independent

\* Each action on a registered artifact keeps it sound, keeps its author, and
\* lifts nobody's redaction.
LEMMA EditSound ==
  ASSUME NEW a, Sound(a), NEW user \in Did,
         NEW action \in Action, action.type \notin {"create", "register"}
  PROVE  /\ Sound(Edit(a, user, action))
         /\ Keeps(a, Edit(a, user, action))
<1> USE DEF Sound
<1>1. CASE action.type \in {"addLocation", "removeLocation"}
  <2>1. action.url \in Url
    BY <1>1 DEF Action
  <2>2. \/ Edit(a, user, action) = AddLocation(a, user, action.url)
        \/ Edit(a, user, action) = RemoveLocation(a, user, action.url)
    BY <1>1 DEF Edit
  <2>3. AddLocation(a, user, action.url) \in Artifact
    <3>1. a.locations \cup {<<user, action.url>>} \in SUBSET (Did \X Url)
      BY <2>1 DEF Artifact
    <3>2. QED  BY <3>1 DEF AddLocation, Artifact
  <2>4. RemoveLocation(a, user, action.url) \in Artifact
    BY DEF RemoveLocation, Artifact
  <2> DEFINE edited == Edit(a, user, action)
  <2>5. /\ edited \in Artifact
        /\ edited.author = a.author /\ edited.attestations = a.attestations
        /\ edited.redactions = a.redactions /\ edited.metadata = a.metadata
    BY <2>2, <2>3, <2>4 DEF AddLocation, RemoveLocation, Artifact
  <2> HIDE DEF edited
  <2>6. WellWritten(edited) /\ Independent(edited) /\ Keeps(a, edited)
    BY <2>5 DEF WellWritten, Independent, Keeps, RedactedBy
  <2>7. QED  BY <2>5, <2>6 DEF edited
<1>2. CASE action.type = "attest"
  <2>1. Edit(a, user, action) = Attest(a, user)
    BY <1>2 DEF Edit
  <2>2. CASE ~ CanAttest(a, user)
    BY <2>1, <2>2 DEF Attest, Keeps
  <2>3. CASE CanAttest(a, user)
    <3> DEFINE new == [a EXCEPT !.attestations = @ \cup {user}]
    <3>1. Edit(a, user, action) = new
      BY <2>1, <2>3 DEF Attest
    <3>2. new \in Artifact
      BY DEF Artifact
    <3>3. /\ new.author = a.author
          /\ new.redactions = a.redactions
          /\ new.metadata = a.metadata
          /\ new.attestations = a.attestations \cup {user}
      BY DEF Artifact
    <3> HIDE DEF new
    <3>4. QED
      BY <2>3, <3>1, <3>2, <3>3
      DEF CanAttest, WellWritten, Independent, Keeps, RedactedBy
  <2>4. QED  BY <2>2, <2>3
<1>3. CASE action.type = "redact"
  <2>1. /\ Edit(a, user, action) = Redact(a, user, action.reason)
        /\ action.reason \in Reason
    BY <1>3 DEF Edit, Action
  <2>2. Redact(a, user, action.reason) \in Artifact
    BY <2>1 DEF Redact, Artifact
  <2>3. QED
    BY <2>1, <2>2, ArtifactsAssumption
    DEF Redact, Artifact, WellWritten, Independent, Keeps, RedactedBy
<1>4. CASE action.type = "metadata"
  <2> DEFINE new == WriteMetadata(a.metadata[action.key], user, action.write)
  <2>1. /\ Edit(a, user, action) = [a EXCEPT !.metadata[action.key] = new]
        /\ action.key \in Key
        /\ action.write \in Value \cup {Removed}
    BY <1>4 DEF Edit, Action, SetOrRemoveMetadata
  <2>2. a.metadata[action.key] \in Seq(Write) /\ OneEach(a.metadata[action.key])
    BY <2>1 DEF Artifact, WellWritten
  <2>3. new \in Seq(Write) /\ OneEach(new)
    BY <2>1, <2>2, WriteMetadataProperties
  <2> DEFINE b == [a EXCEPT !.metadata[action.key] = new]
  <2> HIDE DEF new
  <2>4. b \in Artifact
    BY <2>1, <2>3 DEF Artifact
  <2>5. /\ b.author = a.author
        /\ b.redactions = a.redactions
        /\ b.attestations = a.attestations
        /\ b.metadata = [a.metadata EXCEPT ![action.key] = new]
    BY DEF Artifact
  <2>6. WellWritten(b)
    BY <2>1, <2>3, <2>5 DEF Artifact, WellWritten
  <2> HIDE DEF b
  <2>7. Independent(b) /\ Keeps(a, b)
    BY <2>5 DEF Independent, Keeps, RedactedBy
  <2>8. Edit(a, user, action) = b
    BY <2>1 DEF b
  <2>9. QED  BY <2>4, <2>6, <2>7, <2>8
<1>5. QED  BY <1>1, <1>2, <1>3, <1>4 DEF Action

\* So does every action on the release, which drops no artifact either.
LEMMA ActSound ==
  ASSUME NEW as \in Artifacts, \A cid \in Cid : Carries(as, cid) => Sound(as[cid]),
         NEW user \in Did, NEW action \in Action
  PROVE  LET new == Act(as, user, action)
         IN  /\ new \in Artifacts
             /\ \A cid \in Cid : Carries(new, cid) => Sound(new[cid])
             /\ \A cid \in Cid : Carries(as, cid) =>
                                  Carries(new, cid) /\ Keeps(as[cid], new[cid])
<1> DEFINE new == Act(as, user, action)
<1>1. CASE action.type = "create"
  BY <1>1 DEF Act, Keeps
<1>2. CASE action.type = "register"
  <2> DEFINE a == Register(as[action.cid], user, action.name)
  <2>1. /\ new = [as EXCEPT ![action.cid] = a]
        /\ action.cid \in Cid
        /\ action.name \in Name
    BY <1>2 DEF Act, Action
  <2>2. CASE ~ Carries(as, action.cid)
    <3>1. a = NewArtifact(user, action.name) /\ Sound(a)
      BY <2>1, <2>2, NewArtifactSound DEF Carries, Register
    <3> HIDE DEF a, new
    <3>2. a \in Artifact /\ a # Absent
      BY <3>1, ArtifactsAssumption DEF Sound
    <3>3. QED  BY <2>1, <2>2, <3>1, <3>2 DEF Artifacts, Carries, Keeps, new
  <2>3. CASE Carries(as, action.cid)
    <3>1. Sound(as[action.cid])
      BY <2>1, <2>3
    <3>2. a = as[action.cid] \/ a = [as[action.cid] EXCEPT !.name = action.name]
      BY <2>3 DEF Carries, Register
    <3>3. Sound(a) /\ Keeps(as[action.cid], a)
      BY <2>1, <3>1, <3>2
      DEF Sound, Artifact, WellWritten, Independent, RedactedBy, Keeps
    <3> HIDE DEF a, new
    <3>4. a \in Artifact /\ a # Absent
      BY <3>3, ArtifactsAssumption DEF Sound
    <3>5. QED  BY <2>1, <3>3, <3>4 DEF Artifacts, Carries, Keeps, new
  <2>4. QED  BY <2>2, <2>3
<1>3. CASE action.type \notin {"create", "register"}
  <2>1. action.cid \in Cid
    BY <1>3 DEF Action
  <2>2. CASE ~ Carries(as, action.cid)
    <3>1. new = as
      BY <1>3, <2>2 DEF Act, Carries
    <3>2. QED  BY <3>1 DEF Keeps
  <2>3. CASE Carries(as, action.cid)
    <3> DEFINE a == Edit(as[action.cid], user, action)
    <3>1. new = [as EXCEPT ![action.cid] = a]
      BY <1>3, <2>3 DEF Act, Carries
    <3>2. Sound(a) /\ Keeps(as[action.cid], a)
      BY <1>3, <2>1, <2>3, EditSound
    <3> HIDE DEF a, new
    <3>3. a \in Artifact /\ a # Absent
      BY <3>2, ArtifactsAssumption DEF Sound
    <3>4. QED  BY <2>1, <3>1, <3>2, <3>3 DEF Artifacts, Carries, Keeps, new
  <2>4. QED  BY <2>2, <2>3
<1> HIDE DEF new
<1>4. QED  BY <1>1, <1>2, <1>3 DEF new
-----------------------------------------------------------------------------
\* trust::metadata believes the last entry of the author or a delegate; where
\* there is none, it has no value.
LEMMA TrustedMetadataIs ==
  ASSUME NEW a, NEW key \in Key, NEW writes \in Seq(Write), writes = a.metadata[key]
  PROVE  \/ /\ \A i \in 1..Len(writes) : ~ IsAuthorOrDelegate(writes[i].by, a)
            /\ TrustedMetadata(a, key) = Removed
         \/ \E k \in 1..Len(writes) :
              /\ IsAuthorOrDelegate(writes[k].by, a)
              /\ \A i \in 1..Len(writes) :
                   IsAuthorOrDelegate(writes[i].by, a) => i <= k
              /\ TrustedMetadata(a, key) = writes[k].write
<1> DEFINE heard == {i \in 1..Len(writes) : IsAuthorOrDelegate(writes[i].by, a)}
           last  == SelectLastInSeq(writes, LAMBDA w : IsAuthorOrDelegate(w.by, a))
<1>1. Len(writes) \in Nat
  BY LenProperties
<1>2. last = IF heard # {} THEN Max(heard) ELSE 0
  BY DEF SelectLastInSeq
<1>3. TrustedMetadata(a, key) = IF last = 0 THEN Removed ELSE writes[last].write
  BY DEF TrustedMetadata
<1> HIDE DEF last
<1>4. CASE heard = {}
  BY <1>2, <1>3, <1>4
<1>5. CASE heard # {}
  <2>1. heard \in SUBSET Nat /\ \A i \in heard : i <= Len(writes)
    BY <1>1
  <2>2. Max(heard) \in heard /\ \A i \in heard : i <= Max(heard)
    <3> HIDE DEF heard
    <3>1. QED  BY <1>1, <1>5, <2>1, GreatestNumber
  <2>3. last \in heard /\ \A i \in heard : i <= last
    BY <1>2, <1>5, <2>2
  <2>4. last # 0
    BY <1>1, <2>3
  <2>5. QED  BY <1>3, <2>3, <2>4
<1>6. QED  BY <1>4, <1>5

\* A write of the author or a delegate is what holds next; a write of anybody
\* else changes nothing, wherever their earlier write stood in the list.
LEMMA WriteTrusted ==
  ASSUME NEW a, Sound(a), NEW user \in Did, NEW key \in Key,
         NEW write \in Value \cup {Removed}
  PROVE  LET b == SetOrRemoveMetadata(a, user, key, write)
         IN  /\ TrustedMetadata(b, key) =
                  IF IsAuthorOrDelegate(user, a) THEN write ELSE TrustedMetadata(a, key)
             /\ \A other \in Key \ {key} :
                  TrustedMetadata(b, other) = TrustedMetadata(a, other)
<1> DEFINE b   == SetOrRemoveMetadata(a, user, key, write)
           Heard(did) == IsAuthorOrDelegate(did, a)
<1>1. PICK writes \in Seq(Write) : writes = a.metadata[key] /\ OneEach(writes)
  BY DEF Sound, Artifact, WellWritten
<1> DEFINE new == WriteMetadata(writes, user, write)
<1>2. new = WriteMetadata(writes, user, write)
  OBVIOUS
<1>3. /\ b.author = a.author
      /\ b.metadata[key] = new
      /\ \A other \in Key \ {key} : b.metadata[other] = a.metadata[other]
  BY <1>1 DEF SetOrRemoveMetadata, Sound, Artifact
<1>4. \A did \in Did : IsAuthorOrDelegate(did, b) <=> Heard(did)
  BY <1>3 DEF IsAuthorOrDelegate
<1>5. /\ new \in Seq(Write)
      /\ Len(new) >= 1
      /\ new[Len(new)].by = user /\ new[Len(new)].write = write
  <2> HIDE DEF b, Heard
  <2>1. /\ new \in Seq(Write)
        /\ Len(new) >= 1
        /\ new[Len(new)] = [by |-> user, write |-> write]
    BY <1>1, WriteMetadataProperties
  <2> HIDE DEF new
  <2>2. QED  BY <2>1
<1> HIDE DEF new
<1>6. /\ Len(writes) \in Nat /\ Len(new) \in Nat
      /\ \A i \in 1..Len(writes) : writes[i].by \in Did
      /\ \A i \in 1..Len(new) : new[i].by \in Did
  <2> HIDE DEF b, Heard
  <2>1. \A s \in Seq(Write) : Len(s) \in Nat /\ \A i \in 1..Len(s) : s[i] \in Write
    BY LenProperties, ElementOfSeq
  <2>2. \A w \in Write : w.by \in Did
    BY DEF Write
  <2>3. QED  BY <1>5, <2>1, <2>2
<1>7. \A other \in Key \ {key} : TrustedMetadata(b, other) = TrustedMetadata(a, other)
  BY <1>3 DEF TrustedMetadata, IsAuthorOrDelegate
<1> HIDE DEF b, Heard
<1>8. \/ /\ \A i \in 1..Len(new) : ~ Heard(new[i].by)
         /\ TrustedMetadata(b, key) = Removed
      \/ \E k \in 1..Len(new) :
           /\ Heard(new[k].by)
           /\ \A i \in 1..Len(new) : Heard(new[i].by) => i <= k
           /\ TrustedMetadata(b, key) = new[k].write
  <2>1. \/ /\ \A i \in 1..Len(new) : ~ IsAuthorOrDelegate(new[i].by, b)
           /\ TrustedMetadata(b, key) = Removed
        \/ \E k \in 1..Len(new) :
             /\ IsAuthorOrDelegate(new[k].by, b)
             /\ \A i \in 1..Len(new) : IsAuthorOrDelegate(new[i].by, b) => i <= k
             /\ TrustedMetadata(b, key) = new[k].write
    BY <1>3, <1>5, TrustedMetadataIs
  <2>2. \A i \in 1..Len(new) : IsAuthorOrDelegate(new[i].by, b) <=> Heard(new[i].by)
    BY <1>4, <1>6
  <2>3. QED  BY <2>1, <2>2
<1>9. \/ /\ \A i \in 1..Len(writes) : ~ Heard(writes[i].by)
         /\ TrustedMetadata(a, key) = Removed
      \/ \E k \in 1..Len(writes) :
           /\ Heard(writes[k].by)
           /\ \A i \in 1..Len(writes) : Heard(writes[i].by) => i <= k
           /\ TrustedMetadata(a, key) = writes[k].write
  BY <1>1, TrustedMetadataIs DEF Heard
<1>10. CASE Heard(user)
  <2>1. TrustedMetadata(b, key) = write
    <3>1. Len(new) \in 1..Len(new) /\ Heard(new[Len(new)].by)
      BY <1>5, <1>6, <1>10
    <3>2. PICK k \in 1..Len(new) :
            /\ \A i \in 1..Len(new) : Heard(new[i].by) => i <= k
            /\ TrustedMetadata(b, key) = new[k].write
      BY <1>8, <3>1
    <3>3. k = Len(new)
      BY <1>6, <3>1, <3>2
    <3>4. QED  BY <1>5, <3>2, <3>3
  <2>2. QED  BY <1>7, <1>10, <2>1 DEF b, Heard
<1>11. CASE ~ Heard(user)
  <2>1. PICK f : Follows(f, new, writes, user)
    BY <1>1, WriteFollows DEF new
  <2>2. \A n \in 1..Len(writes) : Heard(writes[n].by) =>
          \E i \in 1..Len(new) - 1 : f[i] = n
    BY <1>11, <2>1 DEF Follows
  <2>3. \A i \in 1..Len(new) : Heard(new[i].by) => i \in 1..Len(new) - 1
    BY <1>5, <1>6, <1>11
  <2>4. TrustedMetadata(b, key) = TrustedMetadata(a, key)
    <3>1. CASE \A i \in 1..Len(writes) : ~ Heard(writes[i].by)
      <4>1. \A i \in 1..Len(new) : ~ Heard(new[i].by)
        BY <2>1, <2>2, <2>3, <3>1 DEF Follows
      <4>2. TrustedMetadata(a, key) = Removed /\ TrustedMetadata(b, key) = Removed
        BY <1>8, <1>9, <3>1, <4>1
      <4>3. QED  BY <4>2
    <3>2. ASSUME NEW n \in 1..Len(writes), Heard(writes[n].by)
          PROVE  TrustedMetadata(b, key) = TrustedMetadata(a, key)
      <4>1. PICK k \in 1..Len(writes) :
              /\ Heard(writes[k].by)
              /\ \A i \in 1..Len(writes) : Heard(writes[i].by) => i <= k
              /\ TrustedMetadata(a, key) = writes[k].write
        BY <1>9, <3>2
      <4>2. PICK i \in 1..Len(new) - 1 : f[i] = k
        BY <2>1, <2>2, <4>1 DEF Follows
      <4>3. Heard(new[i].by) /\ i \in 1..Len(new)
        BY <1>6, <2>1, <2>2, <4>1, <4>2 DEF Follows
      <4>4. PICK m \in 1..Len(new) :
              /\ Heard(new[m].by)
              /\ \A j \in 1..Len(new) : Heard(new[j].by) => j <= m
              /\ TrustedMetadata(b, key) = new[m].write
        BY <1>8, <4>3
      <4>5. m \in 1..Len(new) - 1 /\ Heard(writes[f[m]].by) /\ f[m] \in 1..Len(writes)
        BY <2>1, <2>2, <2>3, <4>4 DEF Follows
      <4>6. i <= m /\ f[m] <= k
        BY <4>1, <4>3, <4>4, <4>5
      <4>7. ~ (i < m)
        BY <1>6, <2>1, <2>2, <4>2, <4>5, <4>6 DEF Follows
      <4>8. i = m
        BY <1>6, <4>6, <4>7
      <4>9. QED  BY <2>1, <2>2, <4>1, <4>2, <4>4, <4>8 DEF Follows
    <3>3. QED  BY <3>1, <3>2
  <2>5. QED  BY <1>7, <1>11, <2>4 DEF b, Heard
<1>12. QED  BY <1>10, <1>11
-----------------------------------------------------------------------------
\* What an action does to each part of an artifact.
Edited(a, b, user, action) ==
  LET Is(type) == action.type = type
  IN  /\ b.author = a.author /\ b.name = a.name
      /\ b.locations =
           IF Is("addLocation") THEN a.locations \cup {<<user, action.url>>}
           ELSE IF Is("removeLocation") THEN a.locations \ {<<user, action.url>>}
           ELSE a.locations
      /\ b.attestations =
           IF Is("attest") /\ CanAttest(a, user) THEN a.attestations \cup {user}
           ELSE IF Is("redact") THEN a.attestations \ {user}
           ELSE a.attestations
      /\ b.redactions =
           IF Is("redact") THEN [a.redactions EXCEPT ![user] = action.reason]
           ELSE a.redactions
      /\ b.metadata =
           IF Is("metadata")
           THEN [a.metadata EXCEPT ![action.key] =
                   WriteMetadata(a.metadata[action.key], user, action.write)]
           ELSE a.metadata

LEMMA EditFields ==
  ASSUME NEW a \in Artifact, NEW user \in Did,
         NEW action \in Action, action.type \notin {"create", "register"}
  PROVE  Edited(a, Edit(a, user, action), user, action)
<1> USE DEF Edited
<1>1. CASE action.type = "addLocation"
  BY <1>1 DEF Edit, AddLocation, Artifact
<1>2. CASE action.type = "removeLocation"
  BY <1>2 DEF Edit, RemoveLocation, Artifact
<1>3. CASE action.type = "attest"
  BY <1>3 DEF Edit, Attest, Artifact
<1>4. CASE action.type = "redact"
  BY <1>4 DEF Edit, Redact, Artifact
<1>5. CASE action.type = "metadata"
  BY <1>5 DEF Edit, SetOrRemoveMetadata, Artifact
<1>6. QED  BY <1>1, <1>2, <1>3, <1>4, <1>5 DEF Action

\* The release is only changed where the action points.
LEMMA ActElsewhere ==
  ASSUME NEW as \in Artifacts, NEW user \in Did, NEW action \in Action, NEW cid \in Cid
  PROVE  LET new == Act(as, user, action)
         IN  /\ action.type = "create" \/ action.cid # cid => new[cid] = as[cid]
             /\ action.type # "create" /\ action.cid = cid =>
                  new[cid] = IF action.type = "register"
                             THEN Register(as[cid], user, action.name)
                             ELSE IF Carries(as, cid) THEN Edit(as[cid], user, action)
                             ELSE Absent
<1>1. CASE action.type = "create"
  BY <1>1 DEF Act
<1>2. CASE action.type = "register"
  BY <1>2 DEF Act, Action, Artifacts
<1>3. CASE action.type \notin {"create", "register"}
  BY <1>3 DEF Act, Action, Artifacts, Carries
<1>4. QED  BY <1>1, <1>2, <1>3
==============================================================================
