------------------------- MODULE ReleaseReplicas_proofs -------------------------
(***************************************************************************)
(* Theorems about the replays of one release on many peers: for every set  *)
(* of users and artifacts, every number of operations, and every order in  *)
(* which the object store may replay them.                                 *)
(*                                                                         *)
(* Replays, orders and flattened histories are recursive.  Each is first   *)
(* unrolled, once, by the least size at which it would not exist; from     *)
(* then on a replay is the sequence of states it goes through.             *)
(***************************************************************************)
EXTENDS ReleaseReplicas, Artifacts_proofs, FiniteSetTheorems

Utterance == [by : Did, action : Action]

\* Replay, for any history.
ReplayOf(history) == Acted(NoArtifacts, history)

\* The states a replay goes through, from any release on and from none.
Steps(base, history, states) ==
  /\ states[0] = base
  /\ \A n \in 1..Len(history) :
       states[n] = Act(states[n - 1], history[n].by, history[n].action)

Unrolled(history, states) == Steps(NoArtifacts, history, states)

\* The fold of the community modules does go through them.
LEMMA ActedUnrolls ==
  ASSUME NEW base, NEW history \in Seq(Utterance)
  PROVE  \E states : Steps(base, history, states) /\ Acted(base, history) = states[Len(history)]
<1> DEFINE len == Len(history)
           Apply(as, i) == Act(as, history[i].by, history[i].action)
           Folds(g, n) ==
             g = [s \in SUBSET (1..n) |->
                    IF s = {} THEN base ELSE Apply(g[s \ {Max(s)}], Max(s))]
<1>1. len \in Nat /\ DOMAIN history = 1..len
  BY LenProperties
<1>2. \A n \in 0..len : \E g : Folds(g, n)
  <2> DEFINE Bad == {n \in 0..len : ~ \E g : Folds(g, n)}
  <2>1. SUFFICES ASSUME Bad # {} PROVE FALSE
    OBVIOUS
  <2>2. PICK n \in Bad : \A m \in Bad : n <= m
    <3>1. Bad \in SUBSET Nat
      BY <1>1
    <3> HIDE DEF Bad
    <3>2. QED  BY <2>1, <3>1, LeastNumber
  <2>3. n # 0
    <3>1. SUFFICES ASSUME n = 0 PROVE \E g : Folds(g, 0)
      BY <2>2
    <3> DEFINE g == [s \in {{}} |-> base]
    <3>2. SUBSET (1..0) = {{}}
      OBVIOUS
    <3>3. Folds(g, 0)
      BY <3>2
    <3>4. QED BY <3>3
  <2>4. n \in 1..len /\ n - 1 \in 0..len /\ n - 1 \notin Bad
    <3>1. n \in 0..len
      BY <2>2
    <3> HIDE DEF Bad
    <3>2. n \in 1..len /\ n - 1 \in 0..len /\ ~ (n <= n - 1)
      BY <1>1, <2>3, <3>1
    <3>3. QED  BY <2>2, <3>2
  <2>5. PICK g : Folds(g, n - 1)
    BY <2>4
  <2> DEFINE h == [s \in SUBSET (1..n) |->
                     IF n \in s THEN Apply(g[s \ {n}], n) ELSE g[s]]
  <2>6. ASSUME NEW s \in SUBSET (1..n)
        PROVE  h[s] = IF s = {} THEN base ELSE Apply(h[s \ {Max(s)}], Max(s))
    <3>1. CASE n \in s
      <4>1. Max(s) = n
        <5>1. s # {} /\ s \in SUBSET Nat /\ n \in Nat /\ \A m \in s : m <= n
          BY <2>4, <3>1
        <5>2. Max(s) \in s /\ n <= Max(s)
          BY <3>1, <5>1, GreatestNumber
        <5>3. Max(s) <= n
          BY <5>1, <5>2
        <5>4. Max(s) \in Nat
          BY <5>1, <5>2
        <5>5. QED  BY <5>1, <5>2, <5>3, <5>4
      <4>2. s \ {n} \in SUBSET (1..n) /\ n \notin s \ {n}
        OBVIOUS
      <4> HIDE DEF Apply
      <4>3. h[s] = Apply(g[s \ {n}], n) /\ h[s \ {n}] = g[s \ {n}]
        BY <3>1, <4>2
      <4> HIDE DEF h
      <4>4. QED  BY <3>1, <4>1, <4>3
    <3>2. CASE n \notin s
      <4>1. s \in SUBSET (1..n - 1)
        BY <2>4, <3>2
      <4>2. CASE s = {}
        BY <2>5, <3>2, <4>1, <4>2
      <4>3. CASE s # {}
        <5>1. Max(s) \in s
          <6>1. s \in SUBSET Nat /\ n \in Nat /\ \A m \in s : m <= n
            BY <2>4, <4>1
          <6>2. QED  BY <4>3, <6>1, GreatestNumber
        <5>2. s \ {Max(s)} \in SUBSET (1..n) /\ n \notin s \ {Max(s)}
          BY <3>2
        <5> HIDE DEF Apply
        <5>3. h[s] = g[s] /\ h[s \ {Max(s)}] = g[s \ {Max(s)}]
          BY <3>2, <5>2
        <5> HIDE DEF h
        <5>4. g[s] = Apply(g[s \ {Max(s)}], Max(s))
          BY <2>5, <4>1, <4>3
        <5>5. QED  BY <4>3, <5>3, <5>4
      <4>4. QED  BY <4>2, <4>3
    <3>3. QED  BY <3>1, <3>2
  <2>7. Folds(h, n)
    <3>1. h = [s \in SUBSET (1..n) |-> h[s]]
      OBVIOUS
    <3> HIDE DEF h
    <3>2. QED  BY <2>6, <3>1
  <2>8. QED  BY <2>2, <2>7
<1> DEFINE iter == CHOOSE g : Folds(g, len)
<1>3. Folds(iter, len)
  <2> HIDE DEF Folds, len
  <2>1. \E g : Folds(g, len)
    BY <1>1, <1>2
  <2>2. QED  BY <2>1
<1>4. Acted(base, history) = iter[1..len]
  BY <1>1 DEF Acted, FoldLeft, MapThenFoldSet
<1> HIDE DEF iter
<1> DEFINE states == [n \in 0..len |-> iter[1..n]]
<1>5. states[0] = base
  BY <1>1, <1>3
<1>6. ASSUME NEW n \in 1..len  PROVE states[n] = Apply(states[n - 1], n)
  <2>1. n \in 0..len /\ n - 1 \in 0..len /\ 1..n \in SUBSET (1..len) /\ n \in 1..n
    <3> HIDE DEF Apply, Folds, len
    <3>1. QED  BY <1>1
  <2>2. Max(1..n) \in 1..n /\ \A m \in 1..n : m <= Max(1..n)
    <3> HIDE DEF Apply, Folds, len
    <3>1. 1..n \in SUBSET Nat /\ 1..n # {} /\ n \in Nat /\ \A m \in 1..n : m <= n
      BY <1>1, <2>1
    <3>2. QED  BY <3>1, GreatestNumber
  <2>3. Max(1..n) = n
    BY <1>1, <2>2
  <2>4. (1..n) \ {n} = 1..n - 1
    BY <1>1
  <2> HIDE DEF Apply
  <2>5. iter[1..n] = Apply(iter[1..n - 1], n)
    BY <1>3, <2>1, <2>3, <2>4
  <2>6. QED  BY <2>1, <2>5
<1>7. Acted(base, history) = states[len]
  BY <1>1, <1>4
<1> HIDE DEF states
<1>8. QED  BY <1>5, <1>6, <1>7 DEF Steps

LEMMA ReplayUnrolls ==
  ASSUME NEW history \in Seq(Utterance)
  PROVE  \E states : Unrolled(history, states) /\ ReplayOf(history) = states[Len(history)]
BY ActedUnrolls DEF Unrolled, ReplayOf
-----------------------------------------------------------------------------
\* What a history says about an artifact, by kinds of utterance: `on` it, and of
\* those that count, which come after the first registration f.  (Meaning has
\* the same sets.)
On(h, cid) == {i \in DOMAIN h : h[i].action # Create /\ h[i].action.cid = cid}

Registrations(h, cid) == {i \in On(h, cid) : h[i].action.type = "register"}

Names(h, cid, did) == {i \in Registrations(h, cid) : h[i].by = did}

After(h, cid, f) == {i \in On(h, cid) : i > f}

Redactions(h, cid, f, did) ==
  {i \in After(h, cid, f) : h[i].action.type = "redact" /\ h[i].by = did}

Attests(h, cid, f, did) ==
  {i \in After(h, cid, f) : h[i].action.type = "attest" /\ h[i].by = did}

OnUrl(h, cid, f, did, url) ==
  {i \in After(h, cid, f) : /\ h[i].action.type \in {"addLocation", "removeLocation"}
                            /\ h[i].by = did /\ h[i].action.url = url}

TrustedWrites(h, cid, f, key) ==
  {i \in After(h, cid, f) : /\ h[i].action.type = "metadata" /\ h[i].action.key = key
                            /\ h[i].by = h[f].by \/ h[i].by \in Delegates}

\* Of a kind of utterances, the last or none among the first n of the history.
IsLast(S, n, i) == i \in S /\ i <= n /\ \A j \in S : j <= n => j <= i

NoneYet(S, n) == \A j \in S : ~ (j <= n)

LEMMA LastStep ==
  ASSUME NEW S \in SUBSET Nat, NEW n \in Nat
  PROVE  /\ n \in S => ~ NoneYet(S, n) /\ \A i : IsLast(S, n, i) <=> i = n
         /\ n \notin S => /\ NoneYet(S, n) <=> NoneYet(S, n - 1)
                          /\ \A i : IsLast(S, n, i) <=> IsLast(S, n - 1, i)
<1>1. \A j \in S : j <= n - 1 <=> j <= n /\ j # n
  OBVIOUS
<1>2. ASSUME n \in S  PROVE ~ NoneYet(S, n)
  BY <1>2 DEF NoneYet
<1>3. ASSUME n \in S, NEW i  PROVE IsLast(S, n, i) <=> i = n
  <2>1. ASSUME IsLast(S, n, i)  PROVE i = n
    <3>1. i \in Nat /\ i <= n /\ n <= i
      BY <1>3, <2>1 DEF IsLast
    <3>2. QED  BY <3>1
  <2>2. ASSUME i = n  PROVE IsLast(S, n, i)
    BY <1>3, <2>2 DEF IsLast
  <2>3. QED  BY <2>1, <2>2
<1>4. ASSUME n \notin S  PROVE NoneYet(S, n) <=> NoneYet(S, n - 1)
  BY <1>1, <1>4 DEF NoneYet
<1>5. ASSUME n \notin S, NEW i  PROVE IsLast(S, n, i) <=> IsLast(S, n - 1, i)
  BY <1>1, <1>5 DEF IsLast
<1>6. QED  BY <1>2, <1>3, <1>4, <1>5

\* The artifact, part by part, tells what the first n utterances said.
ToldName(h, cid, f, a, n) ==
  \E i : IsLast(Names(h, cid, h[f].by), n, i) /\ a.name = h[i].action.name

ToldLocations(h, cid, f, a, n) ==
  \A did \in Did, url \in Url :
    <<did, url>> \in a.locations <=>
      \E i : IsLast(OnUrl(h, cid, f, did, url), n, i) /\ h[i].action.type = "addLocation"

ToldAttestations(h, cid, f, a, n) ==
  \A did \in Did :
    did \in a.attestations <=>
      /\ did # h[f].by
      /\ ~ NoneYet(Attests(h, cid, f, did), n)
      /\ NoneYet(Redactions(h, cid, f, did), n)

ToldRedactions(h, cid, f, a, n) ==
  \A did \in Did :
    \/ NoneYet(Redactions(h, cid, f, did), n) /\ a.redactions[did] = NoReason
    \/ \E i : /\ IsLast(Redactions(h, cid, f, did), n, i)
              /\ a.redactions[did] = h[i].action.reason

ToldMetadata(h, cid, f, a, n) ==
  \A key \in Key :
    \/ NoneYet(TrustedWrites(h, cid, f, key), n) /\ TrustedMetadata(a, key) = Removed
    \/ \E i : /\ IsLast(TrustedWrites(h, cid, f, key), n, i)
              /\ TrustedMetadata(a, key) = h[i].action.write

Told(h, cid, f, a, n) ==
  /\ a.author = h[f].by
  /\ ToldName(h, cid, f, a, n)
  /\ ToldLocations(h, cid, f, a, n)
  /\ ToldAttestations(h, cid, f, a, n)
  /\ ToldRedactions(h, cid, f, a, n)
  /\ ToldMetadata(h, cid, f, a, n)

\* Utterances are numbers, and each is of one kind.
LEMMA NamesKind ==
  ASSUME NEW h \in Seq(Utterance), NEW cid \in Cid, NEW did
  PROVE  Names(h, cid, did) \in SUBSET Nat
BY LenProperties DEF On, Names, Registrations

LEMMA Kinds ==
  ASSUME NEW h \in Seq(Utterance), NEW cid \in Cid, NEW f \in Nat, NEW did, NEW url, NEW key
  PROVE  /\ Redactions(h, cid, f, did) \in SUBSET Nat
         /\ Attests(h, cid, f, did) \in SUBSET Nat
         /\ OnUrl(h, cid, f, did, url) \in SUBSET Nat
         /\ TrustedWrites(h, cid, f, key) \in SUBSET Nat
<1>1. On(h, cid) \in SUBSET Nat
  BY LenProperties DEF On
<1>2. QED
  BY <1>1
  DEF Redactions, Attests, OnUrl, TrustedWrites, After

\* What is not about the artifact, or was said too early, changes nothing.
LEMMA NotToldOfOthers ==
  ASSUME NEW h \in Seq(Utterance), NEW cid \in Cid, NEW f \in Nat, NEW n \in Nat,
         n \notin On(h, cid), NEW a, Told(h, cid, f, a, n - 1)
  PROVE  Told(h, cid, f, a, n)
<1>1. \A did, url, key :
        /\ n \notin Names(h, cid, did)
        /\ n \notin Redactions(h, cid, f, did)
        /\ n \notin Attests(h, cid, f, did)
        /\ n \notin OnUrl(h, cid, f, did, url)
        /\ n \notin TrustedWrites(h, cid, f, key)
  BY DEF Names, Registrations, Redactions, Attests, OnUrl, TrustedWrites, After
<1>2. ToldName(h, cid, f, a, n)
  BY <1>1, NamesKind, LastStep DEF Told, ToldName
<1>3. ASSUME NEW did \in Did, NEW url \in Url, NEW i
      PROVE  IsLast(OnUrl(h, cid, f, did, url), n, i)
               <=> IsLast(OnUrl(h, cid, f, did, url), n - 1, i)
  BY <1>1, Kinds, LastStep
<1>4. ToldLocations(h, cid, f, a, n)
  BY <1>3 DEF Told, ToldLocations
<1>5. ASSUME NEW did \in Did
      PROVE  /\ NoneYet(Attests(h, cid, f, did), n) <=> NoneYet(Attests(h, cid, f, did), n - 1)
             /\ NoneYet(Redactions(h, cid, f, did), n) <=> NoneYet(Redactions(h, cid, f, did), n - 1)
             /\ \A i : IsLast(Redactions(h, cid, f, did), n, i)
                        <=> IsLast(Redactions(h, cid, f, did), n - 1, i)
  BY <1>1, Kinds, LastStep
<1>6. ToldAttestations(h, cid, f, a, n) /\ ToldRedactions(h, cid, f, a, n)
  BY <1>5 DEF Told, ToldAttestations, ToldRedactions
<1>7. ToldMetadata(h, cid, f, a, n)
  BY <1>1, Kinds, LastStep DEF Told, ToldMetadata
<1>8. QED  BY <1>2, <1>4, <1>6, <1>7 DEF Told

\* A first registration tells all there is.
LEMMA ToldByFirst ==
  ASSUME NEW h \in Seq(Utterance), NEW cid \in Cid, NEW f \in Registrations(h, cid),
         \A i \in Registrations(h, cid) : f <= i,
         NEW a, a = NewArtifact(h[f].by, h[f].action.name)
  PROVE  Told(h, cid, f, a, f)
<1>1. f \in Nat /\ h[f].by \in Did
  <2>1. f \in 1..Len(h) /\ Len(h) \in Nat
    BY LenProperties DEF Registrations, On
  <2>2. h[f] \in Utterance
    BY <2>1, ElementOfSeq
  <2>3. QED  BY <2>1, <2>2 DEF Utterance
<1>2. /\ a.author = h[f].by /\ a.name = h[f].action.name
      /\ a.locations = {} /\ a.attestations = {}
      /\ a.redactions = [did \in Did |-> NoReason]
      /\ a.metadata = [key \in Key |-> <<>>]
  BY DEF NewArtifact
<1>3. \A did, url, key, j :
        /\ j \in Redactions(h, cid, f, did) => ~ (j <= f)
        /\ j \in Attests(h, cid, f, did) => ~ (j <= f)
        /\ j \in OnUrl(h, cid, f, did, url) => ~ (j <= f)
        /\ j \in TrustedWrites(h, cid, f, key) => ~ (j <= f)
  <2>1. \A j \in After(h, cid, f) : ~ (j <= f)
    BY <1>1, LenProperties DEF After, On
  <2>2. QED  BY <2>1 DEF Redactions, Attests, OnUrl, TrustedWrites
<1>4. ToldName(h, cid, f, a, f)
  <2>1. PICK S \in SUBSET Nat : S = Names(h, cid, h[f].by)
    BY NamesKind
  <2>2. f \in S
    BY <2>1 DEF Names
  <2>3. IsLast(S, f, f)
    BY <1>1, <2>2, LastStep
  <2>4. QED  BY <1>2, <2>1, <2>3 DEF ToldName
<1>5. ToldLocations(h, cid, f, a, f) /\ ToldAttestations(h, cid, f, a, f)
  BY <1>2, <1>3 DEF ToldLocations, ToldAttestations, IsLast, NoneYet
<1>6. ToldRedactions(h, cid, f, a, f)
  BY <1>2, <1>3 DEF ToldRedactions, NoneYet
<1>7. ToldMetadata(h, cid, f, a, f)
  <2>1. SUFFICES ASSUME NEW key \in Key  PROVE TrustedMetadata(a, key) = Removed
    BY <1>3 DEF ToldMetadata, NoneYet
  <2>2. PICK writes : writes = <<>>
    OBVIOUS
  <2>3. a.metadata[key] = writes /\ writes \in Seq(Write) /\ Len(writes) = 0
    BY <1>2, <2>2, EmptySeq
  <2>4. \/ TrustedMetadata(a, key) = Removed
        \/ \E k \in 1..Len(writes) : TRUE
    BY <2>3, TrustedMetadataIs
  <2>5. QED  BY <2>3, <2>4
<1>8. QED  BY <1>2, <1>4, <1>5, <1>6, <1>7 DEF Told

\* A later one tells no more than a name.
LEMMA ToldByRegistration ==
  ASSUME NEW h \in Seq(Utterance), NEW cid \in Cid, NEW f \in Nat, NEW n \in Nat,
         n \in Registrations(h, cid),
         NEW a \in Artifact, Told(h, cid, f, a, n - 1)
  PROVE  Told(h, cid, f, Register(a, h[n].by, h[n].action.name), n)
<1>1. PICK b : b = Register(a, h[n].by, h[n].action.name)
  OBVIOUS
<1>2. /\ b.author = a.author /\ b.locations = a.locations
      /\ b.attestations = a.attestations /\ b.redactions = a.redactions
      /\ b.metadata = a.metadata
      /\ b.name = IF a.author = h[n].by THEN h[n].action.name ELSE a.name
  BY <1>1, ArtifactsAssumption DEF Register, Artifact
<1>3. \A did, url, key :
        /\ n \in Names(h, cid, did) <=> h[n].by = did
        /\ n \notin Redactions(h, cid, f, did)
        /\ n \notin Attests(h, cid, f, did)
        /\ n \notin OnUrl(h, cid, f, did, url)
        /\ n \notin TrustedWrites(h, cid, f, key)
  BY DEF Names, Registrations, Redactions, Attests, OnUrl, TrustedWrites
<1>4. ToldName(h, cid, f, b, n)
  <2>1. a.author = h[f].by
    BY DEF Told
  <2>2. PICK S \in SUBSET Nat : S = Names(h, cid, h[f].by)
    BY NamesKind
  <2>3. CASE h[n].by = h[f].by
    <3>1. n \in S
      BY <1>3, <2>2, <2>3
    <3>2. IsLast(S, n, n)
      BY <3>1, LastStep
    <3>3. b.name = h[n].action.name
      BY <1>2, <2>1, <2>3
    <3>4. QED  BY <2>2, <3>2, <3>3 DEF ToldName
  <2>4. CASE h[n].by # h[f].by
    <3>1. n \notin S
      BY <1>3, <2>2, <2>4
    <3>2. PICK i : IsLast(S, n - 1, i) /\ a.name = h[i].action.name
      BY <2>2 DEF Told, ToldName
    <3>3. IsLast(S, n, i)
      BY <3>1, <3>2, LastStep
    <3>4. b.name = a.name
      BY <1>2, <2>1, <2>4
    <3>5. QED  BY <2>2, <3>2, <3>3, <3>4 DEF ToldName
  <2>5. QED  BY <2>3, <2>4
<1>5. ASSUME NEW did \in Did, NEW url \in Url, NEW i
      PROVE  IsLast(OnUrl(h, cid, f, did, url), n, i)
               <=> IsLast(OnUrl(h, cid, f, did, url), n - 1, i)
  BY <1>3, Kinds, LastStep
<1>6. ToldLocations(h, cid, f, b, n)
  BY <1>2, <1>5 DEF Told, ToldLocations
<1>7. ASSUME NEW did \in Did
      PROVE  /\ NoneYet(Attests(h, cid, f, did), n) <=> NoneYet(Attests(h, cid, f, did), n - 1)
             /\ NoneYet(Redactions(h, cid, f, did), n) <=> NoneYet(Redactions(h, cid, f, did), n - 1)
             /\ \A i : IsLast(Redactions(h, cid, f, did), n, i)
                        <=> IsLast(Redactions(h, cid, f, did), n - 1, i)
  BY <1>3, Kinds, LastStep
<1>8. ToldAttestations(h, cid, f, b, n) /\ ToldRedactions(h, cid, f, b, n)
  BY <1>2, <1>7 DEF Told, ToldAttestations, ToldRedactions
<1>9. ToldMetadata(h, cid, f, b, n)
  <2>1. \A key \in Key : TrustedMetadata(b, key) = TrustedMetadata(a, key)
    BY <1>2 DEF TrustedMetadata, IsAuthorOrDelegate
  <2>2. QED  BY <1>3, <2>1, Kinds, LastStep DEF Told, ToldMetadata
<1>10. QED  BY <1>1, <1>2, <1>4, <1>6, <1>8, <1>9 DEF Told

\* What is said at a place of a history.
LEMMA SaidAt ==
  ASSUME NEW h \in Seq(Utterance), NEW i \in DOMAIN h
  PROVE  /\ i \in Nat /\ i \in 1..Len(h)
         /\ h[i].by \in Did /\ h[i].action \in Action
<1>1. i \in 1..Len(h) /\ Len(h) \in Nat
  BY LenProperties
<1>2. h[i] \in Utterance
  BY <1>1, ElementOfSeq
<1>3. QED  BY <1>1, <1>2 DEF Utterance

\* Told what the redactions are, a reader knows who has redacted.
LEMMA RedactedIsTold ==
  ASSUME NEW h \in Seq(Utterance), NEW cid \in Cid, NEW f, NEW n, NEW a,
         ToldRedactions(h, cid, f, a, n), NEW did \in Did
  PROVE  RedactedBy(a, did) <=> ~ NoneYet(Redactions(h, cid, f, did), n)
<1>1. CASE NoneYet(Redactions(h, cid, f, did), n)
  <2>1. \A i : ~ IsLast(Redactions(h, cid, f, did), n, i)
    BY <1>1 DEF NoneYet, IsLast
  <2>2. a.redactions[did] = NoReason
    BY <2>1 DEF ToldRedactions
  <2>3. QED  BY <1>1, <2>2 DEF RedactedBy
<1>2. CASE ~ NoneYet(Redactions(h, cid, f, did), n)
  <2>1. PICK i : /\ IsLast(Redactions(h, cid, f, did), n, i)
                 /\ a.redactions[did] = h[i].action.reason
    BY <1>2 DEF ToldRedactions
  <2>2. i \in DOMAIN h /\ h[i].action.type = "redact"
    BY <2>1 DEF IsLast, Redactions, After, On
  <2>3. h[i].action \in Action
    BY <2>2, SaidAt
  <2>4. h[i].action.reason \in Reason
    BY <2>2, <2>3 DEF Action
  <2>5. QED  BY <1>2, <2>1, <2>4, ArtifactsAssumption DEF RedactedBy
<1>3. QED  BY <1>1, <1>2

\* Every other action on the artifact tells what it should of one part.
LEMMA ToldByEdit ==
  ASSUME NEW h \in Seq(Utterance), NEW cid \in Cid, NEW f \in Nat,
         NEW n \in After(h, cid, f), n \notin Registrations(h, cid),
         NEW a, Sound(a), Told(h, cid, f, a, n - 1)
  PROVE  Told(h, cid, f, Edit(a, h[n].by, h[n].action), n)
<1>1. PICK user, action : user = h[n].by /\ action = h[n].action
  OBVIOUS
<1>2. /\ n \in Nat /\ user \in Did /\ action \in Action
      /\ action.type \notin {"create", "register"}
  <2>1. n \in DOMAIN h /\ action # Create /\ action.type # "register"
    BY <1>1 DEF Registrations, After, On
  <2>2. n \in Nat /\ user \in Did /\ action \in Action
    BY <1>1, <2>1, SaidAt
  <2>3. action.type # "create"
    BY <2>1, <2>2 DEF Action, Create
  <2>4. QED  BY <2>1, <2>2, <2>3
<1>3. PICK b : b = Edit(a, user, action)
  OBVIOUS
<1>4. Edited(a, b, user, action)
  BY <1>2, <1>3, EditFields DEF Sound
<1>5. /\ \A did : n \notin Names(h, cid, did)
      /\ \A did : n \in Redactions(h, cid, f, did) <=> action.type = "redact" /\ did = user
      /\ \A did : n \in Attests(h, cid, f, did) <=> action.type = "attest" /\ did = user
      /\ \A did, url : n \in OnUrl(h, cid, f, did, url) <=>
           /\ action.type \in {"addLocation", "removeLocation"}
           /\ did = user /\ action.url = url
      /\ \A key : n \in TrustedWrites(h, cid, f, key) <=>
           /\ action.type = "metadata" /\ action.key = key
           /\ user = h[f].by \/ user \in Delegates
  BY <1>1 DEF Names, Redactions, Attests, OnUrl, TrustedWrites
<1>6. a \in Artifact /\ a.author = h[f].by /\ b.author = h[f].by /\ b.name = a.name
  BY <1>4 DEF Sound, Told, Edited
<1>7. ToldName(h, cid, f, b, n)
  <2>1. PICK S \in SUBSET Nat : S = Names(h, cid, h[f].by)
    BY NamesKind
  <2>2. PICK i : IsLast(S, n - 1, i) /\ a.name = h[i].action.name
    BY <2>1 DEF Told, ToldName
  <2>3. IsLast(S, n, i)
    BY <1>2, <1>5, <2>1, <2>2, LastStep
  <2>4. QED  BY <1>6, <2>1, <2>2, <2>3 DEF ToldName
<1>8. ASSUME NEW did \in Did, NEW url \in Url
      PROVE  <<did, url>> \in b.locations <=>
               \E i : /\ IsLast(OnUrl(h, cid, f, did, url), n, i)
                      /\ h[i].action.type = "addLocation"
  <2>1. PICK S \in SUBSET Nat : S = OnUrl(h, cid, f, did, url)
    BY Kinds
  <2>2. <<did, url>> \in a.locations <=>
          \E i : IsLast(S, n - 1, i) /\ h[i].action.type = "addLocation"
    BY <2>1 DEF Told, ToldLocations
  <2>3. CASE n \in S
    <3>1. \A i : IsLast(S, n, i) <=> i = n
      BY <1>2, <2>3, LastStep
    <3>2. <<did, url>> \in b.locations <=> action.type = "addLocation"
      BY <1>4, <1>5, <2>1, <2>3 DEF Edited
    <3>3. QED  BY <1>1, <2>1, <3>1, <3>2
  <2>4. CASE n \notin S
    <3>1. \A i : IsLast(S, n, i) <=> IsLast(S, n - 1, i)
      BY <1>2, <2>4, LastStep
    <3>2. <<did, url>> \in b.locations <=> <<did, url>> \in a.locations
      BY <1>4, <1>5, <2>1, <2>4 DEF Edited
    <3>3. QED  BY <2>1, <2>2, <3>1, <3>2
  <2>5. QED  BY <2>3, <2>4
<1>9. ASSUME NEW did \in Did
      PROVE  \/ NoneYet(Redactions(h, cid, f, did), n) /\ b.redactions[did] = NoReason
             \/ \E i : /\ IsLast(Redactions(h, cid, f, did), n, i)
                       /\ b.redactions[did] = h[i].action.reason
  <2>1. PICK S \in SUBSET Nat : S = Redactions(h, cid, f, did)
    BY Kinds
  <2>2. \/ NoneYet(S, n - 1) /\ a.redactions[did] = NoReason
        \/ \E i : IsLast(S, n - 1, i) /\ a.redactions[did] = h[i].action.reason
    BY <2>1 DEF Told, ToldRedactions
  <2>3. CASE n \in S
    <3>1. IsLast(S, n, n)
      BY <1>2, <2>3, LastStep
    <3>2. b.redactions[did] = action.reason
      BY <1>4, <1>5, <1>6, <2>1, <2>3 DEF Edited, Artifact
    <3>3. QED  BY <1>1, <2>1, <3>1, <3>2
  <2>4. CASE n \notin S
    <3>1. /\ \A i : IsLast(S, n, i) <=> IsLast(S, n - 1, i)
          /\ NoneYet(S, n) <=> NoneYet(S, n - 1)
      BY <1>2, <2>4, LastStep
    <3>2. b.redactions[did] = a.redactions[did]
      BY <1>4, <1>5, <1>6, <2>1, <2>4 DEF Edited, Artifact
    <3>3. QED  BY <2>1, <2>2, <3>1, <3>2
  <2>5. QED  BY <2>3, <2>4
<1>10. ASSUME NEW did \in Did
       PROVE  did \in b.attestations <=>
                /\ did # h[f].by
                /\ ~ NoneYet(Attests(h, cid, f, did), n)
                /\ NoneYet(Redactions(h, cid, f, did), n)
  <2>1. PICK S \in SUBSET Nat, R \in SUBSET Nat :
          S = Attests(h, cid, f, did) /\ R = Redactions(h, cid, f, did)
    BY Kinds
  <2>2. did \in a.attestations <=>
          did # h[f].by /\ ~ NoneYet(S, n - 1) /\ NoneYet(R, n - 1)
    BY <2>1 DEF Told, ToldAttestations
  <2>3. CASE n \in R
    <3>1. ~ NoneYet(R, n)
      BY <1>2, <2>3, LastStep
    <3>2. did \notin b.attestations
      BY <1>4, <1>5, <2>1, <2>3 DEF Edited
    <3>3. QED  BY <2>1, <3>1, <3>2
  <2>4. CASE n \in S
    <3>1. action.type = "attest" /\ did = user /\ n \notin R
      BY <1>5, <2>1, <2>4
    <3>2. ~ NoneYet(S, n) /\ (NoneYet(R, n) <=> NoneYet(R, n - 1))
      BY <1>2, <2>4, <3>1, LastStep
    <3>3. RedactedBy(a, did) <=> ~ NoneYet(R, n - 1)
      <4>1. ToldRedactions(h, cid, f, a, n - 1)
        BY DEF Told
      <4>2. QED  BY <2>1, <4>1, RedactedIsTold
    <3>4. did \in b.attestations <=> CanAttest(a, did) \/ did \in a.attestations
      BY <1>4, <3>1 DEF Edited
    <3>5. CanAttest(a, did) <=> did # h[f].by /\ NoneYet(R, n - 1)
      BY <1>6, <3>3 DEF CanAttest
    <3>6. QED  BY <2>1, <2>2, <3>2, <3>4, <3>5
  <2>5. CASE n \notin S /\ n \notin R
    <3>1. /\ NoneYet(S, n) <=> NoneYet(S, n - 1)
          /\ NoneYet(R, n) <=> NoneYet(R, n - 1)
      BY <1>2, <2>5, LastStep
    <3>2. did \in b.attestations <=> did \in a.attestations
      BY <1>4, <1>5, <2>1, <2>5 DEF Edited
    <3>3. QED  BY <2>1, <2>2, <3>1, <3>2
  <2>6. QED  BY <2>3, <2>4, <2>5
<1>11. ASSUME NEW key \in Key
       PROVE  \/ /\ NoneYet(TrustedWrites(h, cid, f, key), n)
                 /\ TrustedMetadata(b, key) = Removed
              \/ \E i : /\ IsLast(TrustedWrites(h, cid, f, key), n, i)
                        /\ TrustedMetadata(b, key) = h[i].action.write
  <2>1. PICK S \in SUBSET Nat : S = TrustedWrites(h, cid, f, key)
    BY Kinds
  <2>2. \/ NoneYet(S, n - 1) /\ TrustedMetadata(a, key) = Removed
        \/ \E i : IsLast(S, n - 1, i) /\ TrustedMetadata(a, key) = h[i].action.write
    BY <2>1 DEF Told, ToldMetadata
  <2>3. ASSUME action.type = "metadata"
        PROVE  /\ TrustedMetadata(b, action.key) =
                    IF IsAuthorOrDelegate(user, a) THEN action.write
                    ELSE TrustedMetadata(a, action.key)
               /\ \A other \in Key \ {action.key} :
                    TrustedMetadata(b, other) = TrustedMetadata(a, other)
    <3>1. /\ action.key \in Key /\ action.write \in Value \cup {Removed}
          /\ b = SetOrRemoveMetadata(a, user, action.key, action.write)
      BY <1>2, <1>3, <2>3 DEF Action, Edit
    <3>2. QED  BY <1>2, <3>1, WriteTrusted
  <2>4. CASE n \in S
    <3>1. IsLast(S, n, n)
      BY <1>2, <2>4, LastStep
    <3>2. TrustedMetadata(b, key) = action.write
      BY <1>5, <1>6, <2>1, <2>3, <2>4 DEF IsAuthorOrDelegate
    <3>3. QED  BY <1>1, <2>1, <3>1, <3>2
  <2>5. CASE n \notin S
    <3>1. /\ \A i : IsLast(S, n, i) <=> IsLast(S, n - 1, i)
          /\ NoneYet(S, n) <=> NoneYet(S, n - 1)
      BY <1>2, <2>5, LastStep
    <3>2. TrustedMetadata(b, key) = TrustedMetadata(a, key)
      <4>1. CASE action.type = "metadata"
        BY <1>5, <1>6, <2>1, <2>3, <2>5, <4>1 DEF IsAuthorOrDelegate
      <4>2. CASE action.type # "metadata"
        BY <1>4, <4>2 DEF Edited, TrustedMetadata, IsAuthorOrDelegate
      <4>3. QED  BY <4>1, <4>2
    <3>3. QED  BY <2>1, <2>2, <3>1, <3>2
  <2>6. QED  BY <2>4, <2>5
<1>12. QED
  BY <1>1, <1>3, <1>6, <1>7, <1>8, <1>9, <1>10, <1>11
  DEF Told, ToldLocations, ToldAttestations, ToldRedactions, ToldMetadata
-----------------------------------------------------------------------------
\* Every state of a replay is one a release can be in.
LEMMA ReplaySound ==
  ASSUME NEW h \in Seq(Utterance), NEW states, Unrolled(h, states)
  PROVE  \A n \in 0..Len(h) :
           /\ states[n] \in Artifacts
           /\ \A cid \in Cid : Carries(states[n], cid) => Sound(states[n][cid])
<1> DEFINE S == {n \in 0..Len(h) :
                   /\ states[n] \in Artifacts
                   /\ \A cid \in Cid : Carries(states[n], cid) => Sound(states[n][cid])}
<1>1. Len(h) \in Nat
  BY LenProperties
<1>2. 0 \in S
  <2>1. states[0] = NoArtifacts
    BY DEF Unrolled, Steps
  <2>2. QED  BY <1>1, <2>1 DEF NoArtifacts, Artifacts, Carries
<1>3. ASSUME NEW n \in 1..Len(h), n - 1 \in S  PROVE n \in S
  <2>1. states[n] = Act(states[n - 1], h[n].by, h[n].action)
    BY DEF Unrolled, Steps
  <2>2. h[n].by \in Did /\ h[n].action \in Action
    BY LenProperties, SaidAt
  <2>3. PICK as \in Artifacts : /\ as = states[n - 1]
                                /\ \A cid \in Cid : Carries(as, cid) => Sound(as[cid])
    BY <1>3
  <2>4. PICK new : new = Act(as, h[n].by, h[n].action)
    OBVIOUS
  <2>5. new \in Artifacts /\ \A cid \in Cid : Carries(new, cid) => Sound(new[cid])
    BY <2>2, <2>3, <2>4, ActSound
  <2>6. QED  BY <1>1, <2>1, <2>3, <2>4, <2>5
<1> HIDE DEF S
<1>4. 0..Len(h) \subseteq S
  <2>1. 0 \in Nat /\ \A n \in 0 + 1..Len(h) : n - 1 \in S => n \in S
    BY <1>1, <1>3
  <2>2. QED  BY <1>1, <1>2, <2>1, NumbersFrom
<1>5. QED  BY <1>4 DEF S

\* Until an artifact is registered, it is not there, whatever is said.
LEMMA NotBeforeRegistered ==
  ASSUME NEW h \in Seq(Utterance), NEW states, Unrolled(h, states),
         NEW cid \in Cid, NEW last \in 0..Len(h),
         \A i \in Registrations(h, cid) : ~ (i <= last)
  PROVE  states[last][cid] = Absent
<1> DEFINE S == {n \in 0..last : states[n][cid] = Absent}
<1>1. Len(h) \in Nat
  BY LenProperties
<1>2. 0 \in S
  BY <1>1 DEF Unrolled, Steps, NoArtifacts
<1>3. ASSUME NEW n \in 1..last, n - 1 \in S  PROVE n \in S
  <2>1. n \in 1..Len(h) /\ n - 1 \in 0..Len(h) /\ n \in DOMAIN h
    BY <1>1, LenProperties
  <2>2. states[n] = Act(states[n - 1], h[n].by, h[n].action)
    BY <2>1 DEF Unrolled, Steps
  <2>3. h[n].by \in Did /\ h[n].action \in Action
    BY <2>1, SaidAt
  <2>4. states[n - 1] \in Artifacts /\ ~ Carries(states[n - 1], cid)
    BY <1>3, <2>1, ReplaySound DEF Carries
  <2>5. h[n].action.type # "register" \/ h[n].action.cid # cid
    BY <1>1, <2>1 DEF Registrations, On, Create
  <2>6. PICK new : new = Act(states[n - 1], h[n].by, h[n].action)
    OBVIOUS
  <2>7. new[cid] = Absent
    BY <2>3, <2>4, <2>5, <2>6, ActElsewhere DEF Carries
  <2>8. QED  BY <2>2, <2>6, <2>7
<1> HIDE DEF S
<1>4. 0..last \subseteq S
  BY <1>1, <1>2, <1>3, NumbersFrom, SMTT(30)
<1>5. QED  BY <1>1, <1>4 DEF S

\* From the first registration on, the artifact tells what was said.
LEMMA ReplayTold ==
  ASSUME NEW h \in Seq(Utterance), NEW states, Unrolled(h, states),
         NEW cid \in Cid, NEW f \in Registrations(h, cid),
         \A i \in Registrations(h, cid) : f <= i
  PROVE  \A n \in f..Len(h) :
           Carries(states[n], cid) /\ Told(h, cid, f, states[n][cid], n)
<1> DEFINE S == {n \in f..Len(h) :
                   Carries(states[n], cid) /\ Told(h, cid, f, states[n][cid], n)}
<1>1. Len(h) \in Nat /\ f \in 1..Len(h) /\ f \in DOMAIN h
  BY LenProperties DEF Registrations, On
<1>2. ASSUME NEW n \in 1..Len(h)
      PROVE  /\ n \in DOMAIN h /\ n - 1 \in 0..Len(h)
             /\ h[n].by \in Did /\ h[n].action \in Action
             /\ states[n] = Act(states[n - 1], h[n].by, h[n].action)
             /\ states[n - 1] \in Artifacts
  <2>1. n \in DOMAIN h /\ n - 1 \in 0..Len(h)
    BY <1>1, LenProperties
  <2>2. QED  BY <2>1, SaidAt, ReplaySound DEF Unrolled, Steps
<1>3. f \in S
  <2>1. /\ h[f].action # Create /\ h[f].action.cid = cid
        /\ h[f].action.type = "register"
    BY DEF Registrations, On
  <2>2. states[f - 1][cid] = Absent
    <3>1. \A i \in Registrations(h, cid) : i \in Nat /\ ~ (i <= f - 1)
      BY <1>1, SaidAt DEF Registrations, On
    <3>2. QED  BY <1>1, <1>2, <3>1, NotBeforeRegistered
  <2>3. PICK new : new = Act(states[f - 1], h[f].by, h[f].action)
    OBVIOUS
  <2>4. new[cid] = Register(states[f - 1][cid], h[f].by, h[f].action.name)
    BY <1>1, <1>2, <2>1, <2>3, ActElsewhere
  <2>5. PICK a : a = NewArtifact(h[f].by, h[f].action.name)
    OBVIOUS
  <2>6. states[f][cid] = a
    BY <1>1, <1>2, <2>2, <2>3, <2>4, <2>5 DEF Register
  <2>7. Told(h, cid, f, a, f)
    BY <2>5, ToldByFirst
  <2>8. a # Absent
    <3>1. h[f].action.name \in Name
      BY <1>1, <1>2, <2>1 DEF Action
    <3>2. a \in Artifact
      BY <1>1, <1>2, <2>5, <3>1, NewArtifactSound DEF Sound
    <3>3. QED  BY <3>2, ArtifactsAssumption
  <2>9. QED  BY <1>1, <2>6, <2>7, <2>8 DEF Carries
<1>4. ASSUME NEW n \in f + 1..Len(h), n - 1 \in S  PROVE n \in S
  <2>1. n \in 1..Len(h) /\ n \in Nat /\ f \in Nat /\ n > f /\ n \in f..Len(h)
    BY <1>1
  <2>2. PICK as, a : as = states[n - 1] /\ a = as[cid]
    OBVIOUS
  <2>3. /\ as \in Artifacts /\ Carries(as, cid) /\ a \in Artifact
        /\ Sound(a) /\ Told(h, cid, f, a, n - 1)
    BY <1>2, <1>4, <2>1, <2>2, ReplaySound DEF Carries, Artifacts
  <2>4. PICK new : new = Act(as, h[n].by, h[n].action)
    OBVIOUS
  <2>5. states[n] = new
    BY <1>2, <2>1, <2>2, <2>4
  <2>6. Carries(new, cid)
    BY <1>2, <2>1, <2>2, <2>3, <2>4, ReplaySound, ActSound
  <2>7. /\ h[n].action.type = "create" \/ h[n].action.cid # cid => new[cid] = a
        /\ h[n].action.type # "create" /\ h[n].action.cid = cid =>
             new[cid] = IF h[n].action.type = "register"
                        THEN Register(a, h[n].by, h[n].action.name)
                        ELSE Edit(a, h[n].by, h[n].action)
    BY <1>2, <2>1, <2>2, <2>3, <2>4, ActElsewhere
  <2>8. Told(h, cid, f, new[cid], n)
    <3>1. CASE n \notin On(h, cid)
      <4>1. h[n].action = Create \/ h[n].action.cid # cid
        BY <1>2, <2>1, <3>1 DEF On
      <4>2. new[cid] = a
        BY <2>7, <4>1 DEF Create
      <4>3. QED  BY <2>1, <2>3, <3>1, <4>2, NotToldOfOthers
    <3>2. CASE n \in Registrations(h, cid)
      <4>1. h[n].action.cid = cid /\ h[n].action.type = "register"
        BY <3>2 DEF Registrations, On
      <4>2. new[cid] = Register(a, h[n].by, h[n].action.name)
        BY <2>7, <4>1
      <4>3. QED  BY <2>1, <2>3, <3>2, <4>2, ToldByRegistration
    <3>3. CASE n \in On(h, cid) /\ n \notin Registrations(h, cid)
      <4>1. /\ n \in After(h, cid, f) /\ h[n].action # Create
            /\ h[n].action.cid = cid /\ h[n].action.type # "register"
        BY <2>1, <3>3 DEF Registrations, After, On
      <4>2. h[n].action.type # "create"
        BY <1>2, <2>1, <4>1 DEF Action, Create
      <4>3. new[cid] = Edit(a, h[n].by, h[n].action)
        BY <2>7, <4>1, <4>2
      <4>4. QED  BY <2>1, <2>3, <3>3, <4>1, <4>3, ToldByEdit
    <3>4. QED  BY <3>1, <3>2, <3>3
  <2>9. QED  BY <2>1, <2>5, <2>6, <2>8
<1> HIDE DEF S
<1>5. f..Len(h) \subseteq S
  <2>1. f \in Nat /\ \A n \in f + 1..Len(h) : n - 1 \in S => n \in S
    BY <1>1, <1>4
  <2>2. QED  BY <1>1, <1>3, <2>1, NumbersFrom
<1>6. QED  BY <1>5 DEF S
-----------------------------------------------------------------------------
\* The choices Meaning makes with Min and Max.
LEMMA FirstIs ==
  ASSUME NEW S \in SUBSET Nat, S # {}
  PROVE  Min(S) \in S /\ \A i \in S : Min(S) <= i
BY LeastNumber DEF Min

LEMMA LastIs ==
  ASSUME NEW S \in SUBSET Nat, NEW n \in Nat, \A i \in S : i <= n
  PROVE  /\ NoneYet(S, n) <=> S = {}
         /\ \A i : IsLast(S, n, i) => S # {} /\ Max(S) = i
<1>1. NoneYet(S, n) <=> S = {}
  BY DEF NoneYet
<1>2. ASSUME NEW i, IsLast(S, n, i)  PROVE S # {} /\ Max(S) = i
  <2>1. i \in S /\ i \in Nat /\ \A j \in S : j <= i
    BY <1>2 DEF IsLast
  <2>2. Max(S) \in S /\ i <= Max(S)
    BY <2>1, GreatestNumber
  <2>3. Max(S) \in Nat /\ Max(S) <= i
    BY <2>1, <2>2
  <2>4. QED  BY <2>1, <2>2, <2>3
<1>3. QED  BY <1>1, <1>2

\* Meaning, in the words of this module.
Meant(h, cid, f, m) ==
  /\ m.author = h[f].by
  /\ m.name = LET S == Names(h, cid, h[f].by)
              IN  h[IF S = {} THEN 0 ELSE Max(S)].action.name
  /\ m.locations =
       {at \in Did \X Url :
          LET S == OnUrl(h, cid, f, at[1], at[2])
          IN  S # {} /\ h[IF S = {} THEN 0 ELSE Max(S)].action.type = "addLocation"}
  /\ m.attestations =
       {did \in Did \ {h[f].by} :
          Attests(h, cid, f, did) # {} /\ Redactions(h, cid, f, did) = {}}
  /\ m.redactions =
       [did \in Did |-> LET S == Redactions(h, cid, f, did)
                        IN  IF S = {} THEN NoReason
                            ELSE h[IF S = {} THEN 0 ELSE Max(S)].action.reason]
  /\ m.metadata =
       [key \in Key |-> LET S == TrustedWrites(h, cid, f, key)
                        IN  IF S = {} THEN Removed
                            ELSE h[IF S = {} THEN 0 ELSE Max(S)].action.write]

LEMMA MeaningIs ==
  ASSUME NEW h, NEW cid
  PROVE  /\ Registrations(h, cid) = {} => Meaning(h, cid) = Absent
         /\ Registrations(h, cid) # {} =>
              LET m == Meaning(h, cid)
              IN  /\ m = [author |-> m.author, name |-> m.name,
                          locations |-> m.locations, attestations |-> m.attestations,
                          redactions |-> m.redactions, metadata |-> m.metadata]
                  /\ Meant(h, cid, Min(Registrations(h, cid)), m)
<1>1. CASE Registrations(h, cid) = {}
  BY <1>1 DEF Meaning, Registrations, On
<1>2. CASE Registrations(h, cid) # {}
  BY <1>2
  DEF Meaning, Meant, Registrations, On, Names, After, Attests, Redactions, OnUrl,
      TrustedWrites
<1>3. QED  BY <1>1, <1>2

\* For every history the replay, read with the trust rules, is its meaning.
LEMMA ReplayHasMeaning ==
  ASSUME NEW h \in Seq(Utterance), NEW cid \in Cid
  PROVE  LET artifact == ReplayOf(h)[cid]
         IN  Meaning(h, cid) =
               IF artifact = Absent THEN Absent
               ELSE [artifact EXCEPT !.metadata =
                       [key \in Key |-> TrustedMetadata(artifact, key)]]
<1>1. PICK states : Unrolled(h, states) /\ ReplayOf(h) = states[Len(h)]
  BY ReplayUnrolls
<1>2. PICK len \in Nat : len = Len(h)
  BY LenProperties
<1>3. PICK a : a = states[len][cid] /\ a = ReplayOf(h)[cid]
  BY <1>1, <1>2
<1>4. \A i \in DOMAIN h : i \in Nat /\ i <= len
  BY <1>2, SaidAt
<1>5. PICK R \in SUBSET Nat : R = Registrations(h, cid)
  BY <1>4 DEF Registrations, On
<1>6. CASE R = {}
  <2>1. a = Absent
    <3>1. len \in 0..Len(h) /\ \A i \in Registrations(h, cid) : ~ (i <= len)
      BY <1>2, <1>5, <1>6
    <3>2. states[len][cid] = Absent
      BY <1>1, <3>1, NotBeforeRegistered
    <3>3. QED  BY <1>3, <3>2
  <2>2. Meaning(h, cid) = Absent
    BY <1>5, <1>6, MeaningIs
  <2>3. QED  BY <1>3, <2>1, <2>2
<1>7. CASE R # {}
  <2>1. PICK f \in R : f = Min(R) /\ \A i \in R : f <= i
    BY <1>7, FirstIs
  <2>2. PICK m : m = Meaning(h, cid)
    OBVIOUS
  <2>3. /\ m = [author |-> m.author, name |-> m.name,
                locations |-> m.locations, attestations |-> m.attestations,
                redactions |-> m.redactions, metadata |-> m.metadata]
        /\ Meant(h, cid, f, m)
    BY <1>5, <1>7, <2>1, <2>2, MeaningIs
  <2>4. f \in Nat /\ f \in f..len /\ len \in f..len
    BY <1>2, <1>4, <1>5, <2>1 DEF Registrations, On
  <2>5. a # Absent /\ Told(h, cid, f, a, len)
    BY <1>1, <1>2, <1>3, <1>5, <2>1, <2>4, ReplayTold DEF Carries
  <2>6. a \in Artifact
    <3>1. states[len] \in Artifacts /\ len \in 0..len
      BY <1>1, <1>2, ReplaySound
    <3>2. QED  BY <1>3, <2>5, <3>1 DEF Artifacts
  <2>7. ASSUME NEW S \in SUBSET Nat, S \subseteq DOMAIN h
        PROVE  /\ NoneYet(S, len) <=> S = {}
               /\ \A i : IsLast(S, len, i) => S # {} /\ Max(S) = i
    BY <1>2, <1>4, <2>7, LastIs
  <2>8. \A did, url, key :
          /\ Names(h, cid, did) \subseteq DOMAIN h
          /\ Redactions(h, cid, f, did) \subseteq DOMAIN h
          /\ Attests(h, cid, f, did) \subseteq DOMAIN h
          /\ OnUrl(h, cid, f, did, url) \subseteq DOMAIN h
          /\ TrustedWrites(h, cid, f, key) \subseteq DOMAIN h
    BY DEF Names, Registrations, Redactions, Attests, OnUrl, TrustedWrites, After, On
  <2>9. m.author = a.author
    BY <2>3, <2>5 DEF Meant, Told
  <2>10. m.name = a.name
    <3>1. PICK S \in SUBSET Nat : S = Names(h, cid, h[f].by) /\ S \subseteq DOMAIN h
      BY <2>8, NamesKind
    <3>2. PICK i : IsLast(S, len, i) /\ a.name = h[i].action.name
      BY <2>5, <3>1 DEF Told, ToldName
    <3>3. S # {} /\ Max(S) = i
      BY <2>7, <3>1, <3>2
    <3>4. m.name = h[Max(S)].action.name
      BY <2>3, <3>1, <3>3 DEF Meant
    <3>5. QED  BY <3>2, <3>3, <3>4
  <2>11. m.locations = a.locations
    <3>1. ASSUME NEW did \in Did, NEW url \in Url
          PROVE  <<did, url>> \in m.locations <=> <<did, url>> \in a.locations
      <4>1. PICK S \in SUBSET Nat : S = OnUrl(h, cid, f, did, url) /\ S \subseteq DOMAIN h
        BY <2>4, <2>8, Kinds
      <4>2. <<did, url>> \in m.locations <=>
              S # {} /\ h[Max(S)].action.type = "addLocation"
        BY <2>3, <4>1 DEF Meant
      <4>3. <<did, url>> \in a.locations <=>
              \E i : IsLast(S, len, i) /\ h[i].action.type = "addLocation"
        BY <2>5, <4>1 DEF Told, ToldLocations
      <4>4. \A i : IsLast(S, len, i) => S # {} /\ Max(S) = i
        BY <2>7, <4>1
      <4>5. S # {} => IsLast(S, len, Max(S))
        <5>1. SUFFICES ASSUME S # {}  PROVE IsLast(S, len, Max(S))
          OBVIOUS
        <5>2. \A i \in S : i <= len
          BY <1>4, <4>1
        <5>3. Max(S) \in S /\ \A i \in S : i <= Max(S)
          BY <1>2, <5>1, <5>2, GreatestNumber
        <5>4. QED  BY <5>2, <5>3 DEF IsLast
      <4>6. QED  BY <4>2, <4>3, <4>4, <4>5
    <3>2. m.locations \subseteq Did \X Url /\ a.locations \subseteq Did \X Url
      BY <2>3, <2>6 DEF Meant, Artifact
    <3>3. ASSUME NEW at \in Did \X Url
          PROVE  at \in m.locations <=> at \in a.locations
      <4>1. PICK did \in Did, url \in Url : at = <<did, url>>
        OBVIOUS
      <4>2. QED  BY <3>1, <4>1
    <3>4. QED  BY <3>2, <3>3
  <2>12. m.attestations = a.attestations
    <3>1. ASSUME NEW did \in Did
          PROVE  did \in m.attestations <=> did \in a.attestations
      <4>1. PICK S \in SUBSET Nat, T \in SUBSET Nat :
              /\ S = Attests(h, cid, f, did) /\ T = Redactions(h, cid, f, did)
              /\ S \subseteq DOMAIN h /\ T \subseteq DOMAIN h
        BY <2>4, <2>8, Kinds
      <4>2. did \in m.attestations <=> did # h[f].by /\ S # {} /\ T = {}
        BY <2>3, <4>1 DEF Meant
      <4>3. did \in a.attestations <=>
              did # h[f].by /\ ~ NoneYet(S, len) /\ NoneYet(T, len)
        BY <2>5, <4>1 DEF Told, ToldAttestations
      <4>4. QED  BY <2>7, <4>1, <4>2, <4>3
    <3>2. m.attestations \subseteq Did /\ a.attestations \subseteq Did
      BY <2>3, <2>6 DEF Meant, Artifact
    <3>3. QED  BY <3>1, <3>2
  <2>13. m.redactions = a.redactions
    <3>1. ASSUME NEW did \in Did
          PROVE  m.redactions[did] = a.redactions[did]
      <4>1. PICK S \in SUBSET Nat : S = Redactions(h, cid, f, did) /\ S \subseteq DOMAIN h
        BY <2>4, <2>8, Kinds
      <4>2. m.redactions[did] = IF S = {} THEN NoReason ELSE h[Max(S)].action.reason
        BY <2>3, <4>1 DEF Meant
      <4>3. \/ NoneYet(S, len) /\ a.redactions[did] = NoReason
            \/ \E i : IsLast(S, len, i) /\ a.redactions[did] = h[i].action.reason
        BY <2>5, <4>1 DEF Told, ToldRedactions
      <4>4. QED  BY <2>7, <4>1, <4>2, <4>3
    <3>2. /\ m.redactions = [did \in Did |-> m.redactions[did]]
          /\ a.redactions = [did \in Did |-> a.redactions[did]]
      BY <2>3, <2>6 DEF Meant, Artifact
    <3>3. QED  BY <3>1, <3>2
  <2>14. m.metadata = [key \in Key |-> TrustedMetadata(a, key)]
    <3>1. ASSUME NEW key \in Key
          PROVE  m.metadata[key] = TrustedMetadata(a, key)
      <4>1. PICK S \in SUBSET Nat : S = TrustedWrites(h, cid, f, key) /\ S \subseteq DOMAIN h
        BY <2>4, <2>8, Kinds
      <4>2. m.metadata[key] = IF S = {} THEN Removed ELSE h[Max(S)].action.write
        BY <2>3, <4>1 DEF Meant
      <4>3. \/ NoneYet(S, len) /\ TrustedMetadata(a, key) = Removed
            \/ \E i : IsLast(S, len, i) /\ TrustedMetadata(a, key) = h[i].action.write
        BY <2>5, <4>1 DEF Told, ToldMetadata
      <4>4. QED  BY <2>7, <4>1, <4>2, <4>3
    <3>2. m.metadata = [key \in Key |-> m.metadata[key]]
      BY <2>3 DEF Meant
    <3>3. QED  BY <3>1, <3>2
  <2>15. PICK md : md = [key \in Key |-> TrustedMetadata(a, key)]
    OBVIOUS
  <2>16. m = [a EXCEPT !.metadata = md]
    <3>1. [a EXCEPT !.metadata = md] =
            [author |-> a.author, name |-> a.name, locations |-> a.locations,
             attestations |-> a.attestations, redactions |-> a.redactions,
             metadata |-> md]
      BY <2>6 DEF Artifact
    <3>2. QED  BY <2>3, <2>9, <2>10, <2>11, <2>12, <2>13, <2>14, <2>15, <3>1
  <2>17. QED  BY <1>3, <2>2, <2>5, <2>15, <2>16
<1>8. QED  BY <1>6, <1>7
-----------------------------------------------------------------------------
\* What flattening goes through, one sequence at a time.
Flattened(seqs, flats) ==
  /\ flats[0] = <<>>
  /\ \A n \in 1..Len(seqs) : flats[n] = flats[n - 1] \o seqs[n]

LEMMA FlattenUnrolls ==
  ASSUME NEW T, NEW seqs \in Seq(Seq(T))
  PROVE  \E flats : Flattened(seqs, flats) /\ FlattenSeq(seqs) = flats[Len(seqs)]
<1> DEFINE Flatten(g, i) == IF i = 1 THEN seqs[i] ELSE g[i - 1] \o seqs[i]
           Flats(g, n) == g = [i \in 1..n |-> Flatten(g, i)]
<1>1. PICK len \in Nat : len = Len(seqs)
  BY LenProperties
<1>2. \E g : Flats(g, len)
  <2> DEFINE S == {n \in 0..len : \E g : Flats(g, n)}
  <2>1. 0 \in S
    <3> DEFINE g == [i \in 1..0 |-> <<>>]
    <3>1. Flats(g, 0)
      OBVIOUS
    <3>2. \E k : Flats(k, 0)
      BY <3>1
    <3> HIDE DEF Flats
    <3>3. QED  BY <1>1, <3>2
  <2>2. ASSUME NEW n \in 0 + 1..len, n - 1 \in S  PROVE n \in S
    <3>1. PICK g : Flats(g, n - 1)
      BY <2>2
    <3> DEFINE h == [i \in 1..n |-> IF i = n THEN Flatten(g, n) ELSE g[i]]
    <3>2. \A i \in 1..n - 1 : h[i] = g[i]
      BY <1>1
    <3>3. ASSUME NEW i \in 1..n  PROVE h[i] = Flatten(h, i)
      <4>1. CASE i = n
        BY <1>1, <3>2, <4>1
      <4>2. CASE i # n
        <5>1. i \in 1..n - 1 /\ h[i] = g[i]
          BY <1>1, <4>2
        <5>2. g[i] = Flatten(g, i)
          BY <3>1, <5>1
        <5>3. i = 1 \/ i - 1 \in 1..n - 1
          BY <1>1, <5>1
        <5> HIDE DEF h
        <5>4. QED  BY <3>2, <5>1, <5>2, <5>3
      <4>3. QED  BY <4>1, <4>2
    <3>4. Flats(h, n)
      <4>1. h = [i \in 1..n |-> h[i]]
        OBVIOUS
      <4> HIDE DEF h, Flatten
      <4>2. QED  BY <3>3, <4>1
    <3>5. \E k : Flats(k, n)
      BY <3>4
    <3> HIDE DEF Flats
    <3>6. QED  BY <1>1, <3>5
  <2> HIDE DEF S
  <2>3. 0..len \subseteq S
    BY <1>1, <2>1, <2>2, NumbersFrom
  <2>4. len \in S
    BY <1>1, <2>3
  <2>5. QED  BY <2>4 DEF S
<1> DEFINE flatten == CHOOSE g : Flats(g, len)
<1>3. Flats(flatten, len)
  BY <1>2
<1>4. FlattenSeq(seqs) = IF len = 0 THEN seqs ELSE flatten[len]
  BY <1>1 DEF FlattenSeq
<1> HIDE DEF flatten
<1> DEFINE flats == [n \in 0..len |-> IF n = 0 THEN <<>> ELSE flatten[n]]
<1>5. flats[0] = <<>> /\ FlattenSeq(seqs) = flats[len]
  <2>1. len = 0 => seqs = <<>>
    BY <1>1, EmptySeq
  <2>2. QED  BY <1>1, <1>4, <2>1
<1>6. ASSUME NEW n \in 1..len  PROVE flats[n] = flats[n - 1] \o seqs[n]
  <2>1. flats[n] = Flatten(flatten, n)
    <3>1. flats[n] = flatten[n]
      BY <1>1
    <3> HIDE DEF Flatten, flats
    <3>2. flatten[n] = Flatten(flatten, n)
      BY <1>3
    <3>3. QED  BY <3>1, <3>2
  <2>2. CASE n = 1
    <3>1. seqs[1] \in Seq(T)
      BY <1>1, <2>2, ElementOfSeq
    <3>2. <<>> \o seqs[1] = seqs[1]
      BY <3>1, ConcatEmptySeq
    <3>3. QED  BY <1>1, <2>1, <2>2, <3>2
  <2>3. CASE n # 1
    <3>1. n - 1 \in 0..len /\ n - 1 # 0
      BY <1>1, <2>3
    <3>2. flats[n - 1] = flatten[n - 1]
      BY <3>1
    <3> HIDE DEF flats
    <3>3. QED  BY <2>1, <2>3, <3>2
  <2>4. QED  BY <2>2, <2>3
<1> HIDE DEF flats
<1>7. QED  BY <1>1, <1>5, <1>6 DEF Flattened

\* In the flat sequence, the n first sequences stand one behind the other, each
\* from its own base on, and nothing else does.
Behind(flat, seqs, n, base) ==
  /\ \A p \in 1..n :
       /\ base[p] \in Nat /\ base[p] + Len(seqs[p]) <= Len(flat)
       /\ \A k \in 1..Len(seqs[p]) : flat[base[p] + k] = seqs[p][k]
  /\ \A p, q \in 1..n : p < q => base[p] + Len(seqs[p]) <= base[q]
  /\ \A i \in 1..Len(flat) : \E p \in 1..n : \E k \in 1..Len(seqs[p]) : i = base[p] + k

LEMMA FlattenProperties ==
  ASSUME NEW T, NEW seqs \in Seq(Seq(T))
  PROVE  /\ FlattenSeq(seqs) \in Seq(T)
         /\ \E base : Behind(FlattenSeq(seqs), seqs, Len(seqs), base)
<1>1. PICK flats : Flattened(seqs, flats) /\ FlattenSeq(seqs) = flats[Len(seqs)]
  BY FlattenUnrolls
<1>2. PICK len \in Nat : len = Len(seqs)
  BY LenProperties
<1> DEFINE base == [p \in 1..len |-> Len(flats[p - 1])]
           S == {n \in 0..len : flats[n] \in Seq(T) /\ Behind(flats[n], seqs, n, base)}
<1>3. 0 \in S
  <2>1. flats[0] = <<>> /\ Len(flats[0]) = 0 /\ flats[0] \in Seq(T)
    BY <1>1, EmptySeq DEF Flattened
  <2> HIDE DEF base
  <2>2. PICK old : old = flats[0] /\ Len(old) = 0 /\ old \in Seq(T)
    BY <2>1
  <2>3. Behind(old, seqs, 0, base)
    BY <2>2 DEF Behind
  <2>4. QED  BY <1>2, <2>2, <2>3
<1>4. ASSUME NEW n \in 0 + 1..len, n - 1 \in S  PROVE n \in S
  <2>1. n \in 1..len /\ n \in 0..len /\ n - 1 \in Nat
    BY <1>2
  <2>2. PICK old \in Seq(T) : old = flats[n - 1] /\ Behind(old, seqs, n - 1, base)
    BY <1>4
  <2>3. PICK more \in Seq(T) : more = seqs[n]
    BY <1>2, <2>1, ElementOfSeq
  <2>4. PICK new \in Seq(T) : new = old \o more /\ new = flats[n]
    <3>1. flats[n] = old \o more
      BY <1>1, <1>2, <2>1, <2>2, <2>3 DEF Flattened
    <3>2. old \o more \in Seq(T)
      BY ConcatProperties
    <3>3. QED  BY <3>1, <3>2
  <2>5. /\ Len(old) \in Nat /\ Len(more) \in Nat /\ Len(new) = Len(old) + Len(more)
        /\ \A i \in 1..Len(old) + Len(more) :
             new[i] = IF i <= Len(old) THEN old[i] ELSE more[i - Len(old)]
    <3>1. Len(old) \in Nat /\ Len(more) \in Nat
      BY LenProperties
    <3>2. /\ Len(old \o more) = Len(old) + Len(more)
          /\ \A i \in 1..Len(old) + Len(more) :
               (old \o more)[i] = IF i <= Len(old) THEN old[i] ELSE more[i - Len(old)]
      BY ConcatProperties
    <3>3. QED  BY <2>4, <3>1, <3>2
  <2>6. base[n] = Len(old)
    BY <1>2, <2>1, <2>2
  <2>7. \A p \in 1..n - 1 : seqs[p] \in Seq(T) /\ Len(seqs[p]) \in Nat
    <3>1. \A p \in 1..n - 1 : seqs[p] \in Seq(T)
      BY <1>2, <2>1, ElementOfSeq
    <3>2. QED  BY <3>1, LenProperties
  <2> HIDE DEF base
  <2>8. Behind(new, seqs, n, base)
    <3>1. ASSUME NEW p \in 1..n
          PROVE  /\ base[p] \in Nat /\ base[p] + Len(seqs[p]) <= Len(new)
                 /\ \A k \in 1..Len(seqs[p]) : new[base[p] + k] = seqs[p][k]
      <4>1. CASE p = n
        <5>1. base[n] \in Nat /\ base[n] + Len(seqs[n]) = Len(new)
          BY <2>3, <2>5, <2>6
        <5>2. ASSUME NEW k \in 1..Len(more)  PROVE new[Len(old) + k] = more[k]
          <6>1. /\ Len(old) + k \in 1..Len(old) + Len(more) /\ ~ (Len(old) + k <= Len(old))
                /\ (Len(old) + k) - Len(old) = k
            BY <2>5
          <6>2. QED  BY <2>5, <6>1
        <5>3. \A k \in 1..Len(seqs[n]) : new[base[n] + k] = seqs[n][k]
          BY <2>3, <2>6, <5>2
        <5>4. base[n] + Len(seqs[n]) <= Len(new)
          BY <2>5, <5>1
        <5>5. QED  BY <4>1, <5>1, <5>3, <5>4
      <4>2. CASE p # n
        <5>1. /\ p \in 1..n - 1 /\ base[p] \in Nat /\ Len(seqs[p]) \in Nat
              /\ base[p] + Len(seqs[p]) <= Len(old)
              /\ \A k \in 1..Len(seqs[p]) : old[base[p] + k] = seqs[p][k]
          BY <2>1, <2>2, <2>7, <4>2 DEF Behind
        <5>2. ASSUME NEW k \in 1..Len(seqs[p])  PROVE new[base[p] + k] = seqs[p][k]
          <6>1. base[p] + k \in 1..Len(old) + Len(more) /\ base[p] + k <= Len(old)
            BY <2>5, <5>1, SMTT(30)
          <6>2. QED  BY <2>5, <5>1, <6>1
        <5>3. QED  BY <2>5, <5>1, <5>2
      <4>3. QED  BY <4>1, <4>2
    <3>2. ASSUME NEW p \in 1..n, NEW q \in 1..n, p < q
          PROVE  base[p] + Len(seqs[p]) <= base[q]
      <4>1. p \in 1..n - 1
        BY <2>1, <3>2
      <4>2. CASE q = n
        BY <2>2, <2>6, <4>1, <4>2 DEF Behind
      <4>3. CASE q # n
        <5>1. q \in 1..n - 1
          BY <2>1, <4>3
        <5>2. QED  BY <2>2, <3>2, <4>1, <5>1 DEF Behind
      <4>4. QED  BY <4>2, <4>3
    <3>3. ASSUME NEW i \in 1..Len(new)
          PROVE  \E p \in 1..n : \E k \in 1..Len(seqs[p]) : i = base[p] + k
      <4>1. CASE i <= Len(old)
        <5>1. i \in 1..Len(old)
          BY <2>5, <4>1
        <5>2. PICK p \in 1..n - 1 : \E k \in 1..Len(seqs[p]) : i = base[p] + k
          BY <2>2, <5>1 DEF Behind
        <5>3. p \in 1..n
          BY <2>1, <5>2
        <5>4. QED  BY <5>2, <5>3
      <4>2. CASE ~ (i <= Len(old))
        <5>1. i - Len(old) \in 1..Len(seqs[n]) /\ i = base[n] + (i - Len(old))
          BY <2>3, <2>5, <2>6, <4>2
        <5>2. n \in 1..n
          BY <2>1
        <5>3. QED  BY <5>1, <5>2
      <4>3. QED  BY <4>1, <4>2
    <3>4. QED  BY <3>1, <3>2, <3>3 DEF Behind
  <2>9. QED  BY <2>1, <2>4, <2>8
<1> HIDE DEF S
<1>5. 0..len \subseteq S
  BY <1>2, <1>3, <1>4, NumbersFrom
<1>6. flats[len] \in Seq(T) /\ Behind(flats[len], seqs, len, base)
  <2>1. len \in S
    BY <1>2, <1>5
  <2>2. QED  BY <2>1 DEF S
<1> HIDE DEF base
<1>7. QED  BY <1>1, <1>2, <1>6
-----------------------------------------------------------------------------
\* The operations of a set that none of them builds on: those an order can end
\* with.
Tips(known) == {n \in known : \A m \in known : n \notin ops[m].past}

\* Orders, one set of operations at a time.
Ordered(g, known) ==
  IF known = {} THEN {<<>>}
  ELSE UNION {{Append(order, last) : order \in g[known \ {last}]} : last \in Tips(known)}

LEMMA OrdersUnroll ==
  \A known \in SUBSET (1..MaxOps) : Orders[known] = Ordered(Orders, known)
<1> DEFINE All == SUBSET (1..MaxOps)
           Less(n) == {s \in All : Cardinality(s) < n}
           Orderings(g, n) == g = [s \in Less(n) |-> Ordered(g, s)]
           S == {n \in 0..MaxOps + 1 : \E g : Orderings(g, n)}
<1>1. \A s \in All : /\ Cardinality(s) \in Nat /\ Cardinality(s) <= MaxOps
                     /\ \A n \in s : Cardinality(s \ {n}) = Cardinality(s) - 1
  <2>1. SUFFICES ASSUME NEW s \in All
                 PROVE  /\ Cardinality(s) \in Nat /\ Cardinality(s) <= MaxOps
                        /\ \A n \in s : Cardinality(s \ {n}) = Cardinality(s) - 1
    OBVIOUS
  <2>2. IsFiniteSet(1..MaxOps) /\ Cardinality(1..MaxOps) = MaxOps
    BY ReplicasAssumption, FS_Interval
  <2>3. IsFiniteSet(s) /\ Cardinality(s) <= MaxOps
    BY <2>2, FS_Subset
  <2>4. QED  BY <2>3, FS_CardinalityType, FS_RemoveElement
<1>2. 0 \in S
  <2>1. Less(0) = {}
    BY <1>1
  <2> DEFINE g == [s \in Less(0) |-> {}]
  <2>2. Orderings(g, 0)
    <3> HIDE DEF All
    <3>1. QED  BY <2>1
  <2>3. \E k : Orderings(k, 0)
    BY <2>2
  <2> HIDE DEF Orderings
  <2>4. QED  BY <2>3, ReplicasAssumption
<1>3. ASSUME NEW n \in 0 + 1..MaxOps + 1, n - 1 \in S  PROVE n \in S
  <2>1. n \in Nat /\ n \in 0..MaxOps + 1
    BY ReplicasAssumption
  <2>2. PICK g : Orderings(g, n - 1)
    BY <1>3
  <2> DEFINE h == [s \in Less(n) |-> Ordered(g, s)]
  <2>3. ASSUME NEW s \in Less(n - 1)  PROVE h[s] = g[s]
    <3>1. s \in Less(n)
      BY <1>1, <2>1
    <3>2. g[s] = Ordered(g, s)
      <4> HIDE DEF Less
      <4>1. QED  BY <2>2
    <3>3. QED  BY <3>1, <3>2
  <2>4. ASSUME NEW s \in Less(n)  PROVE h[s] = Ordered(h, s)
    <3>1. \A last \in s : s \ {last} \in Less(n - 1)
      BY <1>1, <2>1
    <3> HIDE DEF Less
    <3>2. \A last \in s : h[s \ {last}] = g[s \ {last}]
      BY <2>3, <3>1
    <3>3. h[s] = Ordered(g, s)
      OBVIOUS
    <3> HIDE DEF h
    <3>4. Ordered(g, s) = Ordered(h, s)
      <4> DEFINE Ending(k, last) == {Append(order, last) : order \in k[s \ {last}]}
      <4>1. ASSUME NEW last \in Tips(s)  PROVE Ending(g, last) = Ending(h, last)
        BY <3>2 DEF Tips
      <4>2. /\ Ordered(g, s) = IF s = {} THEN {<<>>} ELSE UNION {Ending(g, last) : last \in Tips(s)}
            /\ Ordered(h, s) = IF s = {} THEN {<<>>} ELSE UNION {Ending(h, last) : last \in Tips(s)}
        BY DEF Ordered
      <4> HIDE DEF Ending
      <4>3. {Ending(g, last) : last \in Tips(s)} = {Ending(h, last) : last \in Tips(s)}
        BY <4>1
      <4>4. QED  BY <4>2, <4>3
    <3>5. QED  BY <3>3, <3>4
  <2>5. Orderings(h, n)
    <3>1. h = [s \in Less(n) |-> h[s]]
      OBVIOUS
    <3> HIDE DEF h, Less
    <3>2. QED  BY <2>4, <3>1
  <2>6. \E k : Orderings(k, n)
    BY <2>5
  <2> HIDE DEF Orderings
  <2>7. QED  BY <2>1, <2>6
<1>4. \E g : Orderings(g, MaxOps + 1)
  <2> HIDE DEF S
  <2>1. 0..MaxOps + 1 \subseteq S
    BY <1>2, <1>3, NumbersFrom, ReplicasAssumption
  <2>2. MaxOps + 1 \in S
    BY <2>1, ReplicasAssumption
  <2>3. QED  BY <2>2 DEF S
<1>5. Less(MaxOps + 1) = All
  BY <1>1, ReplicasAssumption
<1>6. \E g : g = [s \in All |-> Ordered(g, s)]
  <2> HIDE DEF Less, All
  <2>1. QED  BY <1>4, <1>5
<1>7. Orders = CHOOSE g : g = [s \in All |-> Ordered(g, s)]
  BY DEF Orders, Ordered, Tips
<1>8. Orders = [s \in All |-> Ordered(Orders, s)]
  BY <1>6, <1>7
<1>9. QED  BY <1>8

\* An order names each operation of the set once, what it builds on first.
Lists(order, known) ==
  /\ order \in Seq(known)
  /\ \A n \in known : \E p \in 1..Len(order) : order[p] = n
  /\ \A p, q \in 1..Len(order) :
       p < q => order[p] # order[q] /\ order[q] \notin ops[order[p]].past

LEMMA OrdersList ==
  ASSUME NEW known \in SUBSET (1..MaxOps), NEW order \in Orders[known]
  PROVE  Lists(order, known)
<1> DEFINE All == SUBSET (1..MaxOps)
           S == {n \in 0..MaxOps + 1 :
                   \A s \in All : Cardinality(s) < n =>
                     \A o \in Orders[s] : Lists(o, s)}
<1>1. \A s \in All : /\ Cardinality(s) \in Nat /\ Cardinality(s) <= MaxOps
                     /\ \A n \in s : Cardinality(s \ {n}) = Cardinality(s) - 1
  <2>1. SUFFICES ASSUME NEW s \in All
                 PROVE  /\ Cardinality(s) \in Nat /\ Cardinality(s) <= MaxOps
                        /\ \A n \in s : Cardinality(s \ {n}) = Cardinality(s) - 1
    OBVIOUS
  <2>2. IsFiniteSet(1..MaxOps) /\ Cardinality(1..MaxOps) = MaxOps
    BY ReplicasAssumption, FS_Interval
  <2>3. IsFiniteSet(s) /\ Cardinality(s) <= MaxOps
    BY <2>2, FS_Subset
  <2>4. QED  BY <2>3, FS_CardinalityType, FS_RemoveElement
<1>2. 0 \in S
  BY <1>1, ReplicasAssumption
<1>3. ASSUME NEW n \in 0 + 1..MaxOps + 1, n - 1 \in S  PROVE n \in S
  <2>1. n \in Nat /\ n \in 0..MaxOps + 1
    BY ReplicasAssumption
  <2>2. ASSUME NEW s \in All, Cardinality(s) < n, NEW o \in Orders[s]
        PROVE  Lists(o, s)
    <3>1. o \in Ordered(Orders, s)
      BY <2>2, OrdersUnroll
    <3>2. CASE s = {}
      <4>1. o = <<>>
        BY <3>1, <3>2 DEF Ordered
      <4>2. QED  BY <3>2, <4>1, EmptySeq DEF Lists
    <3>3. CASE s # {}
      <4>1. PICK last \in Tips(s) : \E front \in Orders[s \ {last}] : o = Append(front, last)
        BY <3>1, <3>3 DEF Ordered
      <4>2. last \in s /\ \A m \in s : last \notin ops[m].past
        BY <4>1 DEF Tips
      <4>3. PICK front \in Orders[s \ {last}] : o = Append(front, last)
        BY <4>1
      <4>4. Lists(front, s \ {last})
        <5>1. s \ {last} \in All /\ Cardinality(s \ {last}) < n - 1
          BY <1>1, <2>1, <2>2, <4>2
        <5>2. QED  BY <1>3, <4>3, <5>1
      <4>5. PICK len \in Nat : len = Len(front)
        BY <4>4, LenProperties DEF Lists
      <4>6. /\ \A p \in 1..len : front[p] \in s /\ front[p] # last
            /\ front \in Seq(s)
        <5>1. \A p \in 1..len : front[p] \in s \ {last}
          BY <4>4, <4>5, ElementOfSeq DEF Lists
        <5>2. front \in Seq(s)
          BY <4>4, SeqMonotonic DEF Lists
        <5>3. QED  BY <5>1, <5>2
      <4>7. /\ o \in Seq(s) /\ Len(o) = len + 1
            /\ \A p \in 1..len : o[p] = front[p]
            /\ o[len + 1] = last
        BY <4>2, <4>3, <4>5, <4>6, AppendProperties
      <4>8. \A m \in s : \E p \in 1..len + 1 : o[p] = m
        <5>1. SUFFICES ASSUME NEW m \in s  PROVE \E p \in 1..len + 1 : o[p] = m
          OBVIOUS
        <5>2. CASE m = last
          BY <4>5, <4>7, <5>2
        <5>3. CASE m # last
          <6>1. PICK p \in 1..len : front[p] = m
            BY <4>4, <4>5, <5>3 DEF Lists
          <6>2. p \in 1..len + 1 /\ o[p] = m
            BY <4>5, <4>7, <6>1
          <6>3. QED  BY <6>2
        <5>4. QED  BY <5>2, <5>3
      <4>9. ASSUME NEW p \in 1..len + 1, NEW q \in 1..len + 1, p < q
            PROVE  o[p] # o[q] /\ o[q] \notin ops[o[p]].past
        <5>1. p \in 1..len /\ o[p] = front[p] /\ o[p] \in s /\ o[p] # last
          BY <4>5, <4>6, <4>7, <4>9
        <5>2. CASE q = len + 1
          BY <4>2, <4>7, <5>1, <5>2
        <5>3. CASE q # len + 1
          <6>1. q \in 1..len /\ o[q] = front[q]
            BY <4>5, <4>7, <5>3
          <6>2. QED  BY <4>4, <4>5, <4>9, <5>1, <6>1 DEF Lists
        <5>4. QED  BY <5>2, <5>3
      <4>10. QED  BY <4>7, <4>8, <4>9 DEF Lists
    <3>4. QED  BY <3>2, <3>3
  <2>3. QED  BY <2>1, <2>2
<1> HIDE DEF S
<1>4. 0..MaxOps + 1 \subseteq S
  BY <1>2, <1>3, NumbersFrom, ReplicasAssumption
<1>5. MaxOps + 1 \in S
  BY <1>4, ReplicasAssumption
<1>6. Cardinality(known) < MaxOps + 1
  BY <1>1, ReplicasAssumption
<1>7. QED  BY <1>5, <1>6 DEF S
-----------------------------------------------------------------------------
\* The inductive invariant.  What a replay needs of the operations: each builds
\* on earlier ones and on all that those build on, and says one thing, or
\* registers an artifact and adds to its metadata.  That a redaction takes
\* effect needs one thing more: the release that it was checked on holds a
\* registration, because that release carries the artifact.  (What it is signed
\* on need not.)
Operation == [by : Did, actions : Seq(Action), past : SUBSET Nat, seen : SUBSET Nat]

TypeInv ==
  /\ ops \in Seq(Operation)
  /\ Len(ops) <= MaxOps
  /\ refs \in [Did -> [Did -> 0..Len(ops)]]

Registers(n, cid) == ops[n].actions[1].type = "register" /\ ops[n].actions[1].cid = cid

Phrased(actions) ==
  \/ Len(actions) = 1
  \/ /\ Len(actions) = 2
     /\ actions[1].type = "register" /\ actions[2].type = "metadata"
     /\ actions[1].cid = actions[2].cid

BuiltOn(n) ==
  /\ ops[n].past \subseteq 1..n - 1
  /\ \A m \in ops[n].past : ops[m].past \subseteq ops[n].past
  /\ ops[n].seen \subseteq 1..n - 1
  /\ Phrased(ops[n].actions)
  /\ ops[n].actions[1].type = "redact" =>
       \E m \in ops[n].seen : Registers(m, ops[n].actions[1].cid)

Grounded ==
  /\ TypeInv
  /\ \A n \in 1..Len(ops) : BuiltOn(n)

\* And what commands have loaded is made of operations.
Loaded == loads \in [Did -> SUBSET SUBSET (1..Len(ops))]

IInv == Grounded /\ Loaded

\* Of an operation that is in the invariant.
LEMMA OfOperation ==
  ASSUME Grounded, NEW n \in 1..Len(ops)
  PROVE  /\ ops[n].by \in Did /\ ops[n].actions \in Seq(Action)
         /\ Len(ops[n].actions) \in 1..2
         /\ \A k \in 1..Len(ops[n].actions) : ops[n].actions[k] \in Action
         /\ BuiltOn(n)
<1>1. ops[n] \in Operation
  BY ElementOfSeq DEF Grounded, TypeInv
<1>2. ops[n].by \in Did /\ ops[n].actions \in Seq(Action)
  BY <1>1 DEF Operation
<1>3. BuiltOn(n)
  BY DEF Grounded
<1>4. Len(ops[n].actions) \in 1..2
  BY <1>3 DEF BuiltOn, Phrased
<1>5. QED  BY <1>2, <1>3, <1>4, ElementOfSeq

\* What a peer knows holds all that it builds on.
LEMMA KnownIsClosed ==
  ASSUME Grounded, NEW peer \in Did
  PROVE  /\ Known(peer) \in SUBSET (1..Len(ops))
         /\ Known(peer) \in SUBSET (1..MaxOps)
         /\ \A n \in Known(peer) : ops[n].past \subseteq Known(peer)
<1>1. Len(ops) \in Nat /\ Len(ops) <= MaxOps
  BY LenProperties DEF Grounded, TypeInv
<1>2. ASSUME NEW n \in Known(peer)
      PROVE  n \in 1..Len(ops) /\ ops[n].past \subseteq Known(peer)
  <2>1. PICK did \in Did : /\ refs[peer][did] # 0
                           /\ n \in ops[refs[peer][did]].past \cup {refs[peer][did]}
    BY DEF Known
  <2>2. PICK r : r = refs[peer][did]
    OBVIOUS
  <2>3. r \in 1..Len(ops)
    BY <1>1, <2>1, <2>2 DEF Grounded, TypeInv
  <2>4. BuiltOn(r)
    BY <2>3 DEF Grounded
  <2>5. ops[r].past \subseteq Known(peer)
    BY <2>1, <2>2 DEF Known
  <2>6. CASE n = r
    BY <2>3, <2>5, <2>6
  <2>7. CASE n \in ops[r].past
    BY <1>1, <2>3, <2>4, <2>5, <2>7 DEF BuiltOn
  <2>8. QED  BY <2>1, <2>2, <2>6, <2>7
<1>3. QED  BY <1>1, <1>2, ReplicasAssumption

\* In the history of an order each operation has a place, from which on its
\* actions stand: after all that it builds on, and apart from everything else.
Placed(h, known, at) ==
  /\ \A n \in known : \A k \in 1..Len(ops[n].actions) :
       /\ at[n] + k \in DOMAIN h
       /\ h[at[n] + k] = [by |-> ops[n].by, action |-> ops[n].actions[k]]
  /\ \A i \in DOMAIN h :
       \E n \in known : \E k \in 1..Len(ops[n].actions) : i = at[n] + k
  /\ \A m, n \in known :
       /\ at[n] \in Nat
       /\ m \in ops[n].past => at[m] + Len(ops[m].actions) <= at[n]
       /\ m # n => \/ at[m] + Len(ops[m].actions) <= at[n]
                   \/ at[n] + Len(ops[n].actions) <= at[m]

LEMMA HistoryPlaces ==
  ASSUME Grounded, NEW known \in SUBSET (1..Len(ops)), NEW order \in Orders[known]
  PROVE  /\ History(order) \in Seq(Utterance)
         /\ \E at : Placed(History(order), known, at)
<1>1. Lists(order, known)
  <2>1. known \in SUBSET (1..MaxOps)
    BY ReplicasAssumption, LenProperties DEF Grounded, TypeInv
  <2>2. QED  BY <2>1, OrdersList
<1>2. PICK len \in Nat : len = Len(order) /\ DOMAIN order = 1..len
  BY <1>1, LenProperties DEF Lists
<1>3. \A p \in 1..len : order[p] \in known
  BY <1>1, <1>2, ElementOfSeq DEF Lists
<1>4. ASSUME NEW n \in known
      PROVE  /\ Said(n) \in Seq(Utterance) /\ Len(Said(n)) = Len(ops[n].actions)
             /\ Len(Said(n)) \in 1..2
             /\ \A k \in 1..Len(ops[n].actions) :
                  Said(n)[k] = [by |-> ops[n].by, action |-> ops[n].actions[k]]
  <2>1. PICK by \in Did, actions \in Seq(Action) :
          by = ops[n].by /\ actions = ops[n].actions
    BY OfOperation
  <2>2. PICK c \in 1..2 : c = Len(actions) /\ DOMAIN actions = 1..c
    BY <2>1, OfOperation, LenProperties
  <2>3. Said(n) = [k \in 1..c |-> [by |-> by, action |-> actions[k]]]
    BY <2>1, <2>2 DEF Said
  <2>4. \A k \in 1..c : [by |-> by, action |-> actions[k]] \in Utterance
    BY <2>2, ElementOfSeq DEF Utterance
  <2>5. Said(n) \in Seq(Utterance) /\ Len(Said(n)) = c
    BY <2>2, <2>3, <2>4, IsASeq
  <2>6. QED  BY <2>1, <2>2, <2>3, <2>5
<1>5. PICK seqs : seqs = [p \in 1..len |-> Said(order[p])]
  OBVIOUS
<1>6. seqs \in Seq(Seq(Utterance)) /\ Len(seqs) = len
  <2>1. PICK T : T = Seq(Utterance)
    OBVIOUS
  <2>2. \A p \in 1..len : Said(order[p]) \in T
    BY <1>3, <1>4, <2>1
  <2>3. seqs \in Seq(T) /\ Len(seqs) = len
    BY <1>5, <2>2, IsASeq
  <2>4. QED  BY <2>1, <2>3
<1>7. PICK h : h = History(order) /\ h = FlattenSeq(seqs)
  BY <1>2, <1>5 DEF History
<1>8. h \in Seq(Utterance) /\ DOMAIN h = 1..Len(h)
  BY <1>6, <1>7, FlattenProperties, LenProperties
<1>9. PICK base : Behind(h, seqs, len, base)
  BY <1>6, <1>7, FlattenProperties
<1> DEFINE Turn(n) == CHOOSE p \in 1..len : order[p] = n
           at == [n \in known |-> base[Turn(n)]]
<1>10. \A n \in known : Turn(n) \in 1..len /\ order[Turn(n)] = n
  BY <1>1, <1>2 DEF Lists
<1>11. \A p \in 1..len : order[p] \in known /\ Turn(order[p]) = p
  <2>1. SUFFICES ASSUME NEW p \in 1..len  PROVE Turn(order[p]) = p
    BY <1>3
  <2>2. PICK q \in 1..len : q = Turn(order[p]) /\ order[q] = order[p]
    BY <1>3, <1>10
  <2>3. ~ (p < q) /\ ~ (q < p)
    BY <1>1, <1>2, <2>2 DEF Lists
  <2>4. QED  BY <1>2, <2>2, <2>3
<1> HIDE DEF Turn
<1>12. \A n \in known :
         /\ at[n] = base[Turn(n)] /\ seqs[Turn(n)] = Said(n)
         /\ at[n] \in Nat /\ Len(ops[n].actions) \in 1..2
         /\ Len(seqs[Turn(n)]) = Len(ops[n].actions)
  BY <1>4, <1>5, <1>9, <1>10 DEF Behind
<1> HIDE DEF at
<1>13. ASSUME NEW n \in known, NEW k \in 1..Len(ops[n].actions)
       PROVE  /\ at[n] + k \in DOMAIN h
              /\ h[at[n] + k] = [by |-> ops[n].by, action |-> ops[n].actions[k]]
  <2>1. PICK p \in 1..len : p = Turn(n)
    BY <1>10
  <2>2. /\ base[p] \in Nat /\ base[p] + Len(seqs[p]) <= Len(h)
        /\ h[base[p] + k] = seqs[p][k]
    BY <1>9, <1>12, <2>1 DEF Behind
  <2>3. at[n] + k \in 1..Len(h)
    <3>1. Len(h) \in Nat /\ at[n] = base[p] /\ Len(seqs[p]) = Len(ops[n].actions)
      BY <1>8, <1>12, <2>1, LenProperties
    <3>2. QED  BY <1>12, <2>2, <3>1
  <2>4. QED  BY <1>4, <1>8, <1>12, <2>1, <2>2, <2>3
<1>14. ASSUME NEW i \in DOMAIN h
       PROVE  \E n \in known : \E k \in 1..Len(ops[n].actions) : i = at[n] + k
  <2>1. PICK p \in 1..len : \E k \in 1..Len(seqs[p]) : i = base[p] + k
    BY <1>8, <1>9 DEF Behind
  <2>2. order[p] \in known /\ Turn(order[p]) = p
    BY <1>11
  <2>3. PICK n \in known : n = order[p] /\ Turn(n) = p
    BY <2>2
  <2>4. at[n] = base[p] /\ Len(seqs[p]) = Len(ops[n].actions)
    BY <1>12, <2>3
  <2>5. QED  BY <2>1, <2>4
<1>15. ASSUME NEW m \in known, NEW n \in known, Turn(m) < Turn(n)
       PROVE  at[m] + Len(ops[m].actions) <= at[n]
  BY <1>9, <1>10, <1>12, <1>15 DEF Behind
<1>16. ASSUME NEW m \in known, NEW n \in known, m # n
       PROVE  Turn(m) < Turn(n) \/ Turn(n) < Turn(m)
  BY <1>2, <1>10, <1>16
<1>17. ASSUME NEW m \in known, NEW n \in known, m \in ops[n].past
       PROVE  Turn(m) < Turn(n)
  <2>1. m # n
    <3>1. n \in 1..Len(ops) /\ ops[n].past \subseteq 1..n - 1 /\ Len(ops) \in Nat
      BY OfOperation, LenProperties DEF BuiltOn, Grounded, TypeInv
    <3>2. QED  BY <1>17, <3>1
  <2>2. ~ (Turn(n) < Turn(m))
    BY <1>1, <1>2, <1>10, <1>17 DEF Lists
  <2>3. QED  BY <1>16, <2>1, <2>2
<1>18. Placed(h, known, at)
  BY <1>12, <1>13, <1>14, <1>15, <1>16, <1>17 DEF Placed
<1>19. QED  BY <1>7, <1>8, <1>18

\* A replay is that of the history.
LEMMA ReplayIs ==
  ASSUME NEW order
  PROVE  Replay(order) = ReplayOf(History(order))
BY DEF Replay, ReplayOf

\* What is said in an operation is a sequence of one or two actions.
LEMMA OneSaid ==
  ASSUME NEW S, NEW a \in S
  PROVE  <<a>> \in Seq(S) /\ Len(<<a>>) = 1 /\ <<a>>[1] = a
<1>1. <<a>> \in [1..1 -> S]
  OBVIOUS
<1>2. QED  BY <1>1

LEMMA TwoSaid ==
  ASSUME NEW S, NEW a \in S, NEW b \in S
  PROVE  <<a, b>> \in Seq(S) /\ Len(<<a, b>>) = 2 /\ <<a, b>>[1] = a /\ <<a, b>>[2] = b
<1>1. <<a, b>> \in [1..2 -> S]
  OBVIOUS
<1>2. QED  BY <1>1

\* A history with a registration makes an artifact that tells what it says; one
\* without makes none.
LEMMA ReplayTells ==
  ASSUME NEW h \in Seq(Utterance), NEW cid \in Cid
  PROVE  /\ Registrations(h, cid) = {} => ReplayOf(h)[cid] = Absent
         /\ \A f \in Registrations(h, cid) : (\A i \in Registrations(h, cid) : f <= i) =>
              /\ ReplayOf(h)[cid] # Absent /\ ReplayOf(h)[cid] \in Artifact
              /\ Told(h, cid, f, ReplayOf(h)[cid], Len(h))
<1>1. PICK states : Unrolled(h, states) /\ ReplayOf(h) = states[Len(h)]
  BY ReplayUnrolls
<1>2. Len(h) \in Nat /\ Len(h) \in 0..Len(h)
  BY LenProperties
<1>3. ASSUME Registrations(h, cid) = {}  PROVE ReplayOf(h)[cid] = Absent
  BY <1>1, <1>2, <1>3, NotBeforeRegistered
<1>4. ASSUME NEW f \in Registrations(h, cid), \A i \in Registrations(h, cid) : f <= i
      PROVE  /\ ReplayOf(h)[cid] # Absent /\ ReplayOf(h)[cid] \in Artifact
             /\ Told(h, cid, f, ReplayOf(h)[cid], Len(h))
  <2>1. f \in 1..Len(h)
    BY LenProperties DEF Registrations, On
  <2>2. Len(h) \in f..Len(h)
    BY <1>2, <2>1
  <2>3. /\ Carries(states[Len(h)], cid)
        /\ Told(h, cid, f, states[Len(h)][cid], Len(h))
    BY <1>1, <1>4, <2>2, ReplayTold
  <2>4. states[Len(h)] \in Artifacts
    BY <1>1, <1>2, ReplaySound
  <2>5. QED  BY <1>1, <2>3, <2>4 DEF Carries, Artifacts
<1>5. QED  BY <1>3, <1>4

\* What shows an artifact holds a registration.
LEMMA ShownAreRegistered ==
  ASSUME Grounded, NEW known \in SUBSET (1..Len(ops)), NEW view \in Shown(known),
         NEW cid \in Cid, Carries(view, cid)
  PROVE  \E m \in known : Registers(m, cid)
<1>1. PICK order \in Orders[known] : view = Replay(order)
  BY DEF Shown
<1>2. PICK h, at : h \in Seq(Utterance) /\ h = History(order) /\ Placed(h, known, at)
  BY <1>1, HistoryPlaces
<1>3. Registrations(h, cid) # {}
  BY <1>1, <1>2, ReplayIs, ReplayTells DEF Carries
<1>4. PICK i \in DOMAIN h : h[i].action.type = "register" /\ h[i].action.cid = cid
  BY <1>3 DEF Registrations, On
<1>5. PICK n \in known : \E k \in 1..Len(ops[n].actions) : i = at[n] + k
  BY <1>2 DEF Placed
<1>6. PICK k \in 1..Len(ops[n].actions) : i = at[n] + k
  BY <1>5
<1>7. h[i].action = ops[n].actions[k]
  <2>1. h[at[n] + k] = [by |-> ops[n].by, action |-> ops[n].actions[k]]
    BY <1>2 DEF Placed
  <2>2. QED  BY <1>6, <2>1
<1>8. k = 1
  BY <1>4, <1>7, OfOperation DEF BuiltOn, Phrased
<1>9. QED  BY <1>4, <1>7, <1>8 DEF Registers

\* Signing keeps the invariant, when what is signed is phrased as it should be.
LEMMA SignKeeps ==
  ASSUME Grounded, NEW user \in Did, NEW actions \in Seq(Action),
         NEW seen \in SUBSET (1..Len(ops)), Sign(user, seen, actions),
         Phrased(actions),
         actions[1].type = "redact" =>
           \E m \in seen : Registers(m, actions[1].cid)
  PROVE  Grounded'
<1>1. PICK len \in Nat : len = Len(ops)
  BY LenProperties DEF Grounded, TypeInv
<1>2. PICK known : known = Known(user)
  OBVIOUS
<1>3. /\ known \in SUBSET (1..len)
      /\ \A n \in known : ops[n].past \subseteq known
  BY <1>1, <1>2, KnownIsClosed
<1>4. PICK op \in Operation :
        op = [by |-> user, actions |-> actions, past |-> known, seen |-> seen]
  <2>1. known \in SUBSET Nat /\ seen \in SUBSET Nat
    BY <1>1, <1>3
  <2>2. QED  BY <2>1 DEF Operation
<1>5. ops' = Append(ops, op) /\ refs' = [refs EXCEPT ![user][user] = len + 1] /\ len < MaxOps
  BY <1>1, <1>2, <1>4 DEF Sign
<1>6. /\ ops' \in Seq(Operation) /\ Len(ops') = len + 1
      /\ \A n \in 1..len : ops'[n] = ops[n]
      /\ ops'[len + 1] = op
  BY <1>1, <1>5, AppendProperties DEF Grounded, TypeInv
<1>7. TypeInv'
  <2>1. \A r \in 0..len : r \in 0..len + 1
    BY <1>1
  <2>2. refs' \in [Did -> [Did -> 0..len + 1]]
    BY <1>1, <1>5, <2>1 DEF Grounded, TypeInv
  <2>3. len + 1 <= MaxOps
    BY <1>1, <1>5, ReplicasAssumption
  <2>4. QED  BY <1>6, <2>2, <2>3 DEF TypeInv
<1>8. ASSUME NEW n \in 1..len  PROVE BuiltOn(n)'
  <2>1. BuiltOn(n)
    BY <1>1, OfOperation
  <2>2. \A m \in ops[n].past \cup ops[n].seen : ops'[m] = ops[m]
    BY <1>1, <1>6, <2>1 DEF BuiltOn
  <2>3. ops'[n] = ops[n]
    BY <1>6
  <2>4. QED  BY <2>1, <2>2, <2>3 DEF BuiltOn, Registers
<1>9. BuiltOn(len + 1)'
  <2>1. \A m \in known \cup seen : ops'[m] = ops[m]
    BY <1>1, <1>3, <1>6
  <2>2. op.past = known /\ op.seen = seen /\ op.actions = actions
    BY <1>4
  <2>3. known \subseteq 1..(len + 1) - 1 /\ seen \subseteq 1..(len + 1) - 1
    BY <1>1, <1>3
  <2>4. QED  BY <1>2, <1>3, <1>6, <2>1, <2>2, <2>3 DEF BuiltOn, Registers
<1>10. QED
  <2>1. \A n \in 1..len + 1 : n \in 1..len \/ n = len + 1
    BY <1>1
  <2>2. QED  BY <1>6, <1>7, <1>8, <1>9, <2>1 DEF Grounded

\* Every step keeps it; what can be signed is listed once.
LEMMA SignsPhrased ==
  ASSUME IInv, NEW user \in Did,
         \/ SignRegister(user) \/ SignRegisterWithSize(user)
         \/ SignAddLocation(user) \/ SignRemoveLocation(user)
         \/ SignAttest(user) \/ SignRedact(user) \/ SignMetadata(user)
  PROVE  \E actions \in Seq(Action), seen \in SUBSET (1..Len(ops)) :
           /\ Sign(user, seen, actions) /\ Phrased(actions)
           /\ actions[1].type = "redact" =>
                \E m \in seen : Registers(m, actions[1].cid)
<1>1. ASSUME NEW a \in Action, NEW seen \in SUBSET (1..Len(ops)), Sign(user, seen, <<a>>),
             a.type = "redact" => \E m \in seen : Registers(m, a.cid)
      PROVE  \E actions \in Seq(Action) :
               /\ Sign(user, seen, actions) /\ Phrased(actions)
               /\ actions[1].type = "redact" =>
                    \E m \in seen : Registers(m, actions[1].cid)
  <2>1. PICK actions \in Seq(Action) :
          actions = <<a>> /\ Len(actions) = 1 /\ actions[1] = a
    BY OneSaid
  <2>2. QED  BY <1>1, <2>1 DEF Phrased
<1>2. {} \in SUBSET (1..Len(ops)) /\ \A seen \in loads[user] : seen \in SUBSET (1..Len(ops))
  BY DEF IInv, Loaded
<1>3. CASE SignRegister(user)
  <2>1. PICK a \in Action : a.type = "register" /\ Sign(user, {}, <<a>>)
    BY <1>3 DEF SignRegister, Action
  <2>2. QED  BY <1>1, <1>2, <2>1
<1>4. CASE SignRegisterWithSize(user)
  <2>1. PICK a \in Action, b \in Action :
          /\ a.type = "register" /\ b.type = "metadata" /\ a.cid = b.cid
          /\ Sign(user, {}, <<a, b>>)
    BY <1>4 DEF SignRegisterWithSize, Action
  <2>2. PICK actions \in Seq(Action) :
          /\ actions = <<a, b>> /\ Len(actions) = 2
          /\ actions[1] = a /\ actions[2] = b
    <3>1. /\ <<a, b>> \in Seq(Action) /\ Len(<<a, b>>) = 2
          /\ <<a, b>>[1] = a /\ <<a, b>>[2] = b
      BY TwoSaid
    <3>2. QED  BY <3>1
  <2>3. QED  BY <1>2, <2>1, <2>2 DEF Phrased
<1>5. CASE SignAddLocation(user)
  <2>1. PICK a \in Action : a.type = "addLocation" /\ Sign(user, {}, <<a>>)
    BY <1>5 DEF SignAddLocation, Action
  <2>2. QED  BY <1>1, <1>2, <2>1
<1>6. CASE SignRemoveLocation(user)
  <2>1. PICK seen \in loads[user], a \in Action :
          a.type = "removeLocation" /\ Sign(user, seen, <<a>>)
    BY <1>6 DEF SignRemoveLocation, Action
  <2>2. QED  BY <1>1, <1>2, <2>1
<1>7. CASE SignAttest(user)
  <2>1. PICK seen \in loads[user], a \in Action :
          a.type = "attest" /\ Sign(user, seen, <<a>>)
    BY <1>7 DEF SignAttest, Action
  <2>2. QED  BY <1>1, <1>2, <2>1
<1>8. CASE SignRedact(user)
  <2>1. PICK seen \in loads[user], cid \in Cid, reason \in Reason :
          /\ Sign(user, seen, <<[type |-> "redact", cid |-> cid, reason |-> reason]>>)
          /\ \E view \in Shown(seen) : Carries(view, cid)
    BY <1>8 DEF SignRedact
  <2>2. PICK a \in Action : a = [type |-> "redact", cid |-> cid, reason |-> reason]
    BY DEF Action
  <2>3. \E m \in seen : Registers(m, cid)
    BY <1>2, <2>1, ShownAreRegistered DEF IInv
  <2>4. a.cid = cid
    BY <2>2
  <2>5. QED  BY <1>1, <1>2, <2>1, <2>2, <2>3, <2>4
<1>9. CASE SignMetadata(user)
  <2>1. PICK seen \in loads[user], a \in Action :
          a.type = "metadata" /\ Sign(user, seen, <<a>>)
    BY <1>9 DEF SignMetadata, Action
  <2>2. QED  BY <1>1, <1>2, <2>1
<1>10. QED  BY <1>3, <1>4, <1>5, <1>6, <1>7, <1>8, <1>9

LEMMA InitHolds ==
  ASSUME Init
  PROVE  IInv
<1>1. PICK creator \in Did :
        /\ ops = <<[by |-> creator, actions |-> <<Create>>, past |-> {}, seen |-> {}]>>
        /\ refs = [peer \in Did |-> [did \in Did |->
                     IF peer = creator /\ did = creator THEN 1 ELSE 0]]
        /\ loads = [user \in Did |-> IF user = creator THEN {{1}} ELSE {}]
  BY DEF Init
<1>2. PICK actions \in Seq(Action) : actions = <<Create>> /\ Len(actions) = 1 /\ actions[1] = Create
  <2>1. Create \in Action
    BY DEF Create, Action
  <2>2. QED  BY <2>1, OneSaid
<1>3. PICK op \in Operation :
        /\ op = [by |-> creator, actions |-> actions, past |-> {}, seen |-> {}]
        /\ op.actions = actions /\ op.past = {} /\ op.seen = {}
  <2>1. {} \in SUBSET Nat
    OBVIOUS
  <2> DEFINE op == [by |-> creator, actions |-> actions, past |-> {}, seen |-> {}]
  <2>2. op \in Operation /\ op.actions = actions /\ op.past = {} /\ op.seen = {}
    BY <2>1 DEF Operation
  <2>3. QED  BY <2>2
<1>4. ops \in Seq(Operation) /\ Len(ops) = 1 /\ ops[1] = op
  BY <1>1, <1>2, <1>3, OneSaid
<1>5. refs \in [Did -> [Did -> 0..1]]
  BY <1>1
<1>6. TypeInv
  BY <1>4, <1>5, ReplicasAssumption DEF TypeInv
<1>7. BuiltOn(1)
  BY <1>2, <1>3, <1>4 DEF BuiltOn, Phrased, Create
<1>8. Loaded
  BY <1>1, <1>4 DEF Loaded
<1>9. QED  BY <1>4, <1>6, <1>7, <1>8 DEF IInv, Grounded

\* What a user loads after a step is made of the operations there are.
LEMMA LoadKeeps ==
  ASSUME Loaded, Grounded', Len(ops) \in Nat, Len(ops') \in Nat, Len(ops) <= Len(ops'),
         NEW user \in Did, Load(user)
  PROVE  Loaded'
<1>1. Known(user)' \in SUBSET (1..Len(ops'))
  <2>1. SUFFICES ASSUME NEW n \in Known(user)'  PROVE n \in 1..Len(ops')
    OBVIOUS
  <2>2. PICK did \in Did : /\ refs'[user][did] # 0
                           /\ n \in ops'[refs'[user][did]].past \cup {refs'[user][did]}
    BY <2>1 DEF Known
  <2>3. PICK r : r = refs'[user][did]
    OBVIOUS
  <2>4. r \in 1..Len(ops')
    BY <2>2, <2>3 DEF Grounded, TypeInv
  <2>5. ops'[r].past \subseteq 1..r - 1
    BY <2>4 DEF Grounded, BuiltOn
  <2>6. QED  BY <2>2, <2>3, <2>4, <2>5
<1>2. SUBSET (1..Len(ops)) \subseteq SUBSET (1..Len(ops'))
  OBVIOUS
<1>3. QED  BY <1>1, <1>2 DEF Load, Loaded

LEMMA NextKeeps ==
  ASSUME IInv, [Next]_vars
  PROVE  IInv'
<1>1. CASE UNCHANGED vars
  BY <1>1 DEF vars, IInv, Grounded, Loaded, TypeInv, BuiltOn, Registers
<1>2. ASSUME NEW user \in Did,
             \/ SignRegister(user) \/ SignRegisterWithSize(user)
             \/ SignAddLocation(user) \/ SignRemoveLocation(user)
             \/ SignAttest(user) \/ SignRedact(user) \/ SignMetadata(user)
      PROVE  IInv'
  <2>1. PICK actions \in Seq(Action), seen \in SUBSET (1..Len(ops)) :
          /\ Sign(user, seen, actions) /\ Phrased(actions)
          /\ actions[1].type = "redact" =>
               \E m \in seen : Registers(m, actions[1].cid)
    BY <1>2, SignsPhrased
  <2>2. Grounded'
    BY <2>1, SignKeeps DEF IInv
  <2>3. Load(user) /\ Len(ops) \in Nat /\ Len(ops') = Len(ops) + 1
    <3>1. Len(ops) \in Nat /\ \A op : Len(Append(ops, op)) = Len(ops) + 1
      BY LenProperties DEF IInv, Grounded, TypeInv
    <3>2. QED  BY <2>1, <3>1 DEF Sign
  <2>4. Loaded'
    BY <2>2, <2>3, LoadKeeps DEF IInv
  <2>5. QED  BY <2>2, <2>4 DEF IInv
<1>3. ASSUME NEW user \in Did, ops' = ops, Load(user), refs' \in [Did -> [Did -> 0..Len(ops)]]
      PROVE  IInv'
  <2>1. Grounded'
    BY <1>3 DEF IInv, Grounded, TypeInv, BuiltOn, Registers
  <2>2. Len(ops) \in Nat
    BY LenProperties DEF IInv, Grounded, TypeInv
  <2>3. QED  BY <1>3, <2>1, <2>2, LoadKeeps DEF IInv
<1>4. ASSUME NEW user \in Did, NEW from \in Did, Fetch(user, from)
      PROVE  IInv'
  <2>1. refs' \in [Did -> [Did -> 0..Len(ops)]] /\ ops' = ops /\ Load(user)
    BY <1>4 DEF Fetch, IInv, Grounded, TypeInv
  <2>2. QED  BY <1>3, <2>1
<1>5. ASSUME NEW user \in Did, RemoveRef(user)
      PROVE  IInv'
  <2>1. 0 \in 0..Len(ops)
    BY LenProperties DEF IInv, Grounded, TypeInv
  <2>2. refs' \in [Did -> [Did -> 0..Len(ops)]] /\ ops' = ops /\ Load(user)
    BY <1>5, <2>1 DEF RemoveRef, IInv, Grounded, TypeInv
  <2>3. QED  BY <1>3, <2>2
<1>6. QED  BY <1>1, <1>2, <1>4, <1>5 DEF Next

\* The invariant, of every behaviour.
THEOREM ReplicasInvariant == Spec => []IInv
<1>1. Init => IInv
  BY InitHolds
<1>2. IInv /\ [Next]_vars => IInv'
  BY NextKeeps
<1>3. QED  BY <1>1, <1>2, PTL DEF Spec
-----------------------------------------------------------------------------
\* Whatever was signed and fetched, and in whatever order a peer replays it: the
\* release the replay computes, read with the trust rules, is what the history
\* means.  Nothing is asked of the operations but that they are well formed.
THEOREM ReplaysMeanTheirHistory == Spec => []ReplayMeansHistory
<1>1. Grounded => ReplayMeansHistory
  <2>1. SUFFICES ASSUME Grounded, NEW peer \in Did, NEW order \in Orders[Known(peer)],
                        NEW cid \in Cid
                 PROVE  LET artifact == Replay(order)[cid]
                        IN  Meaning(History(order), cid) =
                              IF artifact = Absent THEN Absent
                              ELSE [artifact EXCEPT !.metadata =
                                      [key \in Key |-> TrustedMetadata(artifact, key)]]
    BY DEF ReplayMeansHistory
  <2>2. Known(peer) \in SUBSET (1..Len(ops))
    BY <2>1, KnownIsClosed
  <2>3. History(order) \in Seq(Utterance)
    BY <2>1, <2>2, HistoryPlaces
  <2>4. QED  BY <2>3, ReplayIs, ReplayHasMeaning
<1>2. QED  BY <1>1, ReplicasInvariant, PTL DEF IInv

\* A redaction that a peer has, and that was signed on all that it was checked
\* on, takes effect there, in whatever order the peer replays: whatever arrived
\* between the check and the signature, and also when the redactor attested
\* concurrently.
THEOREM RedactionsTakeEffect == Spec => []RedactionTakesEffect
<1>1. Grounded => RedactionTakesEffect
  <2>1. SUFFICES ASSUME Grounded, NEW peer \in Did, NEW order \in Orders[Known(peer)],
                        NEW cid \in Cid,
                        NEW n \in Typed("redact", About(cid, Known(peer))),
                        ops[n].seen \subseteq ops[n].past
                 PROVE  /\ Carries(Replay(order), cid)
                        /\ RedactedBy(Replay(order)[cid], ops[n].by)
                        /\ ops[n].by \notin Replay(order)[cid].attestations
    BY DEF RedactionTakesEffect
  <2>2. PICK known \in SUBSET (1..Len(ops)) :
          known = Known(peer) /\ \A m \in known : ops[m].past \subseteq known
    BY <2>1, KnownIsClosed
  <2>3. PICK h, at : h \in Seq(Utterance) /\ h = History(order) /\ Placed(h, known, at)
    BY <2>1, <2>2, HistoryPlaces
  <2>4. PICK len \in Nat : len = Len(h) /\ DOMAIN h = 1..len
    BY LenProperties
  <2>5. n \in known
    BY <2>2 DEF Typed, About
  <2>6. /\ Len(ops[n].actions) = 1
        /\ ops[n].actions[1].type = "redact" /\ ops[n].actions[1].cid = cid
        /\ ops[n].by \in Did
    <3>1. DOMAIN ops[n].actions = 1..Len(ops[n].actions)
      BY <2>1, <2>2, <2>5, OfOperation, LenProperties
    <3>2. PICK j \in 1..Len(ops[n].actions), k \in 1..Len(ops[n].actions) :
            ops[n].actions[j].type = "redact" /\ ops[n].actions[k].cid = cid
      BY <3>1 DEF Typed, About, ToSet
    <3>3. Phrased(ops[n].actions)
      BY <2>1, <2>2, <2>5, OfOperation DEF BuiltOn
    <3>4. Len(ops[n].actions) = 1
      BY <3>2, <3>3 DEF Phrased
    <3>5. j = 1 /\ k = 1
      BY <3>2, <3>4
    <3>6. QED  BY <2>1, <2>2, <2>5, <3>2, <3>4, <3>5, OfOperation
  <2>7. PICK m \in known : Registers(m, cid) /\ m \in ops[n].past
    <3>1. PICK m \in ops[n].seen : Registers(m, cid)
      BY <2>1, <2>2, <2>5, <2>6, OfOperation DEF BuiltOn
    <3>2. QED  BY <2>1, <2>2, <2>5, <3>1
  <2>8. 1 \in 1..Len(ops[m].actions) /\ 1 \in 1..Len(ops[n].actions)
    <3>1. m \in 1..Len(ops) /\ n \in 1..Len(ops)
      BY <2>2, <2>5, <2>7
    <3>2. Len(ops[m].actions) \in 1..2 /\ Len(ops[n].actions) \in 1..2
      BY <2>1, <3>1, OfOperation
    <3>3. \A c \in 1..2 : 1 \in 1..c
      OBVIOUS
    <3>4. QED  BY <3>2, <3>3
  <2>9. PICK i \in DOMAIN h, j \in DOMAIN h :
          /\ i = at[n] + 1 /\ h[i].by = ops[n].by /\ h[i].action = ops[n].actions[1]
          /\ j = at[m] + 1 /\ h[j].action = ops[m].actions[1]
    <3>1. /\ at[n] + 1 \in DOMAIN h
          /\ h[at[n] + 1] = [by |-> ops[n].by, action |-> ops[n].actions[1]]
      BY <2>3, <2>5, <2>8 DEF Placed
    <3>2. /\ at[m] + 1 \in DOMAIN h
          /\ h[at[m] + 1] = [by |-> ops[m].by, action |-> ops[m].actions[1]]
      BY <2>3, <2>7, <2>8 DEF Placed
    <3>3. QED  BY <3>1, <3>2
  <2>10. j < i
    <3>1. at[n] \in Nat /\ at[m] \in Nat /\ at[m] + Len(ops[m].actions) <= at[n]
      BY <2>3, <2>5, <2>7 DEF Placed
    <3>2. Len(ops[m].actions) \in 1..2
      BY <2>1, <2>2, <2>7, OfOperation
    <3>3. QED  BY <2>9, <3>1, <3>2
  <2>11. j \in Registrations(h, cid)
    BY <2>7, <2>9 DEF Registrations, On, Registers, Create
  <2>12. PICK f \in Registrations(h, cid) : \A r \in Registrations(h, cid) : f <= r
    <3>1. Registrations(h, cid) \in SUBSET Nat
      BY <2>4 DEF Registrations, On
    <3>2. QED  BY <2>11, <3>1, LeastNumber
  <2>13. PICK a : /\ a = Replay(order)[cid] /\ a # Absent
                  /\ Told(h, cid, f, a, len)
    BY <2>3, <2>4, <2>12, ReplayIs, ReplayTells
  <2>14. f \in Nat /\ f < i /\ i \in Nat /\ i <= len
    <3>1. f \in Nat /\ f <= j
      BY <2>4, <2>11, <2>12 DEF Registrations, On
    <3>2. QED  BY <2>4, <2>9, <2>10, <3>1
  <2>15. i \in Redactions(h, cid, f, ops[n].by)
    <3>1. i > f
      BY <2>14
    <3>2. QED  BY <2>6, <2>9, <3>1 DEF Redactions, After, On, Create
  <2>16. ~ NoneYet(Redactions(h, cid, f, ops[n].by), len)
    BY <2>14, <2>15 DEF NoneYet
  <2>17. RedactedBy(a, ops[n].by)
    BY <2>3, <2>6, <2>13, <2>16, RedactedIsTold DEF Told
  <2>18. ops[n].by \notin a.attestations
    BY <2>6, <2>13, <2>16 DEF Told, ToldAttestations
  <2>19. QED  BY <2>13, <2>17, <2>18 DEF Carries
<1>2. QED  BY <1>1, ReplicasInvariant, PTL DEF IInv
-----------------------------------------------------------------------------
\* g says what h says, in another order: the artifact is registered first in
\* both, and each user's utterances on it keep their order.
Shuffles(h, g, cid, f, to) ==
  /\ \A i \in DOMAIN h : to[i] \in DOMAIN g /\ g[to[i]] = h[i]
  /\ \A i, j \in DOMAIN h : to[i] = to[j] => i = j
  /\ \A j \in DOMAIN g : \E i \in DOMAIN h : to[i] = j
  /\ \A i, j \in On(h, cid) : h[i].by = h[j].by /\ i <= j => to[i] <= to[j]
  /\ f \in Registrations(h, cid)
  /\ \A i \in On(h, cid) : f <= i
  /\ \A j \in On(g, cid) : to[f] <= j

\* S holds one user's utterances of a kind in h, and T those in g.
Matched(h, g, cid, to, did, S, T) ==
  /\ S \in SUBSET On(h, cid) /\ T \in SUBSET DOMAIN g
  /\ \A i \in S : h[i].by = did
  /\ \A i \in DOMAIN h : i \in S <=> to[i] \in T

\* The last of them is the same in both.
SameEnd(h, g, to, S, T) ==
  /\ NoneYet(S, Len(h)) <=> NoneYet(T, Len(g))
  /\ \A i : IsLast(S, Len(h), i) => IsLast(T, Len(g), to[i])
  /\ \A j : IsLast(T, Len(g), j) =>
       \E i \in DOMAIN h : to[i] = j /\ IsLast(S, Len(h), i)

LEMMA SameLast ==
  ASSUME NEW h \in Seq(Utterance), NEW g \in Seq(Utterance), NEW cid, NEW f, NEW to,
         Shuffles(h, g, cid, f, to),
         NEW did, NEW S, NEW T, Matched(h, g, cid, to, did, S, T)
  PROVE  SameEnd(h, g, to, S, T)
<1>1. PICK m \in Nat, n \in Nat : /\ m = Len(h) /\ DOMAIN h = 1..m
                                  /\ n = Len(g) /\ DOMAIN g = 1..n
  BY LenProperties
<1>2. /\ S \subseteq DOMAIN h /\ S \subseteq On(h, cid) /\ T \subseteq DOMAIN g
      /\ \A i \in S : h[i].by = did /\ to[i] \in T
  BY DEF Matched, On
<1>3. \A j \in T : \E i \in S : to[i] = j
  BY DEF Shuffles, Matched
<1>4. NoneYet(S, m) <=> S = {}
  BY <1>1, <1>2 DEF NoneYet
<1>5. NoneYet(T, n) <=> T = {}
  BY <1>1, <1>2 DEF NoneYet
<1>6. ASSUME NEW i, IsLast(S, m, i)  PROVE IsLast(T, n, to[i])
  <2>1. i \in S /\ \A k \in S : k <= i
    BY <1>1, <1>2, <1>6 DEF IsLast
  <2>2. to[i] \in T /\ to[i] <= n
    BY <1>1, <1>2, <2>1
  <2>3. \A j \in T : j <= to[i]
    <3>1. SUFFICES ASSUME NEW k \in S  PROVE to[k] <= to[i]
      BY <1>3
    <3>2. k <= i /\ h[k].by = h[i].by /\ k \in On(h, cid) /\ i \in On(h, cid)
      BY <1>2, <2>1
    <3>3. QED  BY <3>2 DEF Shuffles
  <2>4. QED  BY <2>2, <2>3 DEF IsLast
<1>7. ASSUME NEW j, IsLast(T, n, j)
      PROVE  \E i \in DOMAIN h : to[i] = j /\ IsLast(S, m, i)
  <2>1. S # {}
    BY <1>3, <1>7 DEF IsLast
  <2>2. PICK i \in S : \A k \in S : k <= i
    <3>1. S \in SUBSET Nat /\ \A k \in S : k <= m
      BY <1>1, <1>2
    <3>2. QED  BY <1>1, <2>1, <3>1, GreatestNumber
  <2>3. IsLast(S, m, i)
    BY <1>1, <1>2, <2>2 DEF IsLast
  <2>4. IsLast(T, n, to[i])
    BY <1>6, <2>3
  <2>5. j \in Nat /\ to[i] \in Nat /\ j <= to[i] /\ to[i] <= j
    BY <1>1, <1>2, <1>7, <2>4 DEF IsLast
  <2>6. QED  BY <1>2, <2>3, <2>5
<1>8. (S = {}) <=> (T = {})
  BY <1>2, <1>3
<1>9. QED  BY <1>1, <1>4, <1>5, <1>6, <1>7, <1>8 DEF SameEnd

\* So all parts of the artifact but its metadata are.
LEMMA SameTelling ==
  ASSUME NEW h \in Seq(Utterance), NEW g \in Seq(Utterance), NEW cid \in Cid, NEW f,
         NEW to, Shuffles(h, g, cid, f, to),
         NEW a \in Artifact, Told(h, cid, f, a, Len(h)),
         NEW b \in Artifact, Told(g, cid, to[f], b, Len(g))
  PROVE  /\ a.author = b.author /\ a.name = b.name /\ a.locations = b.locations
         /\ a.attestations = b.attestations /\ a.redactions = b.redactions
<1>1. /\ f \in DOMAIN h /\ to[f] \in DOMAIN g /\ g[to[f]] = h[f]
      /\ f \in Nat /\ to[f] \in Nat
      /\ \A i \in DOMAIN h : i \in Nat
      /\ \A j \in DOMAIN g : j \in Nat
  BY SaidAt DEF Shuffles, Registrations, On
<1>2. \A i \in DOMAIN h : /\ i \in On(h, cid) <=> to[i] \in On(g, cid)
                          /\ i \in After(h, cid, f) <=> to[i] \in After(g, cid, to[f])
  <2>1. SUFFICES ASSUME NEW i \in DOMAIN h
                 PROVE  /\ i \in On(h, cid) <=> to[i] \in On(g, cid)
                        /\ i \in After(h, cid, f) <=> to[i] \in After(g, cid, to[f])
    OBVIOUS
  <2>2. to[i] \in DOMAIN g /\ g[to[i]] = h[i] /\ (to[i] = to[f] => i = f)
    BY <1>1 DEF Shuffles
  <2>3. i \in On(h, cid) <=> to[i] \in On(g, cid)
    BY <2>2 DEF On
  <2>4. i \in On(h, cid) => (i > f <=> i # f) /\ (to[i] > to[f] <=> to[i] # to[f])
    BY <1>1, <2>2, <2>3, SMTT(30) DEF Shuffles
  <2>5. QED  BY <2>2, <2>3, <2>4 DEF After
<1>3. a.author = b.author /\ a.author = h[f].by /\ h[f].by \in Did
  BY <1>1, SaidAt DEF Told
<1>4. a.name = b.name
  <2>1. PICK S \in SUBSET On(h, cid), T \in SUBSET DOMAIN g :
          S = Names(h, cid, h[f].by) /\ T = Names(g, cid, h[f].by)
    BY DEF Names, Registrations, On
  <2>2. SameEnd(h, g, to, S, T)
    <3>1. Matched(h, g, cid, to, h[f].by, S, T)
      BY <1>2, <2>1 DEF Names, Registrations, Shuffles, Matched
    <3>2. QED  BY <3>1, SameLast
  <2>3. PICK i : IsLast(S, Len(h), i) /\ a.name = h[i].action.name
    BY <2>1 DEF Told, ToldName
  <2>4. PICK j : IsLast(T, Len(g), j) /\ b.name = g[j].action.name
    BY <1>1, <2>1 DEF Told, ToldName
  <2>5. PICK k \in DOMAIN h : to[k] = j /\ IsLast(S, Len(h), k)
    BY <2>2, <2>4 DEF SameEnd
  <2>6. k = i
    BY <1>1, <2>1, <2>3, <2>5 DEF IsLast, On
  <2>7. QED  BY <2>3, <2>4, <2>5, <2>6 DEF Shuffles
<1>5. a.locations = b.locations
  <2>1. ASSUME NEW did \in Did, NEW url \in Url
        PROVE  <<did, url>> \in a.locations <=> <<did, url>> \in b.locations
    <3>1. PICK S \in SUBSET On(h, cid), T \in SUBSET DOMAIN g :
            S = OnUrl(h, cid, f, did, url) /\ T = OnUrl(g, cid, to[f], did, url)
      BY DEF OnUrl, After, On
    <3>2. SameEnd(h, g, to, S, T)
      <4>1. Matched(h, g, cid, to, did, S, T)
        BY <1>2, <3>1 DEF OnUrl, Shuffles, Matched
      <4>2. QED  BY <4>1, SameLast
    <3>3. <<did, url>> \in a.locations <=>
            \E i : IsLast(S, Len(h), i) /\ h[i].action.type = "addLocation"
      BY <3>1 DEF Told, ToldLocations
    <3>4. <<did, url>> \in b.locations <=>
            \E j : IsLast(T, Len(g), j) /\ g[j].action.type = "addLocation"
      BY <3>1 DEF Told, ToldLocations
    <3>5. ASSUME NEW i, IsLast(S, Len(h), i)
          PROVE  IsLast(T, Len(g), to[i]) /\ g[to[i]] = h[i]
      <4>1. i \in DOMAIN h
        BY <3>5 DEF IsLast, On
      <4>2. QED  BY <3>2, <3>5, <4>1 DEF Shuffles, SameEnd
    <3>6. ASSUME NEW j, IsLast(T, Len(g), j)
          PROVE  \E i : IsLast(S, Len(h), i) /\ h[i] = g[j]
      <4>1. PICK i \in DOMAIN h : to[i] = j /\ IsLast(S, Len(h), i)
        BY <3>2, <3>6 DEF SameEnd
      <4>2. QED  BY <4>1 DEF Shuffles
    <3>7. QED  BY <3>3, <3>4, <3>5, <3>6
  <2>2. a.locations \subseteq Did \X Url /\ b.locations \subseteq Did \X Url
    BY DEF Artifact
  <2>3. ASSUME NEW at \in Did \X Url
        PROVE  at \in a.locations <=> at \in b.locations
    <3>1. PICK did \in Did, url \in Url : at = <<did, url>>
      OBVIOUS
    <3>2. QED  BY <2>1, <3>1
  <2>4. QED  BY <2>2, <2>3
<1>6. ASSUME NEW did \in Did
      PROVE  /\ did \in a.attestations <=> did \in b.attestations
             /\ a.redactions[did] = b.redactions[did]
  <2>1. PICK S \in SUBSET On(h, cid), T \in SUBSET DOMAIN g :
          S = Attests(h, cid, f, did) /\ T = Attests(g, cid, to[f], did)
    BY DEF Attests, After, On
  <2>2. Matched(h, g, cid, to, did, S, T)
    BY <1>2, <2>1 DEF Attests, Shuffles, Matched
  <2>3. PICK Q \in SUBSET On(h, cid), R \in SUBSET DOMAIN g :
          Q = Redactions(h, cid, f, did) /\ R = Redactions(g, cid, to[f], did)
    BY DEF Redactions, After, On
  <2>4. Matched(h, g, cid, to, did, Q, R)
    BY <1>2, <2>3 DEF Redactions, Shuffles, Matched
  <2>5. SameEnd(h, g, to, S, T) /\ SameEnd(h, g, to, Q, R)
    BY <2>2, <2>4, SameLast
  <2>6. did \in a.attestations <=> did \in b.attestations
    BY <1>1, <2>1, <2>3, <2>5 DEF Told, ToldAttestations, SameEnd
  <2>7. a.redactions[did] = b.redactions[did]
    <3>1. \/ NoneYet(Q, Len(h)) /\ a.redactions[did] = NoReason
          \/ \E i : IsLast(Q, Len(h), i) /\ a.redactions[did] = h[i].action.reason
      BY <2>3 DEF Told, ToldRedactions
    <3>2. \/ NoneYet(R, Len(g)) /\ b.redactions[did] = NoReason
          \/ \E j : IsLast(R, Len(g), j) /\ b.redactions[did] = g[j].action.reason
      BY <2>3 DEF Told, ToldRedactions
    <3>3. CASE NoneYet(Q, Len(h))
      BY <2>5, <3>1, <3>2, <3>3 DEF NoneYet, IsLast, SameEnd
    <3>4. CASE ~ NoneYet(Q, Len(h))
      <4>1. PICK i : IsLast(Q, Len(h), i) /\ a.redactions[did] = h[i].action.reason
        BY <3>1, <3>4
      <4>2. PICK j : IsLast(R, Len(g), j) /\ b.redactions[did] = g[j].action.reason
        BY <2>5, <3>2, <3>4 DEF SameEnd
      <4>3. PICK k \in DOMAIN h : to[k] = j /\ IsLast(Q, Len(h), k)
        BY <2>5, <4>2 DEF SameEnd
      <4>4. k = i
        BY <1>1, <2>3, <4>1, <4>3 DEF IsLast, On
      <4>5. QED  BY <4>1, <4>2, <4>3, <4>4 DEF Shuffles
    <3>5. QED  BY <3>3, <3>4
  <2>8. QED  BY <2>6, <2>7
<1>7. a.attestations = b.attestations
  <2>1. a.attestations \subseteq Did /\ b.attestations \subseteq Did
    BY DEF Artifact
  <2>2. QED  BY <1>6, <2>1
<1>8. a.redactions = b.redactions
  <2>1. /\ a.redactions = [did \in Did |-> a.redactions[did]]
        /\ b.redactions = [did \in Did |-> b.redactions[did]]
    BY DEF Artifact
  <2>2. QED  BY <1>6, <2>1
<1>9. QED  BY <1>3, <1>4, <1>5, <1>7, <1>8

\* Two orders of the same settled operations make histories that shuffle one
\* into the other.
LEMMA SettledShuffles ==
  ASSUME Grounded, NEW cid \in Cid, NEW known \in SUBSET (1..Len(ops)), Settled(cid, known),
         NEW h \in Seq(Utterance), NEW at, Placed(h, known, at),
         NEW g \in Seq(Utterance), NEW bt, Placed(g, known, bt)
  PROVE  \E f, to : Shuffles(h, g, cid, f, to)
<1> DEFINE Size(n) == Len(ops[n].actions)
           By(i) == CHOOSE n \in known : \E k \in 1..Size(n) : i = at[n] + k
           to == [i \in DOMAIN h |-> bt[By(i)] + (i - at[By(i)])]
<1>1. \A n \in known :
        /\ at[n] \in Nat /\ bt[n] \in Nat /\ Size(n) \in 1..2
        /\ 1 \in 1..Size(n)
  <2>1. SUFFICES ASSUME NEW n \in known
                 PROVE  /\ at[n] \in Nat /\ bt[n] \in Nat /\ Size(n) \in 1..2
                        /\ 1 \in 1..Size(n)
    OBVIOUS
  <2>2. Size(n) \in 1..2
    BY OfOperation
  <2>3. \A c \in 1..2 : 1 \in 1..c
    OBVIOUS
  <2>4. at[n] \in Nat /\ bt[n] \in Nat
    BY DEF Placed
  <2>5. QED  BY <2>2, <2>3, <2>4
<1>2. ASSUME NEW n \in known, NEW k \in 1..Size(n), NEW m \in known, NEW l \in 1..Size(m)
      PROVE  /\ at[n] + k = at[m] + l => n = m /\ k = l
             /\ bt[n] + k = bt[m] + l => n = m /\ k = l
             /\ m \in ops[n].past => at[m] + l < at[n] + k /\ bt[m] + l < bt[n] + k
  <2>1. /\ m \in ops[n].past => at[m] + Size(m) <= at[n]
        /\ m # n => at[m] + Size(m) <= at[n] \/ at[n] + Size(n) <= at[m]
        /\ m \in ops[n].past => bt[m] + Size(m) <= bt[n]
        /\ m # n => bt[m] + Size(m) <= bt[n] \/ bt[n] + Size(n) <= bt[m]
    <3>1. /\ m \in ops[n].past => at[m] + Size(m) <= at[n]
          /\ m # n => at[m] + Size(m) <= at[n] \/ at[n] + Size(n) <= at[m]
      BY DEF Placed
    <3>2. /\ m \in ops[n].past => bt[m] + Size(m) <= bt[n]
          /\ m # n => bt[m] + Size(m) <= bt[n] \/ bt[n] + Size(n) <= bt[m]
      BY DEF Placed
    <3>3. QED  BY <3>1, <3>2
  <2>2. /\ at[n] \in Nat /\ bt[n] \in Nat /\ at[m] \in Nat /\ bt[m] \in Nat
        /\ Size(n) \in Nat /\ Size(m) \in Nat
    <3> HIDE DEF Size
    <3>1. QED  BY <1>1
  <2> HIDE DEF Size
  <2>3. ASSUME n = m  PROVE at[n] = at[m] /\ bt[n] = bt[m] /\ Size(n) = Size(m)
    BY <2>3
  <2>4. ASSUME NEW x \in Nat, NEW y \in Nat, NEW s \in Nat, NEW t \in Nat,
               NEW c \in 1..s, NEW d \in 1..t
        PROVE  /\ y + t <= x => y + d < x + c
               /\ y + t <= x \/ x + s <= y => x + c # y + d
               /\ x = y => (x + c = y + d => c = d)
    OBVIOUS
  <2>5. QED  BY <2>1, <2>2, <2>3, <2>4
<1>3. ASSUME NEW n \in known, NEW k \in 1..Size(n)
      PROVE  /\ at[n] + k \in DOMAIN h /\ to[at[n] + k] = bt[n] + k
             /\ bt[n] + k \in DOMAIN g
             /\ h[at[n] + k] = [by |-> ops[n].by, action |-> ops[n].actions[k]]
             /\ g[bt[n] + k] = [by |-> ops[n].by, action |-> ops[n].actions[k]]
  <2>1. /\ at[n] + k \in DOMAIN h /\ bt[n] + k \in DOMAIN g
        /\ h[at[n] + k] = [by |-> ops[n].by, action |-> ops[n].actions[k]]
        /\ g[bt[n] + k] = [by |-> ops[n].by, action |-> ops[n].actions[k]]
    BY DEF Placed
  <2>2. By(at[n] + k) = n
    <3> HIDE DEF Size
    <3>1. By(at[n] + k) \in known /\ \E l \in 1..Size(By(at[n] + k)) : at[n] + k = at[By(at[n] + k)] + l
      OBVIOUS
    <3> HIDE DEF By
    <3>2. QED  BY <1>2, <3>1
  <2> HIDE DEF By
  <2>3. to[at[n] + k] = bt[n] + ((at[n] + k) - at[n])
    BY <2>1, <2>2
  <2>4. (at[n] + k) - at[n] = k
    BY <1>1
  <2> HIDE DEF to
  <2>5. QED  BY <2>1, <2>3, <2>4
<1> HIDE DEF to
<1>4. \A i \in DOMAIN h : \E n \in known : \E k \in 1..Size(n) : i = at[n] + k
  BY DEF Placed
<1>5. \A j \in DOMAIN g : \E n \in known : \E k \in 1..Size(n) : j = bt[n] + k
  BY DEF Placed
<1>6. ASSUME NEW i \in DOMAIN h  PROVE to[i] \in DOMAIN g /\ g[to[i]] = h[i]
  <2>1. PICK n \in known : \E k \in 1..Size(n) : i = at[n] + k
    BY <1>4
  <2>2. PICK k \in 1..Size(n) : i = at[n] + k
    BY <2>1
  <2>3. QED  BY <1>3, <2>2
<1>7. ASSUME NEW i \in DOMAIN h, NEW j \in DOMAIN h, to[i] = to[j]  PROVE i = j
  <2>1. PICK n \in known : \E k \in 1..Size(n) : i = at[n] + k
    BY <1>4
  <2>2. PICK k \in 1..Size(n) : i = at[n] + k
    BY <2>1
  <2>3. PICK m \in known : \E l \in 1..Size(m) : j = at[m] + l
    BY <1>4
  <2>4. PICK l \in 1..Size(m) : j = at[m] + l
    BY <2>3
  <2>5. bt[n] + k = bt[m] + l
    <3>1. to[i] = bt[n] + k
      BY <1>3, <2>2
    <3>2. to[j] = bt[m] + l
      BY <1>3, <2>4
    <3>3. QED  BY <1>7, <3>1, <3>2
  <2>6. n = m /\ k = l
    BY <1>2, <2>5
  <2>7. QED  BY <2>2, <2>4, <2>6
<1>8. ASSUME NEW j \in DOMAIN g  PROVE \E i \in DOMAIN h : to[i] = j
  <2>1. PICK n \in known : \E k \in 1..Size(n) : j = bt[n] + k
    BY <1>5
  <2>2. PICK k \in 1..Size(n) : j = bt[n] + k
    BY <2>1
  <2>3. QED  BY <1>3, <2>2
<1>9. \A n \in known : \A k \in 1..Size(n) :
        ops[n].actions[k] # Create /\ ops[n].actions[k].cid = cid => n \in About(cid, known)
  <2>1. \A n \in known : DOMAIN ops[n].actions = 1..Size(n)
    BY OfOperation, LenProperties
  <2>2. QED  BY <2>1 DEF About, ToSet
<1>10. ASSUME NEW i \in On(h, cid), NEW j \in On(h, cid), h[i].by = h[j].by, i <= j
       PROVE  to[i] <= to[j]
  <2> HIDE DEF Size
  <2>1. /\ i \in DOMAIN h /\ h[i].action # Create /\ h[i].action.cid = cid
        /\ j \in DOMAIN h /\ h[j].action # Create /\ h[j].action.cid = cid
    BY DEF On
  <2>2. PICK n \in known : \E k \in 1..Size(n) : i = at[n] + k
    BY <1>4, <2>1
  <2>3. PICK k \in 1..Size(n) : i = at[n] + k
    BY <2>2
  <2>4. PICK m \in known : \E l \in 1..Size(m) : j = at[m] + l
    BY <1>4, <2>1
  <2>5. PICK l \in 1..Size(m) : j = at[m] + l
    BY <2>4
  <2>6. /\ h[i].by = ops[n].by /\ h[i].action = ops[n].actions[k] /\ to[i] = bt[n] + k
        /\ h[j].by = ops[m].by /\ h[j].action = ops[m].actions[l] /\ to[j] = bt[m] + l
    <3>1. /\ h[i] = [by |-> ops[n].by, action |-> ops[n].actions[k]]
          /\ to[i] = bt[n] + k
      BY <1>3, <2>3
    <3>2. /\ h[j] = [by |-> ops[m].by, action |-> ops[m].actions[l]]
          /\ to[j] = bt[m] + l
      BY <1>3, <2>5
    <3>3. QED  BY <3>1, <3>2
  <2>7. n \in About(cid, known) /\ m \in About(cid, known)
    BY <1>9, <2>1, <2>6
  <2>8. CASE n = m
    <3>1. k <= l
      BY <1>1, <1>10, <2>3, <2>5, <2>8
    <3>2. QED  BY <1>1, <2>6, <2>8, <3>1
  <2>9. CASE n # m
    <3>1. m \in ops[n].past \/ n \in ops[m].past
      BY <1>10, <2>6, <2>7, <2>9 DEF Settled
    <3>2. m \notin ops[n].past
      <4>1. SUFFICES ASSUME m \in ops[n].past  PROVE FALSE
        OBVIOUS
      <4>2. at[m] + l < at[n] + k
        BY <1>2, <4>1
      <4>3. at[n] + k \in Nat /\ at[m] + l \in Nat
        BY <1>1
      <4>4. QED  BY <1>10, <2>3, <2>5, <4>2, <4>3
    <3>3. bt[n] + k < bt[m] + l
      BY <1>2, <3>1, <3>2
    <3>4. bt[n] + k \in Nat /\ bt[m] + l \in Nat
      BY <1>1
    <3>5. QED  BY <2>6, <3>3, <3>4
  <2>10. QED  BY <2>8, <2>9
<1>11. PICK r \in Typed("register", About(cid, known)) :
         \A n \in About(cid, known) \ {r} : r \in ops[n].past
  BY DEF Settled
<1>12. r \in known /\ Registers(r, cid) /\ ops[r].actions[1] # Create
  <2>1. r \in known
    BY DEF Typed, About
  <2>2. DOMAIN ops[r].actions = 1..Size(r) /\ Phrased(ops[r].actions)
    BY <2>1, OfOperation, LenProperties DEF BuiltOn
  <2>3. PICK k \in 1..Size(r), l \in 1..Size(r) :
          ops[r].actions[k].type = "register" /\ ops[r].actions[l].cid = cid
    BY <2>2 DEF Typed, About, ToSet
  <2>4. ops[r].actions[1].type = "register" /\ ops[r].actions[1].cid = cid
    <3>1. /\ \A c \in 1..2 : \A i \in 1..c : i = 1 \/ (c = 2 /\ i = 2)
          /\ Size(r) \in 1..2
      BY <1>1, <2>1
    <3>2. /\ k = 1 \/ (k = 2 /\ Size(r) = 2)
          /\ l = 1 \/ (l = 2 /\ Size(r) = 2)
      <4> HIDE DEF Size
      <4>1. QED  BY <3>1
    <3>3. QED  BY <2>2, <2>3, <3>2 DEF Phrased
  <2>5. QED  BY <2>1, <2>4 DEF Registers, Create
<1>13. PICK f \in DOMAIN h : /\ f = at[r] + 1 /\ to[f] = bt[r] + 1 /\ to[f] \in DOMAIN g
                             /\ h[f].action = ops[r].actions[1]
  <2>1. 1 \in 1..Size(r)
    BY <1>1, <1>12
  <2>2. /\ at[r] + 1 \in DOMAIN h /\ to[at[r] + 1] = bt[r] + 1 /\ bt[r] + 1 \in DOMAIN g
        /\ h[at[r] + 1] = [by |-> ops[r].by, action |-> ops[r].actions[1]]
    BY <1>3, <1>12, <2>1
  <2>3. QED  BY <2>2
<1>14. f \in Registrations(h, cid)
  BY <1>12, <1>13 DEF Registrations, On, Registers
<1>15. ASSUME NEW n \in known, NEW k \in 1..Size(n),
              ops[n].actions[k] # Create, ops[n].actions[k].cid = cid
       PROVE  f <= at[n] + k /\ to[f] <= bt[n] + k
  <2> HIDE DEF Size
  <2>1. CASE n = r
    BY <1>1, <1>12, <1>13, <2>1
  <2>2. CASE n # r
    <3>1. r \in ops[n].past
      BY <1>9, <1>11, <1>15, <2>2
    <3>2. at[r] + 1 < at[n] + k /\ bt[r] + 1 < bt[n] + k
      BY <1>1, <1>2, <1>12, <3>1
    <3>3. QED  BY <1>1, <1>12, <1>13, <3>2, SMTT(30)
  <2>3. QED  BY <2>1, <2>2
<1>16. ASSUME NEW i \in On(h, cid)  PROVE f <= i
  <2>1. i \in DOMAIN h /\ h[i].action # Create /\ h[i].action.cid = cid
    BY DEF On
  <2>2. PICK n \in known : \E k \in 1..Size(n) : i = at[n] + k
    BY <1>4, <2>1
  <2>3. PICK k \in 1..Size(n) : i = at[n] + k
    BY <2>2
  <2>4. h[i].action = ops[n].actions[k]
    <3>1. h[at[n] + k] = [by |-> ops[n].by, action |-> ops[n].actions[k]]
      BY <1>3
    <3>2. QED  BY <2>3, <3>1
  <2>5. QED  BY <1>15, <2>1, <2>3, <2>4
<1>17. ASSUME NEW j \in On(g, cid)  PROVE to[f] <= j
  <2>1. j \in DOMAIN g /\ g[j].action # Create /\ g[j].action.cid = cid
    BY DEF On
  <2>2. PICK n \in known : \E k \in 1..Size(n) : j = bt[n] + k
    BY <1>5, <2>1
  <2>3. PICK k \in 1..Size(n) : j = bt[n] + k
    BY <2>2
  <2>4. g[j].action = ops[n].actions[k]
    <3>1. g[bt[n] + k] = [by |-> ops[n].by, action |-> ops[n].actions[k]]
      BY <1>3
    <3>2. QED  BY <2>3, <3>1
  <2>5. QED  BY <1>15, <2>1, <2>3, <2>4
<1>18. Shuffles(h, g, cid, f, to)
  BY <1>6, <1>7, <1>8, <1>10, <1>14, <1>16, <1>17 DEF Shuffles
<1>19. QED  BY <1>18

\* Once the operations on an artifact are settled, every order of replaying them
\* makes the same artifact, but for its write lists.
THEOREM SettledPeersAgree == Spec => []PeersAgree
<1>1. Grounded => PeersAgree
  <2>1. SUFFICES ASSUME Grounded, NEW peer \in Did, NEW cid \in Cid,
                        Settled(cid, Known(peer)),
                        NEW one \in Orders[Known(peer)], NEW two \in Orders[Known(peer)]
                 PROVE  [Replay(one)[cid] EXCEPT !.metadata = <<>>] =
                          [Replay(two)[cid] EXCEPT !.metadata = <<>>]
    BY DEF PeersAgree
  <2>2. PICK known \in SUBSET (1..Len(ops)) : known = Known(peer)
    BY <2>1, KnownIsClosed
  <2>3. PICK h, at : h \in Seq(Utterance) /\ h = History(one) /\ Placed(h, known, at)
    BY <2>1, <2>2, HistoryPlaces
  <2>4. PICK g, bt : g \in Seq(Utterance) /\ g = History(two) /\ Placed(g, known, bt)
    BY <2>1, <2>2, HistoryPlaces
  <2>5. PICK f, to : Shuffles(h, g, cid, f, to)
    BY <2>1, <2>2, <2>3, <2>4, SettledShuffles
  <2>6. PICK e : e = to[f]
    OBVIOUS
  <2>7. /\ f \in Registrations(h, cid) /\ \A i \in Registrations(h, cid) : f <= i
        /\ e \in Registrations(g, cid) /\ \A j \in Registrations(g, cid) : e <= j
    <3>1. f \in DOMAIN h /\ e \in DOMAIN g /\ g[e] = h[f]
      BY <2>5, <2>6 DEF Shuffles, Registrations, On
    <3>2. QED  BY <2>5, <2>6, <3>1 DEF Shuffles, Registrations, On
  <2>8. PICK a \in Artifact : a = Replay(one)[cid] /\ Told(h, cid, f, a, Len(h))
    BY <2>3, <2>7, ReplayIs, ReplayTells
  <2>9. PICK b \in Artifact : b = Replay(two)[cid] /\ Told(g, cid, e, b, Len(g))
    BY <2>4, <2>7, ReplayIs, ReplayTells
  <2>10. /\ a.author = b.author /\ a.name = b.name /\ a.locations = b.locations
         /\ a.attestations = b.attestations /\ a.redactions = b.redactions
    BY <2>3, <2>4, <2>5, <2>6, <2>8, <2>9, SameTelling
  <2>11. ASSUME NEW c \in Artifact, NEW d \in Artifact,
                c.author = d.author, c.name = d.name, c.locations = d.locations,
                c.attestations = d.attestations, c.redactions = d.redactions
         PROVE  [c EXCEPT !.metadata = <<>>] = [d EXCEPT !.metadata = <<>>]
    BY <2>11 DEF Artifact
  <2>12. [a EXCEPT !.metadata = <<>>] = [b EXCEPT !.metadata = <<>>]
    BY <2>10, <2>11
  <2>13. QED  BY <2>8, <2>9, <2>12, Zenon
<1>2. QED  BY <1>1, ReplicasInvariant, PTL DEF IInv
-----------------------------------------------------------------------------
\* What a write does to the replays of its signer.  A replay of one history
\* after another is the replay of the second from the outcome of the first.
LEMMA ActedInTurn ==
  ASSUME NEW base, NEW front \in Seq(Utterance), NEW back \in Seq(Utterance)
  PROVE  Acted(base, front \o back) = Acted(Acted(base, front), back)
<1>1. PICK h \in Seq(Utterance) : h = front \o back
  BY ConcatProperties
<1>2. PICK f \in Nat, b \in Nat : f = Len(front) /\ b = Len(back)
  BY LenProperties
<1>3. /\ Len(h) = f + b
      /\ \A n \in 1..f + b : h[n] = IF n <= f THEN front[n] ELSE back[n - f]
  BY <1>1, <1>2, ConcatProperties
<1>4. PICK all : Steps(base, h, all) /\ Acted(base, h) = all[f + b]
  BY <1>3, ActedUnrolls
<1>5. PICK one : Steps(base, front, one) /\ Acted(base, front) = one[f]
  BY <1>2, ActedUnrolls
<1>6. PICK two : Steps(one[f], back, two) /\ Acted(one[f], back) = two[b]
  BY <1>2, ActedUnrolls
<1> DEFINE S == {n \in 0..f : all[n] = one[n]}
           T == {n \in 0..b : all[f + n] = two[n]}
<1>7. 0 \in S
  BY <1>2, <1>4, <1>5 DEF Steps
<1>8. ASSUME NEW n \in 0 + 1..f, n - 1 \in S  PROVE n \in S
  <2>1. n \in 1..f + b /\ n \in 1..f /\ n \in 0..f /\ n <= f
    BY <1>2
  <2>2. h[n] = front[n]
    BY <1>3, <2>1
  <2>3. all[n] = Act(all[n - 1], h[n].by, h[n].action)
    BY <1>3, <1>4, <2>1 DEF Steps
  <2>4. one[n] = Act(one[n - 1], front[n].by, front[n].action)
    BY <1>2, <1>5, <2>1 DEF Steps
  <2>5. all[n - 1] = one[n - 1]
    BY <1>8
  <2>6. QED  BY <2>1, <2>2, <2>3, <2>4, <2>5
<1>9. all[f] = one[f]
  <2> HIDE DEF S
  <2>1. 0..f \subseteq S
    BY <1>2, <1>7, <1>8, NumbersFrom
  <2>2. f \in S
    BY <1>2, <2>1
  <2>3. QED  BY <2>2 DEF S
<1>10. 0 \in T
  BY <1>2, <1>6, <1>9 DEF Steps
<1>11. ASSUME NEW n \in 0 + 1..b, n - 1 \in T  PROVE n \in T
  <2>1. n \in 1..b /\ n \in 0..b /\ f + n \in 1..f + b /\ ~ (f + n <= f)
        /\ (f + n) - f = n /\ (f + n) - 1 = f + (n - 1)
    BY <1>2
  <2>2. h[f + n] = back[n]
    BY <1>3, <2>1
  <2>3. all[f + n] = Act(all[f + (n - 1)], h[f + n].by, h[f + n].action)
    BY <1>3, <1>4, <2>1 DEF Steps
  <2>4. two[n] = Act(two[n - 1], back[n].by, back[n].action)
    BY <1>2, <1>6, <2>1 DEF Steps
  <2>5. all[f + (n - 1)] = two[n - 1]
    BY <1>11
  <2>6. QED  BY <2>1, <2>2, <2>3, <2>4, <2>5
<1>12. all[f + b] = two[b]
  <2> HIDE DEF T
  <2>1. 0..b \subseteq T
    BY <1>2, <1>10, <1>11, NumbersFrom
  <2>2. b \in T
    BY <1>2, <2>1
  <2>3. QED  BY <2>2 DEF T
<1>13. QED  BY <1>1, <1>4, <1>5, <1>6, <1>12

\* One sequence more, flattened, stands behind the others.
LEMMA FlattenAppends ==
  ASSUME NEW T, NEW seqs \in Seq(Seq(T)), NEW more \in Seq(T)
  PROVE  FlattenSeq(Append(seqs, more)) = FlattenSeq(seqs) \o more
<1>1. PICK len \in Nat : len = Len(seqs)
  BY LenProperties
<1>2. PICK all \in Seq(Seq(T)) : /\ all = Append(seqs, more) /\ Len(all) = len + 1
                                 /\ \A n \in 1..len : all[n] = seqs[n]
                                 /\ all[len + 1] = more
  <2>1. PICK U : U = Seq(T)
    OBVIOUS
  <2>2. seqs \in Seq(U) /\ more \in U
    BY <2>1
  <2>3. /\ Append(seqs, more) \in Seq(U) /\ Len(Append(seqs, more)) = len + 1
        /\ \A n \in 1..len : Append(seqs, more)[n] = seqs[n]
        /\ Append(seqs, more)[len + 1] = more
    BY <1>1, <2>2, AppendProperties
  <2>4. QED  BY <2>1, <2>3
<1>3. PICK one : Flattened(seqs, one) /\ FlattenSeq(seqs) = one[len]
  BY <1>1, FlattenUnrolls
<1>4. PICK two : Flattened(all, two) /\ FlattenSeq(all) = two[len + 1]
  BY <1>2, FlattenUnrolls
<1> DEFINE S == {n \in 0..len : one[n] = two[n]}
<1>5. 0 \in S
  BY <1>1, <1>3, <1>4 DEF Flattened
<1>6. ASSUME NEW n \in 0 + 1..len, n - 1 \in S  PROVE n \in S
  <2>1. n \in 1..len /\ n \in 0..len /\ n \in 1..len + 1
    BY <1>1
  <2>2. one[n] = one[n - 1] \o seqs[n] /\ two[n] = two[n - 1] \o all[n]
    BY <1>1, <1>2, <1>3, <1>4, <2>1 DEF Flattened
  <2>3. one[n - 1] = two[n - 1] /\ all[n] = seqs[n]
    BY <1>2, <1>6, <2>1
  <2>4. QED  BY <2>1, <2>2, <2>3
<1>7. one[len] = two[len]
  <2> HIDE DEF S
  <2>1. 0..len \subseteq S
    BY <1>1, <1>5, <1>6, NumbersFrom
  <2>2. len \in S
    BY <1>1, <2>1
  <2>3. QED  BY <2>2 DEF S
<1>8. two[len + 1] = two[len] \o more
  <2>1. len + 1 \in 1..len + 1 /\ (len + 1) - 1 = len
    BY <1>1
  <2>2. two[len + 1] = two[(len + 1) - 1] \o all[len + 1]
    BY <1>2, <1>4, <2>1 DEF Flattened
  <2>3. QED  BY <1>2, <2>1, <2>2
<1>9. QED  BY <1>2, <1>3, <1>4, <1>7, <1>8

\* Orders, when the tips of each set are given.
OrderedBy(g, tips, known) ==
  IF known = {} THEN {<<>>}
  ELSE UNION {{Append(order, last) : order \in g[known \ {last}]} : last \in tips[known]}

OrdersBy(g, tips, known) ==
  /\ \A s \in SUBSET known : tips[s] \subseteq s
  /\ \A s \in SUBSET known : g[s] = OrderedBy(g, tips, s)

\* The orders of a set of operations depend on the tips of its parts alone.
LEMMA OrdersDetermined ==
  ASSUME NEW known, IsFiniteSet(known), NEW tips, NEW one, NEW two,
         OrdersBy(one, tips, known), OrdersBy(two, tips, known)
  PROVE  one[known] = two[known]
<1> USE DEF OrdersBy
<1>1. PICK size \in Nat : size = Cardinality(known)
  BY FS_CardinalityType
<1> DEFINE S == {n \in 0..size : \A s \in SUBSET known : Cardinality(s) <= n => one[s] = two[s]}
<1>2. \A s \in SUBSET known :
        /\ IsFiniteSet(s) /\ Cardinality(s) \in Nat
        /\ \A last \in s : Cardinality(s \ {last}) = Cardinality(s) - 1
  BY FS_Subset, FS_CardinalityType, FS_RemoveElement
<1>3. 0 \in S
  <2>1. ASSUME NEW s \in SUBSET known, Cardinality(s) <= 0  PROVE one[s] = two[s]
    <3>1. s = {}
      BY <1>2, <2>1, FS_EmptySet
    <3>2. QED  BY <3>1 DEF OrderedBy
  <2>2. QED  BY <1>1, <2>1
<1>4. ASSUME NEW n \in 0 + 1..size, n - 1 \in S  PROVE n \in S
  <2>1. ASSUME NEW s \in SUBSET known, Cardinality(s) <= n  PROVE one[s] = two[s]
    <3>1. ASSUME NEW last \in tips[s]  PROVE one[s \ {last}] = two[s \ {last}]
      <4>1. last \in s
        BY <3>1
      <4>2. Cardinality(s \ {last}) <= n - 1 /\ s \ {last} \in SUBSET known
        BY <1>1, <1>2, <2>1, <4>1
      <4>3. QED  BY <1>4, <4>2
    <3> DEFINE Ending(g, last) == {Append(order, last) : order \in g[s \ {last}]}
    <3>2. \A last \in tips[s] : Ending(one, last) = Ending(two, last)
      BY <3>1
    <3>3. one[s] = OrderedBy(one, tips, s) /\ two[s] = OrderedBy(two, tips, s)
      OBVIOUS
    <3>4. /\ OrderedBy(one, tips, s) = IF s = {} THEN {<<>>} ELSE UNION {Ending(one, last) : last \in tips[s]}
          /\ OrderedBy(two, tips, s) = IF s = {} THEN {<<>>} ELSE UNION {Ending(two, last) : last \in tips[s]}
      BY DEF OrderedBy
    <3> HIDE DEF Ending
    <3>5. {Ending(one, last) : last \in tips[s]} = {Ending(two, last) : last \in tips[s]}
      BY <3>2
    <3>6. QED  BY <3>3, <3>4, <3>5
  <2>2. n \in 0..size
    BY <1>1
  <2>3. QED  BY <2>1, <2>2
<1> HIDE DEF S
<1>5. 0..size \subseteq S
  BY <1>1, <1>3, <1>4, NumbersFrom
<1>6. size \in S
  BY <1>1, <1>5
<1>7. size <= size
  BY <1>1
<1>8. QED  BY <1>1, <1>6, <1>7 DEF S

\* The orders unroll before a step and after it.
OrdersUnrolled == \A known \in SUBSET (1..MaxOps) : Orders[known] = Ordered(Orders, known)

LEMMA OrdersStayUnrolled == OrdersUnrolled'
<1>1. OrdersUnrolled
  BY OrdersUnroll DEF OrdersUnrolled
<1>2. QED  BY <1>1, PTL

\* What a user knows after a write is what they knew and the write, which comes
\* last in every order: it builds on all the rest.
LEMMA SignedLast ==
  ASSUME Grounded, NEW user \in Did, NEW actions \in Seq(Action), NEW seen \in SUBSET Nat,
         Sign(user, seen, actions)
  PROVE  \E n \in 1..MaxOps :
           /\ n = Len(ops') /\ n = Len(ops) + 1
           /\ ops'[n].by = user /\ ops'[n].actions = actions
           /\ \A m \in Known(user) : m \in 1..Len(ops) /\ ops'[m] = ops[m]
           /\ Orders'[Known(user)'] = {Append(order, n) : order \in Orders[Known(user)]}
<1>1. PICK len \in Nat : len = Len(ops) /\ len < MaxOps /\ MaxOps \in Nat
  BY LenProperties, ReplicasAssumption DEF Grounded, TypeInv, Sign
<1>2. PICK known : known = Known(user)
  OBVIOUS
<1>3. /\ known \in SUBSET (1..len) /\ known \in SUBSET (1..MaxOps)
      /\ \A n \in known : ops[n].past \subseteq known
  BY <1>1, <1>2, KnownIsClosed
<1>4. PICK op \in Operation : /\ op.by = user /\ op.actions = actions /\ op.past = known
                              /\ ops' = Append(ops, op)
  <2>1. known \in SUBSET Nat
    BY <1>1, <1>3
  <2> DEFINE op == [by |-> user, actions |-> actions, past |-> known, seen |-> seen]
  <2>2. op \in Operation /\ op.by = user /\ op.actions = actions /\ op.past = known
    BY <2>1 DEF Operation
  <2>3. ops' = Append(ops, op)
    BY <1>2 DEF Sign
  <2>4. QED  BY <2>2, <2>3
<1>5. PICK n \in 1..MaxOps : n = len + 1
  BY <1>1
<1>6. /\ Len(ops') = n /\ ops'[n] = op
      /\ \A m \in 1..len : ops'[m] = ops[m]
  BY <1>1, <1>4, <1>5, AppendProperties DEF Grounded, TypeInv
<1>7. Known(user)' = known \cup {n}
  <2>1. refs' = [refs EXCEPT ![user][user] = n] /\ refs \in [Did -> [Did -> 0..len]]
    BY <1>1, <1>5 DEF Sign, Grounded, TypeInv
  <2> DEFINE Reached(did) == ops'[refs'[user][did]].past \cup {refs'[user][did]}
             Held == {did \in Did : refs'[user][did] # 0}
  <2>2. Known(user)' = UNION {Reached(did) : did \in Held}
    BY DEF Known
  <2>3. user \in Held /\ Reached(user) = known \cup {n}
    BY <1>1, <1>4, <1>5, <1>6, <2>1
  <2>4. ASSUME NEW did \in Held, did # user  PROVE Reached(did) \subseteq known
    <3>1. refs'[user][did] = refs[user][did] /\ refs[user][did] \in 1..len
      BY <1>1, <2>1, <2>4
    <3>2. Reached(did) = ops[refs[user][did]].past \cup {refs[user][did]}
      BY <1>6, <3>1
    <3>3. ops[refs[user][did]].past \cup {refs[user][did]} \subseteq Known(user)
      BY <1>1, <3>1 DEF Known
    <3>4. QED  BY <1>2, <3>2, <3>3
  <2> HIDE DEF Reached, Held
  <2>5. QED  BY <2>2, <2>3, <2>4
<1>8. PICK old, new : old = Orders /\ new = Orders'
  OBVIOUS
<1>9. \A s \in SUBSET (1..MaxOps) : old[s] = Ordered(old, s)
  BY <1>8, OrdersUnroll
<1>10. \A s \in SUBSET (1..MaxOps) : new[s] = Ordered(new, s)'
  BY <1>8, OrdersStayUnrolled DEF OrdersUnrolled
<1>11. new[known] = old[known]
  <2>1. \A s \in SUBSET known : Tips(s)' = Tips(s)
    <3>1. \A m \in known : ops'[m] = ops[m]
      BY <1>3, <1>6
    <3>2. QED  BY <3>1 DEF Tips
  <2>2. PICK tips : tips = [s \in SUBSET known |-> Tips(s)]
    OBVIOUS
  <2>3. \A s \in SUBSET known : tips[s] \subseteq s
    BY <2>2 DEF Tips
  <2>4. IsFiniteSet(known)
    <3>1. IsFiniteSet(1..len)
      BY <1>1, FS_Interval
    <3>2. QED  BY <1>3, <3>1, FS_Subset
  <2>5. ASSUME NEW s \in SUBSET known
        PROVE  old[s] = OrderedBy(old, tips, s) /\ new[s] = OrderedBy(new, tips, s)
    <3>1. s \in SUBSET (1..MaxOps) /\ tips[s] = Tips(s) /\ tips[s] = Tips(s)'
      BY <1>3, <2>1, <2>2
    <3>2. old[s] = Ordered(old, s) /\ new[s] = Ordered(new, s)'
      BY <1>9, <1>10, <3>1
    <3>3. Ordered(old, s) = OrderedBy(old, tips, s) /\ Ordered(new, s)' = OrderedBy(new, tips, s)
      BY <3>1 DEF Ordered, OrderedBy
    <3>4. QED  BY <3>2, <3>3
  <2>6. OrdersBy(old, tips, known) /\ OrdersBy(new, tips, known)
    BY <2>3, <2>5 DEF OrdersBy
  <2>7. QED  BY <2>4, <2>6, OrdersDetermined
<1>12. Tips(known \cup {n})' = {n}
  <2>1. \A m \in known : ops'[m].past \subseteq known /\ m # n
    BY <1>1, <1>3, <1>5, <1>6
  <2>2. n \notin known
    BY <2>1
  <2>3. ops'[n].past = known
    BY <1>4, <1>6
  <2>4. QED  BY <2>1, <2>2, <2>3 DEF Tips
<1>13. new[known \cup {n}] = {Append(order, n) : order \in old[known]}
  <2>1. known \cup {n} \in SUBSET (1..MaxOps) /\ known \cup {n} # {}
    BY <1>3
  <2>2. new[known \cup {n}] = Ordered(new, known \cup {n})'
    BY <1>10, <2>1
  <2>3. Ordered(new, known \cup {n})'
          = UNION {{Append(order, last) : order \in new[(known \cup {n}) \ {last}]} : last \in {n}}
    BY <1>12, <2>1 DEF Ordered
  <2>4. (known \cup {n}) \ {n} = known
    BY <1>1, <1>3, <1>5
  <2>5. UNION {{Append(order, last) : order \in new[(known \cup {n}) \ {last}]} : last \in {n}}
          = {Append(order, n) : order \in new[known]}
    BY <2>4
  <2>6. QED  BY <1>11, <2>2, <2>3, <2>5
<1>14. QED  BY <1>1, <1>2, <1>3, <1>4, <1>5, <1>6, <1>7, <1>8, <1>13

LEMMA Utterances ==
  ASSUME NEW user \in Did, NEW actions \in Seq(Action)
  PROVE  [i \in DOMAIN actions |-> [by |-> user, action |-> actions[i]]] \in Seq(Utterance)
<1>1. PICK len \in Nat : len = Len(actions) /\ DOMAIN actions = 1..len
  BY LenProperties
<1>2. \A i \in 1..len : [by |-> user, action |-> actions[i]] \in Utterance
  BY <1>1, ElementOfSeq DEF Utterance
<1>3. [i \in 1..len |-> [by |-> user, action |-> actions[i]]] \in Seq(Utterance)
  BY <1>2, IsASeq
<1>4. QED  BY <1>1, <1>3

\* A replay after the write acts the write on the replay before it.
LEMMA SignedReplay ==
  ASSUME Grounded, NEW user \in Did, NEW actions \in Seq(Action), NEW n \in 1..MaxOps,
         ops'[n].by = user, ops'[n].actions = actions,
         \A m \in Known(user) : m \in 1..Len(ops) /\ ops'[m] = ops[m],
         NEW order \in Orders[Known(user)]
  PROVE  Replay(Append(order, n))' = Acted(Replay(order), Said(n)')
<1>1. PICK known \in SUBSET (1..MaxOps) : known = Known(user) /\ known \in SUBSET (1..Len(ops))
  BY KnownIsClosed
<1>2. order \in Seq(known)
  BY <1>1, OrdersList DEF Lists
<1>3. PICK len \in Nat : len = Len(order) /\ DOMAIN order = 1..len
  BY <1>2, LenProperties
<1>4. \A p \in 1..len : order[p] \in known
  BY <1>2, <1>3, ElementOfSeq
<1>5. PICK longer : longer = Append(order, n)
  OBVIOUS
<1>6. /\ DOMAIN longer = 1..len + 1 /\ longer[len + 1] = n
      /\ \A p \in 1..len : longer[p] = order[p]
  <2>1. order \in Seq(known \cup {n})
    BY <1>2, SeqMonotonic
  <2>2. /\ longer \in Seq(known \cup {n}) /\ Len(longer) = len + 1
        /\ longer[len + 1] = n /\ \A p \in 1..len : longer[p] = order[p]
    BY <1>3, <1>5, <2>1, AppendProperties
  <2>3. QED  BY <2>2, LenProperties
<1>7. ASSUME NEW m \in known  PROVE Said(m) \in Seq(Utterance) /\ Said(m)' = Said(m)
  <2>1. m \in 1..Len(ops) /\ ops'[m] = ops[m]
    BY <1>1
  <2>2. Said(m)' = Said(m)
    BY <2>1 DEF Said
  <2>3. QED  BY <2>1, <2>2, OfOperation, Utterances DEF Said
<1>8. PICK T : T = Seq(Utterance)
  OBVIOUS
<1>9. PICK more \in T : more = Said(n)'
  <2>1. Said(n)' = [i \in DOMAIN actions |-> [by |-> user, action |-> actions[i]]]
    BY DEF Said
  <2>2. QED  BY <1>8, <2>1, Utterances
<1>10. PICK seqs \in Seq(T) : /\ seqs = [p \in 1..len |-> Said(order[p])]
                              /\ Len(seqs) = len
  <2>1. \A p \in 1..len : Said(order[p]) \in T
    BY <1>4, <1>7, <1>8
  <2>2. [p \in 1..len |-> Said(order[p])] \in Seq(T) /\ Len([p \in 1..len |-> Said(order[p])]) = len
    BY <2>1, IsASeq
  <2>3. QED  BY <2>2
<1>11. History(order) = FlattenSeq(seqs)
  BY <1>3, <1>10 DEF History
<1>12. History(longer)' = FlattenSeq(Append(seqs, more))
  <2>1. History(longer)' = FlattenSeq([p \in 1..len + 1 |-> Said(longer[p])'])
    BY <1>6 DEF History
  <2>2. PICK all : all = [p \in 1..len + 1 |-> Said(longer[p])']
    OBVIOUS
  <2>3. all = Append(seqs, more)
    <3>1. /\ DOMAIN all = 1..len + 1
          /\ \A p \in 1..len : all[p] = seqs[p]
          /\ all[len + 1] = more
      <4>1. ASSUME NEW p \in 1..len
            PROVE  p \in 1..len + 1 /\ Said(longer[p])' = Said(order[p])
        <5>1. PICK m \in known : m = order[p] /\ m = longer[p]
          BY <1>4, <1>6
        <5>2. Said(longer[p])' = Said(m)'
          BY <5>1 DEF Said
        <5>3. QED  BY <1>7, <5>1, <5>2
      <4>2. len + 1 \in 1..len + 1 /\ Said(longer[len + 1])' = more
        BY <1>6, <1>9
      <4>3. QED  BY <1>10, <2>2, <4>1, <4>2
    <3>2. /\ DOMAIN Append(seqs, more) = 1..len + 1
          /\ \A p \in 1..len : Append(seqs, more)[p] = seqs[p]
          /\ Append(seqs, more)[len + 1] = more
      <4>1. /\ Append(seqs, more) \in Seq(T) /\ Len(Append(seqs, more)) = len + 1
            /\ \A p \in 1..len : Append(seqs, more)[p] = seqs[p]
            /\ Append(seqs, more)[len + 1] = more
        BY <1>10, AppendProperties
      <4>2. QED  BY <4>1, LenProperties
    <3>3. \A p \in 1..len + 1 : p \in 1..len \/ p = len + 1
      OBVIOUS
    <3>4. \A p \in 1..len + 1 : all[p] = Append(seqs, more)[p]
      BY <3>1, <3>2, <3>3
    <3>5. all = [p \in 1..len + 1 |-> all[p]]
      BY <2>2
    <3>6. Append(seqs, more) = [p \in 1..len + 1 |-> Append(seqs, more)[p]]
      <4>1. Append(seqs, more) \in [1..len + 1 -> T]
        <5>1. Append(seqs, more) \in Seq(T) /\ Len(Append(seqs, more)) = len + 1
          BY <1>10, AppendProperties
        <5>2. QED  BY <5>1, LenProperties
      <4>2. QED  BY <4>1
    <3>7. QED  BY <3>4, <3>5, <3>6
  <2>4. QED  BY <2>1, <2>2, <2>3
<1>13. FlattenSeq(seqs) \in Seq(Utterance) /\ FlattenSeq(Append(seqs, more)) = FlattenSeq(seqs) \o more
  BY <1>8, FlattenProperties, FlattenAppends
<1>14. Replay(longer)' = Acted(NoArtifacts, FlattenSeq(seqs) \o more)
  BY <1>12, <1>13 DEF Replay
<1>15. Replay(order) = Acted(NoArtifacts, FlattenSeq(seqs))
  BY <1>11 DEF Replay
<1>16. Acted(NoArtifacts, FlattenSeq(seqs) \o more) = Acted(Acted(NoArtifacts, FlattenSeq(seqs)), more)
  BY <1>8, <1>13, ActedInTurn
<1>17. QED  BY <1>5, <1>9, <1>14, <1>15, <1>16

LEMMA SignedViews ==
  ASSUME Grounded, NEW user \in Did, NEW actions \in Seq(Action), NEW seen \in SUBSET Nat,
         Sign(user, seen, actions)
  PROVE  /\ ops'[Len(ops')].by = user
         /\ Views(user)' = {Acted(view, Said(Len(ops))') : view \in Views(user)}
<1>1. PICK n \in 1..MaxOps :
        /\ n = Len(ops') /\ n = Len(ops) + 1
        /\ ops'[n].by = user /\ ops'[n].actions = actions
        /\ \A m \in Known(user) : m \in 1..Len(ops) /\ ops'[m] = ops[m]
        /\ Orders'[Known(user)'] = {Append(order, n) : order \in Orders[Known(user)]}
  BY SignedLast
<1>2. \A order \in Orders[Known(user)] :
        Replay(Append(order, n))' = Acted(Replay(order), Said(n)')
  BY <1>1, SignedReplay
<1>3. Said(Len(ops))' = Said(n)'
  BY <1>1 DEF Said
<1>4. Views(user)' = {Replay(Append(order, n))' : order \in Orders[Known(user)]}
  <2>1. Views(user)' = {Replay(order)' : order \in Orders'[Known(user)']}
    BY DEF Views, Shown
  <2>2. ASSUME NEW view \in Views(user)'
        PROVE  view \in {Replay(Append(order, n))' : order \in Orders[Known(user)]}
    <3>1. PICK longer \in Orders'[Known(user)'] : view = Replay(longer)'
      BY <2>1, <2>2
    <3>2. PICK order \in Orders[Known(user)] : longer = Append(order, n)
      BY <1>1, <3>1
    <3>3. QED  BY <3>1, <3>2 DEF Replay, History, Said
  <2>3. ASSUME NEW order \in Orders[Known(user)]
        PROVE  Replay(Append(order, n))' \in Views(user)'
    <3>1. Append(order, n) \in Orders'[Known(user)']
      BY <1>1
    <3>2. QED  BY <2>1, <3>1 DEF Replay, History, Said
  <2>4. QED  BY <2>2, <2>3
<1>5. QED
  <2>1. {Replay(Append(order, n))' : order \in Orders[Known(user)]}
          = {Acted(Replay(order), Said(n)') : order \in Orders[Known(user)]}
    BY <1>2
  <2>2. {Acted(view, Said(n)') : view \in Views(user)}
          = {Acted(Replay(order), Said(n)') : order \in Orders[Known(user)]}
    BY DEF Views, Shown
  <2>3. QED  BY <1>1, <1>3, <1>4, <2>1, <2>2

\* What a signer's command holds after a write is what the signer knows by then,
\* with the write acted on it: for any number of users and operations, in every
\* order of replay, and whatever was fetched, deleted or signed since the
\* command loaded the release, or is signed concurrently.
THEOREM WritesAreLast == Spec => WritesComeLast
<1>1. ASSUME IInv, [Next]_vars
      PROVE  [\A user \in Did :
                ops' # ops /\ ops'[Len(ops')].by = user =>
                  Views(user)' = {Acted(view, Said(Len(ops))') : view \in Views(user)}]_vars
  <2>1. SUFFICES ASSUME NEW user \in Did, ops' # ops, ops'[Len(ops')].by = user
                 PROVE  Views(user)' = {Acted(view, Said(Len(ops))') : view \in Views(user)}
    OBVIOUS
  <2>2. PICK signer \in Did :
          \/ SignRegister(signer) \/ SignRegisterWithSize(signer)
          \/ SignAddLocation(signer) \/ SignRemoveLocation(signer)
          \/ SignAttest(signer) \/ SignRedact(signer) \/ SignMetadata(signer)
    BY <1>1, <2>1 DEF Next, vars, Fetch, RemoveRef
  <2>3. PICK actions \in Seq(Action), seen \in SUBSET Nat : Sign(signer, seen, actions)
    <3>1. PICK actions \in Seq(Action), seen \in SUBSET (1..Len(ops)) :
            Sign(signer, seen, actions)
      BY <1>1, <2>2, SignsPhrased
    <3>2. seen \in SUBSET Nat
      BY LenProperties
    <3>3. QED  BY <3>1, <3>2
  <2>4. /\ ops'[Len(ops')].by = signer
        /\ Views(signer)' = {Acted(view, Said(Len(ops))') : view \in Views(signer)}
    BY <1>1, <2>3, SignedViews DEF IInv
  <2>5. signer = user
    BY <2>1, <2>4
  <2>6. QED  BY <2>4, <2>5
<1>2. QED  BY <1>1, ReplicasInvariant, PTL DEF Spec, WritesComeLast
=================================================================================
