--------------------------- MODULE ReleaseReplicas ---------------------------
(***************************************************************************)
(* One release on the machines of several peers.  An operation is a git    *)
(* commit whose parents are the tips its signer had; each peer keeps, per  *)
(* namespace, one ref to the last operation signed there.  A peer's        *)
(* release is the replay of every operation reachable from its refs, in an *)
(* order that respects the parents.  Which of those orders the object      *)
(* store takes is not this repository's: properties are stated for all.    *)
(* A command checks its write on a release it loaded before, and signs it  *)
(* later, on the tips there are by then: fetches, deletions and the same   *)
(* user's other commands come in between.                                  *)
(***************************************************************************)
EXTENDS Trust

CONSTANTS MaxOps  \* bound: operations ever signed, the root included

ASSUME ReplicasAssumption == MaxOps \in Nat \ {0}

VARIABLES
  ops,   \* every operation ever signed: signer, actions, its causal past, and
         \* what its signer had loaded when it was checked, {} for no check
  refs,  \* refs[peer][did]: the peer's ref in the namespace of did, 0 for none
  loads  \* loads[user]: the releases the user's commands may hold, each as the
         \* operations it is a replay of: those the user has known at some time

vars == <<ops, refs, loads>>

Create == [type |-> "create"]

\* Releases::create: the creator signs the root and holds the only ref to it.
Init ==
  \E creator \in Did :
    /\ ops = <<[by |-> creator, actions |-> <<Create>>, past |-> {}, seen |-> {}]>>
    /\ refs = [peer \in Did |-> [did \in Did |->
                 IF peer = creator /\ did = creator THEN 1 ELSE 0]]
    /\ loads = [user \in Did |-> IF user = creator THEN {{1}} ELSE {}]

\* The operations a peer walks back to from its refs.
Known(peer) ==
  UNION {ops[refs[peer][did]].past \cup {refs[peer][did]} :
           did \in {d \in Did : refs[peer][d] # 0}}

\* The orders in which a set of operations can be replayed.
Orders[known \in SUBSET (1..MaxOps)] ==
  IF known = {} THEN {<<>>}
  ELSE UNION {{Append(order, last) : order \in Orders[known \ {last}]} :
                last \in {n \in known : \A m \in known : n \notin ops[m].past}}

\* What was said, and by whom, in that order.
Said(n) ==
  [i \in DOMAIN ops[n].actions |-> [by |-> ops[n].by, action |-> ops[n].actions[i]]]

History(order) == FlattenSeq([i \in DOMAIN order |-> Said(order[i])])

\* What becomes of a release when a history is replayed on it.
Acted(view, history) ==
  FoldLeft(LAMBDA as, said : Act(as, said.by, said.action), view, history)

Replay(order) == Acted(NoArtifacts, History(order))

\* What a set of operations may show of the release, and what a user may see: a
\* replay of what they know.
Shown(known) == {Replay(order) : order \in Orders[known]}

Views(user) == Shown(Known(user))

\* Releases::get and get_mut: from now on a command of the user may hold the
\* release as it is now, for as long as the user takes.
Load(user) ==
  loads' = [loads EXCEPT ![user] = @ \cup ({Known(user)'} \ {{}})]

\* Mutant: the operation of a user who has a ref builds on that one alone.
SignOnOwn(user, seen, actions) ==
  /\ Len(ops) < MaxOps
  /\ Known(user) # {}
  /\ LET own == refs[user][user]
     IN  ops' = Append(ops, [by |-> user, actions |-> actions, seen |-> seen,
                  past |-> IF own = 0 THEN Known(user) ELSE ops[own].past \cup {own}])
  /\ refs' = [refs EXCEPT ![user][user] = Len(ops) + 1]
  /\ Load(user)

\* ReleaseMut::transaction.  The operation builds on all its signer knows by
\* now, whatever it was checked on, and becomes the signer's ref; the release
\* that the command holds becomes the replay of it all.
Sign(user, seen, actions) ==
  /\ Len(ops) < MaxOps
  /\ Known(user) # {}
  /\ ops' = Append(ops, [by |-> user, actions |-> actions, past |-> Known(user), seen |-> seen])
  /\ refs' = [refs EXCEPT ![user][user] = Len(ops) + 1]
  /\ Load(user)

SignRegister(user) ==
  \E cid \in Cid, name \in Name :
    Sign(user, {}, <<[type |-> "register", cid |-> cid, name |-> name]>>)

\* The size hint is metadata, but nobody asks whose.
SignRegisterWithSize(user) ==
  \E cid \in Cid, name \in Name, key \in Key, size \in Value :
    Sign(user, {}, <<[type |-> "register", cid |-> cid, name |-> name],
                     [type |-> "metadata", cid |-> cid, key |-> key, write |-> size]>>)

\* `location add` does not look the CID up.
SignAddLocation(user) ==
  \E cid \in Cid, url \in Url :
    Sign(user, {}, <<[type |-> "addLocation", cid |-> cid, url |-> url]>>)

\* `location remove` wants a location of the user's own, and may ask which.
SignRemoveLocation(user) ==
  \E seen \in loads[user], cid \in Cid, url \in Url :
    /\ Sign(user, seen, <<[type |-> "removeLocation", cid |-> cid, url |-> url]>>)
    /\ \E view \in Shown(seen) :
         Carries(view, cid) /\ <<user, url>> \in view[cid].locations

\* `attest` refuses what the replay would ignore, but lets an unknown CID pass.
SignAttest(user) ==
  \E seen \in loads[user], cid \in Cid :
    /\ Sign(user, seen, <<[type |-> "attest", cid |-> cid]>>)
    /\ \E view \in Shown(seen) : Carries(view, cid) => CanAttest(view[cid], user)

\* ReleaseMut::redact wants the artifact to exist.
SignRedact(user) ==
  \E seen \in loads[user], cid \in Cid, reason \in Reason :
    /\ Sign(user, seen, <<[type |-> "redact", cid |-> cid, reason |-> reason]>>)
    /\ \E view \in Shown(seen) : Carries(view, cid)

\* `metadata set` and `unset` want the author or a delegate.
SignMetadata(user) ==
  \E seen \in loads[user], cid \in Cid, key \in Key, write \in Value \cup {Removed} :
    /\ Sign(user, seen, <<[type |-> "metadata", cid |-> cid, key |-> key, write |-> write]>>)
    /\ \E view \in Shown(seen) :
         Carries(view, cid) /\ IsAuthorOrDelegate(user, view[cid])

\* A peer mirrors another's namespace as it stands there.
Fetch(peer, from) ==
  /\ peer # from
  /\ refs[peer][from] # refs[from][from]
  /\ refs' = [refs EXCEPT ![peer][from] = refs[from][from]]
  /\ UNCHANGED ops
  /\ Load(peer)

\* Releases::remove, after delete_release found the release.
RemoveRef(user) ==
  /\ refs[user][user] # 0
  /\ refs' = [refs EXCEPT ![user][user] = 0]
  /\ UNCHANGED ops
  /\ Load(user)

Next ==
  \E user \in Did :
    \/ SignRegister(user)
    \/ SignRegisterWithSize(user)
    \/ SignAddLocation(user)
    \/ SignRemoveLocation(user)
    \/ SignAttest(user)
    \/ SignRedact(user)
    \/ SignMetadata(user)
    \/ \E from \in Did : Fetch(user, from)
    \/ RemoveRef(user)

Spec == Init /\ [][Next]_vars
-----------------------------------------------------------------------------
\* The operations on a CID, and those of them of one type.
About(cid, known) ==
  {n \in known : \E action \in ToSet(ops[n].actions) :
                   action # Create /\ action.cid = cid}

Typed(type, ns) ==
  {n \in ns : \E action \in ToSet(ops[n].actions) : action.type = type}

\* A redaction takes effect on every peer that has it, in whatever order the
\* peer replays: the user has redacted, and has no attestation, whatever was
\* fetched, signed or deleted since the command looked for the artifact, as long
\* as it signs on all that it looked at; also when the operations of the user are
\* concurrent because they deleted their ref and came back.  (Without what it
\* looked at the redaction is signed all the same, and does nothing.)
RedactionTakesEffect ==
  \A peer \in Did : \A order \in Orders[Known(peer)] :
    LET view == Replay(order)
    IN  \A cid \in Cid : \A n \in Typed("redact", About(cid, Known(peer))) :
          ops[n].seen \subseteq ops[n].past =>
          /\ Carries(view, cid)
          /\ RedactedBy(view[cid], ops[n].by)
          /\ ops[n].by \notin view[cid].attestations

\* What a history of actions means, without replaying it.  The first
\* registration is what makes later actions count; of those, the last of each
\* kind decides.
Meaning(history, cid) ==
  LET Act_(i) == history[i].action
      By(i)   == history[i].by
      on == {i \in DOMAIN history : Act_(i) # Create /\ Act_(i).cid = cid}
      registrations == {i \in on : Act_(i).type = "register"}
      first  == Min(registrations)
      after  == {i \in on : i > first}
      author == By(first)
      LastOf(S) == IF S = {} THEN 0 ELSE Max(S)
      Redactions(did) == {i \in after : Act_(i).type = "redact" /\ By(i) = did}
      OnUrl(did, url) ==
        {i \in after : /\ Act_(i).type \in {"addLocation", "removeLocation"}
                       /\ By(i) = did /\ Act_(i).url = url}
      TrustedWrites(key) ==
        {i \in after : /\ Act_(i).type = "metadata" /\ Act_(i).key = key
                       /\ By(i) = author \/ By(i) \in Delegates}
  IN  IF registrations = {} THEN Absent
      ELSE [author |-> author,
            name |-> Act_(LastOf({i \in registrations : By(i) = author})).name,
            locations |-> {at \in Did \X Url :
              /\ OnUrl(at[1], at[2]) # {}
              /\ Act_(LastOf(OnUrl(at[1], at[2]))).type = "addLocation"},
            attestations |-> {did \in Did \ {author} :
              /\ \E i \in after : Act_(i).type = "attest" /\ By(i) = did
              /\ Redactions(did) = {}},
            redactions |-> [did \in Did |->
              IF Redactions(did) = {} THEN NoReason
              ELSE Act_(LastOf(Redactions(did))).reason],
            metadata |-> [key \in Key |->
              IF TrustedWrites(key) = {} THEN Removed
              ELSE Act_(LastOf(TrustedWrites(key))).write]]

\* The replay computes that meaning, and a reader who applies the trust rules
\* to it gets the last write of the author or a delegate, a removal included.
ReplayMeansHistory ==
  \A peer \in Did : \A order \in Orders[Known(peer)], cid \in Cid :
    LET artifact == Replay(order)[cid]
    IN  Meaning(History(order), cid) =
          IF artifact = Absent THEN Absent
          ELSE [artifact EXCEPT !.metadata =
                  [key \in Key |-> TrustedMetadata(artifact, key)]]

\* One registration precedes everything said about the CID, and each user's
\* operations on it follow each other (nobody deleted their ref and came back).
Settled(cid, known) ==
  /\ \E r \in Typed("register", About(cid, known)) :
       \A n \in About(cid, known) \ {r} : r \in ops[n].past
  /\ \A m, n \in About(cid, known) :
       ops[m].by = ops[n].by => m = n \/ m \in ops[n].past \/ n \in ops[m].past

\* Two peers that replay the same settled operations in different orders agree
\* on the artifact, up to the order of concurrent metadata writes.
PeersAgree ==
  \A peer \in Did, cid \in Cid : Settled(cid, Known(peer)) =>
    \A one, two \in Orders[Known(peer)] :
      LET NoMetadata(order) ==
            [Replay(order)[cid] EXCEPT !.metadata = <<>>]
      IN  NoMetadata(one) = NoMetadata(two)

\* A write comes last.  The release that a command holds after it wrote is a
\* replay of all that its user knows by then, the write acted on it at the end
\* (ReleaseMut::transaction replaces its release by that of the commit): what
\* arrived since the command loaded the release is in it, and what got lost is
\* not, in whatever order the rest is replayed.  So the write counts exactly if
\* the replay takes it there, and not because of what was checked before.
WritesComeLast ==
  [][\A user \in Did :
       ops' # ops /\ ops'[Len(ops')].by = user =>
         Views(user)' = {Acted(view, Said(Len(ops))') : view \in Views(user)}]_vars
==============================================================================
