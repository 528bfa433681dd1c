-------------------------- MODULE ArtifactsProofs ---------------------------
(***************************************************************************)
(* Theorems about Artifacts, for any keys, slugs, blobs and times, any     *)
(* number of requests in flight and any bounds on the environment:         *)
(*   TypeCorrect, IndexesAlwaysAgree, RevokedNeverRendered,                *)
(*   ImplementsLedger, QuotaAlwaysCovers.                                  *)
(* IInv is the inductive invariant. What it adds to the checked ones is    *)
(* what a request remembers between two awaits: which of its locals are    *)
(* set, that every tag it resolved is its signer's, and that what its      *)
(* reader had been told is revoked still is.                               *)
(***************************************************************************)
EXTENDS Artifacts, FiniteSetTheorems, TLAPS

USE NoneAssumption, NoManifestAssumption, TimesAssumption, QuotaAssumption,
    SwitchAssumption, BoundsAssumption, RevokeTagsAssumption

-----------------------------------------------------------------------------
(* The inductive invariant.                                                *)

\* The locals a request has when it is at r.pc.
LocalsSet(r) ==
    /\ r.pc \in {"head", "quota", "put", "charge", "resolve"} => r.key \in Pubkeys
    /\ r.pc \in {"head", "quota", "put", "charge", "frozen", "snapshot", "revoked?", "blob?"}
          => r.blob \in Blobs
    /\ r.pc \in {"check", "store", "snapshot", "revoked?", "blob?", "shown"}
          => r.manifest \in Manifests
    /\ r.pc = "resolve" => r.at \in Times
    /\ r.pc = "latest" => r.address \in Addresses

\* A revoke request only keeps tags its signer may revoke.
TagsOwned(r) ==
    r.pc = "resolve" => \A t \in r.resolved : \/ t[1] = "e" /\ t[2].pubkey = r.key
                                              \/ t[1] = "a" /\ t[2][1] = r.key

\* A reader's render passed the check of what it was not to see.
GonePassed(r) == r.pc \in {"blob?", "shown"} => r.manifest \notin r.gone

Withdrawn == {m \in Manifests : Revoked(m)}

RequestOK(r) == LocalsSet(r) /\ TagsOwned(r) /\ GonePassed(r)

RequestsInv == \A s \in Slots : RequestOK(req[s]) /\ req[s].gone \subseteq Withdrawn

\* What was answered as revoked is in the revocation keys.
AckedStored ==
    \A r \in acked :
        \/ r[1][1] = "e" /\ r[1][2] \in rev
        \/ /\ r[1][1] = "a"
           /\ revaddr[r[1][2]] # None
           /\ r[2] <= revaddr[r[1][2]]

IInv == TypeOK /\ IndexesAgree /\ RequestsInv /\ AckedStored

-----------------------------------------------------------------------------
\* The slot idles between requests.
LEMMA IdleType == Idle \in Request /\ RequestOK(Idle) /\ Idle.gone = {}
  BY DEF Idle, Request, Pcs, RequestOK, LocalsSet, TagsOwned, GonePassed

\* A step changes the request of one slot.
LEMMA RequestStep ==
  ASSUME TypeOK, RequestsInv, NEW s \in Slots, NEW r \in Request, Become(s, r),
         RequestOK(r), r.gone \subseteq Withdrawn', Withdrawn \subseteq Withdrawn'
  PROVE  req' \in [Slots -> Request] /\ RequestsInv'
<1>1. req' \in [Slots -> Request]
  BY DEF TypeOK, Become
<1>2. ASSUME NEW t \in Slots
      PROVE  RequestOK(req'[t]) /\ req'[t].gone \subseteq Withdrawn'
  <2>1. CASE t = s
    BY <2>1 DEF TypeOK, Become
  <2>2. CASE t # s
    <3>1. req'[t] = req[t] /\ RequestOK(req[t]) /\ req[t].gone \subseteq Withdrawn
      BY <2>2 DEF TypeOK, Become, RequestsInv
    <3>2. QED
      BY <3>1
  <2>3. QED
    BY <2>1, <2>2
<1>3. QED
  BY <1>1, <1>2 DEF RequestsInv, RequestOK, LocalsSet, TagsOwned, GonePassed

\* A step that writes none of the artifact keys.
LEMMA QuietStep ==
  ASSUME IInv, NEW s \in Slots, NEW r \in Request, Become(s, r), UNCHANGED store,
         RequestOK(r), r.gone \subseteq Withdrawn,
         blobs' \in [Blobs -> Pubkeys \cup {None}], quota' \in [Pubkeys -> Nat],
         behind' \in [Slots -> Nat], forgone' \in [Pubkeys -> Nat],
         calls' \in [upload : 0..MaxUploads, publish : 0..MaxPublishes,
                     revoke : 0..MaxRevokes, lost : 0..MaxLost]
  PROVE  IInv'
<1>1. Withdrawn' = Withdrawn
  BY DEF Withdrawn, Revoked, store
<1>2. req' \in [Slots -> Request] /\ RequestsInv'
  BY <1>1, RequestStep DEF IInv
<1>3. TypeOK'
  BY <1>2 DEF IInv, TypeOK, store
<1>4. IndexesAgree' /\ AckedStored'
  BY DEF IInv, IndexesAgree, LatestIsNewest, FrozenIsNewest, AckedStored, store
<1>5. QED
  BY <1>2, <1>3, <1>4 DEF IInv

\* The same for the steps that read: R2 and the counters stay too.
LEMMA ReadStep ==
  ASSUME IInv, NEW s \in Slots, NEW r \in Request, Become(s, r),
         UNCHANGED <<r2, store, calls>>,
         RequestOK(r), r.gone \subseteq Withdrawn
  PROVE  IInv'
  BY QuietStep DEF IInv, TypeOK, r2

LEMMA AnswerStep ==
  ASSUME IInv, NEW s \in Slots, Answer(s), UNCHANGED <<r2, store, calls>>
  PROVE  IInv'
  BY ReadStep, IdleType DEF Answer

LEMMA RequestKnown ==
  ASSUME IInv, NEW s \in Slots
  PROVE  req[s] \in Request /\ RequestOK(req[s]) /\ req[s].gone \subseteq Withdrawn
  BY DEF IInv, TypeOK, RequestsInv

-----------------------------------------------------------------------------
(* Uploads.                                                                *)

LEMMA CallsStep ==
  ASSUME TypeOK
  PROVE  /\ calls.upload < MaxUploads =>
              [calls EXCEPT !.upload = @ + 1] \in
                [upload : 0..MaxUploads, publish : 0..MaxPublishes,
                 revoke : 0..MaxRevokes, lost : 0..MaxLost]
         /\ calls.publish < MaxPublishes =>
              [calls EXCEPT !.publish = @ + 1] \in
                [upload : 0..MaxUploads, publish : 0..MaxPublishes,
                 revoke : 0..MaxRevokes, lost : 0..MaxLost]
         /\ calls.revoke < MaxRevokes =>
              [calls EXCEPT !.revoke = @ + 1] \in
                [upload : 0..MaxUploads, publish : 0..MaxPublishes,
                 revoke : 0..MaxRevokes, lost : 0..MaxLost]
         /\ calls.lost < MaxLost =>
              [calls EXCEPT !.lost = @ + 1] \in
                [upload : 0..MaxUploads, publish : 0..MaxPublishes,
                 revoke : 0..MaxRevokes, lost : 0..MaxLost]
  BY DEF TypeOK

LEMMA UploadInv ==
  ASSUME IInv, NEW s \in Slots, Upload(s)
  PROVE  IInv'
<1>1. TypeOK /\ req[s] \in Request /\ RequestOK(req[s]) /\ req[s].gone \subseteq Withdrawn
  BY RequestKnown DEF IInv
<1>2. ASSUME NEW k \in Pubkeys, NEW b \in Blobs, NEW pc \in {"head", "quota"},
             MayUpload(s),
             Become(s, [Idle EXCEPT !.pc = pc, !.key = k, !.blob = b]),
             calls' = [calls EXCEPT !.upload = @ + 1], UNCHANGED <<r2, store>>
      PROVE  IInv'
  <2> DEFINE r == [Idle EXCEPT !.pc = pc, !.key = k, !.blob = b]
  <2>1. r \in Request /\ RequestOK(r) /\ r.gone = {}
    BY DEF Idle, Request, Pcs, RequestOK, LocalsSet, TagsOwned, GonePassed
  <2>2. calls' \in [upload : 0..MaxUploads, publish : 0..MaxPublishes,
                    revoke : 0..MaxRevokes, lost : 0..MaxLost]
    BY <1>1, <1>2, CallsStep DEF MayUpload
  <2> HIDE DEF r
  <2>3. QED
    BY <1>1, <1>2, <2>1, <2>2, QuietStep DEF r, r2, TypeOK
<1>3. ASSUME NEW k \in Pubkeys, NEW b \in Blobs, BlossomUpload(s, k, b) PROVE IInv'
  BY <1>2, <1>3 DEF BlossomUpload
<1>4. ASSUME NEW k \in Pubkeys, NEW b \in Blobs, AvatarUpload(s, k, b) PROVE IInv'
  BY <1>2, <1>4 DEF AvatarUpload
<1>5. CASE UploadHead(s)
  <2> DEFINE r == [req[s] EXCEPT !.pc = "quota"]
  <2>1. r \in Request /\ RequestOK(r) /\ r.gone = req[s].gone
    BY <1>1, <1>5 DEF UploadHead, At, Request, Pcs, RequestOK, LocalsSet, TagsOwned, GonePassed
  <2>2. QED
    BY <1>1, <1>5, <2>1, AnswerStep, ReadStep DEF UploadHead
<1>6. CASE ReadQuota(s)
  <2> DEFINE r == [req[s] EXCEPT !.pc = "put", !.used = quota[req[s].key]]
  <2>1. quota[req[s].key] \in Nat
    BY <1>1, <1>6 DEF ReadQuota, At, RequestOK, LocalsSet, TypeOK
  <2>2. r \in Request /\ RequestOK(r) /\ r.gone = req[s].gone
    BY <1>1, <1>6, <2>1
    DEF ReadQuota, At, Request, Pcs, RequestOK, LocalsSet, TagsOwned, GonePassed
  <2>3. QED
    BY <1>1, <1>6, <2>2, AnswerStep, ReadStep DEF ReadQuota
<1>7. CASE PutBlob(s)
  <2> DEFINE r == [req[s] EXCEPT !.pc = "charge"]
  <2>1. r \in Request /\ RequestOK(r) /\ r.gone = req[s].gone
    BY <1>1, <1>7 DEF PutBlob, At, Request, Pcs, RequestOK, LocalsSet, TagsOwned, GonePassed
  <2>2. blobs' \in [Blobs -> Pubkeys \cup {None}]
    BY <1>1, <1>7 DEF PutBlob, At, RequestOK, LocalsSet, TypeOK
  <2>3. QED
    BY <1>1, <1>7, <2>1, <2>2, QuietStep DEF PutBlob, TypeOK
<1>8. CASE WriteQuota(s)
  <2>1. req[s].used + 1 \in Nat
    BY <1>1 DEF Request
  <2>2. quota' \in [Pubkeys -> Nat]
    BY <1>1, <1>8, <2>1 DEF WriteQuota, TypeOK
  <2>3. Become(s, Idle) /\ UNCHANGED store /\ UNCHANGED <<blobs, calls>>
    BY <1>8 DEF WriteQuota, Answer
  <2>4. behind' \in [Slots -> Nat] /\ forgone' \in [Pubkeys -> Nat]
    <3>1. behind \in [Slots -> Nat] /\ forgone \in [Pubkeys -> Nat] /\ \A t \in Slots : behind[t] + 1 \in Nat
      BY <1>1 DEF TypeOK
    <3>2. /\ forgone' = [forgone EXCEPT ![req[s].key] = @ + behind[s]]
          /\ behind' = [t \in Slots |-> IF t = s THEN 0
                                        ELSE IF Charging(t, req[s].key) THEN behind[t] + 1
                                        ELSE behind[t]]
      BY <1>8 DEF WriteQuota, Charged
    <3>3. behind' \in [Slots -> Nat]
      BY <3>1, <3>2
    <3>4. forgone' \in [Pubkeys -> Nat]
      <4>1. req[s].key \in Pubkeys
        BY <1>1, <1>8 DEF WriteQuota, At, RequestOK, LocalsSet
      <4>2. forgone[req[s].key] + behind[s] \in Nat
        BY <3>1, <4>1
      <4>3. QED
        BY <3>1, <3>2, <4>1, <4>2
    <3>5. QED
      BY <3>3, <3>4
  <2>5. QED
    BY <1>1, <2>2, <2>3, <2>4, QuietStep, IdleType DEF TypeOK
<1>9. QED
  BY <1>3, <1>4, <1>5, <1>6, <1>7, <1>8 DEF Upload

-----------------------------------------------------------------------------
(* Publishing.                                                             *)

LEMMA StoreManifestInv ==
  ASSUME IInv, NEW s \in Slots, StoreManifest(s)
  PROVE  IInv'
<1> DEFINE m == req[s].manifest
<1>1. TypeOK /\ IndexesAgree /\ RequestsInv /\ m \in Manifests
  BY RequestKnown DEF IInv, StoreManifest, At, RequestOK, LocalsSet
<1>2. UNCHANGED <<r2, calls, rev, revaddr, acked>> /\ Answer(s)
  BY DEF StoreManifest, store
<1>3. Withdrawn' = Withdrawn
  BY <1>2 DEF Withdrawn, Revoked
<1>4. req' \in [Slots -> Request] /\ RequestsInv'
  BY <1>1, <1>2, <1>3, IdleType, RequestStep DEF Answer
<1>5. AckedStored'
  BY <1>2 DEF IInv, AckedStored
<1>6. CASE Superseded(m)
  <2>1. UNCHANGED store
    BY <1>6 DEF StoreManifest
  <2>2. IndexesAgree'
    BY <1>1, <2>1 DEF IndexesAgree, LatestIsNewest, FrozenIsNewest, store
  <2>3. QED
    BY <1>1, <1>2, <1>4, <1>5, <2>1, <2>2 DEF IInv, TypeOK, r2, store
<1>7. CASE ~Superseded(m)
  <2>1. /\ latest' = [latest EXCEPT ![Address(m)] = m]
        /\ snapshots' = snapshots \cup {m}
        /\ binding' = Bound(m)
    BY <1>7 DEF StoreManifest
  <2>2. Address(m) \in Addresses /\ m.blob \in Blobs /\ m.created_at \in Nat
    BY <1>1 DEF Manifests, Addresses, Address
  <2>3. /\ latest' \in [Addresses -> Manifests \cup {None}]
        /\ snapshots' \subseteq Manifests
        /\ binding' \in [Blobs -> Manifests \cup {None}]
    BY <1>1, <2>1, <2>2 DEF TypeOK, Bound
  <2>4. \A n \in snapshots : Address(n) = Address(m) => n.created_at < m.created_at
    <3> SUFFICES ASSUME NEW n \in snapshots, Address(n) = Address(m)
                 PROVE  n.created_at < m.created_at
      OBVIOUS
    <3>1. latest[Address(m)] # None /\ latest[Address(m)].created_at >= n.created_at
      BY <1>1 DEF IndexesAgree, LatestIsNewest
    <3>2. /\ latest[Address(m)].created_at \in Nat /\ n.created_at \in Nat
          /\ ~(latest[Address(m)].created_at >= m.created_at)
      BY <1>1, <1>7, <2>2, <3>1 DEF Superseded, TypeOK, Manifests
    <3>3. QED
      BY <2>2, <3>1, <3>2
  <2>5. LatestIsNewest'
    <3>1. ASSUME NEW a \in Addresses, latest'[a] # None
          PROVE  latest'[a] \in snapshots' /\ Address(latest'[a]) = a
      BY <1>1, <2>1, <2>2, <3>1 DEF TypeOK, IndexesAgree, LatestIsNewest
    <3>2. ASSUME NEW n \in snapshots'
          PROVE  latest'[Address(n)] # None /\ latest'[Address(n)].created_at >= n.created_at
      <4>1. Address(n) \in Addresses /\ n \in Manifests
        BY <2>3 DEF Manifests, Addresses, Address
      <4>2. CASE Address(n) = Address(m)
        <5>1. latest'[Address(n)] = m
          BY <1>1, <2>1, <2>2, <4>2 DEF TypeOK
        <5>2. n.created_at \in Nat /\ (n = m \/ n.created_at < m.created_at)
          BY <2>1, <2>4, <4>1, <4>2 DEF Manifests
        <5>3. QED
          BY <1>1, <2>2, <5>1, <5>2
      <4>3. CASE Address(n) # Address(m)
        <5>1. n \in snapshots /\ latest'[Address(n)] = latest[Address(n)]
          BY <1>1, <2>1, <4>1, <4>3 DEF TypeOK
        <5>2. QED
          BY <1>1, <5>1 DEF IndexesAgree, LatestIsNewest
      <4>4. QED
        BY <4>2, <4>3
    <3>3. QED
      BY <3>1, <3>2 DEF LatestIsNewest, Address
  <2>6. FrozenIsNewest'
    <3>1. ASSUME NEW b \in Blobs, binding'[b] # None
          PROVE  binding'[b] \in snapshots' /\ binding'[b].blob = b
      BY <1>1, <2>1, <2>2, <3>1 DEF TypeOK, Bound, IndexesAgree, FrozenIsNewest
    <3>2. ASSUME NEW n \in snapshots'
          PROVE  /\ binding'[n.blob] # None
                 /\ Address(binding'[n.blob]) = Address(n)
                       => binding'[n.blob].created_at >= n.created_at
      <4>1. n \in Manifests /\ n.blob \in Blobs /\ n.created_at \in Nat
        BY <2>3 DEF Manifests
      <4>2. CASE n.blob = m.blob /\ binding'[m.blob] = m
        <5>1. Address(n) = Address(m) => n = m \/ n.created_at < m.created_at
          BY <2>1, <2>4
        <5>2. QED
          BY <1>1, <2>2, <4>1, <4>2, <5>1
      <4>3. CASE ~(n.blob = m.blob /\ binding'[m.blob] = m)
        <5>1. binding'[n.blob] = binding[n.blob]
          BY <1>1, <2>1, <2>2, <4>1, <4>3 DEF TypeOK, Bound
        <5>2. CASE n \in snapshots
          BY <1>1, <5>1, <5>2 DEF IndexesAgree, FrozenIsNewest
        <5>3. CASE n = m
          <6>1. binding[m.blob] # None /\ Address(binding[m.blob]) # Address(m)
            BY <1>1, <2>1, <2>2, <4>3, <5>3 DEF TypeOK, Bound
          <6>2. QED
            BY <5>1, <5>3, <6>1
        <5>4. QED
          BY <2>1, <5>2, <5>3
      <4>4. QED
        BY <4>2, <4>3
    <3>3. QED
      BY <3>1, <3>2 DEF FrozenIsNewest, Address
  <2>7. TypeOK'
    BY <1>1, <1>2, <1>4, <2>3 DEF TypeOK, r2
  <2>8. QED
    BY <1>4, <1>5, <2>5, <2>6, <2>7 DEF IInv, IndexesAgree
<1>8. QED
  BY <1>6, <1>7

LEMMA PublishInv ==
  ASSUME IInv, NEW s \in Slots, Publish(s)
  PROVE  IInv'
<1>1. TypeOK /\ req[s] \in Request /\ RequestOK(req[s]) /\ req[s].gone \subseteq Withdrawn
  BY RequestKnown DEF IInv
<1>2. ASSUME NEW m \in Manifests, PublishManifest(s, m) PROVE IInv'
  <2> DEFINE r == [Idle EXCEPT !.pc = "check", !.manifest = m]
  <2>1. r \in Request /\ RequestOK(r) /\ r.gone = {}
    BY DEF Idle, Request, Pcs, RequestOK, LocalsSet, TagsOwned, GonePassed
  <2>2. calls' \in [upload : 0..MaxUploads, publish : 0..MaxPublishes,
                    revoke : 0..MaxRevokes, lost : 0..MaxLost]
    BY <1>1, <1>2, CallsStep DEF PublishManifest
  <2> HIDE DEF r
  <2>3. QED
    BY <1>1, <1>2, <2>1, <2>2, QuietStep DEF PublishManifest, r, r2, TypeOK
<1>3. CASE CheckUploader(s)
  <2> DEFINE r == [req[s] EXCEPT !.pc = "store"]
  <2>1. r \in Request /\ RequestOK(r) /\ r.gone = req[s].gone
    BY <1>1, <1>3
    DEF CheckUploader, At, Request, Pcs, RequestOK, LocalsSet, TagsOwned, GonePassed
  <2>2. QED
    BY <1>1, <1>3, <2>1, AnswerStep, ReadStep DEF CheckUploader
<1>4. CASE StoreManifest(s)
  BY <1>4, StoreManifestInv
<1>5. QED
  BY <1>2, <1>3, <1>4 DEF Publish

-----------------------------------------------------------------------------
(* Withdrawing.                                                            *)

\* What StoreRevocation does to the revocation keys.
LEMMA RevocationStored ==
  ASSUME IInv, NEW s \in Slots, StoreRevocation(s)
  PROVE  /\ rev \subseteq rev' /\ rev' \subseteq Manifests
         /\ revaddr' \in [Addresses -> Times \cup {None}]
         /\ \A a \in Addresses : revaddr[a] # None =>
               revaddr'[a] # None /\ revaddr'[a] >= revaddr[a]
         /\ \A a \in Addresses : revaddr'[a] # revaddr[a] => <<"a", a>> \in req[s].resolved
         /\ \A t \in req[s].resolved :
               \/ t[1] = "e" /\ t[2] \in rev'
               \/ /\ t[1] = "a"
                  /\ revaddr'[t[2]] # None
                  /\ revaddr'[t[2]] >= req[s].at
         /\ Withdrawn \subseteq Withdrawn'
<1> DEFINE at == req[s].at
           newer(a) == revaddr[a] = None \/ revaddr[a] < at
<1>1. /\ TypeOK /\ at \in Times /\ at \in Nat
      /\ req[s].resolved \subseteq Tags
      /\ TagsOwned(req[s]) /\ req[s].pc = "resolve"
  BY RequestKnown DEF IInv, StoreRevocation, At, RequestOK, LocalsSet, Request
<1>2. /\ rev' = rev \cup {m \in Manifests : <<"e", m>> \in req[s].resolved}
      /\ revaddr' = [a \in Addresses |->
            IF <<"a", a>> \in req[s].resolved /\ newer(a) THEN at ELSE revaddr[a]]
  BY DEF StoreRevocation
<1>3. rev \subseteq rev' /\ rev' \subseteq Manifests
  BY <1>1, <1>2 DEF TypeOK
<1>4. revaddr' \in [Addresses -> Times \cup {None}]
  BY <1>1, <1>2 DEF TypeOK
<1>5. \A a \in Addresses : revaddr[a] # None => revaddr[a] \in Nat
  BY <1>1 DEF TypeOK
<1>6. \A a \in Addresses : revaddr[a] # None =>
         revaddr'[a] # None /\ revaddr'[a] >= revaddr[a]
  BY <1>1, <1>2, <1>5
<1>7. \A a \in Addresses : revaddr'[a] # revaddr[a] => <<"a", a>> \in req[s].resolved
  BY <1>2
<1>8. \A t \in req[s].resolved :
         \/ t[1] = "e" /\ t[2] \in rev'
         \/ t[1] = "a" /\ revaddr'[t[2]] # None /\ revaddr'[t[2]] >= at
  <2> SUFFICES ASSUME NEW t \in req[s].resolved
               PROVE  \/ t[1] = "e" /\ t[2] \in rev'
                      \/ t[1] = "a" /\ revaddr'[t[2]] # None /\ revaddr'[t[2]] >= at
    OBVIOUS
  <2>1. CASE t \in {"e"} \X Manifests
    BY <1>2, <2>1
  <2>2. CASE t \in {"a"} \X Addresses
    <3>1. t[1] = "a" /\ t[2] \in Addresses /\ t = <<"a", t[2]>>
      BY <2>2
    <3>2. revaddr'[t[2]] = IF newer(t[2]) THEN at ELSE revaddr[t[2]]
      BY <1>2, <3>1
    <3>3. QED
      BY <1>1, <1>5, <3>1, <3>2
  <2>3. QED
    BY <1>1, <2>1, <2>2 DEF Tags
<1>9. Withdrawn \subseteq Withdrawn'
  <2> SUFFICES ASSUME NEW m \in Manifests, Revoked(m)
               PROVE  Revoked(m)'
    BY DEF Withdrawn
  <2>1. Address(m) \in Addresses /\ m.created_at \in Nat
    BY DEF Manifests, Address, Addresses
  <2>2. CASE m \in rev
    BY <1>3, <2>2 DEF Revoked
  <2>3. CASE revaddr[Address(m)] # None /\ m.created_at <= revaddr[Address(m)]
    <3>1. revaddr[Address(m)] \in Nat /\ revaddr'[Address(m)] \in Nat
      BY <1>1, <1>4, <1>6, <2>1, <2>3 DEF TypeOK
    <3>2. QED
      BY <1>6, <2>1, <2>3, <3>1 DEF Revoked, Address
  <2>4. QED
    BY <2>2, <2>3 DEF Revoked
<1>10. QED
  BY <1>3, <1>4, <1>6, <1>7, <1>8, <1>9

LEMMA StoreRevocationInv ==
  ASSUME IInv, NEW s \in Slots, StoreRevocation(s)
  PROVE  IInv'
<1>1. TypeOK /\ RequestsInv
  BY DEF IInv
<1>2. /\ UNCHANGED <<r2, latest, snapshots, binding, calls>> /\ Answer(s)
      /\ acked' = acked \cup (req[s].resolved \X {req[s].at})
  BY DEF StoreRevocation
<1>3. req[s].resolved \subseteq Tags /\ req[s].at \in Times
  BY RequestKnown DEF StoreRevocation, At, Request, RequestOK, LocalsSet
<1>4. req' \in [Slots -> Request] /\ RequestsInv'
  BY <1>1, <1>2, IdleType, RequestStep, RevocationStored DEF Answer
<1>5. TypeOK'
  <2>1. acked' \subseteq Tags \X Times
    BY <1>1, <1>2, <1>3 DEF TypeOK
  <2>2. QED
    BY <1>1, <1>2, <1>4, <2>1, RevocationStored DEF TypeOK, r2
<1>6. IndexesAgree'
  BY <1>2 DEF IInv, IndexesAgree, LatestIsNewest, FrozenIsNewest
<1>7. AckedStored'
  <2> SUFFICES ASSUME NEW r \in acked'
               PROVE  \/ r[1][1] = "e" /\ r[1][2] \in rev'
                      \/ /\ r[1][1] = "a"
                         /\ revaddr'[r[1][2]] # None
                         /\ r[2] <= revaddr'[r[1][2]]
    BY DEF AckedStored
  <2>1. CASE r \in acked
    <3>1. r[1] \in Tags /\ r[2] \in Nat
      BY <1>1, <2>1 DEF TypeOK
    <3>2. CASE r[1][1] = "e" /\ r[1][2] \in rev
      BY <3>2, RevocationStored
    <3>3. CASE r[1][1] = "a" /\ revaddr[r[1][2]] # None /\ r[2] <= revaddr[r[1][2]]
      <4>1. r[1][2] \in Addresses
        BY <3>1, <3>3 DEF Tags
      <4>2. /\ revaddr'[r[1][2]] # None /\ revaddr'[r[1][2]] >= revaddr[r[1][2]]
            /\ revaddr[r[1][2]] \in Nat /\ revaddr'[r[1][2]] \in Nat
        <5>1. \A a \in Addresses : revaddr[a] # None =>
                 revaddr'[a] # None /\ revaddr'[a] >= revaddr[a]
          BY RevocationStored
        <5>2. /\ revaddr \in [Addresses -> Times \cup {None}]
              /\ revaddr' \in [Addresses -> Times \cup {None}]
          BY <1>1, <1>5 DEF TypeOK
        <5>3. QED
          BY <3>3, <4>1, <5>1, <5>2
      <4>3. QED
        BY <3>1, <3>3, <4>2
    <3>4. QED
      BY <2>1, <3>2, <3>3 DEF IInv, AckedStored
  <2>2. CASE r \in req[s].resolved \X {req[s].at}
    <3>1. r[1] \in req[s].resolved /\ r[2] = req[s].at /\ r[2] \in Nat /\ r[1] \in Tags
      BY <1>3, <2>2
    <3>2. CASE r[1][1] = "e" /\ r[1][2] \in rev'
      BY <3>2
    <3>3. CASE r[1][1] = "a" /\ revaddr'[r[1][2]] # None /\ revaddr'[r[1][2]] >= req[s].at
      <4>1. r[1][2] \in Addresses
        BY <3>1, <3>3 DEF Tags
      <4>2. revaddr'[r[1][2]] \in Nat
        BY <1>5, <3>3, <4>1 DEF TypeOK
      <4>3. QED
        BY <3>1, <3>3, <4>2
    <3>4. QED
      BY <3>1, <3>2, <3>3, RevocationStored
  <2>3. QED
    BY <1>2, <2>1, <2>2
<1>8. QED
  BY <1>4, <1>5, <1>6, <1>7 DEF IInv

LEMMA WithdrawInv ==
  ASSUME IInv, NEW s \in Slots, Withdraw(s)
  PROVE  IInv'
<1>1. TypeOK /\ req[s] \in Request /\ RequestOK(req[s]) /\ req[s].gone \subseteq Withdrawn
  BY RequestKnown DEF IInv
<1>2. ASSUME NEW k \in Pubkeys, NEW tags \in RevokeTags, NEW at \in Times,
             Revoke(s, k, tags, at)
      PROVE  IInv'
  <2> DEFINE r == [Idle EXCEPT !.pc = "resolve", !.key = k, !.tags = tags, !.at = at]
  <2>1. r \in Request /\ RequestOK(r) /\ r.gone = {}
    BY DEF Idle, Request, Pcs, RequestOK, LocalsSet, TagsOwned, GonePassed
  <2>2. calls' \in [upload : 0..MaxUploads, publish : 0..MaxPublishes,
                    revoke : 0..MaxRevokes, lost : 0..MaxLost]
    BY <1>1, <1>2, CallsStep DEF Revoke
  <2> HIDE DEF r
  <2>3. QED
    BY <1>1, <1>2, <2>1, <2>2, QuietStep DEF Revoke, r, r2, TypeOK
<1>3. CASE ResolveTag(s)
  <2>1. PICK tag \in req[s].tags :
          Become(s, [req[s] EXCEPT
               !.tags = @ \ {tag},
               !.resolved = IF Resolves(tag, req[s].key) THEN @ \cup {tag} ELSE @])
    BY <1>3 DEF ResolveTag
  <2> DEFINE kept == IF Resolves(tag, req[s].key) THEN req[s].resolved \cup {tag}
                     ELSE req[s].resolved
             r == [req[s] EXCEPT !.tags = @ \ {tag}, !.resolved = kept]
  <2>2. tag \in Tags /\ req[s].pc = "resolve"
    BY <1>1, <1>3 DEF Request, ResolveTag, At
  <2>3. kept \subseteq Tags
    BY <1>1, <2>2 DEF Request
  <2>4. \A t \in kept : \/ t[1] = "e" /\ t[2].pubkey = req[s].key
                        \/ t[1] = "a" /\ t[2][1] = req[s].key
    BY <1>1, <2>2 DEF Resolves, RequestOK, TagsOwned
  <2>5. Become(s, r)
    <3>1. r = [req[s] EXCEPT
               !.tags = @ \ {tag},
               !.resolved = IF Resolves(tag, req[s].key) THEN @ \cup {tag} ELSE @]
      <4> HIDE DEF Resolves
      <4>1. QED
        BY <1>1 DEF Request
    <3>2. QED
      BY <2>1, <3>1
  <2> HIDE DEF kept
  <2>6. r \in Request /\ r.gone = req[s].gone
    BY <1>1, <2>3 DEF Request
  <2>7. RequestOK(r)
    BY <1>1, <2>2, <2>4 DEF Request, RequestOK, LocalsSet, TagsOwned, GonePassed
  <2> HIDE DEF r
  <2>8. QED
    BY <1>1, <1>3, <2>5, <2>6, <2>7, ReadStep DEF ResolveTag
<1>4. CASE StoreRevocation(s)
  BY <1>4, StoreRevocationInv
<1>5. QED
  BY <1>2, <1>3, <1>4 DEF Withdraw

-----------------------------------------------------------------------------
(* Rendering.                                                              *)

\* What the acknowledgements cover is revoked.
LEMMA GoneIsWithdrawn ==
  ASSUME IInv
  PROVE  Gone \subseteq Withdrawn
<1> SUFFICES ASSUME NEW m \in Manifests, NEW r \in acked,
                    \/ r[1] = <<"e", m>>
                    \/ r[1] = <<"a", Address(m)>> /\ m.created_at <= r[2]
             PROVE  Revoked(m)
  BY DEF Gone, Withdrawn
<1>1. r[2] \in Nat /\ m.created_at \in Nat /\ Address(m) \in Addresses /\ TypeOK
  BY DEF IInv, TypeOK, Manifests, Addresses, Address
<1>2. CASE r[1] = <<"e", m>>
  BY <1>2 DEF IInv, AckedStored, Revoked
<1>3. CASE r[1] = <<"a", Address(m)>> /\ m.created_at <= r[2]
  <2>1. revaddr[Address(m)] # None /\ r[2] <= revaddr[Address(m)]
    BY <1>3 DEF IInv, AckedStored
  <2>2. revaddr[Address(m)] \in Nat
    BY <1>1, <2>1 DEF TypeOK
  <2>3. QED
    BY <1>1, <1>3, <2>1, <2>2 DEF Revoked
<1>4. QED
  BY <1>2, <1>3

LEMMA RenderInv ==
  ASSUME IInv, NEW s \in Slots, Render(s)
  PROVE  IInv'
<1>1. TypeOK /\ req[s] \in Request /\ RequestOK(req[s]) /\ req[s].gone \subseteq Withdrawn
  BY RequestKnown DEF IInv
<1>2. Gone \subseteq Manifests /\ Gone \subseteq Withdrawn
  BY GoneIsWithdrawn DEF Gone
<1>3. ASSUME NEW b \in Blobs, RenderFrozen(s, b) PROVE IInv'
  <2> DEFINE g == Gone
             r == [Idle EXCEPT !.pc = "frozen", !.blob = b, !.gone = g]
  <2>1. Become(s, r) /\ UNCHANGED <<r2, store, calls>>
    BY <1>3 DEF RenderFrozen
  <2> HIDE DEF g
  <2>2. r \in Request /\ RequestOK(r) /\ r.gone = g
    BY <1>2 DEF Idle, Request, Pcs, RequestOK, LocalsSet, TagsOwned, GonePassed, g
  <2> HIDE DEF r
  <2>3. QED
    BY <1>2, <2>1, <2>2, ReadStep DEF g
<1>4. ASSUME NEW a \in Addresses, RenderLatest(s, a) PROVE IInv'
  <2> DEFINE g == Gone
             r == [Idle EXCEPT !.pc = "latest", !.address = a, !.gone = g]
  <2>1. Become(s, r) /\ UNCHANGED <<r2, store, calls>>
    BY <1>4 DEF RenderLatest
  <2> HIDE DEF g
  <2>2. r \in Request /\ RequestOK(r) /\ r.gone = g
    BY <1>2 DEF Idle, Request, Pcs, RequestOK, LocalsSet, TagsOwned, GonePassed, g
  <2> HIDE DEF r
  <2>3. QED
    BY <1>2, <2>1, <2>2, ReadStep DEF g
<1>5. CASE ReadBinding(s)
  <2> DEFINE r == [req[s] EXCEPT !.pc = "snapshot", !.manifest = binding[req[s].blob]]
  <2>1. CASE binding[req[s].blob] # None
    <3>1. binding[req[s].blob] \in Manifests /\ req[s].pc = "frozen"
      BY <1>1, <1>5, <2>1 DEF ReadBinding, At, RequestOK, LocalsSet, TypeOK
    <3>2. r \in Request /\ RequestOK(r) /\ r.gone = req[s].gone
      BY <1>1, <3>1 DEF Request, Pcs, RequestOK, LocalsSet, TagsOwned, GonePassed
    <3>3. QED
      BY <1>1, <1>5, <2>1, <3>2, ReadStep DEF ReadBinding
  <2>2. QED
    BY <1>5, <2>1, AnswerStep DEF ReadBinding
<1>6. CASE ReadSnapshot(s)
  <2> DEFINE r == [req[s] EXCEPT !.pc = "revoked?"]
  <2>1. r \in Request /\ RequestOK(r) /\ r.gone = req[s].gone
    BY <1>1, <1>6
    DEF ReadSnapshot, At, Request, Pcs, RequestOK, LocalsSet, TagsOwned, GonePassed
  <2>2. QED
    BY <1>1, <1>6, <2>1, AnswerStep, ReadStep DEF ReadSnapshot
<1>7. CASE ReadLatest(s)
  <2> DEFINE m == latest[req[s].address]
             r == [req[s] EXCEPT !.pc = "revoked?", !.manifest = m, !.blob = m.blob,
                                 !.address = None]
  <2>1. CASE m # None
    <3>1. m \in Manifests /\ m.blob \in Blobs
      BY <1>1, <1>7, <2>1 DEF ReadLatest, At, RequestOK, LocalsSet, TypeOK, Manifests
    <3>2. Become(s, r) /\ UNCHANGED <<r2, store, calls>>
      BY <1>7, <2>1 DEF ReadLatest
    <3> HIDE DEF m
    <3>3. r \in Request /\ RequestOK(r) /\ r.gone = req[s].gone
      BY <1>1, <3>1 DEF Request, Pcs, RequestOK, LocalsSet, TagsOwned, GonePassed
    <3>4. QED
      BY <1>1, <3>2, <3>3, ReadStep
  <2>2. QED
    BY <1>7, <2>1, AnswerStep DEF ReadLatest
<1>8. CASE CheckRevocation(s)
  <2> DEFINE r == [req[s] EXCEPT !.pc = "blob?"]
  <2>1. CASE ~Revoked(req[s].manifest)
    <3>1. req[s].manifest \notin req[s].gone /\ req[s].pc = "revoked?"
      BY <1>1, <1>8, <2>1 DEF CheckRevocation, At, Withdrawn
    <3>2. r \in Request /\ RequestOK(r) /\ r.gone = req[s].gone
      BY <1>1, <3>1 DEF Request, Pcs, RequestOK, LocalsSet, TagsOwned, GonePassed
    <3>3. QED
      BY <1>1, <1>8, <2>1, <3>2, ReadStep DEF CheckRevocation
  <2>2. QED
    BY <1>8, <2>1, AnswerStep DEF CheckRevocation
<1>9. CASE CheckBlob(s)
  <2> DEFINE r == [req[s] EXCEPT !.pc = "shown"]
  <2>1. r \in Request /\ RequestOK(r) /\ r.gone = req[s].gone
    BY <1>1, <1>9
    DEF CheckBlob, At, Request, Pcs, RequestOK, LocalsSet, TagsOwned, GonePassed
  <2>2. QED
    BY <1>1, <1>9, <2>1, AnswerStep, ReadStep DEF CheckBlob
<1>10. CASE Shown(s)
  BY <1>10, AnswerStep DEF Shown
<1>11. QED
  BY <1>3, <1>4, <1>5, <1>6, <1>7, <1>8, <1>9, <1>10 DEF Render

-----------------------------------------------------------------------------
(* The theorems.                                                           *)

LEMMA InitInv == Init => IInv
<1> SUFFICES ASSUME Init PROVE IInv
  OBVIOUS
<1>1. TypeOK
  <2>1. req \in [Slots -> Request]
    BY IdleType DEF Init
  <2>2. calls \in [upload : 0..MaxUploads, publish : 0..MaxPublishes,
                   revoke : 0..MaxRevokes, lost : 0..MaxLost]
    BY DEF Init
  <2>3. QED
    BY <2>1, <2>2 DEF Init, TypeOK
<1>2. IndexesAgree
  BY DEF Init, IndexesAgree, LatestIsNewest, FrozenIsNewest
<1>3. RequestsInv
  BY IdleType DEF Init, RequestsInv
<1>4. AckedStored
  BY DEF Init, AckedStored
<1>5. QED
  BY <1>1, <1>2, <1>3, <1>4 DEF IInv

LEMMA NextInv == IInv /\ [Next]_vars => IInv'
<1> SUFFICES ASSUME IInv, [Next]_vars PROVE IInv'
  OBVIOUS
<1>1. ASSUME NEW s \in Slots, Upload(s) PROVE IInv'
  BY <1>1, UploadInv
<1>2. ASSUME NEW s \in Slots, Publish(s) PROVE IInv'
  BY <1>2, PublishInv
<1>3. ASSUME NEW s \in Slots, Withdraw(s) PROVE IInv'
  BY <1>3, WithdrawInv
<1>4. ASSUME NEW s \in Slots, Render(s) PROVE IInv'
  BY <1>4, RenderInv
<1>5. ASSUME NEW s \in Slots, Lose(s) PROVE IInv'
  <2>1. calls' \in [upload : 0..MaxUploads, publish : 0..MaxPublishes,
                    revoke : 0..MaxRevokes, lost : 0..MaxLost]
    BY <1>5, CallsStep DEF Lose, IInv
  <2>2. behind' \in [Slots -> Nat] /\ forgone' \in [Pubkeys -> Nat]
    <3>1. behind \in [Slots -> Nat] /\ forgone \in [Pubkeys -> Nat]
      BY DEF IInv, TypeOK
    <3>2. At(s, "charge") => req[s].key \in Pubkeys /\ forgone[req[s].key] + 1 \in Nat
      BY <3>1, RequestKnown DEF At, RequestOK, LocalsSet
    <3>3. /\ behind' = [behind EXCEPT ![s] = 0]
          /\ forgone' = IF At(s, "charge") THEN [forgone EXCEPT ![req[s].key] = @ + 1] ELSE forgone
      BY <1>5 DEF Lose
    <3>4. QED
      BY <3>1, <3>2, <3>3
  <2>3. QED
    BY <1>5, <2>1, <2>2, QuietStep, IdleType DEF Lose, Answer, IInv, TypeOK
<1>6. CASE UNCHANGED vars
  BY <1>6 DEF IInv, TypeOK, IndexesAgree, LatestIsNewest, FrozenIsNewest, RequestsInv,
     Withdrawn, Revoked, AckedStored, vars
<1>7. QED
  BY <1>1, <1>2, <1>3, <1>4, <1>5, <1>6 DEF Next

LEMMA InvAlways == Spec => []IInv
  BY InitInv, NextInv, PTL DEF Spec

\* However requests interleave, no key holds anything but what its reader
\* expects and no request goes on without the locals it needs.
THEOREM TypeCorrect == Spec => []TypeOK
<1>1. IInv => TypeOK
  BY DEF IInv
<1>2. QED
  BY <1>1, InvAlways, PTL

\* storeArtifactManifest keeps the latest, snapshot and binding keys in step:
\* each URL shows the newest version it may show, in whatever order manifests
\* of whatever addresses and blobs arrive.
THEOREM IndexesAlwaysAgree == Spec => []IndexesAgree
<1>1. IInv => IndexesAgree
  BY DEF IInv
<1>2. QED
  BY <1>1, InvAlways, PTL

\* No render started after a revoke call was answered shows what it covers,
\* although the render reads binding, snapshot and revocation one at a time.
THEOREM RevokedNeverRendered == Spec => []NoRevokedRender
<1>1. IInv => NoRevokedRender
  BY DEF IInv, RequestsInv, RequestOK, GonePassed, NoRevokedRender, At
<1>2. QED
  BY <1>1, InvAlways, PTL

-----------------------------------------------------------------------------
(* Refinement.                                                             *)

\* A manifest that is stored is published in the ledger: it is the newest of
\* its address, and the frozen URL keeps its owner.
LEMMA StoreIsPublish ==
  ASSUME IInv, NEW s \in Slots, StoreManifest(s)
  PROVE  [Ledger!Next]_(Ledger!vars)
<1>0. PICK m \in Manifests : m = req[s].manifest
  BY RequestKnown DEF StoreManifest, At, RequestOK, LocalsSet
<1> DEFINE owner == [b \in Blobs |-> IF binding[b] = None THEN None ELSE Address(binding[b])]
<1>1. TypeOK /\ IndexesAgree
  BY DEF IInv
<1>2. Address(m) \in Addresses /\ m.blob \in Blobs /\ m.created_at \in Nat
  BY <1>1 DEF Manifests, Addresses, Address
<1>3. CASE Superseded(m)
  BY <1>0, <1>3 DEF StoreManifest, store, Ledger!vars, Revoked
<1>4. CASE ~Superseded(m)
  <2>1. /\ snapshots' = snapshots \cup {m} /\ binding' = Bound(m)
        /\ UNCHANGED <<rev, revaddr>>
    BY <1>0, <1>4 DEF StoreManifest
  <2>2. ASSUME NEW n \in snapshots, Address(n) = Address(m)
        PROVE  n.created_at < m.created_at
    <3>1. latest[Address(m)] # None /\ latest[Address(m)].created_at >= n.created_at
      BY <1>1, <2>2 DEF IndexesAgree, LatestIsNewest
    <3>2. /\ latest[Address(m)].created_at \in Nat /\ n.created_at \in Nat
          /\ ~(latest[Address(m)].created_at >= m.created_at)
      BY <1>1, <1>2, <1>4, <3>1 DEF Superseded, TypeOK, Manifests
    <3>3. QED
      BY <1>2, <3>1, <3>2
  <2>3. owner' = [owner EXCEPT ![m.blob] = IF @ = None THEN Address(m) ELSE @]
    <3> SUFFICES ASSUME NEW b \in Blobs
                 PROVE  owner'[b] = [owner EXCEPT ![m.blob] =
                                        IF @ = None THEN Address(m) ELSE @][b]
      BY DEF Address
    <3>1. \A n \in Manifests : Address(n) # None
      BY DEF Address, Manifests
    <3>2. CASE b = m.blob
      BY <1>1, <1>2, <2>1, <3>1, <3>2 DEF TypeOK, Bound, Address
    <3>3. CASE b # m.blob
      BY <1>1, <1>2, <2>1, <3>3 DEF TypeOK, Bound, Address
    <3>4. QED
      BY <3>2, <3>3
  <2>4. UNCHANGED {n \in Manifests : Revoked(n)}
    BY <2>1 DEF Revoked
  <2>5. Ledger!Publish(m)
    BY <2>1, <2>2, <2>3, <2>4 DEF Ledger!Publish, Ledger!Address, Address
  <2>6. QED
    BY <2>5 DEF Ledger!Next
<1>5. QED
  BY <1>3, <1>4

\* A revocation that is stored withdraws manifests of its signer only.
LEMMA RevocationIsWithdraw ==
  ASSUME IInv, NEW s \in Slots, StoreRevocation(s)
  PROVE  [Ledger!Next]_(Ledger!vars)
<1> DEFINE k == req[s].key
<1>1. /\ Withdrawn \subseteq Withdrawn'
      /\ \A a \in Addresses : revaddr'[a] # revaddr[a] => <<"a", a>> \in req[s].resolved
      /\ rev' = rev \cup {m \in Manifests : <<"e", m>> \in req[s].resolved}
      /\ UNCHANGED <<snapshots, binding>>
  BY RevocationStored DEF StoreRevocation
<1>2. \A t \in req[s].resolved : \/ t[1] = "e" /\ t[2].pubkey = k
                                 \/ t[1] = "a" /\ t[2][1] = k
  BY RequestKnown DEF StoreRevocation, At, RequestOK, TagsOwned
<1>3. ASSUME NEW m \in Withdrawn' \ Withdrawn PROVE m \in Manifests /\ m.pubkey = k
  <2>1. m \in Manifests /\ Address(m) \in Addresses /\ Address(m)[1] = m.pubkey
    BY DEF Withdrawn, Manifests, Addresses, Address
  <2>2. CASE m \in rev' \ rev
    <3>1. <<"e", m>> \in req[s].resolved
      BY <1>1, <2>2
    <3>2. QED
      BY <1>2, <2>1, <3>1
  <2>3. CASE revaddr'[Address(m)] # revaddr[Address(m)]
    <3>1. <<"a", Address(m)>> \in req[s].resolved
      BY <1>1, <2>1, <2>3
    <3>2. QED
      BY <1>2, <2>1, <3>1
  <2>4. QED
    BY <1>3, <2>1, <2>2, <2>3 DEF Withdrawn, Revoked, Address
<1>4. CASE Withdrawn' = Withdrawn
  BY <1>1, <1>4 DEF Ledger!vars, Withdrawn
<1>5. CASE Withdrawn' # Withdrawn
  <2>1. PICK m \in Manifests : m.pubkey = k
    BY <1>1, <1>3, <1>5
  <2>2. Ledger!Withdraw(m.pubkey)
    BY <1>1, <1>3, <2>1 DEF Ledger!Withdraw, Withdrawn
  <2>3. QED
    BY <2>2 DEF Ledger!Next
<1>6. QED
  BY <1>4, <1>5

\* Every other step leaves what the ledger is made of alone.
LEMMA NextIsLedger == IInv /\ [Next]_vars => [Ledger!Next]_(Ledger!vars)
<1> SUFFICES ASSUME IInv, [Next]_vars PROVE [Ledger!Next]_(Ledger!vars)
  OBVIOUS
<1>1. ASSUME NEW s \in Slots, StoreManifest(s) PROVE [Ledger!Next]_(Ledger!vars)
  BY <1>1, StoreIsPublish
<1>2. ASSUME NEW s \in Slots, StoreRevocation(s) PROVE [Ledger!Next]_(Ledger!vars)
  BY <1>2, RevocationIsWithdraw
<1>3. CASE UNCHANGED <<snapshots, binding, rev, revaddr>>
  BY <1>3 DEF Ledger!vars, Revoked
<1>4. ASSUME NEW s \in Slots, Upload(s) \/ Lose(s) \/ Render(s)
      PROVE  UNCHANGED <<snapshots, binding, rev, revaddr>>
  BY <1>4 DEF Upload, BlossomUpload, AvatarUpload, UploadHead, ReadQuota, PutBlob,
     WriteQuota, Lose, Render, RenderFrozen, RenderLatest, ReadBinding, ReadSnapshot,
     ReadLatest, CheckRevocation, CheckBlob, Shown, store
<1>5. ASSUME NEW s \in Slots, Publish(s), ~StoreManifest(s)
      PROVE  UNCHANGED <<snapshots, binding, rev, revaddr>>
  BY <1>5 DEF Publish, PublishManifest, CheckUploader, store
<1>6. ASSUME NEW s \in Slots, Withdraw(s), ~StoreRevocation(s)
      PROVE  UNCHANGED <<snapshots, binding, rev, revaddr>>
  BY <1>6 DEF Withdraw, Revoke, ResolveTag, store
<1>7. QED
  BY <1>1, <1>2, <1>3, <1>4, <1>5, <1>6 DEF Next, vars

\* The keys of the RelayPool implement the append-only ledger.
THEOREM ImplementsLedger == Spec => RefinesLedger
<1>1. Init => Ledger!Init
  BY DEF Init, Ledger!Init, Revoked, Manifests, Addresses, Address
<1>2. QED
  BY <1>1, InvAlways, NextIsLedger, PTL DEF Spec, RefinesLedger, Ledger!Spec

-----------------------------------------------------------------------------
(* Quotas, however many uploads a key has at a time.                       *)

UploadPcs == {"head", "quota", "put", "charge"}

Held(k) == {b \in Blobs : blobs[b] = k}
Pending(k) == {s \in Slots : At(s, "charge") /\ req[s].key = k}

\* A record of n covers the blobs of the key.
Covered(k, n) == Cardinality(Held(k)) <= n + Cardinality(Pending(k)) + forgone[k]

Paid(k) ==
    /\ IsFiniteSet(Held(k)) /\ IsFiniteSet(Pending(k))
    /\ Covered(k, quota[k])
    /\ quota[k] <= Quota

\* What an upload read, with the charges written since, covers them as well,
\* and has room for one more.
Fits(s) ==
    At(s, "put") \/ At(s, "charge") =>
        /\ Covered(req[s].key, req[s].used + behind[s])
        /\ req[s].used + 1 <= Quota

QuotaInv == (\A k \in Pubkeys : Paid(k)) /\ \A s \in Slots : Fits(s)

LEMMA OtherSlots ==
  ASSUME IInv, NEW s \in Slots, NEW r, Become(s, r)
  PROVE  req'[s] = r /\ \A t \in Slots : t # s => req'[t] = req[t]
  BY DEF Become, IInv, TypeOK

\* A request starts or stops waiting to write its charge, or neither.
LEMMA PendingChange ==
  ASSUME IInv, NEW k \in Pubkeys, IsFiniteSet(Pending(k)), NEW s \in Slots, NEW r, Become(s, r),
         NEW was \in {0, 1}, NEW is \in {0, 1},
         was = 1 <=> At(s, "charge") /\ req[s].key = k,
         is = 1 <=> r.pc = "charge" /\ r.key = k
  PROVE  /\ IsFiniteSet(Pending(k)')
         /\ Cardinality(Pending(k)) \in Nat /\ Cardinality(Pending(k)') \in Nat
         /\ Cardinality(Pending(k)') + was = Cardinality(Pending(k)) + is
<1>1. req'[s] = r /\ \A t \in Slots : t # s => req'[t] = req[t]
  BY OtherSlots
<1>2. (was = 1 <=> s \in Pending(k)) /\ (is = 1 <=> s \in Pending(k)')
  BY <1>1 DEF Pending, At
<1>3. Cardinality(Pending(k)) \in Nat
  BY FS_CardinalityType
<1>4. CASE was = is
  <2>1. Pending(k)' = Pending(k)
    BY <1>1, <1>2, <1>4 DEF Pending, At
  <2>2. QED
    BY <1>3, <1>4, <2>1
<1>5. CASE was = 0 /\ is = 1
  <2>1. Pending(k)' = Pending(k) \cup {s} /\ s \notin Pending(k)
    BY <1>1, <1>2, <1>5 DEF Pending, At
  <2>2. IsFiniteSet(Pending(k) \cup {s}) /\ Cardinality(Pending(k) \cup {s}) = Cardinality(Pending(k)) + 1
    BY <2>1, FS_AddElement
  <2>3. QED
    BY <1>3, <1>5, <2>1, <2>2
<1>6. CASE was = 1 /\ is = 0
  <2>1. Pending(k)' = Pending(k) \ {s} /\ s \in Pending(k)
    BY <1>1, <1>2, <1>6 DEF Pending, At
  <2>2. IsFiniteSet(Pending(k) \ {s}) /\ Cardinality(Pending(k) \ {s}) = Cardinality(Pending(k)) - 1
    BY <2>1, FS_RemoveElement
  <2>3. Cardinality(Pending(k) \ {s}) \in Nat
    BY <2>2, FS_CardinalityType
  <2>4. QED
    BY <1>3, <1>6, <2>1, <2>2, <2>3
<1>7. QED
  BY <1>4, <1>5, <1>6

\* What a key holds and is charged, as numbers.
LEMMA QuotaNumbers ==
  ASSUME IInv, QuotaInv, NEW k \in Pubkeys
  PROVE  /\ IsFiniteSet(Held(k)) /\ IsFiniteSet(Pending(k))
         /\ Cardinality(Held(k)) \in Nat /\ Cardinality(Pending(k)) \in Nat
         /\ quota[k] \in Nat /\ forgone[k] \in Nat /\ \A s \in Slots : behind[s] \in Nat
  BY FS_CardinalityType DEF IInv, TypeOK, QuotaInv, Paid

\* An upload on its way, with its locals.
LEMMA FitsKnown ==
  ASSUME IInv, QuotaInv, NEW s \in Slots, At(s, "put") \/ At(s, "charge")
  PROVE  /\ req[s].key \in Pubkeys /\ req[s].blob \in Blobs /\ req[s].used \in Nat
         /\ behind[s] \in Nat
         /\ Covered(req[s].key, req[s].used + behind[s]) /\ req[s].used + 1 <= Quota
<1>1. req[s].key \in Pubkeys /\ req[s].blob \in Blobs
  BY RequestKnown DEF At, RequestOK, LocalsSet
<1>2. req[s].used \in Nat /\ behind[s] \in Nat
  BY DEF IInv, TypeOK, Request
<1>3. QED
  BY <1>1, <1>2 DEF QuotaInv, Fits

\* A step that moves no blob and no charge, and makes no request start or stop
\* waiting to write its charge.
LEMMA QuietPaid ==
  ASSUME IInv, QuotaInv, NEW s \in Slots, NEW r, Become(s, r), UNCHANGED r2,
         ~At(s, "charge"), r.pc # "charge",
         r.pc = "put" => r.key \in Pubkeys /\ r.used = quota[r.key] /\ r.used + 1 <= Quota
  PROVE  QuotaInv'
<1>1. req'[s] = r /\ \A t \in Slots : t # s => req'[t] = req[t]
  BY OtherSlots
<1>2. \A k \in Pubkeys : Pending(k)' = Pending(k) /\ Held(k)' = Held(k)
  BY <1>1 DEF Pending, Held, At, r2
<1>3. UNCHANGED <<quota, behind, forgone>>
  BY DEF r2
<1>4. \A k \in Pubkeys : Paid(k)'
  BY <1>2, <1>3 DEF QuotaInv, Paid, Covered
<1>5. ASSUME NEW t \in Slots PROVE Fits(t)'
  <2>1. CASE t # s
    <3>1. SUFFICES ASSUME At(t, "put") \/ At(t, "charge")
                   PROVE  Covered(req[t].key, req[t].used + behind[t])' /\ req[t].used + 1 <= Quota
      BY <1>1, <2>1 DEF Fits, At
    <3>2. QED
      BY <1>1, <1>2, <1>3, <2>1, <3>1, FitsKnown DEF Covered
  <2>2. CASE t = s
    <3>1. SUFFICES ASSUME r.pc = "put"
                   PROVE  Covered(r.key, r.used + behind[s])' /\ r.used + 1 <= Quota
      BY <1>1, <1>3, <2>2 DEF Fits, At, Covered
    <3>2. Covered(r.key, quota[r.key]) /\ r.key \in Pubkeys /\ r.used = quota[r.key]
      BY <3>1 DEF QuotaInv, Paid
    <3>3. Covered(r.key, r.used + behind[s])
      BY <3>2, QuotaNumbers DEF Covered
    <3>4. QED
      BY <1>2, <1>3, <3>1, <3>2, <3>3 DEF Covered
  <2>3. QED
    BY <2>1, <2>2
<1>6. QED
  BY <1>4, <1>5 DEF QuotaInv

\* Requests that are no uploads touch neither blobs nor charges.
LEMMA OtherPaid ==
  ASSUME IInv, QuotaInv, NEW s \in Slots, Publish(s) \/ Withdraw(s) \/ Render(s)
  PROVE  QuotaInv'
<1> DEFINE r == req'[s]
<1>1. UNCHANGED r2
  <2>1. CASE Publish(s)
    BY <2>1 DEF Publish, PublishManifest, CheckUploader, StoreManifest, IInv, TypeOK
  <2>2. CASE Withdraw(s)
    BY <2>2 DEF Withdraw, Revoke, ResolveTag, StoreRevocation, IInv, TypeOK
  <2>3. CASE Render(s)
    BY <2>3 DEF Render, RenderFrozen, RenderLatest, ReadBinding, ReadSnapshot, ReadLatest,
       CheckRevocation, CheckBlob, Shown
  <2>4. QED
    BY <2>1, <2>2, <2>3
<1>2. req \in [Slots -> Request] /\ Idle.pc = "idle"
  BY DEF IInv, TypeOK, Idle
<1>3. PICK x : Become(s, x)
  <2>1. CASE Publish(s)
    BY <2>1 DEF Publish, PublishManifest, CheckUploader, StoreManifest, Answer
  <2>2. CASE Withdraw(s)
    BY <2>2 DEF Withdraw, Revoke, ResolveTag, StoreRevocation, Answer
  <2>3. CASE Render(s)
    BY <2>3 DEF Render, RenderFrozen, RenderLatest, ReadBinding, ReadSnapshot,
       ReadLatest, CheckRevocation, CheckBlob, Shown, Answer
  <2>4. QED
    BY <2>1, <2>2, <2>3
<1>4. r = x /\ Become(s, r)
  BY <1>2, <1>3 DEF Become
<1>5. req[s].pc \notin UploadPcs
  BY DEF Publish, PublishManifest, CheckUploader, StoreManifest,
     Withdraw, Revoke, ResolveTag, StoreRevocation,
     Render, RenderFrozen, RenderLatest, ReadBinding, ReadSnapshot, ReadLatest,
     CheckRevocation, CheckBlob, Shown, At, UploadPcs
<1>6. r.pc \notin UploadPcs
  <2>1. ASSUME Answer(s) PROVE r.pc \notin UploadPcs
    BY <1>2, <2>1 DEF Answer, Become, UploadPcs
  <2>2. ASSUME NEW m \in Manifests, PublishManifest(s, m) PROVE r.pc \notin UploadPcs
    BY <1>2, <2>2 DEF PublishManifest, UploadPcs, Become, Idle
  <2>3. ASSUME NEW k, NEW tags, NEW at, Revoke(s, k, tags, at) PROVE r.pc \notin UploadPcs
    BY <1>2, <2>3 DEF Revoke, UploadPcs, Become, Idle
  <2>4. ASSUME NEW b, RenderFrozen(s, b) PROVE r.pc \notin UploadPcs
    BY <1>2, <2>4 DEF RenderFrozen, UploadPcs, Become, Idle
  <2>5. ASSUME NEW a, RenderLatest(s, a) PROVE r.pc \notin UploadPcs
    BY <1>2, <2>5 DEF RenderLatest, UploadPcs, Become, Idle
  <2>6. CASE CheckUploader(s)
    BY <1>2, <2>1, <2>6 DEF CheckUploader, UploadPcs, Become, Request
  <2>7. CASE ResolveTag(s)
    BY <1>2, <2>7 DEF ResolveTag, At, UploadPcs, Become, Request
  <2>8. CASE ReadBinding(s) \/ ReadSnapshot(s) \/ ReadLatest(s)
    <3>1. CASE ReadBinding(s)
      <4> DEFINE m == binding[req[s].blob]
                 y == [req[s] EXCEPT !.pc = "snapshot", !.manifest = m]
      <4>1. Answer(s) \/ Become(s, y)
        BY <3>1 DEF ReadBinding
      <4> HIDE DEF m
      <4>2. y.pc = "snapshot"
        BY <1>2 DEF Request
      <4> HIDE DEF y
      <4>3. QED
        BY <1>2, <2>1, <4>1, <4>2 DEF UploadPcs, Become
    <3>2. CASE ReadSnapshot(s)
      BY <1>2, <2>1, <3>2 DEF ReadSnapshot, UploadPcs, Become, Request
    <3>3. CASE ReadLatest(s)
      <4> DEFINE m == latest[req[s].address]
                 blob == m.blob
                 y == [req[s] EXCEPT !.pc = "revoked?", !.manifest = m, !.blob = blob,
                                     !.address = None]
      <4>1. Answer(s) \/ Become(s, y)
        BY <3>3 DEF ReadLatest
      <4> HIDE DEF m, blob
      <4>2. y.pc = "revoked?"
        BY <1>2 DEF Request
      <4> HIDE DEF y
      <4>3. QED
        BY <1>2, <2>1, <4>1, <4>2 DEF UploadPcs, Become
    <3>4. QED
      BY <2>8, <3>1, <3>2, <3>3
  <2>9. CASE CheckRevocation(s) \/ CheckBlob(s)
    BY <1>2, <2>1, <2>9 DEF CheckRevocation, CheckBlob, UploadPcs, Become, Request
  <2>10. CASE StoreManifest(s) \/ StoreRevocation(s) \/ Shown(s)
    BY <2>1, <2>10 DEF StoreManifest, StoreRevocation, Shown
  <2>11. QED
    BY <2>2, <2>3, <2>4, <2>5, <2>6, <2>7, <2>8, <2>9, <2>10 DEF Publish, Withdraw, Render
<1> HIDE DEF r
<1>7. r.pc # "put" /\ r.pc # "charge" /\ ~At(s, "charge")
  BY <1>5, <1>6 DEF UploadPcs, At
<1>8. QED
  BY <1>1, <1>4, <1>7, QuietPaid

\* The blob changes hands: one blob and one charge to come for the uploader,
\* perhaps one blob less for another key.
LEMMA PutPaid ==
  ASSUME IInv, QuotaInv, NEW s \in Slots, PutBlob(s)
  PROVE  QuotaInv'
<1> DEFINE key == req[s].key
           b == req[s].blob
           r == [req[s] EXCEPT !.pc = "charge"]
<1>1. /\ req[s] \in Request /\ key \in Pubkeys /\ b \in Blobs /\ At(s, "put")
      /\ blobs \in [Blobs -> Pubkeys \cup {None}]
  BY RequestKnown DEF PutBlob, At, RequestOK, LocalsSet, IInv, TypeOK
<1>2. /\ r.pc = "charge" /\ r.key = key /\ r.used = req[s].used
      /\ Become(s, r) /\ UNCHANGED <<quota, behind, forgone>>
      /\ blobs' = [blobs EXCEPT ![b] = key]
  BY <1>1 DEF PutBlob, Request
<1> HIDE DEF r
<1>3. req'[s] = r /\ \A t \in Slots : t # s => req'[t] = req[t]
  BY <1>2, OtherSlots
\* A number that covered the key before covers it now.
<1>4. ASSUME NEW k \in Pubkeys
      PROVE  /\ IsFiniteSet(Held(k)') /\ IsFiniteSet(Pending(k)')
             /\ \A n \in Nat : Covered(k, n) => Covered(k, n)'
  <2> DEFINE is == IF k = key THEN 1 ELSE 0
  <2>1. /\ IsFiniteSet(Pending(k)') /\ Cardinality(Pending(k)') \in Nat
        /\ Cardinality(Pending(k)') = Cardinality(Pending(k)) + is
    <3>1. is = 1 <=> r.pc = "charge" /\ r.key = k
      BY <1>2
    <3>2. is \in {0, 1} /\ ~At(s, "charge")
      BY <1>1 DEF At
    <3> HIDE DEF is
    <3>3. /\ IsFiniteSet(Pending(k)') /\ Cardinality(Pending(k)') \in Nat
          /\ Cardinality(Pending(k)') + 0 = Cardinality(Pending(k)) + is
      BY <1>2, <3>1, <3>2, PendingChange, QuotaNumbers
    <3>4. QED
      BY <3>3
  <2>2. Held(k)' \in SUBSET (Held(k) \cup {b}) /\ (k # key => Held(k)' \in SUBSET Held(k))
    BY <1>1, <1>2 DEF Held
  <2>3. /\ IsFiniteSet(Held(k)') /\ Cardinality(Held(k)') \in Nat
        /\ Cardinality(Held(k)') <= Cardinality(Held(k)) + is
    <3>1. CASE k = key
      <4>1. /\ IsFiniteSet(Held(k) \cup {b})
            /\ Cardinality(Held(k) \cup {b}) = IF b \in Held(k) THEN Cardinality(Held(k))
                                              ELSE Cardinality(Held(k)) + 1
        BY QuotaNumbers, FS_AddElement
      <4>2. IsFiniteSet(Held(k)') /\ Cardinality(Held(k)') <= Cardinality(Held(k) \cup {b})
        BY <2>2, <4>1, FS_Subset
      <4>3. Cardinality(Held(k)') \in Nat
        BY <4>2, FS_CardinalityType
      <4>4. QED
        BY <3>1, <4>1, <4>2, <4>3, QuotaNumbers
    <3>2. CASE k # key
      <4>1. IsFiniteSet(Held(k)') /\ Cardinality(Held(k)') <= Cardinality(Held(k))
        BY <2>2, <3>2, QuotaNumbers, FS_Subset
      <4>2. Cardinality(Held(k)') \in Nat
        BY <4>1, FS_CardinalityType
      <4>3. QED
        BY <3>2, <4>1, <4>2, QuotaNumbers
    <3>3. QED
      BY <3>1, <3>2
  <2>4. ASSUME NEW n \in Nat, Covered(k, n) PROVE Covered(k, n)'
    <3>1. is \in Nat /\ forgone'[k] = forgone[k]
      BY <1>2
    <3> HIDE DEF is
    <3>2. QED
      BY <2>1, <2>3, <2>4, <3>1, QuotaNumbers DEF Covered
  <2>5. QED
    BY <2>1, <2>3, <2>4
<1>5. ASSUME NEW k \in Pubkeys PROVE Paid(k)'
  <2>1. Covered(k, quota[k]) /\ quota[k] <= Quota /\ quota[k] \in Nat
    BY QuotaNumbers DEF QuotaInv, Paid
  <2>2. Covered(k, quota[k])'
    BY <1>2, <1>4, <2>1 DEF Covered
  <2>3. QED
    BY <1>2, <1>4, <2>1, <2>2 DEF Paid
<1>6. ASSUME NEW t \in Slots PROVE Fits(t)'
  <2>1. SUFFICES ASSUME At(t, "put") \/ At(t, "charge")
                 PROVE  Covered(req[t].key, req[t].used + behind[t])' /\ (req[t].used + 1 <= Quota)'
    BY <1>1, <1>3 DEF Fits, At
  <2>2. req'[t].key = req[t].key /\ req'[t].used = req[t].used /\ behind'[t] = behind[t]
    BY <1>2, <1>3
  <2>3. /\ req[t].key \in Pubkeys /\ req[t].used + behind[t] \in Nat
        /\ Covered(req[t].key, req[t].used + behind[t]) /\ req[t].used + 1 <= Quota
    BY <2>1, FitsKnown
  <2>4. QED
    BY <1>4, <2>2, <2>3 DEF Covered
<1>7. QED
  BY <1>5, <1>6 DEF QuotaInv

\* A request that ends leaves its own charge, and no other, unwritten.
LEMMA EndPending ==
  ASSUME IInv, QuotaInv, NEW s \in Slots, Answer(s), NEW k \in Pubkeys,
         NEW was \in {0, 1}, was = 1 <=> At(s, "charge") /\ req[s].key = k
  PROVE  /\ IsFiniteSet(Pending(k)') /\ Cardinality(Pending(k)') \in Nat
         /\ Cardinality(Pending(k)) = Cardinality(Pending(k)') + was
<1>1. Idle.pc # "charge" /\ Become(s, Idle)
  BY DEF Idle, Answer
<1>2. /\ IsFiniteSet(Pending(k)') /\ Cardinality(Pending(k)') \in Nat
      /\ Cardinality(Pending(k)') + was = Cardinality(Pending(k)) + 0
  BY <1>1, PendingChange, QuotaNumbers
<1>3. QED
  BY <1>2, QuotaNumbers

\* The charge is written: what the record lacks of the charges written since
\* the upload read it is forgone, and the other uploads of the key miss this
\* one.
LEMMA ChargePaid ==
  ASSUME IInv, QuotaInv, NEW s \in Slots, WriteQuota(s)
  PROVE  QuotaInv'
<1> DEFINE key == req[s].key
           used == req[s].used
<1>1. /\ key \in Pubkeys /\ used \in Nat /\ behind[s] \in Nat
      /\ Covered(key, used + behind[s]) /\ used + 1 <= Quota
      /\ At(s, "charge") /\ Answer(s)
  BY FitsKnown DEF WriteQuota
<1>2. /\ quota \in [Pubkeys -> Nat] /\ forgone \in [Pubkeys -> Nat] /\ behind \in [Slots -> Nat]
  BY DEF IInv, TypeOK
<1>3. /\ quota' = [quota EXCEPT ![key] = used + 1]
      /\ forgone' = [forgone EXCEPT ![key] = forgone[key] + behind[s]]
      /\ \A t \in Slots : t # s => behind'[t] = IF Charging(t, key) THEN behind[t] + 1 ELSE behind[t]
      /\ blobs' = blobs
  BY <1>1, <1>2 DEF WriteQuota, Charged
<1>4. req'[s] = Idle /\ Idle.pc = "idle" /\ \A t \in Slots : t # s => req'[t] = req[t]
  BY <1>1, OtherSlots DEF Answer, Idle
<1>5. ASSUME NEW k \in Pubkeys
      PROVE  /\ Held(k)' = Held(k)
             /\ IsFiniteSet(Pending(k)') /\ Cardinality(Pending(k)') \in Nat
             /\ Cardinality(Pending(k)) = Cardinality(Pending(k)') + (IF k = key THEN 1 ELSE 0)
  <2> DEFINE was == IF k = key THEN 1 ELSE 0
  <2>1. was \in {0, 1} /\ (was = 1 <=> At(s, "charge") /\ req[s].key = k)
    BY <1>1
  <2>2. Held(k)' = Held(k)
    BY <1>3 DEF Held
  <2> HIDE DEF was
  <2>3. /\ IsFiniteSet(Pending(k)') /\ Cardinality(Pending(k)') \in Nat
        /\ Cardinality(Pending(k)) = Cardinality(Pending(k)') + was
    BY <1>1, <2>1, EndPending
  <2>4. QED
    BY <2>2, <2>3 DEF was
<1>6. ASSUME NEW k \in Pubkeys PROVE Paid(k)'
  <2>1. Covered(k, quota[k]) /\ quota[k] <= Quota
    BY DEF QuotaInv, Paid
  <2>2. CASE k = key
    <3>1. quota'[k] = used + 1 /\ forgone'[k] = forgone[k] + behind[s]
      BY <1>1, <1>2, <1>3, <2>2
    <3>2. Covered(k, quota[k])'
      BY <1>1, <1>5, <2>2, <3>1, QuotaNumbers DEF Covered
    <3>3. QED
      BY <1>1, <1>5, <3>1, <3>2, QuotaNumbers DEF Paid
  <2>3. CASE k # key
    <3>1. quota'[k] = quota[k] /\ forgone'[k] = forgone[k]
      BY <1>1, <1>2, <1>3, <2>3
    <3>2. Covered(k, quota[k])'
      BY <1>5, <2>1, <2>3, <3>1, QuotaNumbers DEF Covered
    <3>3. QED
      BY <1>5, <2>1, <3>1, <3>2, QuotaNumbers DEF Paid
  <2>4. QED
    BY <2>2, <2>3
<1>7. ASSUME NEW t \in Slots PROVE Fits(t)'
  <2>1. SUFFICES ASSUME t # s, At(t, "put") \/ At(t, "charge")
                 PROVE  Covered(req[t].key, req[t].used + behind[t])' /\ (req[t].used + 1 <= Quota)'
    BY <1>4 DEF Fits, At
  <2>2. req'[t] = req[t]
    BY <1>4, <2>1
  <2>3. /\ req[t].key \in Pubkeys /\ req[t].used \in Nat /\ behind[t] \in Nat
        /\ Covered(req[t].key, req[t].used + behind[t]) /\ req[t].used + 1 <= Quota
    BY <2>1, FitsKnown
  <2>4. CASE req[t].key = key
    <3>1. behind'[t] = behind[t] + 1
      BY <1>3, <2>1, <2>4 DEF Charging, At
    <3>2. forgone'[key] = forgone[key] + behind[s]
      BY <1>1, <1>2, <1>3
    <3>3. QED
      BY <1>1, <1>5, <2>2, <2>3, <2>4, <3>1, <3>2, QuotaNumbers DEF Covered
  <2>5. CASE req[t].key # key
    <3>1. behind'[t] = behind[t] /\ forgone'[req[t].key] = forgone[req[t].key]
      BY <1>1, <1>2, <1>3, <2>1, <2>3, <2>5 DEF Charging
    <3>2. QED
      BY <1>5, <2>2, <2>3, <2>5, <3>1, QuotaNumbers DEF Covered
  <2>6. QED
    BY <2>4, <2>5
<1>8. QED
  BY <1>6, <1>7 DEF QuotaInv

\* A request that is lost may leave a blob that nobody is charged for.
LEMMA LosePaid ==
  ASSUME IInv, QuotaInv, NEW s \in Slots, Lose(s)
  PROVE  QuotaInv'
<1>1. Answer(s) /\ UNCHANGED <<blobs, quota>> /\ behind' = [behind EXCEPT ![s] = 0]
  BY DEF Lose
<1>2. quota \in [Pubkeys -> Nat] /\ forgone \in [Pubkeys -> Nat] /\ behind \in [Slots -> Nat]
  BY DEF IInv, TypeOK
<1>3. req'[s] = Idle /\ Idle.pc = "idle" /\ \A t \in Slots : t # s => req'[t] = req[t]
  BY <1>1, OtherSlots DEF Answer, Idle
\* The charge that will not be written moves from those pending to those forgone.
<1>4. ASSUME NEW k \in Pubkeys
      PROVE  /\ IsFiniteSet(Held(k)') /\ IsFiniteSet(Pending(k)')
             /\ \A n \in Nat : Covered(k, n) => Covered(k, n)'
  <2> DEFINE was == IF At(s, "charge") /\ req[s].key = k THEN 1 ELSE 0
  <2>1. was \in {0, 1} /\ (was = 1 <=> At(s, "charge") /\ req[s].key = k)
    OBVIOUS
  <2>2. forgone'[k] = forgone[k] + was
    BY <1>2 DEF Lose
  <2>3. Held(k)' = Held(k)
    BY <1>1 DEF Held
  <2> HIDE DEF was
  <2>4. /\ IsFiniteSet(Pending(k)') /\ Cardinality(Pending(k)') \in Nat
        /\ Cardinality(Pending(k)) = Cardinality(Pending(k)') + was
    BY <1>1, <2>1, EndPending
  <2>5. QED
    BY <2>1, <2>2, <2>3, <2>4, QuotaNumbers DEF Covered
<1>5. ASSUME NEW k \in Pubkeys PROVE Paid(k)'
  <2>1. Covered(k, quota[k]) /\ quota[k] <= Quota /\ quota[k] \in Nat
    BY QuotaNumbers DEF QuotaInv, Paid
  <2>2. Covered(k, quota[k])'
    BY <1>1, <1>4, <2>1 DEF Covered
  <2>3. QED
    BY <1>1, <1>4, <2>1, <2>2 DEF Paid
<1>6. ASSUME NEW t \in Slots PROVE Fits(t)'
  <2>1. SUFFICES ASSUME t # s, At(t, "put") \/ At(t, "charge")
                 PROVE  Covered(req[t].key, req[t].used + behind[t])' /\ (req[t].used + 1 <= Quota)'
    BY <1>3 DEF Fits, At
  <2>2. req'[t] = req[t] /\ behind'[t] = behind[t]
    BY <1>1, <1>2, <1>3, <2>1
  <2>3. /\ req[t].key \in Pubkeys /\ req[t].used + behind[t] \in Nat
        /\ Covered(req[t].key, req[t].used + behind[t]) /\ req[t].used + 1 <= Quota
    BY <2>1, FitsKnown
  <2>4. QED
    BY <1>4, <2>2, <2>3 DEF Covered
<1>7. QED
  BY <1>5, <1>6 DEF QuotaInv

LEMMA UploadPaid ==
  ASSUME IInv, QuotaInv, NEW s \in Slots, Upload(s)
  PROVE  QuotaInv'
<1>1. req[s] \in Request /\ RequestOK(req[s]) /\ quota \in [Pubkeys -> Nat]
  BY RequestKnown DEF IInv, TypeOK
<1>2. ASSUME NEW k \in Pubkeys, NEW b \in Blobs, NEW pc \in {"head", "quota"},
             MayUpload(s),
             Become(s, [Idle EXCEPT !.pc = pc, !.key = k, !.blob = b]),
             calls' = [calls EXCEPT !.upload = @ + 1], UNCHANGED <<r2, store>>
      PROVE  QuotaInv'
  <2> DEFINE r == [Idle EXCEPT !.pc = pc, !.key = k, !.blob = b]
  <2>1. r.pc = pc /\ ~At(s, "charge")
    BY <1>2 DEF Idle, MayUpload, At
  <2> HIDE DEF r
  <2>2. QED
    BY <1>2, <2>1, QuietPaid DEF r
<1>3. ASSUME NEW k \in Pubkeys, NEW b \in Blobs, BlossomUpload(s, k, b) PROVE QuotaInv'
  BY <1>2, <1>3 DEF BlossomUpload
<1>4. ASSUME NEW k \in Pubkeys, NEW b \in Blobs, AvatarUpload(s, k, b) PROVE QuotaInv'
  BY <1>2, <1>4 DEF AvatarUpload
<1>5. ASSUME Answer(s), ~At(s, "charge"), UNCHANGED <<r2, calls>> PROVE QuotaInv'
  <2>1. Idle.pc = "idle"
    BY DEF Idle
  <2>2. QED
    BY <1>5, <2>1, QuietPaid DEF Answer
<1>6. CASE UploadHead(s)
  <2> DEFINE r == [req[s] EXCEPT !.pc = "quota"]
  <2>1. r.pc = "quota" /\ ~At(s, "charge")
    BY <1>1, <1>6 DEF UploadHead, At, Request
  <2> HIDE DEF r
  <2>2. QED
    BY <1>5, <1>6, <2>1, QuietPaid DEF UploadHead, r
<1>7. CASE ReadQuota(s)
  <2> DEFINE used == quota[req[s].key]
             r == [req[s] EXCEPT !.pc = "put", !.used = used]
  <2>1. /\ r.pc = "put" /\ r.key = req[s].key /\ r.used = used
        /\ ~At(s, "charge")
    BY <1>1, <1>7 DEF ReadQuota, At, Request
  <2>2. used \in Nat /\ req[s].key \in Pubkeys
    BY <1>1, <1>7 DEF ReadQuota, At, RequestOK, LocalsSet
  <2>3. CASE used + 1 > Quota
    BY <1>5, <1>7, <2>1, <2>3 DEF ReadQuota
  <2>4. CASE ~(used + 1 > Quota)
    <3>1. Become(s, r) /\ UNCHANGED <<r2, calls>>
      BY <1>7, <2>4 DEF ReadQuota
    <3>2. used + 1 <= Quota
      BY <2>2, <2>4
    <3> HIDE DEF r
    <3>3. QED
      BY <2>1, <2>2, <3>1, <3>2, QuietPaid
  <2>5. QED
    BY <2>3, <2>4
<1>8. QED
  BY <1>3, <1>4, <1>6, <1>7, PutPaid, ChargePaid DEF Upload

\* No key holds more blobs than it is charged for, but for uploads on their
\* way to the charge, those lost there, and the charges written while another
\* upload of the key held an older record; and none is charged for more than
\* its quota, however many uploads it has at a time (handleBlossomUpload,
\* handleBlobRequest).
THEOREM QuotaAlwaysCovers == Spec => []QuotaCoversBlobs
<1>1. Init => QuotaInv
  <2> SUFFICES ASSUME Init PROVE QuotaInv
    OBVIOUS
  <2>1. \A s \in Slots : req[s].pc = "idle"
    BY DEF Init, Idle
  <2>2. ASSUME NEW k \in Pubkeys PROVE Paid(k)
    <3>1. Held(k) = {} /\ Pending(k) = {} /\ quota[k] = 0 /\ forgone[k] = 0
      BY <2>1 DEF Init, Held, Pending, At
    <3>2. QED
      BY <3>1, FS_EmptySet DEF Paid, Covered
  <2>3. QED
    BY <2>1, <2>2 DEF QuotaInv, Fits, At
<1>2. IInv /\ QuotaInv /\ [Next]_vars => QuotaInv'
  <2> SUFFICES ASSUME IInv, QuotaInv, [Next]_vars PROVE QuotaInv'
    OBVIOUS
  <2>1. CASE UNCHANGED vars
    BY <2>1 DEF vars, QuotaInv, Fits, Paid, Covered, Held, Pending, At
  <2>2. CASE Next
    BY <2>2, UploadPaid, OtherPaid, LosePaid DEF Next
  <2>3. QED
    BY <2>1, <2>2
<1>3. QuotaInv => QuotaCoversBlobs
  BY DEF QuotaInv, Paid, Covered, Held, Pending, QuotaCoversBlobs, Attributed, Uncharged
<1>4. QED
  BY <1>1, <1>2, <1>3, InvAlways, PTL DEF Spec

=============================================================================
