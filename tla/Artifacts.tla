----------------------------- MODULE Artifacts ------------------------------
(***************************************************************************)
(* Public artifacts: blobs and their quota records in R2 (blossom.ts and   *)
(* blob.ts), the manifest, binding and revocation keys of the RelayPool    *)
(* (relay-pool.ts), and the routes of gateway/src/artifacts.ts over both.  *)
(*                                                                         *)
(* A request is followed from one await to the next: every read or write   *)
(* of R2 and every call of the RelayPool is a step, and other requests run *)
(* in between. A method of the RelayPool is one step: it waits for nothing *)
(* but its own storage, and the input gate keeps other calls out.          *)
(***************************************************************************)
EXTENDS Integers, FiniteSets

CONSTANTS
    Pubkeys,            \* keys that upload and sign
    Slugs,              \* values of the d tag
    Blobs,              \* sha256 sums, each of a blob of one quota unit
    Times,              \* values of created_at, chosen by the signer
    Slots,              \* requests served at a time
    None,               \* absent value
    Quota,              \* PER_PUBKEY_QUOTA_BYTES, in units
    AvatarUploads,      \* whether POST /v0/blob is used
    RevokeTags,         \* the sets of tags of the kind:5 events callers send
    MaxUploads, MaxPublishes, MaxRevokes, MaxLost     \* bounds on the environment

ASSUME NoneAssumption == None \notin Times /\ None \notin Pubkeys /\ None \notin Pubkeys \X Slugs
ASSUME TimesAssumption == Times \subseteq Nat /\ Times # {}
ASSUME QuotaAssumption == Quota \in Nat
ASSUME SwitchAssumption == AvatarUploads \in BOOLEAN
ASSUME BoundsAssumption == {MaxUploads, MaxPublishes, MaxRevokes, MaxLost} \subseteq Nat

\* A signed manifest event is its own id; two events of one address, second
\* and blob differ in nothing the code here tells apart.
Manifests == [pubkey : Pubkeys, d : Slugs, blob : Blobs, created_at : Times]
Addresses == Pubkeys \X Slugs
Address(m) == <<m.pubkey, m.d>>

ASSUME NoManifestAssumption == None \notin Manifests

\* The tags of a kind:5 event: e names a manifest, a names an address.
Tags == ({"e"} \X Manifests) \cup ({"a"} \X Addresses)

ASSUME RevokeTagsAssumption == RevokeTags \subseteq SUBSET Tags

VARIABLES
    blobs,      \* R2 blob/<sha256>: the uploader_pubkey of the blob, or None
    quota,      \* R2 quota/<pubkey>: bytes_used
    behind,     \* history: charges of its key written since a slot read the record
    forgone,    \* history: charges of a key that a later write may not contain
    latest,     \* event:30540:<pubkey>:<d>
    snapshots,  \* artifactid:<id>
    binding,    \* artifactblob:<sha256>: the manifest whose address owns the frozen URL
    rev,        \* artifactrev:<id>: the manifests revoked by an e tag
    revaddr,    \* artifactrevaddr:<pubkey>:<d>: created_at of the newest, or None
    acked,      \* history: the tags answered as revoked, with the event's created_at
    req,        \* what each slot serves, with its locals
    calls       \* how often each kind of request was made (bounds)

store == <<latest, snapshots, binding, rev, revaddr, acked>>
r2 == <<blobs, quota, behind, forgone>>
vars == <<blobs, quota, behind, forgone, latest, snapshots, binding, rev, revaddr, acked, req, calls>>

-----------------------------------------------------------------------------
Pcs == {"idle", "head", "quota", "put", "charge", "check", "store", "resolve",
        "latest", "frozen", "snapshot", "revoked?", "blob?", "shown"}

Request ==
    [pc : Pcs, key : Pubkeys \cup {None}, blob : Blobs \cup {None}, used : Nat,
     manifest : Manifests \cup {None}, address : Addresses \cup {None}, tags : SUBSET Tags,
     resolved : SUBSET Tags, at : Times \cup {None}, gone : SUBSET Manifests]

Idle == [pc |-> "idle", key |-> None, blob |-> None, used |-> 0, manifest |-> None,
         address |-> None, tags |-> {}, resolved |-> {}, at |-> None, gone |-> {}]

At(s, pc) == req[s].pc = pc
Become(s, r) == req' = [req EXCEPT ![s] = r]
Answer(s) == Become(s, Idle)

\* An upload of k that has read the quota record and not written it yet.
Charging(s, k) == req[s].pc \in {"put", "charge"} /\ req[s].key = k

Init ==
    /\ blobs = [b \in Blobs |-> None]
    /\ quota = [k \in Pubkeys |-> 0]
    /\ behind = [s \in Slots |-> 0]
    /\ forgone = [k \in Pubkeys |-> 0]
    /\ latest = [a \in Addresses |-> None]
    /\ snapshots = {}
    /\ binding = [b \in Blobs |-> None]
    /\ rev = {}
    /\ revaddr = [a \in Addresses |-> None]
    /\ acked = {}
    /\ req = [s \in Slots |-> Idle]
    /\ calls = [upload |-> 0, publish |-> 0, revoke |-> 0, lost |-> 0]

-----------------------------------------------------------------------------
(* Uploads. PUT /blossom/upload looks for the blob first; POST /v0/blob    *)
(* goes straight to the quota. From there both do the same.                *)

MayUpload(s) ==
    /\ At(s, "idle")
    /\ calls.upload < MaxUploads

BlossomUpload(s, k, b) ==
    /\ MayUpload(s)
    /\ Become(s, [Idle EXCEPT !.pc = "head", !.key = k, !.blob = b])
    /\ calls' = [calls EXCEPT !.upload = @ + 1]
    /\ UNCHANGED <<r2, store>>

AvatarUpload(s, k, b) ==
    /\ AvatarUploads
    /\ MayUpload(s)
    /\ Become(s, [Idle EXCEPT !.pc = "quota", !.key = k, !.blob = b])
    /\ calls' = [calls EXCEPT !.upload = @ + 1]
    /\ UNCHANGED <<r2, store>>

\* No-overwrite hardening: a blob that is there answers 200 as it is.
UploadHead(s) ==
    /\ At(s, "head")
    /\ IF blobs[req[s].blob] # None
       THEN Answer(s)
       ELSE Become(s, [req[s] EXCEPT !.pc = "quota"])
    /\ UNCHANGED <<r2, store, calls>>

ReadQuota(s) ==
    /\ At(s, "quota")
    /\ LET used == quota[req[s].key]
       IN  IF used + 1 > Quota
           THEN Answer(s)
           ELSE Become(s, [req[s] EXCEPT !.pc = "put", !.used = used])
    /\ UNCHANGED <<r2, store, calls>>

PutBlob(s) ==
    /\ At(s, "put")
    /\ blobs' = [blobs EXCEPT ![req[s].blob] = req[s].key]
    /\ Become(s, [req[s] EXCEPT !.pc = "charge"])
    /\ UNCHANGED <<quota, behind, forgone, store, calls>>

\* History: the write contains no charge written since its read, and the
\* other uploads of the key now miss this one.
Charged(s) ==
    /\ forgone' = [forgone EXCEPT ![req[s].key] = @ + behind[s]]
    /\ behind' = [t \in Slots |-> IF t = s THEN 0
                                  ELSE IF Charging(t, req[s].key) THEN behind[t] + 1
                                  ELSE behind[t]]

\* Mutants: the sign is wrong; the record is written as if it had been empty.
WriteQuota_Refunds(s) ==
    /\ At(s, "charge")
    /\ quota' = [quota EXCEPT ![req[s].key] = req[s].used - 1]
    /\ Charged(s)
    /\ Answer(s)
    /\ UNCHANGED <<blobs, store, calls>>

WriteQuota_Forgets(s) ==
    /\ At(s, "charge")
    /\ quota' = [quota EXCEPT ![req[s].key] = 1]
    /\ Charged(s)
    /\ Answer(s)
    /\ UNCHANGED <<blobs, store, calls>>

\* The record is written, not added to: from what was read before the put.
WriteQuota(s) ==
    /\ At(s, "charge")
    /\ quota' = [quota EXCEPT ![req[s].key] = req[s].used + 1]
    /\ Charged(s)
    /\ Answer(s)
    /\ UNCHANGED <<blobs, store, calls>>

-----------------------------------------------------------------------------
(* POST /v0/artifacts/manifest                                             *)

\* The event's own checks have passed; the next thing is the blob's head.
PublishManifest(s, m) ==
    /\ At(s, "idle")
    /\ calls.publish < MaxPublishes
    /\ Become(s, [Idle EXCEPT !.pc = "check", !.manifest = m])
    /\ calls' = [calls EXCEPT !.publish = @ + 1]
    /\ UNCHANGED <<r2, store>>

\* 404 without the blob, 403 unless its uploader signed, then the rate limit.
CheckUploader(s) ==
    /\ At(s, "check")
    /\ \/ /\ blobs[req[s].manifest.blob] = req[s].manifest.pubkey
          /\ Become(s, [req[s] EXCEPT !.pc = "store"])
       \/ Answer(s)
    /\ UNCHANGED <<r2, store, calls>>

\* The existing manifest of the address is at least as new.
Superseded(m) ==
    LET existing == latest[Address(m)]
    IN  existing # None /\ existing.created_at >= m.created_at

\* Mutants: the binding is never refreshed, or the last one wins.
Bound_NeverRefreshed(m) == [binding EXCEPT ![m.blob] = IF @ = None THEN m ELSE @]
Bound_LastWins(m) == [binding EXCEPT ![m.blob] = m]

\* First-wins: an absent binding is made, one of the same address refreshed.
Bound(m) ==
    [binding EXCEPT ![m.blob] = IF @ = None \/ Address(@) = Address(m) THEN m ELSE @]

StoreManifest(s) ==
    /\ At(s, "store")
    /\ LET m == req[s].manifest
       IN  IF Superseded(m)
           THEN UNCHANGED store
           ELSE /\ latest' = [latest EXCEPT ![Address(m)] = m]
                /\ snapshots' = snapshots \cup {m}
                /\ binding' = Bound(m)
                /\ UNCHANGED <<rev, revaddr, acked>>
    /\ Answer(s)
    /\ UNCHANGED <<r2, calls>>

-----------------------------------------------------------------------------
(* POST /v0/artifacts/revoke                                               *)

Revoke(s, k, tags, at) ==
    /\ At(s, "idle")
    /\ calls.revoke < MaxRevokes
    /\ Become(s, [Idle EXCEPT !.pc = "resolve", !.key = k, !.tags = tags, !.at = at])
    /\ calls' = [calls EXCEPT !.revoke = @ + 1]
    /\ UNCHANGED <<r2, store>>

\* A tag resolves if the gateway knows the manifest and the signer owns it.
Resolves(tag, signer) ==
    \/ tag[1] = "e" /\ tag[2] \in snapshots /\ tag[2].pubkey = signer
    \/ tag[1] = "a" /\ tag[2][1] = signer /\ latest[tag[2]] # None

\* Each tag is looked up by a call of its own.
ResolveTag(s) ==
    /\ At(s, "resolve")
    /\ \E tag \in req[s].tags :
           Become(s, [req[s] EXCEPT
               !.tags = @ \ {tag},
               !.resolved = IF Resolves(tag, req[s].key) THEN @ \cup {tag} ELSE @])
    /\ UNCHANGED <<r2, store, calls>>

\* An address keeps its newest revocation.
StoreRevocation(s) ==
    /\ At(s, "resolve")
    /\ req[s].tags = {}
    /\ LET at == req[s].at
           newer(a) == revaddr[a] = None \/ revaddr[a] < at
       IN  /\ rev' = rev \cup {m \in Manifests : <<"e", m>> \in req[s].resolved}
           /\ revaddr' = [a \in Addresses |->
                             IF <<"a", a>> \in req[s].resolved /\ newer(a) THEN at ELSE revaddr[a]]
    /\ acked' = acked \cup (req[s].resolved \X {req[s].at})
    /\ Answer(s)
    /\ UNCHANGED <<r2, latest, snapshots, binding, calls>>

-----------------------------------------------------------------------------
(* GET /v0/artifacts/<sha256> and GET /v0/artifacts/<pubkey>/<d>           *)

\* getArtifactRevocation: by id, or by an address revocation at least as new.
Revoked(m) ==
    \/ m \in rev
    \/ revaddr[Address(m)] # None /\ m.created_at <= revaddr[Address(m)]

\* History, for the property: what callers had been told is revoked when the
\* reader asked. An address revocation covers what is no newer than itself.
Gone ==
    {m \in Manifests : \E r \in acked :
        \/ r[1] = <<"e", m>>
        \/ r[1] = <<"a", Address(m)>> /\ m.created_at <= r[2]}

RenderFrozen(s, b) ==
    /\ At(s, "idle")
    /\ Become(s, [Idle EXCEPT !.pc = "frozen", !.blob = b, !.gone = Gone])
    /\ UNCHANGED <<r2, store, calls>>

RenderLatest(s, a) ==
    /\ At(s, "idle")
    /\ Become(s, [Idle EXCEPT !.pc = "latest", !.address = a, !.gone = Gone])
    /\ UNCHANGED <<r2, store, calls>>

ReadBinding(s) ==
    /\ At(s, "frozen")
    /\ IF binding[req[s].blob] = None
       THEN Answer(s)
       ELSE Become(s, [req[s] EXCEPT !.pc = "snapshot", !.manifest = binding[req[s].blob]])
    /\ UNCHANGED <<r2, store, calls>>

\* The bound version's own snapshot, not the latest of the address.
ReadSnapshot(s) ==
    /\ At(s, "snapshot")
    /\ IF req[s].manifest \in snapshots
       THEN Become(s, [req[s] EXCEPT !.pc = "revoked?"])
       ELSE Answer(s)
    /\ UNCHANGED <<r2, store, calls>>

ReadLatest(s) ==
    /\ At(s, "latest")
    /\ LET m == latest[req[s].address]
       IN  IF m = None
           THEN Answer(s)
           ELSE Become(s, [req[s] EXCEPT !.pc = "revoked?", !.manifest = m, !.blob = m.blob,
                                       !.address = None])
    /\ UNCHANGED <<r2, store, calls>>

\* Mutant: only revocations of the version itself are looked up.
CheckRevocation_ByIdOnly(s) ==
    /\ At(s, "revoked?")
    /\ IF req[s].manifest \in rev
       THEN Answer(s)
       ELSE Become(s, [req[s] EXCEPT !.pc = "blob?"])
    /\ UNCHANGED <<r2, store, calls>>

CheckRevocation(s) ==
    /\ At(s, "revoked?")
    /\ IF Revoked(req[s].manifest)
       THEN Answer(s)
       ELSE Become(s, [req[s] EXCEPT !.pc = "blob?"])
    /\ UNCHANGED <<r2, store, calls>>

CheckBlob(s) ==
    /\ At(s, "blob?")
    /\ IF blobs[req[s].blob] = None
       THEN Answer(s)
       ELSE Become(s, [req[s] EXCEPT !.pc = "shown"])
    /\ UNCHANGED <<r2, store, calls>>

Shown(s) == At(s, "shown") /\ Answer(s) /\ UNCHANGED <<r2, store, calls>>

-----------------------------------------------------------------------------
\* The isolate that serves a request is evicted, or its next await throws.
Lose(s) ==
    /\ ~At(s, "idle")
    /\ calls.lost < MaxLost
    /\ calls' = [calls EXCEPT !.lost = @ + 1]
    /\ Answer(s)
    /\ forgone' = IF At(s, "charge") THEN [forgone EXCEPT ![req[s].key] = @ + 1] ELSE forgone
    /\ behind' = [behind EXCEPT ![s] = 0]
    /\ UNCHANGED <<blobs, quota, store>>

Upload(s) ==
    \/ \E k \in Pubkeys, b \in Blobs : BlossomUpload(s, k, b) \/ AvatarUpload(s, k, b)
    \/ UploadHead(s) \/ ReadQuota(s) \/ PutBlob(s) \/ WriteQuota(s)

Publish(s) ==
    \/ \E m \in Manifests : PublishManifest(s, m)
    \/ CheckUploader(s) \/ StoreManifest(s)

Withdraw(s) ==
    \/ \E k \in Pubkeys, tags \in RevokeTags, at \in Times : Revoke(s, k, tags, at)
    \/ ResolveTag(s) \/ StoreRevocation(s)

Render(s) ==
    \/ \E b \in Blobs : RenderFrozen(s, b)
    \/ \E a \in Addresses : RenderLatest(s, a)
    \/ ReadBinding(s) \/ ReadSnapshot(s) \/ ReadLatest(s)
    \/ CheckRevocation(s) \/ CheckBlob(s) \/ Shown(s)

Next == \E s \in Slots : Upload(s) \/ Publish(s) \/ Withdraw(s) \/ Render(s) \/ Lose(s)

Spec == Init /\ [][Next]_vars

-----------------------------------------------------------------------------
(* Type correctness: keys, records and locals stay within their types.     *)
TypeOK ==
    /\ blobs \in [Blobs -> Pubkeys \cup {None}]
    /\ quota \in [Pubkeys -> Nat]
    /\ behind \in [Slots -> Nat] /\ forgone \in [Pubkeys -> Nat]
    /\ latest \in [Addresses -> Manifests \cup {None}]
    /\ snapshots \subseteq Manifests
    /\ binding \in [Blobs -> Manifests \cup {None}]
    /\ rev \subseteq Manifests
    /\ revaddr \in [Addresses -> Times \cup {None}]
    /\ acked \subseteq Tags \X Times
    /\ req \in [Slots -> Request]
    /\ calls \in [upload : 0..MaxUploads, publish : 0..MaxPublishes,
                  revoke : 0..MaxRevokes, lost : 0..MaxLost]

\* The three indexes written by storeArtifactManifest agree: the latest URL
\* of an address shows the newest manifest ever accepted there, the frozen
\* URL of a blob shows the newest one its owner published for that blob, and
\* a blob some accepted manifest names has an owner.
LatestIsNewest ==
    /\ \A a \in Addresses : latest[a] # None => latest[a] \in snapshots /\ Address(latest[a]) = a
    /\ \A m \in snapshots :
           latest[Address(m)] # None /\ latest[Address(m)].created_at >= m.created_at

FrozenIsNewest ==
    /\ \A b \in Blobs : binding[b] # None => binding[b] \in snapshots /\ binding[b].blob = b
    /\ \A m \in snapshots :
           /\ binding[m.blob] # None
           /\ Address(binding[m.blob]) = Address(m) => binding[m.blob].created_at >= m.created_at

IndexesAgree == LatestIsNewest /\ FrozenIsNewest

\* A reader is never shown a version that some revoke call, answered before
\* the reader asked, covers: by its id, or by its address and a created_at no
\* older. Publishes, supersessions and older revocations in between do not
\* bring it back.
NoRevokedRender == \A s \in Slots : At(s, "shown") => req[s].manifest \notin req[s].gone

\* Every stored blob is paid for by the key it is attributed to, but for the
\* uploads between the put and the quota write, those lost there, and the
\* charges written while another upload of the key was between its read of
\* the record and its write; and no key is charged for more than its quota.
\* Nothing else loses a charge, in either route and across both.
Attributed(k) == Cardinality({b \in Blobs : blobs[b] = k})
Uncharged(k) == Cardinality({s \in Slots : At(s, "charge") /\ req[s].key = k})
QuotaCoversBlobs ==
    \A k \in Pubkeys :
        /\ Attributed(k) <= quota[k] + Uncharged(k) + forgone[k]
        /\ quota[k] <= Quota

\* The keys implement the ledger.
Ledger == INSTANCE ArtifactLedger WITH
    Unowned <- None,
    published <- snapshots,
    owner <- [b \in Blobs |-> IF binding[b] = None THEN None ELSE Address(binding[b])],
    withdrawn <- {m \in Manifests : Revoked(m)}

RefinesLedger == Ledger!Spec
=============================================================================
