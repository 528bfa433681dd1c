------------------------------ MODULE Audience ------------------------------
(***************************************************************************)
(* One audience of the gateway: the kind:30520 declaration, 30521 grants   *)
(* and 30522 claims the RelayPool caches, and the routes that replace them *)
(* (gateway/src/audience.ts, custodial; gateway/src/audience-raw.ts, signed *)
(* by the caller).  Each route reads the cached declaration, builds or     *)
(* checks its successor, waits for the relays and then stores: other       *)
(* requests run at every one of those waits.                               *)
(*                                                                         *)
(* The relays are outside the model: a publish is accepted by some relay   *)
(* or by none.  The founder makes every request but the claims, keeps      *)
(* itself a member, signs raw declarations from the one it last read, and  *)
(* grants keys to identity keys only, never to the key of an invite.       *)
(***************************************************************************)
EXTENDS Integers, FiniteSets

CONSTANTS
    Members,            \* identity keys that may be members
    Founder,            \* the caller that created the audience
    Invites,            \* invite key pairs
    None,               \* absent value
    Routes,             \* the routes that are called
    InviteTtl,          \* DEFAULT_INVITE_TTL_SEC, in seconds of the model
    Slots,              \* bound: requests in flight at one time
    Gap,                \* seconds callers let pass after an answer
    MaxNow,             \* bound: the clock stops here
    MaxRequests,        \* bound: requests after /create
    MaxFailures         \* bound: publishes that fail, wholly or in part

CustodialRoutes == {"invite", "grant", "rotate", "claim", "process-claims"}
RawRoutes == {"raw/invite", "raw/grant", "raw/rotate", "raw/claim", "raw/leave",
              "raw/publish-declaration"}
CreateRoutes == {"create", "raw/create"}

ASSUME FounderAssumption == Founder \in Members
ASSUME RoutesAssumption == Routes \subseteq CustodialRoutes \cup RawRoutes
ASSUME NoneAssumption == None \notin Nat /\ None \notin Members /\ None \notin Invites
ASSUME BoundsAssumption ==
    {InviteTtl, Gap, MaxNow, MaxRequests, MaxFailures} \subseteq Nat

VARIABLES
    now,            \* nowSec()
    decl,           \* durable: the cached declaration, or None
    pinv,           \* durable: the pinv: entry of each invite, or None
    claims,         \* durable: the cached 30522 events
    grants,         \* durable: the cached 30521 events
    req,            \* the request each slot is serving
    expires,        \* expiration of each minted invite, or None
    keys,           \* epoch key pairs generated so far
    minted,         \* the epoch in the URL an invite was answered with, or None
    published,      \* declarations some relay accepted (history)
    unstored,       \* an accepted event was not cached, or a grant not accepted
    requests, failures, quietSince

store == <<decl, pinv, claims, grants>>
bounds == <<requests, failures, quietSince>>
vars == <<now, store, req, expires, keys, minted, published, unstored, bounds>>

\* What a route leaves alone while it reads and checks.
untouched == <<now, store, expires, keys, minted, published, unstored, requests, failures>>

Statuses == {"active", "closed"}
Declaration == [at: Nat, epoch: Nat, key: Nat, members: SUBSET Members,
                pending: SUBSET Invites, status: Statuses]
\* A leave claim is signed by the member itself and names no invite.
Claim == [invite: Invites \cup {None}, epoch: Nat, by: Members, at: Nat]
Grant == [epoch: Nat, key: Nat, to: Members, at: Nat]
GrantTemplate == [epoch: Nat, key: Nat, at: Nat]

ASSUME AbsentAssumption ==
    None \notin Declaration \cup GrantTemplate \cup {"active", "removed"}
ASSUME AbsentRoomAssumption ==
    None \notin [epoch: Nat, key: Nat, members: SUBSET Members, status: Statuses]

-----------------------------------------------------------------------------
(* The RelayPool's handlers.  Each runs without interruption.              *)

\* Mutant: invites that left the declaration keep their entry.
StoreDeclaration_KeepsEntries(d) ==
    IF decl # None /\ decl.at >= d.at
    THEN UNCHANGED <<decl, pinv>>
    ELSE /\ decl' = d
         /\ pinv' = [i \in Invites |-> IF i \in d.pending THEN "active" ELSE pinv[i]]

\* storeAudienceEvent for a declaration, with updatePendingInviteIndex.
StoreDeclaration(d) ==
    IF decl # None /\ decl.at >= d.at
    THEN UNCHANGED <<decl, pinv>>
    ELSE /\ decl' = d
         /\ pinv' = [i \in Invites |->
               IF i \in d.pending THEN "active"
               ELSE IF decl # None /\ i \in decl.pending THEN "removed"
               ELSE pinv[i]]

SameGrant(g, h) == g.epoch = h.epoch /\ g.to = h.to
SameClaim(c, d) == /\ c.invite = d.invite /\ c.epoch = d.epoch
                   /\ c.invite = None => c.by = d.by

\* storeAudienceEvent for grants and claims: the newest of an address stays.
StoredGrants(batch) ==
    LET kept == {h \in grants : \A g \in batch : SameGrant(g, h) => h.at >= g.at}
    IN  kept \cup {g \in batch : \A h \in kept : ~SameGrant(g, h)}
StoredClaims(c) ==
    LET kept == {d \in claims : SameClaim(c, d) => d.at >= c.at}
    IN  IF \E d \in kept : SameClaim(c, d) THEN kept ELSE kept \cup {c}

\* getDeclarationByInvitePub
Resolve(i) ==
    IF pinv[i] = None THEN "not_found"
    ELSE IF pinv[i] = "active" /\ decl # None /\ i \in decl.pending THEN "active"
    ELSE "removed"

Lapsed(i) == expires[i] # None /\ expires[i] <= now

\* getObject(30520, ...) parsed with dropExpiredPending.
ParsedDecl == [decl EXCEPT !.pending = {i \in @ : ~Lapsed(i)}]
Closed == decl # None /\ decl.status = "closed"

\* validateAudienceClaimEvent: the claim of an invite the declaration lists.
ClaimValid(i, d) == i \in d.pending
\* validateLeaveClaimEvent
LeaveValid(m, d) == m \in d.members
\* validateKeyGrantEvent, for grants to identity keys.
GrantValid(grant, to, d) ==
    /\ grant.epoch = d.epoch
    /\ to \subseteq d.members
    /\ Founder \in d.members

-----------------------------------------------------------------------------
(* Requests.                                                               *)

Idle == [route |-> "none", pc |-> "idle", member |-> None, drop |-> {}, add |-> {},
         dropPending |-> {}, invite |-> None, key |-> 0, base |-> None, next |-> None,
         grant |-> None, to |-> {}, unread |-> {}, epoch |-> 0]

InFlight == {s \in Slots : req[s].pc # "idle"}

Init ==
    /\ now = 0
    /\ decl = None
    /\ pinv = [i \in Invites |-> None]
    /\ claims = {}
    /\ grants = {}
    /\ req = [s \in Slots |-> Idle]
    /\ expires = [i \in Invites |-> None]
    /\ keys = 0
    /\ minted = [i \in Invites |-> None]
    /\ published = {}
    /\ unstored = FALSE
    /\ requests = 0
    /\ failures = 0
    /\ quietSince = 0

Tick ==
    /\ now < MaxNow
    /\ now' = now + 1
    /\ UNCHANGED <<store, req, expires, keys, minted, published, unstored, bounds>>

At(s, pc) == req[s].pc = pc
Go(s, r) == req' = [req EXCEPT ![s] = r]

\* The answer: nothing of the request is kept.
Answer(s) == Go(s, Idle) /\ quietSince' = now
Step(s, r) == Go(s, r) /\ UNCHANGED quietSince

Arrive(s, r) ==
    /\ At(s, "idle")
    /\ r.route \in Routes
    /\ requests < MaxRequests
    /\ now >= quietSince + Gap
    /\ Go(s, r)
    /\ requests' = requests + 1
    /\ UNCHANGED <<now, store, minted, published, unstored, failures, quietSince>>

FreshInvites == {i \in Invites : expires[i] = None}
Mint(i) == expires' = [expires EXCEPT ![i] = now + InviteTtl]

\* /create and /raw/create: the audience's first declaration and the founding
\* grant, built by the gateway or signed by the caller.
ArriveCreate(s) ==
    /\ At(s, "idle")
    /\ decl = None /\ InFlight = {} /\ keys = 0
    /\ keys' = 1
    /\ \E route \in CreateRoutes : Go(s, [Idle EXCEPT
          !.route = route, !.pc = "publish",
          !.next = [at |-> now, epoch |-> 1, key |-> 1, members |-> {Founder},
                    pending |-> {}, status |-> "active"],
          !.grant = [epoch |-> 1, key |-> 1, at |-> now],
          !.to = {Founder}])
    /\ UNCHANGED <<now, store, expires, minted, published, unstored, bounds>>

ArriveCustodial(s) ==
    /\ decl # None
    /\ \/ Arrive(s, [Idle EXCEPT !.route = "invite", !.pc = "lookup"])
       \/ \E m \in Members :
             Arrive(s, [Idle EXCEPT !.route = "grant", !.pc = "guard",
                                    !.member = m, !.key = decl.key])
       \/ \E add, drop \in SUBSET (Members \ {Founder}) : \E ds \in SUBSET decl.pending :
             Arrive(s, [Idle EXCEPT !.route = "rotate", !.pc = "guard",
                                    !.add = add, !.drop = drop, !.dropPending = ds])
       \/ Arrive(s, [Idle EXCEPT !.route = "process-claims", !.pc = "lookup"])
    /\ UNCHANGED <<expires, keys>>

\* The holder of an invite URL claims it, for the epoch the URL names.
ArriveClaim(s) ==
    /\ \E i \in Invites, m \in Members, route \in {"claim", "raw/claim"} :
          /\ minted[i] # None
          /\ Arrive(s, [Idle EXCEPT !.route = route,
                                    !.pc = IF route = "claim" THEN "guard" ELSE "lookup",
                                    !.invite = i, !.member = m, !.epoch = minted[i]])
    /\ UNCHANGED <<expires, keys>>

\* A member claims to have left, in the epoch of the declaration it reads.
ArriveLeave(s) ==
    /\ decl # None
    /\ \E m \in Members :
          Arrive(s, [Idle EXCEPT !.route = "raw/leave", !.pc = "lookup",
                                 !.member = m, !.epoch = decl.epoch])
    /\ UNCHANGED <<expires, keys>>

\* The raw routes' caller signs a successor of the declaration it has read.
ArriveRaw(s) ==
    /\ decl # None
    /\ LET seen == ParsedDecl
           signed == [seen EXCEPT !.at = now]
       IN  \/ /\ \E i \in FreshInvites :
                   /\ Mint(i)
                   /\ Arrive(s, [Idle EXCEPT !.route = "raw/invite", !.pc = "guard",
                                    !.invite = i,
                                    !.next = [signed EXCEPT !.pending = @ \cup {i}]])
              /\ UNCHANGED keys
           \/ /\ \E m \in Members :
                   Arrive(s, [Idle EXCEPT !.route = "raw/grant", !.pc = "lookup",
                                    !.next = IF m \in seen.members THEN None
                                             ELSE [signed EXCEPT !.members = @ \cup {m}],
                                    !.grant = [epoch |-> seen.epoch, key |-> seen.key, at |-> now],
                                    !.to = {m}])
              /\ UNCHANGED <<expires, keys>>
           \/ /\ \E roster \in SUBSET Members :
                   /\ Founder \in roster
                   /\ Arrive(s, [Idle EXCEPT !.route = "raw/rotate", !.pc = "guard",
                                    !.next = [signed EXCEPT !.epoch = @ + 1, !.key = keys + 1,
                                                            !.members = roster],
                                    !.grant = [epoch |-> seen.epoch + 1, key |-> keys + 1,
                                               at |-> now],
                                    !.to = roster])
              /\ keys' = keys + 1
              /\ UNCHANGED expires
           \/ /\ \E roster \in SUBSET seen.members, status \in Statuses :
                   /\ Founder \in roster
                   /\ Arrive(s, [Idle EXCEPT !.route = "raw/publish-declaration", !.pc = "prior",
                                    !.next = [signed EXCEPT !.members = roster,
                                                            !.status = status]])
              /\ UNCHANGED <<expires, keys>>

-----------------------------------------------------------------------------
(* The routes.  `lookup' is lookupDeclarationByAddress, `guard' the closed *)
(* room check of loadAudienceStatus; both read the cache again.            *)

\* Mutants: created_at is copied with the rest; a missing status has no default.
Rebuilt_CopiesTime(base) == [base EXCEPT !.status = "active"]
Rebuilt_NoDefault(base) == [base EXCEPT !.at = now, !.status = None]

\* buildAudienceDeclaration over the looked-up one: every field but those a
\* route changes is copied, and the status is left out, which means active.
Rebuilt(base) == [base EXCEPT !.at = now, !.status = "active"]

\* A declaration carrying a lapsed invite is refused (validateAudienceEvent).
ValidToPublish(d) == \A i \in d.pending : ~Lapsed(i)

\* runInvite: lookup, then guard, then mint and sign.
InviteLookup(s) ==
    /\ At(s, "lookup") /\ req[s].route = "invite"
    /\ Step(s, [req[s] EXCEPT !.pc = "guard", !.base = ParsedDecl])
    /\ UNCHANGED untouched

InviteGuard(s) ==
    /\ At(s, "guard") /\ req[s].route = "invite" /\ ~Closed
    /\ \E i \in FreshInvites :
          /\ Mint(i)
          /\ Step(s, [req[s] EXCEPT
                !.pc = "publish", !.invite = i,
                !.next = [Rebuilt(req[s].base) EXCEPT !.pending = @ \cup {i}]])
    /\ UNCHANGED <<now, store, keys, minted, published, unstored, requests, failures>>

\* The guard of the routes that have it before everything else.
Guard(s) ==
    /\ At(s, "guard") /\ req[s].route \in {"grant", "rotate"} /\ ~Closed
    /\ Step(s, [req[s] EXCEPT !.pc = "lookup"])
    /\ UNCHANGED untouched

\* runGrant: the key must be that of the declaration looked up; the caller's
\* identity key is then derived, and other requests run meanwhile.
GrantLookup(s) ==
    /\ At(s, "lookup") /\ req[s].route = "grant"
    /\ req[s].key = decl.key
    /\ Step(s, [req[s] EXCEPT !.pc = "derive", !.base = ParsedDecl])
    /\ UNCHANGED untouched

\* The grant is signed, and a new member goes on a new declaration, which is
\* published before it.
GrantSign(s) ==
    /\ At(s, "derive")
    /\ LET base == req[s].base
           new == req[s].member \notin base.members
       IN  Step(s, [req[s] EXCEPT
              !.pc = IF new THEN "publish" ELSE "grants",
              !.next = IF new
                       THEN [Rebuilt(base) EXCEPT !.members = @ \cup {req[s].member}]
                       ELSE None,
              !.grant = [epoch |-> base.epoch, key |-> base.key, at |-> now],
              !.to = {req[s].member}])
    /\ UNCHANGED untouched

\* Mutant: a rotation grants the new key to the added members only.
RotateLookup_GrantsAdded(s) ==
    /\ At(s, "lookup") /\ req[s].route = "rotate"
    /\ LET base == ParsedDecl
           roster == (base.members \ req[s].drop) \cup req[s].add
       IN  Step(s, [req[s] EXCEPT
              !.pc = "publish",
              !.next = [Rebuilt(base) EXCEPT !.epoch = @ + 1, !.key = keys + 1,
                                             !.members = roster,
                                             !.pending = @ \ req[s].dropPending],
              !.grant = [epoch |-> base.epoch + 1, key |-> keys + 1, at |-> now],
              !.to = req[s].add])
    /\ keys' = keys + 1
    /\ UNCHANGED <<now, store, expires, minted, published, unstored, requests, failures>>

\* runRotate, also for runProcessClaims.
RotateLookup(s) ==
    /\ At(s, "lookup") /\ req[s].route = "rotate"
    /\ LET base == ParsedDecl
           roster == (base.members \ req[s].drop) \cup req[s].add
       IN  Step(s, [req[s] EXCEPT
              !.pc = "publish",
              !.next = [Rebuilt(base) EXCEPT !.epoch = @ + 1, !.key = keys + 1,
                                             !.members = roster,
                                             !.pending = @ \ req[s].dropPending],
              !.grant = [epoch |-> base.epoch + 1, key |-> keys + 1, at |-> now],
              !.to = roster])
    /\ keys' = keys + 1
    /\ UNCHANGED <<now, store, expires, minted, published, unstored, requests, failures>>

\* runProcessClaims: read the claim of each pending invite, one after the
\* other, at the epoch of the declaration; then rotate the claimed ones in.
ProcessLookup(s) ==
    /\ At(s, "lookup") /\ req[s].route = "process-claims"
    /\ Step(s, [req[s] EXCEPT !.pc = "claims", !.base = ParsedDecl,
                              !.unread = ParsedDecl.pending])
    /\ UNCHANGED untouched

CachedClaims(i, epoch) == {c \in claims : c.invite = i /\ c.epoch = epoch}

ReadClaim(s) ==
    /\ At(s, "claims")
    /\ \E i \in req[s].unread :
          LET found == CachedClaims(i, req[s].base.epoch)
          IN  Step(s, [req[s] EXCEPT
                 !.unread = @ \ {i},
                 !.add = @ \cup {c.by : c \in found},
                 !.dropPending = @ \cup {c.invite : c \in found}])
    /\ UNCHANGED untouched

ClaimsRead(s) ==
    /\ At(s, "claims") /\ req[s].unread = {}
    /\ IF req[s].dropPending = {} THEN Answer(s)
       ELSE Step(s, [req[s] EXCEPT !.route = "rotate", !.pc = "guard", !.base = None])
    /\ UNCHANGED untouched

\* runClaim of both kinds: custodial claims pass the guard only, raw ones are
\* also checked against the pending invites of the looked-up declaration.
ClaimLookup(s) ==
    /\ At(s, "lookup") /\ req[s].route = "raw/claim"
    /\ ClaimValid(req[s].invite, ParsedDecl)
    /\ Step(s, [req[s] EXCEPT !.pc = "guard"])
    /\ UNCHANGED untouched

\* A leave claim passes no guard: a closed room records departures.
LeaveLookup(s) ==
    /\ At(s, "lookup") /\ req[s].route = "raw/leave"
    /\ LeaveValid(req[s].member, ParsedDecl)
    /\ Step(s, [req[s] EXCEPT !.pc = "claim"])
    /\ UNCHANGED untouched

ClaimGuard(s) ==
    /\ At(s, "guard") /\ req[s].route \in {"claim", "raw/claim"} /\ ~Closed
    /\ Step(s, [req[s] EXCEPT !.pc = "claim"])
    /\ UNCHANGED untouched

\* runInvite and runRotate of the raw routes: the guard, then the signed
\* declaration is published as it came; a rotation's grants must fit it.
RawChecked(r) ==
    /\ ValidToPublish(r.next)
    /\ r.route = "raw/rotate" => GrantValid(r.grant, r.to, r.next)
RawGuard(s) ==
    /\ At(s, "guard") /\ req[s].route \in {"raw/invite", "raw/rotate"} /\ ~Closed
    /\ RawChecked(req[s])
    /\ Step(s, [req[s] EXCEPT !.pc = "publish"])
    /\ UNCHANGED untouched

RawGrantLookup(s) ==
    /\ At(s, "lookup") /\ req[s].route = "raw/grant"
    /\ Step(s, [req[s] EXCEPT !.pc = "guard", !.base = ParsedDecl])
    /\ UNCHANGED untouched

\* checkDeclarationSuccessor
Successor(next, base) ==
    /\ ValidToPublish(next)
    /\ next.epoch = base.epoch /\ next.key = base.key
    /\ base.members \subseteq next.members
    /\ next.status # "closed"
    /\ next.at > base.at

\* runGrant of the raw routes: the guard reads the cache again, the checks
\* use the declaration of the lookup.
RawGrantChecked(r) ==
    /\ r.next # None => Successor(r.next, r.base)
    /\ GrantValid(r.grant, r.to, IF r.next = None THEN r.base ELSE r.next)
    /\ Founder \in r.base.members
RawGrantGuard(s) ==
    /\ At(s, "guard") /\ req[s].route = "raw/grant" /\ ~Closed
    /\ RawGrantChecked(req[s])
    /\ Step(s, [req[s] EXCEPT !.pc = IF req[s].next = None THEN "grants" ELSE "publish"])
    /\ UNCHANGED untouched

\* Mutant: the roster of a closed room is not locked.
RawPriorStatus_Unlocked(s) ==
    /\ At(s, "prior")
    /\ ValidToPublish(req[s].next)
    /\ Step(s, [req[s] EXCEPT !.pc = "publish"])
    /\ UNCHANGED untouched

\* runPublishDeclaration: a closed room keeps its roster unless it reopens.
RawPriorStatus(s) ==
    LET next == req[s].next
    IN  /\ At(s, "prior")
        /\ ValidToPublish(next)
        /\ Closed /\ next.status = "closed" => next.members = decl.members
        /\ Step(s, [req[s] EXCEPT !.pc = "publish"])
        /\ UNCHANGED untouched

\* A check of the route fails: 4xx, nothing published.
Refused(s) ==
    LET r == req[s]
    IN  \/ r.pc = "guard" /\ Closed
        \/ r.pc = "lookup" /\ r.route = "grant" /\ r.key # decl.key
        \/ r.pc = "lookup" /\ r.route = "raw/claim" /\ ~ClaimValid(r.invite, ParsedDecl)
        \/ r.pc = "lookup" /\ r.route = "raw/leave" /\ ~LeaveValid(r.member, ParsedDecl)
        \/ r.pc = "guard" /\ r.route \in {"raw/invite", "raw/rotate"} /\ ~RawChecked(r)
        \/ r.pc = "guard" /\ r.route = "raw/grant" /\ ~RawGrantChecked(r)
        \/ r.pc = "prior" /\ (\/ ~ValidToPublish(r.next)
                              \/ Closed /\ r.next.status = "closed"
                                        /\ r.next.members # decl.members)

Refuse(s) ==
    /\ Refused(s)
    /\ Answer(s)
    /\ UNCHANGED untouched

-----------------------------------------------------------------------------
(* publishAndStore: relays first, then the cache.                          *)

Fail(failed) ==
    /\ failed => failures < MaxFailures
    /\ failures' = failures + (IF failed THEN 1 ELSE 0)

\* Mutant: the grants go out although no relay took the declaration.
DeclarationRejected_GoesOn(s) ==
    /\ At(s, "publish")
    /\ Fail(TRUE)
    /\ Step(s, [req[s] EXCEPT !.pc = "grants"])
    /\ UNCHANGED <<now, store, expires, keys, minted, published, unstored, requests>>

\* No relay took it: 502, and the grants are not published.
DeclarationRejected(s) ==
    /\ At(s, "publish")
    /\ Fail(TRUE)
    /\ Answer(s)
    /\ UNCHANGED <<now, store, expires, keys, minted, published, unstored, requests>>

\* What readers of a declaration go by.
Public(d) == [epoch |-> d.epoch, key |-> d.key, members |-> d.members]

\* Some relay took it.  A failure to cache it is only logged.
DeclarationAccepted(s) ==
    LET r == req[s]
    IN  /\ At(s, "publish")
        /\ published' = published \cup {Public(r.next)}
        /\ \/ StoreDeclaration(r.next) /\ Fail(FALSE) /\ UNCHANGED unstored
           \/ Fail(TRUE) /\ unstored' = TRUE /\ UNCHANGED <<decl, pinv>>
        /\ IF r.to = {} THEN Answer(s)
           ELSE Step(s, [r EXCEPT !.pc = "grants",
                                  !.grant.at = IF r.route = "rotate" THEN now ELSE @])
        /\ minted' = IF r.route \in {"invite", "raw/invite"}
                     THEN [minted EXCEPT ![r.invite] = r.next.epoch] ELSE minted
        /\ UNCHANGED <<now, claims, grants, expires, keys, requests>>

\* publishAllAndStore for the grants: the answer is 200 whoever took them.
PublishGrants(s) ==
    LET r == req[s]
    IN  /\ At(s, "grants")
        /\ \E took \in SUBSET r.to :
              /\ Fail(took # r.to)
              /\ unstored' = (unstored \/ took # r.to)
              /\ grants' = StoredGrants({[epoch |-> r.grant.epoch, key |-> r.grant.key,
                                          to |-> m, at |-> r.grant.at] : m \in took})
        /\ Answer(s)
        /\ UNCHANGED <<now, decl, pinv, claims, expires, keys, minted, published, requests>>

PublishClaim(s) ==
    LET r == req[s]
    IN  /\ At(s, "claim")
        /\ \/ /\ claims' = StoredClaims([invite |-> r.invite, epoch |-> r.epoch,
                                         by |-> r.member, at |-> now])
              /\ Fail(FALSE)
           \/ Fail(TRUE) /\ UNCHANGED claims
        /\ Answer(s)
        /\ UNCHANGED <<now, decl, pinv, grants, expires, keys, minted, published, unstored, requests>>

Handle(s) ==
    \/ InviteLookup(s) \/ InviteGuard(s)
    \/ Guard(s) \/ GrantLookup(s) \/ GrantSign(s) \/ RotateLookup(s)
    \/ ProcessLookup(s) \/ ReadClaim(s) \/ ClaimsRead(s)
    \/ ClaimLookup(s) \/ ClaimGuard(s) \/ LeaveLookup(s)
    \/ RawGuard(s) \/ RawGrantLookup(s) \/ RawGrantGuard(s) \/ RawPriorStatus(s)
    \/ Refuse(s)
    \/ DeclarationRejected(s) \/ DeclarationAccepted(s)
    \/ PublishGrants(s) \/ PublishClaim(s)

Next ==
    \/ Tick
    \/ \E s \in Slots :
          \/ ArriveCreate(s) \/ ArriveCustodial(s) \/ ArriveClaim(s) \/ ArriveLeave(s)
          \/ ArriveRaw(s) \/ Handle(s)

Spec == Init /\ [][Next]_vars

-----------------------------------------------------------------------------
(* Correctness.                                                            *)

Request == [route: CustodialRoutes \cup RawRoutes \cup CreateRoutes \cup {"none"},
            pc: {"idle", "guard", "lookup", "prior", "derive", "claims", "claim", "publish",
                 "grants"},
            member: Members \cup {None}, drop: SUBSET Members, add: SUBSET Members,
            dropPending: SUBSET Invites, invite: Invites \cup {None}, key: Nat,
            base: Declaration \cup {None}, next: Declaration \cup {None},
            grant: GrantTemplate \cup {None}, to: SUBSET Members,
            unread: SUBSET Invites, epoch: Nat]

TypeOK ==
    /\ now \in Nat /\ keys \in Nat
    /\ {requests, failures, quietSince} \subseteq Nat
    /\ decl \in Declaration \cup {None}
    /\ pinv \in [Invites -> {"active", "removed", None}]
    /\ claims \subseteq Claim
    /\ grants \subseteq Grant
    /\ req \in [Slots -> Request]
    /\ expires \in [Invites -> Nat \cup {None}]
    /\ minted \in [Invites -> Nat \cup {None}]
    /\ published \subseteq [epoch: Nat, key: Nat, members: SUBSET Members]
    /\ unstored \in BOOLEAN

\* The pinv: index says "active" of exactly the invites the cached
\* declaration lists, whichever requests replaced it in whatever order, so
\* /by-invite-pub tells a live invite from a gone one (updatePendingInviteIndex).
PinvIndexExact ==
    \A i \in Invites : pinv[i] = "active" <=> decl # None /\ i \in decl.pending

\* "Publish the declaration first so readers never see a grant to a
\* non-member": each grant that went out is for the epoch and key of a
\* declaration a relay had already accepted, and to a member it lists.
GrantsFollowDeclaration ==
    \A g \in grants : \E d \in published :
        d.epoch = g.epoch /\ d.key = g.key /\ g.to \in d.members

(* What makes GrantsFollowDeclaration inductive: the grants a request still *)
(* carries fit the declaration it is about to publish, or one already out. *)

Fits(grant, to, d) == d.epoch = grant.epoch /\ d.key = grant.key /\ to \subseteq d.members

\* r is a sound request while the cached declaration is d and p is out.
RequestOK(r, d, p) ==
    /\ r.pc # "idle" /\ r.route \notin CreateRoutes => d # None
    /\ r.pc = "prior" => r.route = "raw/publish-declaration"
    /\ r.pc = "derive" => r.route = "grant" /\ r.base # None /\ Public(r.base) \in p
    /\ r.pc \in {"publish", "prior"} \/ r.route \in {"raw/invite", "raw/rotate"}
          => r.next # None
    /\ r.pc = "claims" \/ (r.pc = "guard" /\ r.route \in {"invite", "raw/grant"})
          => r.base # None
    /\ r.route \in {"grant", "claim", "raw/claim", "raw/leave"} \/ r.pc = "claim"
          => r.member # None
    /\ r.route = "raw/invite" => r.invite # None
    /\ r.pc = "publish" /\ r.route = "invite" => r.invite # None
    /\ r.route \in CreateRoutes => r.pc \in {"publish", "grants"}
    /\ r.pc = "grants" \/ r.route = "raw/grant" => r.to # {}
    /\ r.route = "invite" => r.to = {}
    /\ r.to # {} => /\ r.grant # None
                    /\ r.next # None => Fits(r.grant, r.to, r.next)
                    /\ r.next = None \/ r.pc = "grants" =>
                          \E q \in p : Fits(r.grant, r.to, q)

GrantsInv ==
    /\ TypeOK
    /\ \A s \in Slots : RequestOK(req[s], decl, published)
    /\ decl # None => Public(decl) \in published
    /\ \A i \in Invites : minted[i] # None => decl # None
    /\ GrantsFollowDeclaration

\* Every invite link a route answered with resolves, or is known to be gone:
\* /by-invite-pub answers 404 only "if the invite_pub has never been seen in
\* any pending list".
MintedInviteKnown ==
    ~unstored => \A i \in Invites : minted[i] # None => Resolve(i) # "not_found"

\* Between requests each member of the cached declaration holds a grant of
\* its current key, unless a publish failed part-way.
MembersHoldCurrentKey ==
    (InFlight = {} /\ ~unstored /\ decl # None) =>
        \A m \in decl.members : \E g \in grants :
            g.to = m /\ g.epoch = decl.epoch /\ g.key = decl.key

\* SPEC-v0.5: fa:epoch "MUST monotonically increase across supersessions".
EpochNeverRegresses ==
    [][decl # None => decl'.epoch >= decl.epoch]_vars

\* With one request at a time the cached declaration is an atomic room.
Room == INSTANCE AudienceRoom WITH
    room <- IF decl = None THEN None
            ELSE [epoch |-> decl.epoch, key |-> decl.key,
                  members |-> decl.members, status |-> decl.status]

RefinesRoom == Room!Spec

=============================================================================
