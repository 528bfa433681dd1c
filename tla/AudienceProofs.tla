--------------------------- MODULE AudienceProofs ---------------------------
(***************************************************************************)
(* Theorems about Audience, for every set of members and invites, every    *)
(* set of routes in use and any number of requests in flight:              *)
(*   TypeCorrect, PinvIndexAlwaysExact, GrantsAlwaysFollowDeclaration;     *)
(* and, for one request at a time (OneAtATime):                            *)
(*   MintedInvitesKnown, MembersAlwaysHoldKey, ImplementsRoom.             *)
(* GrantsInv is the inductive invariant of the former: it says what a      *)
(* request in flight still carries, so that no check made before a relay   *)
(* round trip has to be made again after it.  SerialInv adds how what a    *)
(* lone request carries follows from the cached declaration.               *)
(***************************************************************************)
EXTENDS Audience, TLAPS

\* A request that has built what it is to publish.
LEMMA ReadyType ==
  ASSUME NEW q \in Request, NEW pc \in {"publish", "grants"},
         NEW n \in Declaration \cup {None}, NEW g \in GrantTemplate,
         NEW to \in SUBSET Members
  PROVE  LET r == [q EXCEPT !.pc = pc, !.next = n, !.grant = g, !.to = to]
         IN  /\ r \in Request
             /\ r.pc = pc /\ r.next = n /\ r.grant = g /\ r.to = to
             /\ r.route = q.route /\ r.member = q.member /\ r.invite = q.invite
<1> DEFINE r == [q EXCEPT !.pc = pc, !.next = n, !.grant = g, !.to = to]
           c == [q EXCEPT !.pc = pc, !.next = n, !.grant = g]
<1>1. c \in Request
  BY DEF Request
<1>2. r = [c EXCEPT !.to = to]
  OBVIOUS
<1>3. /\ r.pc = pc /\ r.next = n /\ r.grant = g /\ r.to = to
      /\ r.route = q.route /\ r.member = q.member /\ r.invite = q.invite
  BY DEF Request
<1> HIDE DEF c
<1>4. r \in Request
  BY <1>1, <1>2 DEF Request
<1>5. QED
  BY <1>3, <1>4

USE FounderAssumption, RoutesAssumption, NoneAssumption, AbsentAssumption, BoundsAssumption

\* The steps that leave the durable state alone.
Unstored == UNCHANGED <<now, store, published>>

-----------------------------------------------------------------------------
\* The slot idles between requests.
LEMMA IdleType == Idle \in Request /\ \A d, p : RequestOK(Idle, d, p)
  BY DEF Idle, Request, RequestOK, CustodialRoutes, RawRoutes, CreateRoutes

\* Lapsed invites aside, the parsed declaration is the cached one.
LEMMA ParsedType ==
  ASSUME TypeOK, decl # None
  PROVE  /\ ParsedDecl \in Declaration
         /\ Public(ParsedDecl) = Public(decl)
         /\ ParsedDecl.members = decl.members /\ ParsedDecl.epoch = decl.epoch
         /\ ParsedDecl.key = decl.key
  BY DEF TypeOK, ParsedDecl, Declaration, Public

\* A step that changes one request, once the request it leaves is sound and
\* what is cached and published only grows.
LEMMA RequestStep ==
  ASSUME TypeOK, \A s \in Slots : RequestOK(req[s], decl, published),
         NEW s \in Slots, NEW r \in Request, req' = [req EXCEPT ![s] = r],
         RequestOK(r, decl', published'),
         decl # None => decl' # None,
         published \subseteq published'
  PROVE  /\ req' \in [Slots -> Request]
         /\ \A t \in Slots : RequestOK(req'[t], decl', published')
<1>1. req' \in [Slots -> Request]
  BY DEF TypeOK
<1>2. ASSUME NEW t \in Slots PROVE RequestOK(req'[t], decl', published')
  <2>1. CASE t = s
    BY <2>1 DEF TypeOK
  <2>2. CASE t # s
    <3>1. req'[t] = req[t] /\ RequestOK(req[t], decl, published)
      BY <2>2 DEF TypeOK
    <3>2. QED
      BY <3>1 DEF RequestOK, CreateRoutes
  <2>3. QED
    BY <2>1, <2>2
<1>3. QED
  BY <1>1, <1>2

\* A step inside one request that stores and publishes nothing.
LEMMA QuietStep ==
  ASSUME GrantsInv, NEW s \in Slots, NEW r \in Request, Go(s, r),
         RequestOK(r, decl, published),
         Unstored,
         expires' \in [Invites -> Nat \cup {None}],
         keys' \in Nat, minted' = minted, unstored' = unstored,
         {requests', failures', quietSince'} \subseteq Nat
  PROVE  GrantsInv'
<1>1. /\ req' \in [Slots -> Request]
      /\ \A t \in Slots : RequestOK(req'[t], decl', published')
  BY RequestStep DEF GrantsInv, Go, Unstored, store
<1>2. TypeOK'
  BY <1>1 DEF GrantsInv, TypeOK, Unstored, store
<1>3. (decl # None => Public(decl) \in published)'
  BY DEF GrantsInv, Unstored, store, Public
<1>4. (\A i \in Invites : minted[i] # None => decl # None)'
  BY DEF GrantsInv, Unstored, store
<1>5. GrantsFollowDeclaration'
  BY DEF GrantsInv, GrantsFollowDeclaration, Unstored, store
<1>6. QED
  BY <1>1, <1>2, <1>3, <1>4, <1>5 DEF GrantsInv

\* The same for the steps that write `untouched': the slot's request changes
\* to r, or the request is answered.
LEMMA CheckStep ==
  ASSUME GrantsInv, NEW s \in Slots, UNCHANGED untouched,
         NEW r \in Request, RequestOK(r, decl, published),
         Step(s, r)
  PROVE  GrantsInv'
<1>1. Unstored /\ Go(s, r) /\ expires' = expires /\ keys' = keys /\ minted' = minted
      /\ unstored' = unstored /\ requests' = requests /\ failures' = failures
      /\ quietSince' = quietSince
  BY DEF untouched, Unstored, store, Step
<1>2. QED
  BY <1>1, QuietStep DEF GrantsInv, TypeOK

LEMMA AnswerStep ==
  ASSUME GrantsInv, NEW s \in Slots, UNCHANGED untouched, Answer(s)
  PROVE  GrantsInv'
<1>1. Unstored /\ Go(s, Idle) /\ expires' = expires /\ keys' = keys /\ minted' = minted
      /\ unstored' = unstored /\ requests' = requests /\ failures' = failures
      /\ quietSince' = now
  BY DEF untouched, Unstored, store, Answer
<1>2. QED
  BY <1>1, QuietStep, IdleType DEF GrantsInv, TypeOK

-----------------------------------------------------------------------------
(* The routes up to the publish.                                           *)

\* What is known of the request a handler works on.
LEMMA RequestKnown ==
  ASSUME GrantsInv, NEW s \in Slots
  PROVE  req[s] \in Request /\ RequestOK(req[s], decl, published)
  BY DEF GrantsInv, TypeOK

LEMMA InviteLookupInv ==
  ASSUME GrantsInv, NEW s \in Slots, InviteLookup(s)
  PROVE  GrantsInv'
<1> DEFINE r == [req[s] EXCEPT !.pc = "guard", !.base = ParsedDecl]
<1>1. req[s] \in Request /\ RequestOK(req[s], decl, published)
  BY RequestKnown
<1>2. decl # None
  BY <1>1 DEF InviteLookup, At, RequestOK, CreateRoutes
<1>3. TypeOK
  BY DEF GrantsInv
<1>4. r \in Request
  BY <1>1, <1>2, <1>3, ParsedType DEF InviteLookup, At, Request
<1>5. RequestOK(r, decl, published)
  BY <1>1, <1>2, <1>3, ParsedType DEF InviteLookup, At, RequestOK, CreateRoutes
<1>6. QED
  BY <1>4, <1>5, CheckStep DEF InviteLookup

LEMMA GuardInv ==
  ASSUME GrantsInv, NEW s \in Slots, Guard(s)
  PROVE  GrantsInv'
<1> DEFINE r == [req[s] EXCEPT !.pc = "lookup"]
<1>1. req[s] \in Request /\ RequestOK(req[s], decl, published)
  BY RequestKnown
<1>2. decl # None
  BY <1>1 DEF Guard, At, RequestOK, CreateRoutes
<1>3. r \in Request
  BY <1>1, <1>2 DEF Guard, At, Request
<1>4. RequestOK(r, decl, published)
  BY <1>1, <1>2 DEF Guard, At, RequestOK, CreateRoutes
<1>5. QED
  BY <1>3, <1>4, CheckStep DEF Guard

LEMMA ProcessLookupInv ==
  ASSUME GrantsInv, NEW s \in Slots, ProcessLookup(s)
  PROVE  GrantsInv'
<1> DEFINE r == [req[s] EXCEPT !.pc = "claims", !.base = ParsedDecl,
                              !.unread = ParsedDecl.pending]
<1>1. req[s] \in Request /\ RequestOK(req[s], decl, published)
  BY RequestKnown
<1>2. decl # None
  BY <1>1 DEF ProcessLookup, At, RequestOK, CreateRoutes
<1>3. TypeOK
  BY DEF GrantsInv
<1>4. r \in Request
  BY <1>1, <1>2, <1>3, ParsedType DEF ProcessLookup, At, Request, Declaration
<1>5. RequestOK(r, decl, published)
  BY <1>1, <1>2, <1>3, ParsedType DEF ProcessLookup, At, RequestOK, CreateRoutes
<1>6. QED
  BY <1>4, <1>5, CheckStep DEF ProcessLookup

LEMMA ClaimLookupInv ==
  ASSUME GrantsInv, NEW s \in Slots, ClaimLookup(s)
  PROVE  GrantsInv'
<1> DEFINE r == [req[s] EXCEPT !.pc = "guard"]
<1>1. req[s] \in Request /\ RequestOK(req[s], decl, published)
  BY RequestKnown
<1>2. decl # None
  BY <1>1 DEF ClaimLookup, At, RequestOK, CreateRoutes
<1>3. r \in Request
  BY <1>1, <1>2 DEF ClaimLookup, At, Request
<1>4. RequestOK(r, decl, published)
  BY <1>1, <1>2 DEF ClaimLookup, At, RequestOK, CreateRoutes
<1>5. QED
  BY <1>3, <1>4, CheckStep DEF ClaimLookup

LEMMA LeaveLookupInv ==
  ASSUME GrantsInv, NEW s \in Slots, LeaveLookup(s)
  PROVE  GrantsInv'
<1> DEFINE r == [req[s] EXCEPT !.pc = "claim"]
<1>1. req[s] \in Request /\ RequestOK(req[s], decl, published)
  BY RequestKnown
<1>2. decl # None
  BY <1>1 DEF LeaveLookup, At, RequestOK, CreateRoutes
<1>3. r \in Request
  BY <1>1, <1>2 DEF LeaveLookup, At, Request
<1>4. RequestOK(r, decl, published)
  BY <1>1, <1>2 DEF LeaveLookup, At, RequestOK, CreateRoutes
<1>5. QED
  BY <1>3, <1>4, CheckStep DEF LeaveLookup

LEMMA ClaimGuardInv ==
  ASSUME GrantsInv, NEW s \in Slots, ClaimGuard(s)
  PROVE  GrantsInv'
<1> DEFINE r == [req[s] EXCEPT !.pc = "claim"]
<1>1. req[s] \in Request /\ RequestOK(req[s], decl, published)
  BY RequestKnown
<1>2. decl # None
  BY <1>1 DEF ClaimGuard, At, RequestOK, CreateRoutes
<1>3. r \in Request
  BY <1>1, <1>2 DEF ClaimGuard, At, Request
<1>4. RequestOK(r, decl, published)
  BY <1>1, <1>2 DEF ClaimGuard, At, RequestOK, CreateRoutes
<1>5. QED
  BY <1>3, <1>4, CheckStep DEF ClaimGuard

LEMMA RawGuardInv ==
  ASSUME GrantsInv, NEW s \in Slots, RawGuard(s)
  PROVE  GrantsInv'
<1> DEFINE r == [req[s] EXCEPT !.pc = "publish"]
<1>1. req[s] \in Request /\ RequestOK(req[s], decl, published)
  BY RequestKnown
<1>2. decl # None
  BY <1>1 DEF RawGuard, At, RequestOK, CreateRoutes
<1>3. r \in Request
  BY <1>1, <1>2 DEF RawGuard, At, Request
<1>4. RequestOK(r, decl, published)
  BY <1>1, <1>2 DEF RawGuard, At, RequestOK, CreateRoutes
<1>5. QED
  BY <1>3, <1>4, CheckStep DEF RawGuard

LEMMA RawGrantLookupInv ==
  ASSUME GrantsInv, NEW s \in Slots, RawGrantLookup(s)
  PROVE  GrantsInv'
<1> DEFINE r == [req[s] EXCEPT !.pc = "guard", !.base = ParsedDecl]
<1>1. req[s] \in Request /\ RequestOK(req[s], decl, published)
  BY RequestKnown
<1>2. decl # None
  BY <1>1 DEF RawGrantLookup, At, RequestOK, CreateRoutes
<1>3. TypeOK
  BY DEF GrantsInv
<1>4. r \in Request
  BY <1>1, <1>2, <1>3, ParsedType DEF RawGrantLookup, At, Request
<1>5. RequestOK(r, decl, published)
  BY <1>1, <1>2, <1>3, ParsedType DEF RawGrantLookup, At, RequestOK, CreateRoutes
<1>6. QED
  BY <1>4, <1>5, CheckStep DEF RawGrantLookup

LEMMA RawPriorStatusInv ==
  ASSUME GrantsInv, NEW s \in Slots, RawPriorStatus(s)
  PROVE  GrantsInv'
<1> DEFINE r == [req[s] EXCEPT !.pc = "publish"]
<1>1. req[s] \in Request /\ RequestOK(req[s], decl, published)
  BY RequestKnown
<1>2. decl # None
  BY <1>1 DEF RawPriorStatus, At, RequestOK, CreateRoutes
<1>3. r \in Request
  BY <1>1, <1>2 DEF RawPriorStatus, At, Request
<1>4. RequestOK(r, decl, published)
  BY <1>1, <1>2 DEF RawPriorStatus, At, RequestOK, CreateRoutes
<1>5. QED
  BY <1>3, <1>4, CheckStep DEF RawPriorStatus

LEMMA InviteGuardInv ==
  ASSUME GrantsInv, NEW s \in Slots, InviteGuard(s)
  PROVE  GrantsInv'
<1>1. req[s] \in Request /\ RequestOK(req[s], decl, published)
  BY RequestKnown
<1>2. PICK i \in FreshInvites :
        /\ Mint(i)
        /\ Step(s, [req[s] EXCEPT
              !.pc = "publish", !.invite = i,
              !.next = [Rebuilt(req[s].base) EXCEPT !.pending = @ \cup {i}]])
  BY DEF InviteGuard
<1> DEFINE next == [Rebuilt(req[s].base) EXCEPT !.pending = @ \cup {i}]
           r == [req[s] EXCEPT !.pc = "publish", !.invite = i, !.next = next]
<1>3. i \in Invites /\ TypeOK /\ now \in Nat
  BY DEF FreshInvites, GrantsInv, TypeOK
<1>4. req[s].base \in Declaration
  BY <1>1 DEF InviteGuard, At, RequestOK, CreateRoutes, Request
<1>5. next \in Declaration
  BY <1>3, <1>4 DEF Rebuilt, Declaration, Statuses
<1>6. req[s].to = {}
  BY <1>1 DEF InviteGuard, RequestOK, CreateRoutes
<1>7. r \in Request
  BY <1>1, <1>3, <1>5 DEF Request
<1>8. RequestOK(r, decl, published)
  <2>1. /\ r.pc = "publish" /\ r.route = "invite" /\ r.next = next /\ r.invite = i
        /\ r.to = {}
    BY <1>1, <1>6 DEF Request, InviteGuard
  <2>2. next # None /\ decl # None
    BY <1>1, <1>5 DEF InviteGuard, At, RequestOK, CreateRoutes
  <2> HIDE DEF next, r
  <2>3. QED
    BY <1>3, <2>1, <2>2 DEF RequestOK, CreateRoutes
<1>9. expires' \in [Invites -> Nat \cup {None}]
  BY <1>2, <1>3 DEF Mint, TypeOK
<1>10. QED
  BY <1>2, <1>3, <1>7, <1>8, <1>9, QuietStep
  DEF InviteGuard, Unstored, store, Step, TypeOK

LEMMA GrantLookupInv ==
  ASSUME GrantsInv, NEW s \in Slots, GrantLookup(s)
  PROVE  GrantsInv'
<1> DEFINE r == [req[s] EXCEPT !.pc = "derive", !.base = ParsedDecl]
<1>1. req[s] \in Request /\ RequestOK(req[s], decl, published)
  BY RequestKnown
<1>2. decl # None
  BY <1>1 DEF GrantLookup, At, RequestOK, CreateRoutes
<1>3. TypeOK
  BY DEF GrantsInv
<1>4. ParsedDecl \in Declaration /\ Public(ParsedDecl) \in published
  BY <1>2, <1>3, ParsedType DEF GrantsInv
<1>5. r \in Request
  BY <1>1, <1>4 DEF GrantLookup, At, Request
<1>6. RequestOK(r, decl, published)
  BY <1>1, <1>2, <1>4 DEF GrantLookup, At, RequestOK, CreateRoutes
<1>7. QED
  BY <1>5, <1>6, CheckStep DEF GrantLookup

LEMMA GrantSignInv ==
  ASSUME GrantsInv, NEW s \in Slots, GrantSign(s)
  PROVE  GrantsInv'
<1> DEFINE base == req[s].base
           m == req[s].member
           new == m \notin base.members
           next == IF new THEN [Rebuilt(base) EXCEPT !.members = @ \cup {m}] ELSE None
           grant == [epoch |-> base.epoch, key |-> base.key, at |-> now]
           r == [req[s] EXCEPT !.pc = IF new THEN "publish" ELSE "grants",
                               !.next = next, !.grant = grant, !.to = {m}]
<1>1. req[s] \in Request /\ RequestOK(req[s], decl, published)
  BY RequestKnown
<1>2. TypeOK /\ decl # None /\ m \in Members
  BY <1>1 DEF GrantsInv, GrantSign, At, RequestOK, CreateRoutes, Request
<1>3. base \in Declaration /\ Public(base) \in published /\ req[s].route = "grant"
  BY <1>1 DEF GrantSign, At, RequestOK, Request
<1>4. new => /\ next \in Declaration
             /\ next.epoch = base.epoch /\ next.key = base.key /\ m \in next.members
  BY <1>2, <1>3 DEF Rebuilt, Declaration, Statuses, TypeOK
<1>5. grant \in GrantTemplate
  BY <1>2, <1>3 DEF GrantTemplate, Declaration, TypeOK
<1>6. ~new => Fits(grant, {m}, Public(base))
  BY DEF Public, Fits
<1>7. new => Fits(grant, {m}, next)
  BY <1>4 DEF Fits
<1>8. r \in Request
  <2>1. next \in Declaration \cup {None}
    BY <1>4
  <2>2. (IF new THEN "publish" ELSE "grants") \in {"publish", "grants"}
    OBVIOUS
  <2> HIDE DEF next, grant, new, m
  <2>3. {m} \in SUBSET Members
    BY <1>2
  <2>4. QED
    BY <1>1, <1>5, <2>1, <2>2, <2>3, ReadyType, ZenonT(30)
<1>9. r.next = next /\ r.grant = grant /\ r.to = {m} /\ r.route = "grant" /\ r.member = m
      /\ r.pc = (IF new THEN "publish" ELSE "grants")
  BY <1>1, <1>3 DEF Request
<1>10. RequestOK(r, decl, published)
  <2>1. next # None <=> new
    BY <1>4
  <2>2. grant # None
    BY <1>5
  <2> HIDE DEF r, next, grant, base
  <2>3. QED
    BY <1>2, <1>3, <1>6, <1>7, <1>9, <2>1, <2>2 DEF RequestOK, CreateRoutes
<1>11. QED
  BY <1>8, <1>10, CheckStep DEF GrantSign

LEMMA RotateLookupInv ==
  ASSUME GrantsInv, NEW s \in Slots, RotateLookup(s)
  PROVE  GrantsInv'
<1> DEFINE base == ParsedDecl
           roster == (base.members \ req[s].drop) \cup req[s].add
           next == [Rebuilt(base) EXCEPT !.epoch = @ + 1, !.key = keys + 1,
                                         !.members = roster,
                                         !.pending = @ \ req[s].dropPending]
           grant == [epoch |-> base.epoch + 1, key |-> keys + 1, at |-> now]
           r == [req[s] EXCEPT !.pc = "publish", !.next = next, !.grant = grant, !.to = roster]
<1>1. req[s] \in Request /\ RequestOK(req[s], decl, published)
  BY RequestKnown
<1>2. TypeOK /\ decl # None /\ keys \in Nat /\ now \in Nat
  BY <1>1 DEF GrantsInv, RotateLookup, At, RequestOK, CreateRoutes, TypeOK
<1>3. base \in Declaration
  BY <1>2, ParsedType
<1>4. roster \in SUBSET Members
  BY <1>1, <1>3 DEF Declaration, Request
<1>5. /\ next \in Declaration
      /\ next.epoch = base.epoch + 1 /\ next.key = keys + 1 /\ next.members = roster
  <2> DEFINE b == Rebuilt(base)
             e == b.epoch + 1
             k == keys + 1
             ps == b.pending \ req[s].dropPending
             c == [b EXCEPT !.epoch = e, !.key = k, !.members = roster]
  <2>1. b \in Declaration /\ b.epoch = base.epoch
    BY <1>2, <1>3 DEF Rebuilt, Declaration, Statuses
  <2>2. e \in Nat /\ k \in Nat /\ ps \in SUBSET Invites /\ e = base.epoch + 1
    BY <1>2, <2>1 DEF Declaration
  <2>3. next = [c EXCEPT !.pending = ps]
    OBVIOUS
  <2> HIDE DEF base, roster, b, e, ps, next
  <2>4. c \in Declaration /\ c.epoch = e /\ c.key = k /\ c.members = roster
    BY <1>4, <2>1, <2>2 DEF Declaration
  <2> HIDE DEF c, k
  <2>5. /\ next \in Declaration
        /\ next.epoch = e /\ next.key = k /\ next.members = roster
    BY <2>2, <2>3, <2>4 DEF Declaration
  <2>6. QED
    BY <2>2, <2>5 DEF k
<1>6. grant \in GrantTemplate
  BY <1>2, <1>3 DEF GrantTemplate, Declaration
<1>7. Fits(grant, roster, next)
  BY <1>5 DEF Fits
<1>8. r \in Request
  BY <1>1, <1>4, <1>5, <1>6 DEF Request
<1>9. r.next = next /\ r.grant = grant /\ r.to = roster /\ r.route = "rotate" /\ r.pc = "publish"
  BY <1>1 DEF Request, RotateLookup
<1>10. RequestOK(r, decl, published)
  <2>1. next # None /\ grant # None
    BY <1>5, <1>6
  <2> HIDE DEF r, next, grant, base, roster
  <2>2. QED
    BY <1>2, <1>7, <1>9, <2>1 DEF RequestOK, CreateRoutes
<1>11. QED
  <2>1. Go(s, r) /\ quietSince' = quietSince
    BY DEF RotateLookup, Step
  <2>2. UNCHANGED <<expires, minted, unstored, requests, failures>> /\ keys' \in Nat /\ Unstored
    BY <1>2 DEF RotateLookup, untouched, Unstored, store
  <2> HIDE DEF r
  <2>3. QED
    BY <1>2, <1>8, <1>10, <2>1, <2>2, QuietStep DEF TypeOK

LEMMA ReadClaimInv ==
  ASSUME GrantsInv, NEW s \in Slots, ReadClaim(s)
  PROVE  GrantsInv'
<1>1. req[s] \in Request /\ RequestOK(req[s], decl, published)
  BY RequestKnown
<1>2. PICK i \in req[s].unread :
        LET found == CachedClaims(i, req[s].base.epoch)
        IN  Step(s, [req[s] EXCEPT !.unread = @ \ {i},
                                   !.add = @ \cup {c.by : c \in found},
                                   !.dropPending = @ \cup {c.invite : c \in found}])
  BY DEF ReadClaim
<1> DEFINE found == CachedClaims(i, req[s].base.epoch)
           r == [req[s] EXCEPT !.unread = @ \ {i},
                               !.add = @ \cup {c.by : c \in found},
                               !.dropPending = @ \cup {c.invite : c \in found}]
<1>3. found \subseteq Claim
  BY DEF CachedClaims, GrantsInv, TypeOK
<1>4. {c.by : c \in found} \subseteq Members /\ {c.invite : c \in found} \subseteq Invites
  BY <1>1, <1>3 DEF Claim, CachedClaims, Request
<1>5. r \in Request
  <2> HIDE DEF found
  <2>1. QED
    BY <1>1, <1>4 DEF Request
<1>6. RequestOK(r, decl, published)
  BY <1>1 DEF ReadClaim, At, RequestOK, CreateRoutes, Request
<1>7. QED
  BY <1>2, <1>5, <1>6, CheckStep DEF ReadClaim

LEMMA ClaimsReadInv ==
  ASSUME GrantsInv, NEW s \in Slots, ClaimsRead(s)
  PROVE  GrantsInv'
<1> DEFINE r == [req[s] EXCEPT !.route = "rotate", !.pc = "guard", !.base = None]
<1>1. req[s] \in Request /\ RequestOK(req[s], decl, published)
  BY RequestKnown
<1>2. r \in Request
  BY <1>1 DEF Request, CustodialRoutes, CreateRoutes
<1>3. decl # None /\ RequestOK(r, decl, published)
  BY <1>1 DEF ClaimsRead, At, RequestOK, CreateRoutes, Request
<1>4. CASE Answer(s)
  BY <1>4, AnswerStep DEF ClaimsRead
<1>5. CASE Step(s, r)
  BY <1>2, <1>3, <1>5, CheckStep DEF ClaimsRead
<1>6. QED
  BY <1>4, <1>5 DEF ClaimsRead

LEMMA RawGrantGuardInv ==
  ASSUME GrantsInv, NEW s \in Slots, RawGrantGuard(s)
  PROVE  GrantsInv'
<1> DEFINE r == [req[s] EXCEPT !.pc = IF req[s].next = None THEN "grants" ELSE "publish"]
<1>1. req[s] \in Request /\ RequestOK(req[s], decl, published)
  BY RequestKnown
<1>2. r \in Request
  BY <1>1 DEF Request
<1>3. RequestOK(r, decl, published)
  BY <1>1 DEF RawGrantGuard, At, RequestOK, CreateRoutes, Request
<1>4. QED
  BY <1>2, <1>3, CheckStep DEF RawGrantGuard

LEMMA RefuseInv ==
  ASSUME GrantsInv, NEW s \in Slots, Refuse(s)
  PROVE  GrantsInv'
  BY AnswerStep DEF Refuse

-----------------------------------------------------------------------------
(* The publishes.                                                          *)

LEMMA FailType ==
  ASSUME TypeOK, NEW b \in BOOLEAN, Fail(b)
  PROVE  failures' \in Nat
  BY DEF Fail, TypeOK

LEMMA DeclarationRejectedInv ==
  ASSUME GrantsInv, NEW s \in Slots, DeclarationRejected(s)
  PROVE  GrantsInv'
<1>1. TypeOK
  BY DEF GrantsInv
<1>2. failures' \in Nat
  BY <1>1, FailType DEF DeclarationRejected
<1>3. Go(s, Idle) /\ quietSince' = now /\ Unstored
  BY DEF DeclarationRejected, Answer, Unstored, store
<1>4. QED
  BY <1>1, <1>2, <1>3, IdleType, QuietStep DEF DeclarationRejected, TypeOK

\* What a stored declaration does to the cache.
LEMMA StoreType ==
  ASSUME TypeOK, NEW d \in Declaration, StoreDeclaration(d)
  PROVE  /\ decl' \in Declaration
         /\ decl' = decl \/ decl' = d
         /\ pinv' \in [Invites -> {"active", "removed", None}]
  BY DEF TypeOK, StoreDeclaration

LEMMA DeclarationAcceptedInv ==
  ASSUME GrantsInv, NEW s \in Slots, DeclarationAccepted(s)
  PROVE  GrantsInv'
<1> DEFINE next == req[s].next
           at == IF req[s].route = "rotate" THEN now ELSE req[s].grant.at
           r == [req[s] EXCEPT !.pc = "grants", !.grant.at = at]
<1>1. req[s] \in Request /\ RequestOK(req[s], decl, published)
  BY RequestKnown
<1>2. TypeOK /\ req[s].pc = "publish"
  BY DEF GrantsInv, DeclarationAccepted, At
<1>3. next \in Declaration
  BY <1>1, <1>2 DEF RequestOK, CreateRoutes, Request
<1>4. published' = published \cup {Public(next)}
  BY DEF DeclarationAccepted
<1>5. /\ decl' = decl \/ decl' = next
      /\ decl' \in Declaration \cup {None}
      /\ pinv' \in [Invites -> {"active", "removed", None}]
      /\ failures' \in Nat /\ unstored' \in BOOLEAN
  <2>1. CASE StoreDeclaration(next) /\ Fail(FALSE) /\ UNCHANGED unstored
    BY <1>2, <1>3, <2>1, StoreType, FailType DEF TypeOK
  <2>2. CASE Fail(TRUE) /\ unstored' = TRUE /\ UNCHANGED <<decl, pinv>>
    BY <1>2, <2>2, FailType DEF TypeOK
  <2>3. QED
    BY <2>1, <2>2 DEF DeclarationAccepted
<1>6. decl # None => decl' # None
  BY <1>3, <1>5
<1>7. /\ req' \in [Slots -> Request]
      /\ \A t \in Slots : RequestOK(req'[t], decl', published')
      /\ quietSince' \in Nat
  <2>1. CASE req[s].to = {}
    <3>1. Answer(s)
      BY <2>1 DEF DeclarationAccepted
    <3>2. QED
      BY <1>2, <1>4, <1>6, <3>1, IdleType, RequestStep
      DEF Answer, Go, GrantsInv, TypeOK
  <2>2. CASE req[s].to # {}
    <3>1. Step(s, r)
      BY <2>2 DEF DeclarationAccepted
    <3>2. req[s].grant \in GrantTemplate /\ Fits(req[s].grant, req[s].to, next)
      BY <1>1, <1>3, <2>2 DEF RequestOK, CreateRoutes, Request
    <3>3. at \in Nat
      BY <1>2, <3>2 DEF GrantTemplate, TypeOK
    <3>4. /\ r.pc = "grants" /\ r.route = req[s].route /\ r.to = req[s].to
          /\ r.next = next /\ r.member = req[s].member /\ r.invite = req[s].invite
          /\ r.grant = [req[s].grant EXCEPT !.at = at]
      BY <1>1 DEF Request
    <3>5. r.grant \in GrantTemplate /\ Fits(r.grant, r.to, next)
      <4>1. /\ [req[s].grant EXCEPT !.at = at] \in GrantTemplate
            /\ [req[s].grant EXCEPT !.at = at].epoch = req[s].grant.epoch
            /\ [req[s].grant EXCEPT !.at = at].key = req[s].grant.key
        BY <3>2, <3>3 DEF GrantTemplate
      <4>2. QED
        BY <3>2, <3>4, <4>1 DEF Fits
    <3>6. r \in Request
      <4>1. r = [req[s] EXCEPT !.pc = "grants", !.grant = r.grant]
        BY <1>1, <3>4 DEF Request
      <4> HIDE DEF r
      <4>2. QED
        BY <1>1, <3>5, <4>1 DEF Request
    <3>7. Fits(r.grant, r.to, Public(next))
      BY <3>5 DEF Fits, Public
    <3>8. RequestOK(r, decl', published')
      <4>1. decl' # None \/ req[s].route \in CreateRoutes
        BY <1>1, <1>2, <1>6 DEF RequestOK, CreateRoutes
      <4>2. r.grant # None /\ next # None
        BY <1>3, <3>5
      <4>3. \E q \in published' : Fits(r.grant, r.to, q)
        BY <1>4, <3>7
      <4> HIDE DEF r, next
      <4>4. QED
        BY <1>1, <1>2, <2>2, <3>4, <3>5, <4>1, <4>2, <4>3 DEF RequestOK, CreateRoutes
    <3> HIDE DEF r
    <3>9. QED
      BY <1>2, <1>4, <1>6, <3>1, <3>6, <3>8, RequestStep
      DEF Step, Go, GrantsInv, TypeOK
  <2>3. QED
    BY <2>1, <2>2
<1>8. minted' \in [Invites -> Nat \cup {None}]
  BY <1>2, <1>3 DEF DeclarationAccepted, TypeOK, Declaration
<1>9. TypeOK'
  <2>1. published' \subseteq [epoch: Nat, key: Nat, members: SUBSET Members]
    BY <1>2, <1>3, <1>4 DEF TypeOK, Public, Declaration
  <2>2. UNCHANGED <<now, claims, grants, expires, keys, requests>>
    BY DEF DeclarationAccepted
  <2>3. QED
    BY <1>2, <1>5, <1>7, <1>8, <2>1, <2>2 DEF TypeOK
<1>10. decl' # None => Public(decl)' \in published'
  BY <1>4, <1>5 DEF GrantsInv, Public
<1>11. GrantsFollowDeclaration'
  BY <1>4 DEF GrantsInv, GrantsFollowDeclaration, DeclarationAccepted
<1>12. (\A i \in Invites : minted[i] # None => decl # None)'
  BY <1>1, <1>2, <1>6 DEF GrantsInv, TypeOK, RequestOK, CreateRoutes, DeclarationAccepted
<1>13. QED
  BY <1>7, <1>9, <1>10, <1>11, <1>12 DEF GrantsInv

LEMMA PublishGrantsInv ==
  ASSUME GrantsInv, NEW s \in Slots, PublishGrants(s)
  PROVE  GrantsInv'
<1> DEFINE r == req[s]
           Batch(took) == {[epoch |-> r.grant.epoch, key |-> r.grant.key,
                            to |-> m, at |-> r.grant.at] : m \in took}
<1>1. req[s] \in Request /\ RequestOK(req[s], decl, published)
  BY RequestKnown
<1>2. TypeOK /\ r.pc = "grants"
  BY DEF GrantsInv, PublishGrants, At
<1>3. PICK took \in SUBSET r.to :
        /\ Fail(took # r.to)
        /\ unstored' = (unstored \/ took # r.to)
        /\ grants' = StoredGrants(Batch(took))
  BY DEF PublishGrants
<1>4. r.grant \in GrantTemplate /\ r.to \subseteq Members
  BY <1>1, <1>2 DEF RequestOK, CreateRoutes, Request
<1>5. PICK q \in published : Fits(r.grant, r.to, q)
  BY <1>1, <1>2 DEF RequestOK, CreateRoutes
<1>6. \A g \in Batch(took) : /\ g \in Grant
                             /\ g.epoch = q.epoch /\ g.key = q.key /\ g.to \in q.members
  BY <1>3, <1>4, <1>5 DEF Grant, GrantTemplate, Fits
<1>7. grants' \subseteq grants \cup Batch(took)
  BY <1>3 DEF StoredGrants
<1>8. grants' \subseteq Grant
  BY <1>2, <1>6, <1>7 DEF TypeOK
<1>9. published' = published
  BY DEF PublishGrants
<1>10. GrantsFollowDeclaration'
  <2> SUFFICES ASSUME NEW g \in grants'
               PROVE  \E d \in published :
                         d.epoch = g.epoch /\ d.key = g.key /\ g.to \in d.members
    BY <1>9 DEF GrantsFollowDeclaration
  <2>1. CASE g \in grants
    BY <2>1 DEF GrantsInv, GrantsFollowDeclaration
  <2>2. CASE g \in Batch(took)
    BY <1>5, <1>6, <2>2
  <2>3. QED
    BY <1>7, <2>1, <2>2
<1>11. /\ req' \in [Slots -> Request]
       /\ \A t \in Slots : RequestOK(req'[t], decl', published')
  BY <1>2, IdleType, RequestStep DEF PublishGrants, Answer, Go, GrantsInv
<1>12. TypeOK'
  <2>1. failures' \in Nat /\ unstored' \in BOOLEAN /\ quietSince' \in Nat
    BY <1>2, <1>3, FailType DEF PublishGrants, Answer, TypeOK
  <2>2. QED
    BY <1>2, <1>8, <1>9, <1>11, <2>1 DEF PublishGrants, TypeOK
<1>13. (decl # None => Public(decl) \in published)'
  BY <1>9 DEF GrantsInv, PublishGrants, Public
<1>14. (\A i \in Invites : minted[i] # None => decl # None)'
  BY DEF GrantsInv, PublishGrants
<1>15. QED
  BY <1>10, <1>11, <1>12, <1>13, <1>14 DEF GrantsInv

LEMMA PublishClaimInv ==
  ASSUME GrantsInv, NEW s \in Slots, PublishClaim(s)
  PROVE  GrantsInv'
<1> DEFINE c == [invite |-> req[s].invite, epoch |-> req[s].epoch,
                 by |-> req[s].member, at |-> now]
<1>1. req[s] \in Request /\ RequestOK(req[s], decl, published)
  BY RequestKnown
<1>2. TypeOK
  BY DEF GrantsInv
<1>3. c \in Claim
  BY <1>1, <1>2 DEF PublishClaim, At, RequestOK, CreateRoutes, Request, Claim, TypeOK
<1>4. claims' \subseteq Claim /\ failures' \in Nat
  <2>1. CASE claims' = StoredClaims(c) /\ Fail(FALSE)
    BY <1>2, <1>3, <2>1, FailType DEF StoredClaims, TypeOK
  <2>2. CASE Fail(TRUE) /\ UNCHANGED claims
    BY <1>2, <2>2, FailType DEF TypeOK
  <2>3. QED
    BY <2>1, <2>2 DEF PublishClaim
<1>5. /\ req' \in [Slots -> Request]
      /\ \A t \in Slots : RequestOK(req'[t], decl', published')
  BY <1>2, IdleType, RequestStep DEF PublishClaim, Answer, Go, GrantsInv
<1>6. TypeOK'
  BY <1>2, <1>4, <1>5 DEF PublishClaim, Answer, TypeOK
<1>7. (decl # None => Public(decl) \in published)'
  BY DEF GrantsInv, PublishClaim, Public
<1>8. GrantsFollowDeclaration'
  BY DEF GrantsInv, GrantsFollowDeclaration, PublishClaim
<1>9. (\A i \in Invites : minted[i] # None => decl # None)'
  BY DEF GrantsInv, PublishClaim
<1>10. QED
  BY <1>5, <1>6, <1>7, <1>8, <1>9 DEF GrantsInv

-----------------------------------------------------------------------------
(* The arrivals.                                                           *)

LEMMA ArriveStep ==
  ASSUME GrantsInv, NEW s \in Slots, NEW r \in Request, Arrive(s, r),
         RequestOK(r, decl, published),
         expires' \in [Invites -> Nat \cup {None}], keys' \in Nat
  PROVE  GrantsInv'
<1>1. /\ Go(s, r) /\ Unstored
      /\ requests' = requests + 1
      /\ UNCHANGED <<minted, unstored, failures, quietSince>>
  BY DEF Arrive, Unstored
<1>2. QED
  BY <1>1, QuietStep DEF GrantsInv, TypeOK

LEMMA ArriveCreateInv ==
  ASSUME GrantsInv, NEW s \in Slots, ArriveCreate(s)
  PROVE  GrantsInv'
<1>0. PICK route \in CreateRoutes :
        Go(s, [Idle EXCEPT
          !.route = route, !.pc = "publish",
          !.next = [at |-> now, epoch |-> 1, key |-> 1, members |-> {Founder},
                    pending |-> {}, status |-> "active"],
          !.grant = [epoch |-> 1, key |-> 1, at |-> now],
          !.to = {Founder}])
  BY DEF ArriveCreate
<1> DEFINE d == [at |-> now, epoch |-> 1, key |-> 1, members |-> {Founder},
                 pending |-> {}, status |-> "active"]
           g == [epoch |-> 1, key |-> 1, at |-> now]
           q == [Idle EXCEPT !.route = route]
           pc == "publish"
           to == {Founder}
           r == [q EXCEPT !.pc = pc, !.next = d, !.grant = g, !.to = to]
<1>1. TypeOK /\ now \in Nat
  BY DEF GrantsInv, TypeOK
<1>2. d \in Declaration /\ g \in GrantTemplate /\ Fits(g, {Founder}, d)
  BY <1>1 DEF Declaration, Statuses, GrantTemplate, Fits
<1>3. q \in Request /\ q.route = route
  BY IdleType DEF Request, Idle
<1>4. /\ r \in Request
      /\ r.pc = pc /\ r.next = d /\ r.grant = g /\ r.to = to
      /\ r.route = route
  <2>1. /\ d \in Declaration \cup {None} /\ to \in SUBSET Members
        /\ pc \in {"publish", "grants"}
    BY <1>2
  <2>2. r.pc = pc /\ r.next = d /\ r.grant = g /\ r.to = to /\ r.route = route
    BY DEF Idle
  <2> HIDE DEF d, g, q, pc, to
  <2>3. r \in Request
    BY <1>2, <1>3, <2>1, ReadyType, ZenonT(30)
  <2>4. QED
    BY <2>2, <2>3
<1> HIDE DEF d, g, q
<1>5. d # None /\ g # None
  BY <1>2
<1>6. Go(s, r) /\ Unstored
      /\ UNCHANGED <<expires, minted, unstored, requests, failures, quietSince>> /\ keys' = 1
  BY <1>0 DEF ArriveCreate, Unstored, d, g, q, bounds
<1> HIDE DEF r
<1>7. RequestOK(r, decl, published)
  BY <1>0, <1>2, <1>4, <1>5 DEF RequestOK, CreateRoutes
<1>8. QED
  BY <1>1, <1>4, <1>6, <1>7, QuietStep DEF TypeOK

LEMMA ArriveCustodialInv ==
  ASSUME GrantsInv, NEW s \in Slots, ArriveCustodial(s)
  PROVE  GrantsInv'
<1>1. /\ TypeOK /\ decl \in Declaration /\ decl # None
      /\ expires' \in [Invites -> Nat \cup {None}] /\ keys' \in Nat
  BY DEF GrantsInv, TypeOK, ArriveCustodial
<1>2. CASE Arrive(s, [Idle EXCEPT !.route = "invite", !.pc = "lookup"])
  <2> DEFINE r == [Idle EXCEPT !.route = "invite", !.pc = "lookup"]
  <2>1. r \in Request /\ RequestOK(r, decl, published)
    BY <1>1, IdleType, ZenonT(30) DEF Idle, Request, RequestOK, CustodialRoutes, RawRoutes, CreateRoutes
  <2>2. QED
    BY <1>1, <1>2, <2>1, ArriveStep
<1>3. ASSUME NEW m \in Members,
             Arrive(s, [Idle EXCEPT !.route = "grant", !.pc = "guard",
                                    !.member = m, !.key = decl.key])
      PROVE  GrantsInv'
  <2> DEFINE r == [Idle EXCEPT !.route = "grant", !.pc = "guard",
                               !.member = m, !.key = decl.key]
  <2>1. decl.key \in Nat
    BY <1>1 DEF Declaration
  <2>2. r \in Request /\ RequestOK(r, decl, published)
    BY <1>1, <2>1 DEF Idle, Request, RequestOK, CustodialRoutes, RawRoutes, CreateRoutes
  <2>3. QED
    BY <1>1, <1>3, <2>2, ArriveStep
<1>4. ASSUME NEW add \in SUBSET (Members \ {Founder}), NEW drop \in SUBSET (Members \ {Founder}),
             NEW ds \in SUBSET decl.pending,
             Arrive(s, [Idle EXCEPT !.route = "rotate", !.pc = "guard",
                                    !.add = add, !.drop = drop, !.dropPending = ds])
      PROVE  GrantsInv'
  <2> DEFINE r == [Idle EXCEPT !.route = "rotate", !.pc = "guard",
                               !.add = add, !.drop = drop, !.dropPending = ds]
  <2>1. ds \in SUBSET Invites
    BY <1>1 DEF Declaration
  <2>2. r \in Request /\ RequestOK(r, decl, published)
    BY <1>1, <2>1 DEF Idle, Request, RequestOK, CustodialRoutes, RawRoutes, CreateRoutes
  <2>3. QED
    BY <1>1, <1>4, <2>2, ArriveStep
<1>5. CASE Arrive(s, [Idle EXCEPT !.route = "process-claims", !.pc = "lookup"])
  <2> DEFINE r == [Idle EXCEPT !.route = "process-claims", !.pc = "lookup"]
  <2>1. r \in Request /\ RequestOK(r, decl, published)
    BY <1>1 DEF Idle, Request, RequestOK, CustodialRoutes, RawRoutes, CreateRoutes
  <2>2. QED
    BY <1>1, <1>5, <2>1, ArriveStep
<1>6. QED
  BY <1>2, <1>3, <1>4, <1>5 DEF ArriveCustodial

LEMMA ArriveClaimInv ==
  ASSUME GrantsInv, NEW s \in Slots, ArriveClaim(s)
  PROVE  GrantsInv'
<1>1. PICK i \in Invites, m \in Members, route \in {"claim", "raw/claim"} :
        /\ minted[i] # None
        /\ Arrive(s, [Idle EXCEPT !.route = route,
                                  !.pc = IF route = "claim" THEN "guard" ELSE "lookup",
                                  !.invite = i, !.member = m, !.epoch = minted[i]])
  BY DEF ArriveClaim
<1> DEFINE r == [Idle EXCEPT !.route = route,
                             !.pc = IF route = "claim" THEN "guard" ELSE "lookup",
                             !.invite = i, !.member = m, !.epoch = minted[i]]
<1>2. /\ TypeOK /\ minted[i] \in Nat
      /\ expires' \in [Invites -> Nat \cup {None}] /\ keys' \in Nat
  BY <1>1 DEF GrantsInv, TypeOK, ArriveClaim
<1>3. r \in Request
  BY <1>2 DEF Idle, Request, CustodialRoutes, RawRoutes, CreateRoutes
<1>4. decl # None /\ RequestOK(r, decl, published)
  BY <1>1 DEF Idle, GrantsInv, RequestOK, CreateRoutes
<1>5. QED
  BY <1>1, <1>2, <1>3, <1>4, ArriveStep

LEMMA ArriveLeaveInv ==
  ASSUME GrantsInv, NEW s \in Slots, ArriveLeave(s)
  PROVE  GrantsInv'
<1>1. PICK m \in Members :
        Arrive(s, [Idle EXCEPT !.route = "raw/leave", !.pc = "lookup",
                               !.member = m, !.epoch = decl.epoch])
  BY DEF ArriveLeave
<1> DEFINE r == [Idle EXCEPT !.route = "raw/leave", !.pc = "lookup",
                             !.member = m, !.epoch = decl.epoch]
<1>2. /\ TypeOK /\ decl # None /\ decl.epoch \in Nat
      /\ expires' \in [Invites -> Nat \cup {None}] /\ keys' \in Nat
  BY DEF GrantsInv, TypeOK, ArriveLeave, Declaration
<1>3. r \in Request /\ RequestOK(r, decl, published)
  BY <1>2 DEF Idle, Request, RequestOK, CustodialRoutes, RawRoutes, CreateRoutes
<1>4. QED
  BY <1>1, <1>2, <1>3, ArriveStep

LEMMA ArriveRawInv ==
  ASSUME GrantsInv, NEW s \in Slots, ArriveRaw(s)
  PROVE  GrantsInv'
<1> DEFINE seen == ParsedDecl
           signed == [seen EXCEPT !.at = now]
<1>1. TypeOK /\ now \in Nat /\ keys \in Nat /\ decl # None
  BY DEF GrantsInv, TypeOK, ArriveRaw
<1>2. /\ seen \in Declaration /\ Public(seen) = Public(decl)
      /\ seen.epoch \in Nat /\ seen.key \in Nat /\ seen.members \subseteq Members
  BY <1>1, ParsedType DEF Declaration
<1>3. /\ signed \in Declaration
      /\ signed.epoch = seen.epoch /\ signed.key = seen.key /\ signed.members = seen.members
  BY <1>1, <1>2 DEF Declaration
<1>4. ASSUME NEW i \in FreshInvites, Mint(i), UNCHANGED keys,
             Arrive(s, [Idle EXCEPT !.route = "raw/invite", !.pc = "guard", !.invite = i,
                                    !.next = [signed EXCEPT !.pending = @ \cup {i}]])
      PROVE  GrantsInv'
  <2> DEFINE n == [signed EXCEPT !.pending = @ \cup {i}]
             r == [Idle EXCEPT !.route = "raw/invite", !.pc = "guard", !.invite = i, !.next = n]
  <2>1. i \in Invites
    BY DEF FreshInvites
  <2> HIDE DEF signed
  <2>2. n \in Declaration
    BY <1>3, <2>1 DEF Declaration
  <2> HIDE DEF n
  <2>3. /\ r.route = "raw/invite" /\ r.pc = "guard" /\ r.invite = i /\ r.next = n /\ r.to = {}
        /\ r \in Request
    BY <2>1, <2>2 DEF Idle, Request, CustodialRoutes, RawRoutes, CreateRoutes
  <2>4. expires' \in [Invites -> Nat \cup {None}] /\ keys' \in Nat
    BY <1>1, <1>4, <2>1 DEF Mint, TypeOK
  <2>5. Arrive(s, r)
    BY <1>4 DEF n
  <2>6. n # None
    BY <2>2
  <2> HIDE DEF r
  <2>7. RequestOK(r, decl, published)
    BY <1>1, <2>1, <2>3, <2>6 DEF RequestOK, CreateRoutes
  <2>8. QED
    BY <2>3, <2>4, <2>5, <2>7, ArriveStep
<1>5. ASSUME NEW m \in Members, UNCHANGED <<expires, keys>>,
             Arrive(s, [Idle EXCEPT !.route = "raw/grant", !.pc = "lookup",
                            !.next = IF m \in seen.members THEN None
                                     ELSE [signed EXCEPT !.members = @ \cup {m}],
                            !.grant = [epoch |-> seen.epoch, key |-> seen.key, at |-> now],
                            !.to = {m}])
      PROVE  GrantsInv'
  <2> DEFINE c == [signed EXCEPT !.members = @ \cup {m}]
             n == IF m \in seen.members THEN None ELSE c
             g == [epoch |-> seen.epoch, key |-> seen.key, at |-> now]
             r == [Idle EXCEPT !.route = "raw/grant", !.pc = "lookup", !.next = n,
                               !.grant = g, !.to = {m}]
  <2>1. Arrive(s, r)
    BY <1>5
  <2> HIDE DEF signed
  <2>2. /\ c \in Declaration
        /\ c.epoch = seen.epoch /\ c.key = seen.key /\ c.members = seen.members \cup {m}
    BY <1>3 DEF Declaration
  <2>3. Public(decl) \in published /\ g \in GrantTemplate
    BY <1>1, <1>2 DEF GrantsInv, GrantTemplate
  <2>4. n # None => n \in Declaration /\ Fits(g, {m}, n)
    BY <2>2 DEF Fits
  <2>5. n = None => Fits(g, {m}, Public(decl))
    <3>1. CASE m \in seen.members
      BY <1>2, <3>1 DEF Fits, Public
    <3>2. CASE m \notin seen.members
      BY <2>2, <3>2
    <3>3. QED
      BY <3>1, <3>2
  <2> HIDE DEF n, g
  <2>6. /\ r.route = "raw/grant" /\ r.pc = "lookup" /\ r.next = n /\ r.grant = g /\ r.to = {m}
        /\ r \in Request
    BY <2>3, <2>4 DEF Idle, Request, CustodialRoutes, RawRoutes, CreateRoutes
  <2>7. g # None
    BY <2>3
  <2> HIDE DEF r
  <2>8. RequestOK(r, decl, published)
    BY <1>1, <2>3, <2>4, <2>5, <2>6, <2>7 DEF RequestOK, CreateRoutes
  <2>9. expires' \in [Invites -> Nat \cup {None}] /\ keys' \in Nat
    BY <1>1, <1>5 DEF TypeOK
  <2>10. QED
    BY <2>1, <2>6, <2>8, <2>9, ArriveStep
<1>6. ASSUME NEW roster \in SUBSET Members, Founder \in roster,
             keys' = keys + 1, UNCHANGED expires,
             Arrive(s, [Idle EXCEPT !.route = "raw/rotate", !.pc = "guard",
                            !.next = [signed EXCEPT !.epoch = @ + 1, !.key = keys + 1,
                                                    !.members = roster],
                            !.grant = [epoch |-> seen.epoch + 1, key |-> keys + 1, at |-> now],
                            !.to = roster])
      PROVE  GrantsInv'
  <2> DEFINE e == seen.epoch + 1
             k == keys + 1
             n == [signed EXCEPT !.epoch = @ + 1, !.key = keys + 1, !.members = roster]
             g == [epoch |-> seen.epoch + 1, key |-> keys + 1, at |-> now]
             r == [Idle EXCEPT !.route = "raw/rotate", !.pc = "guard", !.next = n,
                               !.grant = g, !.to = roster]
  <2>1. Arrive(s, r)
    BY <1>6
  <2> HIDE DEF signed
  <2>2. n \in Declaration /\ n.epoch = e /\ n.key = k /\ n.members = roster
    <3>1. e \in Nat /\ k \in Nat
      BY <1>1, <1>2
    <3>2. n = [signed EXCEPT !.epoch = e, !.key = k, !.members = roster]
      BY <1>3
    <3> HIDE DEF e, k, n
    <3>3. QED
      BY <1>3, <3>1, <3>2 DEF Declaration
  <2>3. g \in GrantTemplate
    BY <1>1, <1>2 DEF GrantTemplate
  <2>4. Fits(g, roster, n)
    BY <2>2 DEF Fits
  <2> HIDE DEF n, g
  <2>5. /\ r.route = "raw/rotate" /\ r.pc = "guard" /\ r.next = n /\ r.grant = g /\ r.to = roster
        /\ r \in Request
    BY <2>2, <2>3 DEF Idle, Request, CustodialRoutes, RawRoutes, CreateRoutes
  <2>6. n # None /\ g # None
    BY <2>2, <2>3
  <2> HIDE DEF r
  <2>7. RequestOK(r, decl, published)
    BY <1>1, <2>4, <2>5, <2>6 DEF RequestOK, CreateRoutes
  <2>8. expires' \in [Invites -> Nat \cup {None}] /\ keys' \in Nat
    BY <1>1, <1>6 DEF TypeOK
  <2>9. QED
    BY <2>1, <2>5, <2>7, <2>8, ArriveStep
<1>7. ASSUME NEW roster \in SUBSET seen.members, NEW status \in Statuses,
             UNCHANGED <<expires, keys>>,
             Arrive(s, [Idle EXCEPT !.route = "raw/publish-declaration", !.pc = "prior",
                            !.next = [signed EXCEPT !.members = roster, !.status = status]])
      PROVE  GrantsInv'
  <2> DEFINE n == [signed EXCEPT !.members = roster, !.status = status]
             r == [Idle EXCEPT !.route = "raw/publish-declaration", !.pc = "prior", !.next = n]
  <2>1. Arrive(s, r)
    BY <1>7
  <2> HIDE DEF signed
  <2>2. n \in Declaration
    BY <1>2, <1>3 DEF Declaration
  <2> HIDE DEF n
  <2>3. /\ r.route = "raw/publish-declaration" /\ r.pc = "prior" /\ r.next = n /\ r.to = {}
        /\ r \in Request
    BY <2>2 DEF Idle, Request, CustodialRoutes, RawRoutes, CreateRoutes
  <2>4. n # None
    BY <2>2
  <2> HIDE DEF r
  <2>5. RequestOK(r, decl, published)
    BY <1>1, <2>3, <2>4 DEF RequestOK, CreateRoutes
  <2>6. expires' \in [Invites -> Nat \cup {None}] /\ keys' \in Nat
    BY <1>1, <1>7 DEF TypeOK
  <2>7. QED
    BY <2>1, <2>3, <2>5, <2>6, ArriveStep
<1>8. QED
  BY <1>4, <1>5, <1>6, <1>7 DEF ArriveRaw

-----------------------------------------------------------------------------
(* The theorems.                                                           *)

LEMMA TickInv ==
  ASSUME GrantsInv, Tick
  PROVE  GrantsInv'
<1>1. UNCHANGED <<store, req, expires, keys, minted, published, unstored, bounds>> /\ now' \in Nat
  BY DEF Tick, GrantsInv, TypeOK
<1>2. TypeOK'
  BY <1>1 DEF GrantsInv, TypeOK, store, bounds
<1>3. QED
  BY <1>1, <1>2 DEF GrantsInv, GrantsFollowDeclaration, RequestOK, CreateRoutes, Public, store

LEMMA InitInv == Init => GrantsInv
<1> SUFFICES ASSUME Init PROVE GrantsInv
  OBVIOUS
<1>1. TypeOK
  <2>1. req \in [Slots -> Request]
    BY IdleType DEF Init
  <2>2. /\ pinv \in [Invites -> {"active", "removed", None}]
        /\ expires \in [Invites -> Nat \cup {None}]
        /\ minted \in [Invites -> Nat \cup {None}]
    BY DEF Init
  <2>3. {requests, failures, quietSince} \subseteq Nat
    BY DEF Init
  <2>4. QED
    BY <2>1, <2>2, <2>3 DEF Init, TypeOK
<1>2. \A s \in Slots : RequestOK(req[s], decl, published)
  BY IdleType DEF Init
<1>3. QED
  BY <1>1, <1>2 DEF Init, GrantsInv, GrantsFollowDeclaration

LEMMA HandleInv ==
  ASSUME GrantsInv, NEW s \in Slots, Handle(s)
  PROVE  GrantsInv'
<1>1. CASE InviteLookup(s)
  BY <1>1, InviteLookupInv
<1>2. CASE InviteGuard(s)
  BY <1>2, InviteGuardInv
<1>3. CASE Guard(s)
  BY <1>3, GuardInv
<1>4. CASE GrantLookup(s)
  BY <1>4, GrantLookupInv
<1>5. CASE RotateLookup(s)
  BY <1>5, RotateLookupInv
<1>6. CASE ProcessLookup(s)
  BY <1>6, ProcessLookupInv
<1>7. CASE ReadClaim(s)
  BY <1>7, ReadClaimInv
<1>8. CASE ClaimsRead(s)
  BY <1>8, ClaimsReadInv
<1>9. CASE ClaimLookup(s)
  BY <1>9, ClaimLookupInv
<1>10. CASE ClaimGuard(s)
  BY <1>10, ClaimGuardInv
<1>11. CASE RawGuard(s)
  BY <1>11, RawGuardInv
<1>12. CASE RawGrantLookup(s)
  BY <1>12, RawGrantLookupInv
<1>13. CASE RawGrantGuard(s)
  BY <1>13, RawGrantGuardInv
<1>14. CASE RawPriorStatus(s)
  BY <1>14, RawPriorStatusInv
<1>15. CASE Refuse(s)
  BY <1>15, RefuseInv
<1>16. CASE DeclarationRejected(s)
  BY <1>16, DeclarationRejectedInv
<1>17. CASE DeclarationAccepted(s)
  BY <1>17, DeclarationAcceptedInv
<1>18. CASE PublishGrants(s)
  BY <1>18, PublishGrantsInv
<1>19. CASE PublishClaim(s)
  BY <1>19, PublishClaimInv
<1>20. CASE LeaveLookup(s)
  BY <1>20, LeaveLookupInv
<1>21. CASE GrantSign(s)
  BY <1>21, GrantSignInv
<1>22. QED
  BY <1>1, <1>2, <1>3, <1>4, <1>5, <1>6, <1>7, <1>8, <1>9, <1>10, <1>11, <1>12, <1>13,
     <1>14, <1>15, <1>16, <1>17, <1>18, <1>19, <1>20, <1>21 DEF Handle

LEMMA NextInv == GrantsInv /\ [Next]_vars => GrantsInv'
<1> SUFFICES ASSUME GrantsInv, [Next]_vars PROVE GrantsInv'
  OBVIOUS
<1>1. CASE Tick
  BY <1>1, TickInv
<1>2. ASSUME NEW s \in Slots, ArriveCreate(s) PROVE GrantsInv'
  BY <1>2, ArriveCreateInv
<1>3. ASSUME NEW s \in Slots, ArriveCustodial(s) PROVE GrantsInv'
  BY <1>3, ArriveCustodialInv
<1>4. ASSUME NEW s \in Slots, ArriveClaim(s) PROVE GrantsInv'
  BY <1>4, ArriveClaimInv
<1>5. ASSUME NEW s \in Slots, ArriveRaw(s) PROVE GrantsInv'
  BY <1>5, ArriveRawInv
<1>6. ASSUME NEW s \in Slots, Handle(s) PROVE GrantsInv'
  BY <1>6, HandleInv
<1>7. ASSUME NEW s \in Slots, ArriveLeave(s) PROVE GrantsInv'
  BY <1>7, ArriveLeaveInv
<1>8. CASE UNCHANGED vars
  <2>1. TypeOK'
    BY <1>8 DEF GrantsInv, TypeOK, vars, store, bounds
  <2>2. QED
    BY <1>8, <2>1 DEF GrantsInv, GrantsFollowDeclaration, RequestOK, CreateRoutes, Public, vars, store
<1>9. QED
  BY <1>1, <1>2, <1>3, <1>4, <1>5, <1>6, <1>7, <1>8 DEF Next

LEMMA GrantsInvAlways == Spec => []GrantsInv
  BY InitInv, NextInv, PTL DEF Spec

\* Whatever the requests in flight do, the state keeps its types: a stored
\* declaration is complete, and none of a request's reads is of a missing one.
THEOREM TypeCorrect == Spec => []TypeOK
<1>1. GrantsInv => TypeOK
  BY DEF GrantsInv
<1>2. QED
  BY <1>1, GrantsInvAlways, PTL

\* publishAndStore before publishAllAndStore is enough: no interleaving of
\* the routes lets a grant out before a declaration that lists its recipient.
THEOREM GrantsAlwaysFollowDeclaration == Spec => []GrantsFollowDeclaration
<1>1. GrantsInv => GrantsFollowDeclaration
  BY DEF GrantsInv
<1>2. QED
  BY <1>1, GrantsInvAlways, PTL

LEMMA StoreKeepsIndex ==
  ASSUME PinvIndexExact, TypeOK, NEW d \in Declaration, StoreDeclaration(d)
  PROVE  PinvIndexExact'
  BY DEF PinvIndexExact, StoreDeclaration, TypeOK

LEMMA IndexStep ==
  ASSUME GrantsInv, PinvIndexExact, [Next]_vars
  PROVE  PinvIndexExact'
<1>1. ASSUME NEW s \in Slots, DeclarationAccepted(s) PROVE PinvIndexExact'
  <2>1. req[s].next \in Declaration /\ TypeOK
    BY <1>1, RequestKnown DEF DeclarationAccepted, At, RequestOK, CreateRoutes, Request, GrantsInv
  <2>2. CASE StoreDeclaration(req[s].next)
    BY <2>1, <2>2, StoreKeepsIndex
  <2>3. CASE UNCHANGED <<decl, pinv>>
    BY <2>3 DEF PinvIndexExact
  <2>4. QED
    BY <1>1, <2>2, <2>3 DEF DeclarationAccepted
<1>2. CASE UNCHANGED <<decl, pinv>>
  BY <1>2 DEF PinvIndexExact
<1>3. ASSUME NEW s \in Slots,
             \/ ArriveCreate(s) \/ ArriveCustodial(s) \/ ArriveClaim(s)
             \/ ArriveLeave(s) \/ ArriveRaw(s)
      PROVE  UNCHANGED <<decl, pinv>>
  BY <1>3 DEF ArriveCreate, ArriveCustodial, ArriveClaim, ArriveLeave, ArriveRaw, Arrive, store
<1>4. ASSUME NEW s \in Slots, Handle(s), ~DeclarationAccepted(s)
      PROVE  UNCHANGED <<decl, pinv>>
  BY <1>4 DEF Handle, InviteLookup, InviteGuard, Guard, GrantLookup, GrantSign, RotateLookup,
     ProcessLookup, ReadClaim, ClaimsRead, ClaimLookup, ClaimGuard, LeaveLookup, RawGuard,
     RawGrantLookup, RawGrantGuard, RawPriorStatus, Refuse, DeclarationRejected,
     PublishGrants, PublishClaim, untouched, store
<1>5. QED
  BY <1>1, <1>2, <1>3, <1>4 DEF Next, Tick, vars, store

\* updatePendingInviteIndex keeps the index in step with the declaration.
THEOREM PinvIndexAlwaysExact == Spec => []PinvIndexExact
<1>1. Init => PinvIndexExact
  BY DEF Init, PinvIndexExact
<1>2. GrantsInv /\ PinvIndexExact /\ [Next]_vars => PinvIndexExact'
  BY IndexStep
<1>3. QED
  BY <1>1, <1>2, GrantsInvAlways, PTL DEF Spec

-----------------------------------------------------------------------------
(***************************************************************************)
(* One request at a time.  The founder waits for one answer and lets a     *)
(* second pass before the next request: then what a request carries is the *)
(* successor of the declaration that is cached when it is stored.          *)
(***************************************************************************)

OneAtATime == (\A s, t \in Slots : s = t) /\ Gap > 0

Rotating == {"rotate", "raw/rotate"}
Inviting == {"invite", "raw/invite"}
Granting == {"grant", "raw/grant"}
RawCopies == {"raw/invite", "raw/grant", "raw/rotate"}

\* The declaration a request carries, against the cached one.
FirstOf(r, d) ==
    /\ d = None
    /\ r.next.epoch = 1 /\ r.next.members = {Founder} /\ r.next.status = "active"
    /\ r.to = {Founder}

SuccessorOf(r, d) ==
    /\ r.route \in Rotating => /\ r.next.epoch = d.epoch + 1 /\ r.next.key # d.key
                               /\ r.to = r.next.members
    /\ r.route \notin Rotating => r.next.epoch = d.epoch /\ r.next.key = d.key
    /\ r.route \in Inviting => r.next.members = d.members /\ r.invite \in r.next.pending
    /\ r.route \in Granting => \E m \in Members : /\ r.to = {m}
                                                 /\ r.next.members = d.members \cup {m}
    /\ r.route = "raw/publish-declaration" => r.next.members \subseteq d.members
    /\ r.route \in RawCopies => r.next.status = d.status
    /\ r.route \notin RawRoutes => r.next.status = "active"
    /\ r.route \in Rotating \cup Inviting \cup Granting \cup {"raw/publish-declaration"}

\* What the guard has seen still holds.
GuardHolds(r, d) ==
    /\ r.pc = "lookup" /\ r.route \in {"grant", "rotate"} => d.status = "active"
    /\ r.pc = "guard" /\ r.route = "invite" => Public(r.base) = Public(d)
    /\ r.pc = "derive" => Public(r.base) = Public(d) /\ d.status = "active"
    /\ r.pc = "claims" => r.next = None
    /\ r.pc = "publish" /\ r.route \notin CreateRoutes =>
          IF r.route = "raw/publish-declaration"
          THEN d.status = "closed" /\ r.next.status = "closed" => r.next.members = d.members
          ELSE d.status = "active"

SerialOK(r, d) ==
    /\ r.route \in CreateRoutes /\ r.pc = "publish" => FirstOf(r, d)
    /\ r.route \notin CreateRoutes /\ r.pc \notin {"idle", "grants"} =>
          /\ r.next # None => SuccessorOf(r, d)
          /\ r.route = "raw/grant" => r.grant.epoch = d.epoch /\ r.grant.key = d.key
          /\ GuardHolds(r, d)
    /\ r.pc = "grants" /\ ~unstored => /\ d # None
                                       /\ r.grant.epoch = d.epoch /\ r.grant.key = d.key

\* Everything the cache holds is older than t.
CacheBefore(t) == (decl # None => decl.at < t) /\ \A g \in grants : g.at < t

\* Times: an answered request is older than the next, and so is what it left.
TimesOK(r) ==
    /\ quietSince <= now
    /\ decl # None => decl.at <= now
    /\ \A g \in grants : g.at <= now
    /\ r.next # None => r.next.at <= now /\ r.next.key <= keys
    /\ r.grant # None => r.grant.at <= now
    /\ r.pc = "idle" => CacheBefore(quietSince + 1)
    /\ r.pc # "idle" => keys > 0
    /\ r.pc \notin {"idle", "grants"} =>
          /\ CacheBefore(now)
          /\ r.next # None => CacheBefore(r.next.at)
          /\ r.grant # None => CacheBefore(r.grant.at)
    /\ r.pc = "grants" => \A g \in grants : g.at < r.grant.at

Holds(m) == \E g \in grants : g.to = m /\ g.epoch = decl.epoch /\ g.key = decl.key

SerialInv ==
    /\ GrantsInv
    /\ \A s \in Slots : SerialOK(req[s], decl) /\ TimesOK(req[s])
    /\ keys = 0 => decl = None /\ grants = {}
    /\ decl # None => decl.key <= keys
    /\ ~unstored /\ decl # None =>
          \A m \in decl.members : Holds(m) \/ \E s \in Slots : req[s].pc = "grants" /\ m \in req[s].to
    /\ MintedInviteKnown

\* With one slot, what holds of its request holds of every request.
LEMMA SerialKnown ==
  ASSUME SerialInv, OneAtATime, NEW s \in Slots
  PROVE  /\ req[s] \in Request /\ RequestOK(req[s], decl, published)
         /\ SerialOK(req[s], decl) /\ TimesOK(req[s])
         /\ now \in Nat /\ keys \in Nat /\ quietSince \in Nat
         /\ decl \in Declaration \cup {None} /\ grants \subseteq Grant
  BY RequestKnown DEF SerialInv, GrantsInv, TypeOK

\* A step that stores nothing.
LEMMA QuietSerial ==
  ASSUME SerialInv, OneAtATime, GrantsInv', NEW s \in Slots,
         UNCHANGED <<decl, pinv, grants, minted, unstored>>, keys' >= keys,
         req[s].pc # "grants",
         SerialOK(req[s], decl)', TimesOK(req[s])'
  PROVE  SerialInv'
<1>1. keys \in Nat /\ keys' \in Nat
  BY DEF SerialInv, GrantsInv, TypeOK
<1>2. (\A t \in Slots : SerialOK(req[t], decl) /\ TimesOK(req[t]))'
  BY DEF OneAtATime
<1>3. (keys = 0 => decl = None /\ grants = {})' /\ (decl # None => decl.key <= keys)'
  <2>1. decl # None => decl.key \in Nat
    BY DEF SerialInv, GrantsInv, TypeOK, Declaration
  <2>2. QED
    BY <1>1, <2>1 DEF SerialInv
<1>4. (~unstored /\ decl # None =>
          \A m \in decl.members : Holds(m) \/ \E t \in Slots : req[t].pc = "grants" /\ m \in req[t].to)'
  BY DEF SerialInv, Holds, OneAtATime
<1>5. MintedInviteKnown'
  BY DEF SerialInv, MintedInviteKnown, Resolve
<1>6. QED
  BY <1>2, <1>3, <1>4, <1>5 DEF SerialInv

\* The times of a request that goes on: what it adds to itself is of now.
LEMMA TimesStep ==
  ASSUME SerialInv, OneAtATime, GrantsInv', NEW s \in Slots,
         UNCHANGED <<now, decl, grants, quietSince>>, keys' >= keys,
         req[s].pc \notin {"idle", "grants"}, req'[s].pc # "idle",
         req'[s].next \in {req[s].next, None} \/ (req'[s].next.at = now /\ req'[s].next.key <= keys'),
         req'[s].grant = req[s].grant \/ req'[s].grant.at = now
  PROVE  TimesOK(req[s])'
<1>1. /\ req[s] \in Request /\ TimesOK(req[s]) /\ now \in Nat /\ keys \in Nat
      /\ decl \in Declaration \cup {None} /\ grants \subseteq Grant
  BY SerialKnown
<1>2. req'[s] \in Request /\ keys' \in Nat /\ RequestOK(req[s], decl, published)'
  BY DEF GrantsInv, TypeOK
<1>3. /\ req'[s].next # None => /\ req'[s].next.at <= now /\ req'[s].next.key <= keys'
                                /\ CacheBefore(req'[s].next.at)
      /\ req'[s].grant # None => req'[s].grant.at <= now /\ CacheBefore(req'[s].grant.at)
  <2>1. \A d \in Declaration : d.at \in Nat /\ d.key \in Nat
    BY DEF Declaration
  <2>2. QED
    BY <1>1, <1>2, <2>1 DEF TimesOK, Request
<1>4. CacheBefore(now) /\ keys > 0 /\ quietSince <= now
      /\ (decl # None => decl.at <= now) /\ \A g \in grants : g.at <= now
  BY <1>1 DEF TimesOK
<1>5. req'[s].pc = "grants" => req'[s].grant # None
  BY <1>2 DEF RequestOK
<1>6. QED
  BY <1>1, <1>2, <1>3, <1>4, <1>5 DEF TimesOK, CacheBefore

\* A request is answered.
LEMMA AnswerSerial ==
  ASSUME SerialInv, OneAtATime, GrantsInv', NEW s \in Slots,
         req[s].pc \notin {"idle", "grants"},
         UNCHANGED <<now, decl, pinv, grants, minted, unstored, keys>>, Answer(s)
  PROVE  SerialInv'
<1>1. req'[s] = Idle /\ quietSince' = now
  BY DEF Answer, Go, SerialInv, GrantsInv, TypeOK
<1>2. SerialOK(req[s], decl)'
  BY <1>1 DEF SerialOK, Idle, CreateRoutes
<1>3. TimesOK(req[s])'
  <2>1. /\ req[s] \in Request /\ TimesOK(req[s]) /\ now \in Nat
        /\ decl \in Declaration \cup {None} /\ grants \subseteq Grant
    BY SerialKnown
  <2>2. Idle.next = None /\ Idle.grant = None /\ Idle.pc = "idle"
    BY DEF Idle
  <2>3. QED
    BY <1>1, <2>1, <2>2 DEF TimesOK, CacheBefore, Declaration, Grant
<1>4. keys' >= keys
  BY DEF SerialInv, GrantsInv, TypeOK
<1>5. QED
  BY <1>2, <1>3, <1>4, QuietSerial

\* A request goes on with the declaration it carries.
LEMMA GoesOn ==
  ASSUME SerialInv, OneAtATime, GrantsInv', NEW s \in Slots,
         UNCHANGED <<now, decl, pinv, grants, minted, unstored, keys, quietSince>>,
         req[s].pc \notin {"idle", "grants"}, req[s].route \notin CreateRoutes,
         req'[s].pc \notin {"idle", "grants"},
         req'[s].route = req[s].route, req'[s].next = req[s].next, req'[s].to = req[s].to,
         req'[s].grant = req[s].grant,
         req[s].next # None => req'[s].invite = req[s].invite,
         GuardHolds(req'[s], decl)
  PROVE  SerialInv'
<1>1. SerialOK(req[s], decl)
  BY SerialKnown
<1>2. SerialOK(req[s], decl)'
  BY <1>1 DEF SerialOK, SuccessorOf, GuardHolds, Public
<1>3. keys' >= keys
  BY DEF SerialInv, GrantsInv, TypeOK
<1>4. TimesOK(req[s])'
  BY <1>3, TimesStep
<1>5. QED
  BY <1>2, <1>3, <1>4, QuietSerial

\* What a check leaves alone.
Unchecked == UNCHANGED <<now, decl, pinv, grants, minted, unstored, keys, quietSince>>

LEMMA CheckQuiet ==
  ASSUME NEW s \in Slots, NEW r, UNCHANGED untouched, Step(s, r)
  PROVE  Unchecked
  BY DEF untouched, Step, store, Unchecked

\* The checks that pass, and the reads, of a request on its way.
LEMMA ReadSerial ==
  ASSUME SerialInv, OneAtATime, GrantsInv', NEW s \in Slots,
         InviteLookup(s) \/ ProcessLookup(s) \/ ReadClaim(s)
  PROVE  SerialInv'
<1>1. /\ req \in [Slots -> Request] /\ req[s] \in Request
      /\ RequestOK(req[s], decl, published) /\ TypeOK
  BY SerialKnown DEF SerialInv, GrantsInv, TypeOK
<1>2. CASE InviteLookup(s)
  <2> DEFINE r == [req[s] EXCEPT !.pc = "guard", !.base = ParsedDecl]
  <2>1. Unchecked
    BY <1>2, CheckQuiet DEF InviteLookup
  <2>2. req'[s] = r
    BY <1>1, <1>2 DEF InviteLookup, Step, Go
  <2>3. /\ req[s].pc = "lookup" /\ req[s].route = "invite" /\ decl # None
        /\ r.pc = "guard" /\ r.route = "invite" /\ r.next = req[s].next /\ r.to = req[s].to
        /\ r.grant = req[s].grant /\ r.invite = req[s].invite /\ r.base = ParsedDecl
    BY <1>1, <1>2 DEF InviteLookup, At, Request, RequestOK, CreateRoutes
  <2> HIDE DEF r
  <2>4. GuardHolds(req'[s], decl)
    BY <1>1, <2>2, <2>3, ParsedType DEF GuardHolds
  <2>5. QED
    BY <2>1, <2>2, <2>3, <2>4, GoesOn DEF Unchecked, CreateRoutes
<1>3. CASE ProcessLookup(s)
  <2> DEFINE r == [req[s] EXCEPT !.pc = "claims", !.base = ParsedDecl,
                                 !.unread = ParsedDecl.pending]
  <2>1. Unchecked
    BY <1>3, CheckQuiet DEF ProcessLookup
  <2>2. req'[s] = r
    BY <1>1, <1>3 DEF ProcessLookup, Step, Go
  <2>3. /\ req[s].pc = "lookup" /\ req[s].route = "process-claims"
        /\ r.pc = "claims" /\ r.route = req[s].route /\ r.next = req[s].next /\ r.to = req[s].to
        /\ r.grant = req[s].grant /\ r.invite = req[s].invite
    BY <1>1, <1>3 DEF ProcessLookup, At, Request
  <2> HIDE DEF r
  <2>4. req[s].next = None
    BY <1>1, <2>3 DEF SerialInv, SerialOK, SuccessorOf, CreateRoutes, Rotating, Inviting, Granting
  <2>5. QED
    BY <2>1, <2>2, <2>3, <2>4, GoesOn DEF Unchecked, CreateRoutes, GuardHolds
<1>4. CASE ReadClaim(s)
  <2>1. PICK i \in req[s].unread :
           Step(s, [req[s] EXCEPT
                 !.unread = @ \ {i},
                 !.add = @ \cup {c.by : c \in CachedClaims(i, req[s].base.epoch)},
                 !.dropPending = @ \cup {c.invite : c \in CachedClaims(i, req[s].base.epoch)}])
    BY <1>4 DEF ReadClaim
  <2>2. Unchecked
    BY <1>4, <2>1, CheckQuiet DEF ReadClaim
  <2>3. /\ req'[s].pc = req[s].pc /\ req'[s].route = req[s].route
        /\ req'[s].next = req[s].next /\ req'[s].to = req[s].to
        /\ req'[s].grant = req[s].grant /\ req'[s].invite = req[s].invite
    BY <1>1, <2>1 DEF Step, Go, Request
  <2>4. req[s].pc = "claims" /\ req[s].route \notin CreateRoutes
    BY <1>1, <1>4 DEF ReadClaim, At, RequestOK
  <2>5. req[s].next = None
    BY <1>1, <2>4, <1>4 DEF ReadClaim, At, SerialInv, SerialOK, GuardHolds
  <2>6. QED
    BY <2>2, <2>3, <2>4, <2>5, GoesOn DEF Unchecked, GuardHolds
<1>5. QED
  BY <1>2, <1>3, <1>4

\* The checks that change nothing but where the request stands.
Checked(s, pc) == [req[s] EXCEPT !.pc = pc]

LEMMA CheckedSerial ==
  ASSUME SerialInv, OneAtATime, GrantsInv', NEW s \in Slots,
         NEW pc \in {"lookup", "guard", "claim", "publish"},
         UNCHANGED untouched, Step(s, Checked(s, pc)),
         req[s].pc \notin {"idle", "grants"}, req[s].route \notin CreateRoutes,
         GuardHolds(Checked(s, pc), decl)
  PROVE  SerialInv'
<1>1. req \in [Slots -> Request] /\ req[s] \in Request
  BY SerialKnown DEF SerialInv, GrantsInv, TypeOK
<1>2. Unchecked
  BY CheckQuiet
<1>3. req'[s] = Checked(s, pc)
  BY <1>1 DEF Step, Go
<1>4. /\ req'[s].pc = pc /\ req'[s].route = req[s].route
      /\ req'[s].next = req[s].next /\ req'[s].to = req[s].to
      /\ req'[s].grant = req[s].grant /\ req'[s].invite = req[s].invite
  BY <1>1, <1>3 DEF Request, Checked
<1>5. GuardHolds(req'[s], decl)
  BY <1>3
<1>6. QED
  BY <1>2, <1>4, <1>5, GoesOn DEF Unchecked

LEMMA PassSerial ==
  ASSUME SerialInv, OneAtATime, GrantsInv', NEW s \in Slots,
         \/ Guard(s) \/ ClaimLookup(s) \/ LeaveLookup(s) \/ ClaimGuard(s)
         \/ RawGuard(s) \/ RawPriorStatus(s)
         \/ RawGrantGuard(s) /\ req[s].next # None
  PROVE  SerialInv'
<1>1. /\ req[s] \in Request /\ TypeOK
      /\ RequestOK(req[s], decl, published)
  BY SerialKnown DEF SerialInv, GrantsInv
<1>2. \A pc : Checked(s, pc).pc = pc /\ Checked(s, pc).route = req[s].route
              /\ Checked(s, pc).next = req[s].next
  BY <1>1 DEF Checked, Request
<1>3. decl # None /\ ~Closed => decl.status = "active"
  BY <1>1 DEF TypeOK, Declaration, Statuses, Closed
<1>4. CASE Guard(s)
  <2>1. req[s].pc = "guard" /\ req[s].route \in {"grant", "rotate"} /\ decl.status = "active"
    BY <1>1, <1>3, <1>4 DEF Guard, At, RequestOK, CreateRoutes
  <2>2. GuardHolds(Checked(s, "lookup"), decl)
    BY <1>2, <2>1 DEF GuardHolds
  <2>3. QED
    BY <1>4, <2>1, <2>2, CheckedSerial DEF Guard, Checked, CreateRoutes
<1>5. CASE ClaimLookup(s)
  <2>1. req[s].pc = "lookup" /\ req[s].route = "raw/claim"
    BY <1>5 DEF ClaimLookup, At
  <2>2. GuardHolds(Checked(s, "guard"), decl)
    BY <1>2, <2>1 DEF GuardHolds
  <2>3. QED
    BY <1>5, <2>1, <2>2, CheckedSerial DEF ClaimLookup, Checked, CreateRoutes
<1>6. CASE LeaveLookup(s)
  <2>1. req[s].pc = "lookup" /\ req[s].route = "raw/leave"
    BY <1>6 DEF LeaveLookup, At
  <2>2. GuardHolds(Checked(s, "claim"), decl)
    BY <1>2, <2>1 DEF GuardHolds
  <2>3. QED
    BY <1>6, <2>1, <2>2, CheckedSerial DEF LeaveLookup, Checked, CreateRoutes
<1>7. CASE ClaimGuard(s)
  <2>1. req[s].pc = "guard" /\ req[s].route \in {"claim", "raw/claim"}
    BY <1>7 DEF ClaimGuard, At
  <2>2. GuardHolds(Checked(s, "claim"), decl)
    BY <1>2, <2>1 DEF GuardHolds
  <2>3. QED
    BY <1>7, <2>1, <2>2, CheckedSerial DEF ClaimGuard, Checked, CreateRoutes
<1>8. CASE RawGuard(s)
  <2>1. /\ req[s].pc = "guard" /\ req[s].route \in {"raw/invite", "raw/rotate"}
        /\ decl.status = "active"
    BY <1>1, <1>3, <1>8 DEF RawGuard, At, RequestOK, CreateRoutes
  <2>2. GuardHolds(Checked(s, "publish"), decl)
    BY <1>2, <2>1 DEF GuardHolds
  <2>3. QED
    BY <1>8, <2>1, <2>2, CheckedSerial DEF RawGuard, Checked, CreateRoutes
<1>9. CASE RawPriorStatus(s)
  <2>1. /\ req[s].pc = "prior" /\ req[s].route = "raw/publish-declaration" /\ decl # None
        /\ Closed /\ req[s].next.status = "closed" => req[s].next.members = decl.members
    BY <1>1, <1>9 DEF RawPriorStatus, At, RequestOK, CreateRoutes
  <2>2. GuardHolds(Checked(s, "publish"), decl)
    BY <1>2, <2>1 DEF GuardHolds, Closed
  <2>3. QED
    BY <1>9, <2>1, <2>2, CheckedSerial DEF RawPriorStatus, Checked, CreateRoutes
<1>10. CASE RawGrantGuard(s) /\ req[s].next # None
  <2>1. req[s].pc = "guard" /\ req[s].route = "raw/grant" /\ decl.status = "active"
    BY <1>1, <1>3, <1>10 DEF RawGrantGuard, At, RequestOK, CreateRoutes
  <2>2. GuardHolds(Checked(s, "publish"), decl)
    BY <1>2, <2>1 DEF GuardHolds
  <2>3. QED
    BY <1>10, <2>1, <2>2, CheckedSerial DEF RawGrantGuard, Checked, CreateRoutes
<1>11. QED
  BY <1>4, <1>5, <1>6, <1>7, <1>8, <1>9, <1>10

\* The answers that store no grant and no declaration.
LEMMA AnsweredSerial ==
  ASSUME SerialInv, OneAtATime, GrantsInv', NEW s \in Slots,
         \/ Refuse(s) \/ DeclarationRejected(s) \/ PublishClaim(s)
         \/ ClaimsRead(s) /\ req[s].dropPending = {}
  PROVE  SerialInv'
<1>1. CASE Refuse(s)
  <2>1. req[s].pc \notin {"idle", "grants"}
    BY <1>1 DEF Refuse, Refused
  <2>2. QED
    BY <1>1, <2>1, AnswerSerial DEF Refuse, untouched, store
<1>2. CASE DeclarationRejected(s)
  BY <1>2, AnswerSerial DEF DeclarationRejected, At, store
<1>3. CASE PublishClaim(s)
  BY <1>3, AnswerSerial DEF PublishClaim, At
<1>4. CASE ClaimsRead(s) /\ req[s].dropPending = {}
  BY <1>4, AnswerSerial DEF ClaimsRead, At, untouched, store
<1>5. QED
  BY <1>1, <1>2, <1>3, <1>4

\* The claimed invites are rotated in.
LEMMA ClaimsReadSerial ==
  ASSUME SerialInv, OneAtATime, GrantsInv', NEW s \in Slots,
         ClaimsRead(s), req[s].dropPending # {}
  PROVE  SerialInv'
<1> DEFINE r == [req[s] EXCEPT !.route = "rotate", !.pc = "guard", !.base = None]
<1>1. /\ req \in [Slots -> Request] /\ req[s] \in Request
      /\ RequestOK(req[s], decl, published) /\ SerialOK(req[s], decl) /\ keys \in Nat
  BY SerialKnown DEF SerialInv, GrantsInv, TypeOK
<1>2. req[s].pc = "claims" /\ Step(s, r) /\ UNCHANGED untouched
  BY DEF ClaimsRead, At
<1>3. Unchecked
  BY <1>2, CheckQuiet
<1>4. /\ req'[s].route = "rotate" /\ req'[s].pc = "guard"
      /\ req'[s].next = req[s].next /\ req'[s].grant = req[s].grant
  BY <1>1, <1>2 DEF Step, Go, Request
<1>5. req[s].next = None
  BY <1>1, <1>2 DEF SerialOK, GuardHolds, RequestOK
<1>6. SerialOK(req[s], decl)'
  BY <1>3, <1>4, <1>5 DEF SerialOK, GuardHolds, CreateRoutes
<1>7. TimesOK(req[s])'
  BY <1>1, <1>2, <1>3, <1>4, TimesStep DEF Unchecked
<1>8. QED
  BY <1>1, <1>2, <1>3, <1>6, <1>7, QuietSerial DEF Unchecked

\* A grant to someone who is a member already goes out at once.
LEMMA RawRegrantSerial ==
  ASSUME SerialInv, OneAtATime, GrantsInv', NEW s \in Slots,
         RawGrantGuard(s), req[s].next = None
  PROVE  SerialInv'
<1> DEFINE r == [req[s] EXCEPT !.pc = "grants"]
<1>1. /\ req \in [Slots -> Request] /\ req[s] \in Request
      /\ RequestOK(req[s], decl, published) /\ SerialOK(req[s], decl) /\ keys \in Nat
  BY SerialKnown DEF SerialInv, GrantsInv, TypeOK
<1>2. /\ req[s].pc = "guard" /\ req[s].route = "raw/grant"
      /\ Step(s, r) /\ UNCHANGED untouched
  BY DEF RawGrantGuard, At
<1>3. Unchecked
  BY <1>2, CheckQuiet
<1>4. /\ req'[s].route = "raw/grant" /\ req'[s].pc = "grants"
      /\ req'[s].next = req[s].next /\ req'[s].grant = req[s].grant
  BY <1>1, <1>2 DEF Step, Go, Request
<1>5. decl # None /\ req[s].grant.epoch = decl.epoch /\ req[s].grant.key = decl.key
  BY <1>1, <1>2 DEF SerialOK, RequestOK, CreateRoutes
<1>6. SerialOK(req[s], decl)'
  BY <1>3, <1>4, <1>5 DEF SerialOK, CreateRoutes, Unchecked
<1>7. TimesOK(req[s])'
  BY <1>1, <1>2, <1>3, <1>4, TimesStep DEF Unchecked
<1>8. QED
  BY <1>1, <1>2, <1>3, <1>6, <1>7, QuietSerial DEF Unchecked

-----------------------------------------------------------------------------
(* The handlers that build the successor.                                  *)

LEMMA RebuiltType ==
  ASSUME NEW d \in Declaration, now \in Nat
  PROVE  /\ Rebuilt(d) \in Declaration
         /\ Rebuilt(d).at = now /\ Rebuilt(d).status = "active"
         /\ Rebuilt(d).epoch = d.epoch /\ Rebuilt(d).key = d.key
         /\ Rebuilt(d).members = d.members /\ Rebuilt(d).pending = d.pending
  BY DEF Rebuilt, Declaration, Statuses

LEMMA InviteGuardSerial ==
  ASSUME SerialInv, OneAtATime, GrantsInv', NEW s \in Slots, InviteGuard(s)
  PROVE  SerialInv'
<1>1. /\ req \in [Slots -> Request] /\ req[s] \in Request /\ TypeOK
      /\ RequestOK(req[s], decl, published) /\ SerialOK(req[s], decl)
      /\ keys \in Nat /\ now \in Nat
  BY SerialKnown DEF SerialInv, GrantsInv, TypeOK
<1>2. PICK i \in Invites :
        Step(s, [req[s] EXCEPT
              !.pc = "publish", !.invite = i,
              !.next = [Rebuilt(req[s].base) EXCEPT !.pending = @ \cup {i}]])
  BY DEF InviteGuard, FreshInvites
<1> DEFINE base == req[s].base
           next == [Rebuilt(base) EXCEPT !.pending = @ \cup {i}]
<1>3. base \in Declaration /\ Public(base) = Public(decl) /\ decl # None
  BY <1>1 DEF InviteGuard, At, RequestOK, CreateRoutes, Request, SerialOK, GuardHolds
<1>4. /\ next.epoch = decl.epoch /\ next.key = decl.key /\ next.members = decl.members
      /\ next.at = now /\ next.status = "active" /\ i \in next.pending
  BY <1>1, <1>3, RebuiltType DEF Public, Declaration
<1> HIDE DEF next
<1>5. /\ req'[s].route = "invite" /\ req'[s].pc = "publish" /\ req'[s].invite = i
      /\ req'[s].next = next /\ req'[s].grant = req[s].grant /\ req'[s].to = req[s].to
  BY <1>1, <1>2 DEF Step, Go, Request, InviteGuard, next
<1>6. Unchecked
  BY <1>2 DEF InviteGuard, Step, store, Unchecked
<1>7. decl.status = "active"
  BY <1>1, <1>3 DEF InviteGuard, Closed, TypeOK, Declaration, Statuses
<1>8. SuccessorOf(req'[s], decl)
  BY <1>4, <1>5 DEF SuccessorOf, Rotating, Inviting, Granting, RawCopies, RawRoutes
<1>9. GuardHolds(req'[s], decl)
  BY <1>5, <1>7 DEF GuardHolds
<1>10. SerialOK(req[s], decl)'
  BY <1>5, <1>6, <1>8, <1>9 DEF SerialOK, CreateRoutes, Unchecked
<1>11. req[s].pc = "guard" /\ keys' >= keys
  BY <1>1 DEF InviteGuard, At
<1>12. next.key <= keys'
  BY <1>1, <1>3, <1>4 DEF SerialInv, Declaration, InviteGuard, TypeOK
<1>13. TimesOK(req[s])'
  BY <1>4, <1>5, <1>6, <1>11, <1>12, TimesStep DEF Unchecked
<1>14. QED
  BY <1>6, <1>10, <1>11, <1>13, QuietSerial DEF Unchecked

LEMMA RotateLookupSerial ==
  ASSUME SerialInv, OneAtATime, GrantsInv', NEW s \in Slots, RotateLookup(s)
  PROVE  SerialInv'
<1> DEFINE base == ParsedDecl
           roster == (base.members \ req[s].drop) \cup req[s].add
           next == [Rebuilt(base) EXCEPT !.epoch = @ + 1, !.key = keys + 1,
                                         !.members = roster,
                                         !.pending = @ \ req[s].dropPending]
           grant == [epoch |-> base.epoch + 1, key |-> keys + 1, at |-> now]
           r == [req[s] EXCEPT !.pc = "publish", !.next = next, !.grant = grant, !.to = roster]
<1>1. /\ req \in [Slots -> Request] /\ req[s] \in Request /\ TypeOK
      /\ RequestOK(req[s], decl, published) /\ SerialOK(req[s], decl)
      /\ keys \in Nat /\ now \in Nat
  BY SerialKnown DEF SerialInv, GrantsInv, TypeOK
<1>2. req[s].pc = "lookup" /\ req[s].route = "rotate" /\ Step(s, r) /\ keys' = keys + 1
  BY DEF RotateLookup, At
<1>3. decl # None /\ decl \in Declaration /\ decl.status = "active" /\ decl.key <= keys
  BY <1>1, <1>2 DEF RequestOK, CreateRoutes, TypeOK, SerialOK, GuardHolds, SerialInv
<1>4. /\ base \in Declaration /\ base.epoch = decl.epoch
  BY <1>1, <1>3, ParsedType
<1> HIDE DEF base, roster
<1>5. /\ next.epoch = decl.epoch + 1 /\ next.key = keys + 1 /\ next.members = roster
      /\ next.at = now /\ next.status = "active"
  BY <1>1, <1>4, RebuiltType DEF Declaration
<1>6. grant.at = now
  OBVIOUS
<1> HIDE DEF next, grant
<1>7. /\ req'[s].route = "rotate" /\ req'[s].pc = "publish"
      /\ req'[s].next = next /\ req'[s].grant = grant /\ req'[s].to = roster
  BY <1>1, <1>2 DEF Step, Go, Request
<1>8. UNCHANGED <<now, decl, pinv, grants, minted, unstored, quietSince>>
  BY <1>2 DEF RotateLookup, Step, store
<1>9. next.key # decl.key /\ keys' >= keys /\ next.key <= keys'
  BY <1>1, <1>2, <1>3, <1>5 DEF Declaration
<1>10. SuccessorOf(req'[s], decl)
  BY <1>5, <1>7, <1>9 DEF SuccessorOf, Rotating, Inviting, Granting, RawCopies, RawRoutes
<1>11. GuardHolds(req'[s], decl)
  BY <1>3, <1>7 DEF GuardHolds
<1>12. SerialOK(req[s], decl)'
  BY <1>7, <1>8, <1>10, <1>11 DEF SerialOK, CreateRoutes
<1>13. TimesOK(req[s])'
  BY <1>2, <1>5, <1>6, <1>7, <1>8, <1>9, TimesStep
<1>14. QED
  BY <1>2, <1>8, <1>9, <1>12, <1>13, QuietSerial

LEMMA GrantLookupSerial ==
  ASSUME SerialInv, OneAtATime, GrantsInv', NEW s \in Slots, GrantLookup(s)
  PROVE  SerialInv'
<1> DEFINE r == [req[s] EXCEPT !.pc = "derive", !.base = ParsedDecl]
<1>1. /\ req \in [Slots -> Request] /\ req[s] \in Request
      /\ RequestOK(req[s], decl, published) /\ TypeOK /\ SerialOK(req[s], decl)
  BY SerialKnown DEF SerialInv, GrantsInv, TypeOK
<1>2. /\ req[s].pc = "lookup" /\ req[s].route = "grant"
      /\ Step(s, r) /\ UNCHANGED untouched
  BY DEF GrantLookup, At
<1>3. Unchecked
  BY <1>2, CheckQuiet
<1>4. req'[s] = r
  BY <1>1, <1>2 DEF Step, Go
<1>5. /\ r.pc = "derive" /\ r.route = "grant" /\ r.next = req[s].next /\ r.to = req[s].to
      /\ r.grant = req[s].grant /\ r.invite = req[s].invite /\ r.base = ParsedDecl
  BY <1>1, <1>2 DEF Request
<1> HIDE DEF r
<1>6. decl # None /\ decl.status = "active"
  BY <1>1, <1>2 DEF RequestOK, SerialOK, GuardHolds, CreateRoutes
<1>7. GuardHolds(req'[s], decl)
  BY <1>1, <1>4, <1>5, <1>6, ParsedType DEF GuardHolds
<1>8. QED
  BY <1>2, <1>3, <1>4, <1>5, <1>7, GoesOn DEF Unchecked, CreateRoutes

LEMMA GrantSignSerial ==
  ASSUME SerialInv, OneAtATime, GrantsInv', NEW s \in Slots, GrantSign(s)
  PROVE  SerialInv'
<1> DEFINE base == req[s].base
           m == req[s].member
           new == m \notin base.members
           next == IF new THEN [Rebuilt(base) EXCEPT !.members = @ \cup {m}] ELSE None
           grant == [epoch |-> base.epoch, key |-> base.key, at |-> now]
           r == [req[s] EXCEPT !.pc = IF new THEN "publish" ELSE "grants",
                               !.next = next, !.grant = grant, !.to = {m}]
<1>1. /\ req \in [Slots -> Request] /\ req[s] \in Request /\ TypeOK
      /\ RequestOK(req[s], decl, published) /\ SerialOK(req[s], decl)
      /\ keys \in Nat /\ now \in Nat
  BY SerialKnown DEF SerialInv, GrantsInv, TypeOK
<1>2. req[s].pc = "derive" /\ req[s].route = "grant" /\ Step(s, r) /\ UNCHANGED untouched
  BY <1>1 DEF GrantSign, At, RequestOK
<1>3. /\ decl # None /\ decl \in Declaration /\ decl.status = "active" /\ decl.key <= keys
      /\ m \in Members
  BY <1>1, <1>2 DEF RequestOK, CreateRoutes, TypeOK, SerialOK, GuardHolds, SerialInv, Request
<1>4. /\ base \in Declaration /\ base.epoch = decl.epoch /\ base.key = decl.key
      /\ base.members = decl.members
  BY <1>1, <1>2, <1>3 DEF RequestOK, SerialOK, GuardHolds, CreateRoutes, Public, Request
<1> HIDE DEF base
<1>5. new => /\ next.epoch = decl.epoch /\ next.key = decl.key
             /\ next.members = decl.members \cup {m}
             /\ next.at = now /\ next.status = "active"
  BY <1>1, <1>4, RebuiltType DEF Declaration
<1>6. grant.at = now /\ grant.epoch = decl.epoch /\ grant.key = decl.key
  BY <1>4
<1>7. ~new => next = None
  OBVIOUS
<1> HIDE DEF next, grant
<1>8. /\ req'[s].route = "grant" /\ req'[s].pc = IF new THEN "publish" ELSE "grants"
      /\ req'[s].next = next /\ req'[s].grant = grant /\ req'[s].to = {m}
  BY <1>1, <1>2 DEF Step, Go, Request
<1> HIDE DEF new
<1>9. Unchecked /\ keys' >= keys
  BY <1>1, <1>2, CheckQuiet DEF Unchecked
<1>10. new => SuccessorOf(req'[s], decl)
  <2>1. SUFFICES ASSUME new PROVE SuccessorOf(req'[s], decl)
    OBVIOUS
  <2>2. \E q \in Members : req'[s].to = {q} /\ req'[s].next.members = decl.members \cup {q}
    BY <1>3, <1>5, <1>8, <2>1
  <2>3. QED
    BY <1>5, <1>8, <2>1, <2>2 DEF SuccessorOf, Rotating, Inviting, Granting, RawCopies, RawRoutes
<1>11. GuardHolds(req'[s], decl)
  BY <1>3, <1>8 DEF GuardHolds
<1>12. SerialOK(req[s], decl)'
  BY <1>3, <1>6, <1>7, <1>8, <1>9, <1>10, <1>11 DEF SerialOK, CreateRoutes, Unchecked
<1>13. TimesOK(req[s])'
  <2>1. new => next.key <= keys'
    BY <1>3, <1>5, <1>9 DEF Unchecked, Declaration
  <2>2. req'[s].next \in {req[s].next, None} \/ (req'[s].next.at = now /\ req'[s].next.key <= keys')
    BY <1>5, <1>7, <1>8, <2>1
  <2>3. req'[s].pc # "idle"
    BY <1>8
  <2>4. QED
    BY <1>2, <1>6, <1>8, <1>9, <2>2, <2>3, TimesStep DEF Unchecked
<1>14. QED
  BY <1>2, <1>9, <1>12, <1>13, QuietSerial DEF Unchecked

-----------------------------------------------------------------------------
(* Arrivals.                                                               *)

\* After the pause everything the cache holds is older than the request.
LEMMA ArriveSerial ==
  ASSUME SerialInv, OneAtATime, GrantsInv', NEW s \in Slots,
         req[s].pc = "idle", now >= quietSince + Gap,
         UNCHANGED <<now, decl, pinv, grants, minted, unstored, quietSince>>,
         keys' >= keys, keys' > 0,
         req'[s].pc \notin {"idle", "grants"},
         req'[s].next = None \/ (req'[s].next.at = now /\ req'[s].next.key <= keys'),
         req'[s].grant = None \/ req'[s].grant.at = now,
         SerialOK(req[s], decl)'
  PROVE  SerialInv'
<1>1. /\ req[s] \in Request /\ TimesOK(req[s]) /\ now \in Nat /\ keys \in Nat
      /\ quietSince \in Nat /\ Gap \in Nat /\ Gap > 0
      /\ decl \in Declaration \cup {None} /\ grants \subseteq Grant
  BY SerialKnown DEF OneAtATime
<1>2. req'[s] \in Request /\ keys' \in Nat
  BY DEF GrantsInv, TypeOK
<1>3. CacheBefore(now)
  <2>1. CacheBefore(quietSince + 1)
    BY <1>1 DEF TimesOK
  <2>2. \A d \in Declaration \cup Grant : d.at \in Nat
    BY DEF Declaration, Grant
  <2>3. QED
    BY <1>1, <2>1, <2>2 DEF CacheBefore
<1>4. /\ quietSince <= now /\ (decl # None => decl.at <= now)
      /\ \A g \in grants : g.at <= now
  BY <1>1 DEF TimesOK
<1>5. TimesOK(req[s])'
  BY <1>1, <1>2, <1>3, <1>4 DEF TimesOK, CacheBefore
<1>6. QED
  BY <1>5, QuietSerial

\* What every arrival but the first keeps and asks.
LEMMA ArriveKnown ==
  ASSUME SerialInv, NEW s \in Slots, NEW r, Arrive(s, r), decl # None,
         keys' >= keys, keys' \in Nat
  PROVE  /\ req'[s] = r /\ req[s].pc = "idle" /\ now >= quietSince + Gap
         /\ UNCHANGED <<now, decl, pinv, grants, minted, unstored, quietSince>>
         /\ keys' > 0 /\ now \in Nat /\ decl \in Declaration
         /\ ParsedDecl \in Declaration /\ ParsedDecl.members = decl.members
         /\ ParsedDecl.epoch = decl.epoch /\ ParsedDecl.key = decl.key
         /\ ParsedDecl.status = decl.status /\ decl.key <= keys
<1>1. TypeOK /\ GrantsInv
  BY DEF SerialInv, GrantsInv
<1>2. req'[s] = r /\ req[s].pc = "idle" /\ now >= quietSince + Gap
  BY <1>1 DEF Arrive, At, Go, TypeOK
<1>3. UNCHANGED <<now, decl, pinv, grants, minted, unstored, quietSince>>
  BY DEF Arrive, store
<1>4. keys' > 0
  BY <1>1 DEF SerialInv, TypeOK, GrantsInv
<1>5. ParsedDecl.status = decl.status
  BY <1>1 DEF TypeOK, ParsedDecl, Declaration
<1>6. QED
  BY <1>1, <1>2, <1>3, <1>4, <1>5, ParsedType DEF TypeOK, SerialInv

\* The arrivals that carry nothing yet.
LEMMA EmptySerial ==
  ASSUME SerialInv, OneAtATime, GrantsInv', NEW s \in Slots, NEW r, Arrive(s, r),
         decl # None, keys' >= keys, keys' \in Nat,
         r.pc \in {"lookup", "guard"}, r.next = None, r.grant = None,
         r.route \in CustodialRoutes \cup RawRoutes, r.route # "raw/grant",
         r.pc = "lookup" => r.route \notin {"grant", "rotate"},
         r.pc = "guard" => r.route # "invite"
  PROVE  SerialInv'
<1>1. /\ req'[s] = r /\ req[s].pc = "idle" /\ now >= quietSince + Gap
      /\ UNCHANGED <<now, decl, pinv, grants, minted, unstored, quietSince>>
      /\ keys' > 0
  BY ArriveKnown
<1>2. SerialOK(req[s], decl)'
  BY <1>1 DEF SerialOK, GuardHolds, CustodialRoutes, RawRoutes, CreateRoutes
<1>3. QED
  BY <1>1, <1>2, ArriveSerial

LEMMA ArriveCustodialSerial ==
  ASSUME SerialInv, OneAtATime, GrantsInv', NEW s \in Slots, ArriveCustodial(s)
  PROVE  SerialInv'
<1>1. decl # None /\ keys' = keys /\ keys \in Nat
  BY DEF ArriveCustodial, SerialInv, GrantsInv, TypeOK
<1>2. PICK r :
        /\ Arrive(s, r) /\ r.next = None /\ r.grant = None
        /\ \/ r.route \in {"invite", "process-claims"} /\ r.pc = "lookup"
           \/ r.route \in {"grant", "rotate"} /\ r.pc = "guard"
  <2>1. CASE Arrive(s, [Idle EXCEPT !.route = "invite", !.pc = "lookup"])
    <3> DEFINE r == [Idle EXCEPT !.route = "invite", !.pc = "lookup"]
    <3>1. r.next = None /\ r.grant = None /\ r.route = "invite" /\ r.pc = "lookup"
      BY DEF Idle
    <3>2. QED
      BY <2>1, <3>1
  <2>2. CASE \E m \in Members :
               Arrive(s, [Idle EXCEPT !.route = "grant", !.pc = "guard",
                                      !.member = m, !.key = decl.key])
    <3>1. PICK m \in Members :
               Arrive(s, [Idle EXCEPT !.route = "grant", !.pc = "guard",
                                      !.member = m, !.key = decl.key])
      BY <2>2
    <3> DEFINE r == [Idle EXCEPT !.route = "grant", !.pc = "guard",
                                 !.member = m, !.key = decl.key]
    <3>2. r.next = None /\ r.grant = None /\ r.route = "grant" /\ r.pc = "guard"
      BY DEF Idle
    <3>3. QED
      BY <3>1, <3>2
  <2>3. CASE \E add, drop \in SUBSET (Members \ {Founder}) : \E ds \in SUBSET decl.pending :
               Arrive(s, [Idle EXCEPT !.route = "rotate", !.pc = "guard",
                                      !.add = add, !.drop = drop, !.dropPending = ds])
    <3>1. PICK add \in SUBSET (Members \ {Founder}), drop \in SUBSET (Members \ {Founder}),
               ds \in SUBSET decl.pending :
               Arrive(s, [Idle EXCEPT !.route = "rotate", !.pc = "guard",
                                      !.add = add, !.drop = drop, !.dropPending = ds])
      BY <2>3
    <3> DEFINE r == [Idle EXCEPT !.route = "rotate", !.pc = "guard",
                                 !.add = add, !.drop = drop, !.dropPending = ds]
    <3>2. r.next = None /\ r.grant = None /\ r.route = "rotate" /\ r.pc = "guard"
      BY DEF Idle
    <3>3. QED
      BY <3>1, <3>2
  <2>4. CASE Arrive(s, [Idle EXCEPT !.route = "process-claims", !.pc = "lookup"])
    <3> DEFINE r == [Idle EXCEPT !.route = "process-claims", !.pc = "lookup"]
    <3>1. r.next = None /\ r.grant = None /\ r.route = "process-claims" /\ r.pc = "lookup"
      BY DEF Idle
    <3>2. QED
      BY <2>4, <3>1
  <2>5. QED
    BY <2>1, <2>2, <2>3, <2>4 DEF ArriveCustodial
<1>3. QED
  BY <1>1, <1>2, EmptySerial DEF CustodialRoutes, RawRoutes

LEMMA ArriveClaimSerial ==
  ASSUME SerialInv, OneAtATime, GrantsInv', NEW s \in Slots, ArriveClaim(s) \/ ArriveLeave(s)
  PROVE  SerialInv'
<1>1. CASE ArriveClaim(s)
  <2>1. PICK i \in Invites, m \in Members, route \in {"claim", "raw/claim"} :
          /\ minted[i] # None
          /\ Arrive(s, [Idle EXCEPT !.route = route,
                                    !.pc = IF route = "claim" THEN "guard" ELSE "lookup",
                                    !.invite = i, !.member = m, !.epoch = minted[i]])
    BY <1>1 DEF ArriveClaim
  <2> DEFINE r == [Idle EXCEPT !.route = route,
                               !.pc = IF route = "claim" THEN "guard" ELSE "lookup",
                               !.invite = i, !.member = m, !.epoch = minted[i]]
  <2>2. decl # None /\ keys' = keys /\ keys \in Nat
    BY <1>1, <2>1 DEF ArriveClaim, SerialInv, GrantsInv, TypeOK
  <2>3. /\ r.next = None /\ r.grant = None /\ r.route \in {"claim", "raw/claim"}
        /\ r.pc \in {"guard", "lookup"}
    BY DEF Idle
  <2>4. Arrive(s, r)
    BY <2>1
  <2> HIDE DEF r
  <2>5. QED
    BY <2>2, <2>3, <2>4, EmptySerial DEF CustodialRoutes, RawRoutes
<1>2. CASE ArriveLeave(s)
  <2>1. PICK m \in Members :
          Arrive(s, [Idle EXCEPT !.route = "raw/leave", !.pc = "lookup",
                                 !.member = m, !.epoch = decl.epoch])
    BY <1>2 DEF ArriveLeave
  <2> DEFINE r == [Idle EXCEPT !.route = "raw/leave", !.pc = "lookup",
                               !.member = m, !.epoch = decl.epoch]
  <2>2. decl # None /\ keys' = keys /\ keys \in Nat
    BY <1>2 DEF ArriveLeave, SerialInv, GrantsInv, TypeOK
  <2>3. r.next = None /\ r.grant = None /\ r.route = "raw/leave" /\ r.pc = "lookup"
    BY DEF Idle
  <2>4. Arrive(s, r)
    BY <2>1
  <2> HIDE DEF r
  <2>5. QED
    BY <2>2, <2>3, <2>4, EmptySerial DEF CustodialRoutes, RawRoutes
<1>3. QED
  BY <1>1, <1>2

LEMMA ArriveCreateSerial ==
  ASSUME SerialInv, OneAtATime, GrantsInv', NEW s \in Slots, ArriveCreate(s)
  PROVE  SerialInv'
<1>1. PICK route \in CreateRoutes : Go(s, [Idle EXCEPT
          !.route = route, !.pc = "publish",
          !.next = [at |-> now, epoch |-> 1, key |-> 1, members |-> {Founder},
                    pending |-> {}, status |-> "active"],
          !.grant = [epoch |-> 1, key |-> 1, at |-> now],
          !.to = {Founder}])
  BY DEF ArriveCreate
<1> DEFINE next == [at |-> now, epoch |-> 1, key |-> 1, members |-> {Founder},
                    pending |-> {}, status |-> "active"]
           grant == [epoch |-> 1, key |-> 1, at |-> now]
<1>2. /\ TypeOK /\ decl = None /\ grants = {} /\ keys = 0 /\ keys' = 1
      /\ req[s].pc = "idle" /\ now \in Nat /\ quietSince \in Nat
      /\ TimesOK(req[s])
  BY DEF ArriveCreate, At, SerialInv, GrantsInv, TypeOK
<1>3. UNCHANGED <<now, decl, pinv, grants, minted, unstored, quietSince>>
  BY DEF ArriveCreate, store, bounds
<1>4. /\ next.epoch = 1 /\ next.members = {Founder} /\ next.status = "active"
      /\ next.at = now /\ next.key = 1 /\ grant.at = now
  OBVIOUS
<1> HIDE DEF next, grant
<1>5. /\ req'[s].route = route /\ req'[s].pc = "publish"
      /\ req'[s].next = next /\ req'[s].grant = grant /\ req'[s].to = {Founder}
  BY <1>1, <1>2 DEF Go, TypeOK, Idle, next, grant
<1>6. SerialOK(req[s], decl)'
  BY <1>2, <1>3, <1>4, <1>5 DEF SerialOK, FirstOf
<1>7. TimesOK(req[s])'
  BY <1>2, <1>3, <1>4, <1>5 DEF TimesOK, CacheBefore
<1>8. QED
  BY <1>2, <1>3, <1>6, <1>7, QuietSerial

\* The arrivals that carry a signed successor.
LEMMA SignedSerial ==
  ASSUME SerialInv, OneAtATime, GrantsInv', NEW s \in Slots, NEW r, Arrive(s, r),
         decl # None, keys' >= keys, keys' \in Nat,
         r.pc \in {"lookup", "guard", "prior"}, r.route \in RawRoutes,
         r.next = None \/ (r.next.at = now /\ r.next.key <= keys' /\ SuccessorOf(r, decl)),
         r.grant = None \/ r.grant.at = now,
         r.route = "raw/grant" => r.grant.epoch = decl.epoch /\ r.grant.key = decl.key
  PROVE  SerialInv'
<1>1. /\ req'[s] = r /\ req[s].pc = "idle" /\ now >= quietSince + Gap
      /\ UNCHANGED <<now, decl, pinv, grants, minted, unstored, quietSince>>
      /\ keys' > 0
  BY ArriveKnown
<1>2. GuardHolds(r, decl)
  BY DEF GuardHolds, RawRoutes
<1>3. SerialOK(r, decl)
  BY <1>2 DEF SerialOK, RawRoutes, CreateRoutes
<1>4. SerialOK(req[s], decl)'
  BY <1>1, <1>3 DEF SerialOK, SuccessorOf, GuardHolds, Public
<1>5. QED
  BY <1>1, <1>4, ArriveSerial

LEMMA ArriveRawSerial ==
  ASSUME SerialInv, OneAtATime, GrantsInv', NEW s \in Slots, ArriveRaw(s)
  PROVE  SerialInv'
<1> DEFINE seen == ParsedDecl
           signed == [seen EXCEPT !.at = now]
<1>1. /\ TypeOK /\ decl # None /\ decl \in Declaration /\ keys \in Nat /\ now \in Nat
      /\ decl.key <= keys
  BY DEF ArriveRaw, SerialInv, GrantsInv, TypeOK
<1>2. /\ seen \in Declaration /\ seen.members = decl.members /\ seen.epoch = decl.epoch
      /\ seen.key = decl.key /\ seen.status = decl.status
  BY <1>1, ParsedType DEF ParsedDecl, Declaration
<1> HIDE DEF seen
<1>3. /\ signed \in Declaration /\ signed.at = now /\ signed.members = decl.members
      /\ signed.epoch = decl.epoch /\ signed.key = decl.key /\ signed.status = decl.status
  BY <1>1, <1>2 DEF Declaration
<1> HIDE DEF signed
<1>4. decl.key \in Nat
  BY <1>1 DEF Declaration
<1>5. \E r :
        /\ Arrive(s, r) /\ r.pc \in {"lookup", "guard", "prior"} /\ r.route \in RawRoutes
        /\ r.next = None \/ (r.next.at = now /\ r.next.key <= keys' /\ SuccessorOf(r, decl))
        /\ r.grant = None \/ r.grant.at = now
        /\ r.route = "raw/grant" => r.grant.epoch = decl.epoch /\ r.grant.key = decl.key
        /\ keys' >= keys /\ keys' \in Nat
  <2>1. CASE /\ \E i \in FreshInvites :
                  /\ Mint(i)
                  /\ Arrive(s, [Idle EXCEPT !.route = "raw/invite", !.pc = "guard",
                                   !.invite = i,
                                   !.next = [signed EXCEPT !.pending = @ \cup {i}]])
             /\ UNCHANGED keys
    <3>1. PICK i \in FreshInvites :
                  Arrive(s, [Idle EXCEPT !.route = "raw/invite", !.pc = "guard",
                                   !.invite = i,
                                   !.next = [signed EXCEPT !.pending = @ \cup {i}]])
      BY <2>1
    <3> DEFINE next == [signed EXCEPT !.pending = @ \cup {i}]
    <3>2. /\ next.at = now /\ next.members = decl.members /\ next.epoch = decl.epoch
          /\ next.key = decl.key /\ next.status = decl.status /\ i \in next.pending
      BY <1>3 DEF Declaration
    <3> HIDE DEF next
    <3> DEFINE r == [Idle EXCEPT !.route = "raw/invite", !.pc = "guard",
                                 !.invite = i, !.next = next]
    <3>3. /\ r.route = "raw/invite" /\ r.pc = "guard" /\ r.invite = i /\ r.next = next
          /\ r.grant = None
      BY DEF Idle
    <3>4. Arrive(s, r)
      BY <3>1 DEF next
    <3> HIDE DEF r
    <3>5. SuccessorOf(r, decl)
      BY <3>2, <3>3 DEF SuccessorOf, Rotating, Inviting, Granting, RawCopies, RawRoutes
    <3>6. r.next.key <= keys' /\ keys' >= keys /\ keys' \in Nat
      BY <1>1, <1>4, <2>1, <3>2, <3>3
    <3>7. QED
      BY <3>2, <3>3, <3>4, <3>5, <3>6 DEF RawRoutes
  <2>2. CASE /\ \E m \in Members :
                  Arrive(s, [Idle EXCEPT !.route = "raw/grant", !.pc = "lookup",
                                    !.next = IF m \in seen.members THEN None
                                             ELSE [signed EXCEPT !.members = @ \cup {m}],
                                    !.grant = [epoch |-> seen.epoch, key |-> seen.key, at |-> now],
                                    !.to = {m}])
             /\ UNCHANGED <<expires, keys>>
    <3>1. PICK m \in Members :
                  Arrive(s, [Idle EXCEPT !.route = "raw/grant", !.pc = "lookup",
                                    !.next = IF m \in seen.members THEN None
                                             ELSE [signed EXCEPT !.members = @ \cup {m}],
                                    !.grant = [epoch |-> seen.epoch, key |-> seen.key, at |-> now],
                                    !.to = {m}])
      BY <2>2
    <3> DEFINE next == IF m \in seen.members THEN None
                       ELSE [signed EXCEPT !.members = @ \cup {m}]
               grant == [epoch |-> seen.epoch, key |-> seen.key, at |-> now]
    <3>2. next # None =>
            /\ next.at = now /\ next.members = decl.members \cup {m} /\ next.epoch = decl.epoch
            /\ next.key = decl.key /\ next.status = decl.status
      BY <1>3 DEF Declaration
    <3>3. grant.at = now /\ grant.epoch = decl.epoch /\ grant.key = decl.key
      BY <1>2
    <3> HIDE DEF next, grant
    <3> DEFINE r == [Idle EXCEPT !.route = "raw/grant", !.pc = "lookup",
                                 !.next = next, !.grant = grant, !.to = {m}]
    <3>4. /\ r.route = "raw/grant" /\ r.pc = "lookup" /\ r.next = next
          /\ r.grant = grant /\ r.to = {m}
      BY DEF Idle
    <3>5. Arrive(s, r)
      BY <3>1 DEF next, grant
    <3> HIDE DEF r
    <3>6. r.next # None => SuccessorOf(r, decl)
      <4>1. r.next # None => \E q \in Members : r.to = {q} /\ r.next.members = decl.members \cup {q}
        BY <3>2, <3>4
      <4>2. QED
        BY <3>2, <3>4, <4>1 DEF SuccessorOf, Rotating, Inviting, Granting, RawCopies, RawRoutes
    <3>7. r.next # None => r.next.key <= keys'
      BY <1>1, <1>4, <2>2, <3>2, <3>4
    <3>8. keys' >= keys /\ keys' \in Nat
      BY <1>1, <2>2
    <3>9. QED
      BY <3>2, <3>3, <3>4, <3>5, <3>6, <3>7, <3>8 DEF RawRoutes
  <2>3. CASE /\ \E roster \in SUBSET Members :
                  /\ Founder \in roster
                  /\ Arrive(s, [Idle EXCEPT !.route = "raw/rotate", !.pc = "guard",
                                    !.next = [signed EXCEPT !.epoch = @ + 1, !.key = keys + 1,
                                                            !.members = roster],
                                    !.grant = [epoch |-> seen.epoch + 1, key |-> keys + 1,
                                               at |-> now],
                                    !.to = roster])
             /\ keys' = keys + 1
             /\ UNCHANGED expires
    <3>1. PICK roster \in SUBSET Members :
                  Arrive(s, [Idle EXCEPT !.route = "raw/rotate", !.pc = "guard",
                                    !.next = [signed EXCEPT !.epoch = @ + 1, !.key = keys + 1,
                                                            !.members = roster],
                                    !.grant = [epoch |-> seen.epoch + 1, key |-> keys + 1,
                                               at |-> now],
                                    !.to = roster])
      BY <2>3
    <3> DEFINE next == [signed EXCEPT !.epoch = @ + 1, !.key = keys + 1, !.members = roster]
               grant == [epoch |-> seen.epoch + 1, key |-> keys + 1, at |-> now]
    <3>2. /\ next.at = now /\ next.members = roster /\ next.epoch = decl.epoch + 1
          /\ next.key = keys + 1 /\ next.status = decl.status
      BY <1>3 DEF Declaration
    <3>3. grant.at = now
      OBVIOUS
    <3> HIDE DEF next, grant
    <3> DEFINE r == [Idle EXCEPT !.route = "raw/rotate", !.pc = "guard",
                                 !.next = next, !.grant = grant, !.to = roster]
    <3>4. /\ r.route = "raw/rotate" /\ r.pc = "guard" /\ r.next = next
          /\ r.grant = grant /\ r.to = roster
      BY DEF Idle
    <3>5. Arrive(s, r)
      BY <3>1 DEF next, grant
    <3> HIDE DEF r
    <3>6. /\ next.key # decl.key /\ next.key <= keys' /\ keys' >= keys /\ keys' \in Nat
      BY <1>1, <1>4, <2>3, <3>2
    <3>7. SuccessorOf(r, decl)
      BY <3>2, <3>4, <3>6 DEF SuccessorOf, Rotating, Inviting, Granting, RawCopies, RawRoutes
    <3>8. QED
      BY <3>2, <3>3, <3>4, <3>5, <3>6, <3>7 DEF RawRoutes
  <2>4. CASE /\ \E roster \in SUBSET seen.members, status \in Statuses :
                  /\ Founder \in roster
                  /\ Arrive(s, [Idle EXCEPT !.route = "raw/publish-declaration", !.pc = "prior",
                                    !.next = [signed EXCEPT !.members = roster,
                                                            !.status = status]])
             /\ UNCHANGED <<expires, keys>>
    <3>1. PICK roster \in SUBSET seen.members, status \in Statuses :
                  Arrive(s, [Idle EXCEPT !.route = "raw/publish-declaration", !.pc = "prior",
                                    !.next = [signed EXCEPT !.members = roster,
                                                            !.status = status]])
      BY <2>4
    <3> DEFINE next == [signed EXCEPT !.members = roster, !.status = status]
    <3>2. /\ next.at = now /\ next.members \subseteq decl.members /\ next.epoch = decl.epoch
          /\ next.key = decl.key
      BY <1>2, <1>3 DEF Declaration
    <3> HIDE DEF next
    <3> DEFINE r == [Idle EXCEPT !.route = "raw/publish-declaration", !.pc = "prior",
                                 !.next = next]
    <3>3. /\ r.route = "raw/publish-declaration" /\ r.pc = "prior" /\ r.next = next
          /\ r.grant = None
      BY DEF Idle
    <3>4. Arrive(s, r)
      BY <3>1 DEF next
    <3> HIDE DEF r
    <3>5. SuccessorOf(r, decl)
      BY <3>2, <3>3 DEF SuccessorOf, Rotating, Inviting, Granting, RawCopies, RawRoutes
    <3>6. r.next.key <= keys' /\ keys' >= keys /\ keys' \in Nat
      BY <1>1, <1>4, <2>4, <3>2, <3>3
    <3>7. QED
      BY <3>2, <3>3, <3>4, <3>5, <3>6 DEF RawRoutes
  <2>5. QED
    BY <2>1, <2>2, <2>3, <2>4 DEF ArriveRaw, seen, signed
<1>6. QED
  BY <1>1, <1>5, SignedSerial

-----------------------------------------------------------------------------
(* The clock, and what is stored.                                          *)

LEMMA TickSerial ==
  ASSUME SerialInv, OneAtATime, GrantsInv', Tick
  PROVE  SerialInv'
<1>1. /\ now \in Nat /\ now' = now + 1 /\ quietSince \in Nat
      /\ UNCHANGED <<store, req, keys, minted, unstored, bounds>>
      /\ UNCHANGED <<decl, pinv, grants, quietSince>>
  BY DEF Tick, SerialInv, GrantsInv, TypeOK, store, bounds
<1>2. ASSUME NEW s \in Slots PROVE (SerialOK(req[s], decl) /\ TimesOK(req[s]))'
  <2>1. /\ req[s] \in Request /\ SerialOK(req[s], decl) /\ TimesOK(req[s])
        /\ decl \in Declaration \cup {None} /\ grants \subseteq Grant
    BY SerialKnown
  <2>2. SerialOK(req[s], decl)'
    BY <1>1, <2>1 DEF SerialOK, SuccessorOf, GuardHolds, Public
  <2>3. /\ decl # None => decl.at \in Nat
        /\ \A g \in grants : g.at \in Nat
        /\ req[s].next # None => req[s].next.at \in Nat
        /\ req[s].grant # None => req[s].grant.at \in Nat
    BY <2>1 DEF Declaration, Grant, Request, GrantTemplate
  <2>4. TimesOK(req[s])'
    BY <1>1, <2>1, <2>3 DEF TimesOK, CacheBefore
  <2>5. QED
    BY <2>2, <2>4
<1>3. QED
  BY <1>1, <1>2 DEF SerialInv, Holds, MintedInviteKnown, Resolve

\* An accepted declaration replaces the cached one, being newer.
LEMMA AcceptedStores ==
  ASSUME SerialInv, OneAtATime, NEW s \in Slots, DeclarationAccepted(s), ~unstored'
  PROVE  /\ decl' = req[s].next /\ unstored' = unstored
         /\ \A i \in Invites :
               (i \in req[s].next.pending => pinv'[i] = "active")
               /\ pinv'[i] \in {"active", "removed", pinv[i]}
<1>1. /\ req[s].pc = "publish" /\ TypeOK /\ RequestOK(req[s], decl, published)
      /\ TimesOK(req[s])
  BY SerialKnown DEF DeclarationAccepted, At, SerialInv, GrantsInv
<1>2. StoreDeclaration(req[s].next) /\ UNCHANGED unstored
  BY DEF DeclarationAccepted
<1>3. ~(decl # None /\ decl.at >= req[s].next.at)
  <2>1. req[s].next # None /\ req[s].next \in Declaration /\ decl \in Declaration \cup {None}
    BY <1>1, SerialKnown DEF RequestOK, Request
  <2>2. decl # None => decl.at < req[s].next.at
    BY <1>1, <2>1 DEF TimesOK, CacheBefore
  <2>3. QED
    BY <2>1, <2>2 DEF Declaration
<1>4. QED
  BY <1>1, <1>2, <1>3 DEF StoreDeclaration

LEMMA DeclarationAcceptedSerial ==
  ASSUME SerialInv, OneAtATime, GrantsInv', NEW s \in Slots, DeclarationAccepted(s)
  PROVE  SerialInv'
<1> DEFINE r == req[s]
<1>1. /\ r.pc = "publish" /\ TypeOK /\ r \in Request /\ RequestOK(r, decl, published)
      /\ TimesOK(r) /\ SerialOK(r, decl) /\ r.next # None /\ keys > 0
      /\ now \in Nat /\ keys \in Nat
  <2>1. r.pc = "publish" /\ r \in Request /\ RequestOK(r, decl, published)
        /\ TimesOK(r) /\ SerialOK(r, decl) /\ now \in Nat /\ keys \in Nat
    BY SerialKnown DEF DeclarationAccepted, At
  <2>2. r.next # None /\ keys > 0
    BY <2>1 DEF RequestOK, TimesOK
  <2>3. QED
    BY <2>1, <2>2 DEF SerialInv, GrantsInv
<1>2. decl' \in {decl, r.next}
  BY DEF DeclarationAccepted, StoreDeclaration
<1>3. UNCHANGED <<now, grants, keys>> /\ unstored' \in {unstored, TRUE}
  BY DEF DeclarationAccepted
<1>4. /\ r.to = {} => req'[s] = Idle /\ quietSince' = now
      /\ r.to # {} => /\ quietSince' = quietSince
                      /\ req'[s].pc = "grants" /\ req'[s].next = r.next /\ req'[s].to = r.to
                      /\ req'[s].route = r.route
                      /\ req'[s].grant.epoch = r.grant.epoch /\ req'[s].grant.key = r.grant.key
                      /\ req'[s].grant.at \in {now, r.grant.at} /\ req'[s].grant # None
  <2>1. CASE r.to = {}
    BY <1>1, <2>1 DEF DeclarationAccepted, Answer, Go, TypeOK
  <2>2. CASE r.to # {}
    <3>1. r.grant \in GrantTemplate
      BY <1>1, <2>2 DEF RequestOK, Request
    <3> DEFINE at == IF r.route = "rotate" THEN now ELSE r.grant.at
               grant == [r.grant EXCEPT !.at = at]
    <3>2. /\ grant.epoch = r.grant.epoch /\ grant.key = r.grant.key
          /\ grant.at \in {now, r.grant.at} /\ grant \in GrantTemplate
      BY <1>1, <3>1 DEF GrantTemplate
    <3>3. req'[s] = [r EXCEPT !.pc = "grants", !.grant = grant] /\ quietSince' = quietSince
      BY <1>1, <2>2, <3>1 DEF DeclarationAccepted, Step, Go, TypeOK, Request
    <3> HIDE DEF grant
    <3>4. /\ req'[s].pc = "grants" /\ req'[s].next = r.next /\ req'[s].to = r.to
          /\ req'[s].grant = grant /\ req'[s].route = r.route
      BY <1>1, <3>3 DEF Request
    <3>5. QED
      BY <2>2, <3>2, <3>3, <3>4
  <2>3. QED
    BY <2>1, <2>2
<1>5. r.to # {} => /\ r.grant # None /\ r.grant.epoch = r.next.epoch /\ r.grant.key = r.next.key
  BY <1>1 DEF RequestOK, Fits
<1>6. SerialOK(req[s], decl)'
  <2>1. CASE r.to = {}
    BY <1>4, <2>1 DEF SerialOK, Idle, CreateRoutes
  <2>2. CASE r.to # {}
    <3>1. ~unstored' => decl' = r.next
      BY AcceptedStores
    <3>2. QED
      BY <1>1, <1>4, <1>5, <2>2, <3>1 DEF SerialOK
  <2>3. QED
    BY <2>1, <2>2
<1>7. TimesOK(req[s])'
  <2>1. /\ r.next.at <= now /\ r.next.key <= keys /\ quietSince <= now
        /\ decl # None => decl.at < now /\ decl.at < r.next.at
        /\ \A g \in grants : g.at < now /\ g.at < r.next.at
        /\ r.grant # None => /\ r.grant.at <= now
                             /\ \A g \in grants : g.at < r.grant.at
    BY <1>1 DEF TimesOK, CacheBefore
  <2>2. /\ decl # None => decl.at \in Nat
        /\ \A g \in grants : g.at \in Nat
        /\ r.next.at \in Nat /\ r.next.key \in Nat
        /\ r.grant # None => r.grant.at \in Nat
    BY <1>1 DEF Declaration, Grant, Request, GrantTemplate, TypeOK
  <2>3. (decl # None => decl.at <= now)' /\ (\A g \in grants : g.at <= now)'
    BY <1>1, <1>2, <1>3, <2>1, <2>2
  <2>4. CASE r.to = {}
    <3>1. req'[s].pc = "idle" /\ req'[s].next = None /\ req'[s].grant = None
      BY <1>4, <2>4 DEF Idle
    <3>2. (CacheBefore(quietSince + 1))'
      BY <1>1, <1>2, <1>3, <1>4, <2>2, <2>3, <2>4 DEF CacheBefore
    <3>3. QED
      BY <1>1, <1>3, <1>4, <2>3, <2>4, <3>1, <3>2 DEF TimesOK
  <2>5. CASE r.to # {}
    <3>1. (\A g \in grants : g.at < req[s].grant.at)' /\ (req[s].grant.at <= now)'
      BY <1>1, <1>3, <1>4, <1>5, <2>1, <2>2, <2>5
    <3>2. (quietSince <= now)' /\ (req[s].next.at <= now /\ req[s].next.key <= keys)'
      BY <1>3, <1>4, <2>1, <2>5
    <3>3. QED
      BY <1>1, <1>3, <1>4, <2>3, <2>5, <3>1, <3>2 DEF TimesOK
  <2>6. QED
    BY <2>4, <2>5
<1>8. (\A t \in Slots : SerialOK(req[t], decl) /\ TimesOK(req[t]))'
  BY <1>6, <1>7 DEF OneAtATime
<1>9. (keys = 0 => decl = None /\ grants = {})' /\ (decl # None => decl.key <= keys)'
  BY <1>1, <1>2, <1>3 DEF TimesOK, SerialInv
<1>10. ASSUME ~unstored', NEW m \in decl'.members
       PROVE  Holds(m)' \/ (req[s].pc = "grants" /\ m \in req[s].to)'
  <2>1. decl' = r.next /\ ~unstored
    BY <1>10, AcceptedStores
  <2>2. m \in r.to => (req[s].pc = "grants" /\ m \in req[s].to)'
    BY <1>4
  <2>3. CASE r.route \in CreateRoutes \cup Rotating
    BY <1>1, <1>10, <2>1, <2>2, <2>3 DEF SerialOK, FirstOf, SuccessorOf, CreateRoutes, Rotating
  <2>4. CASE r.route \notin CreateRoutes \cup Rotating
    <3>1. /\ decl # None /\ r.next.epoch = decl.epoch /\ r.next.key = decl.key
          /\ r.next.members \subseteq decl.members \cup r.to
      BY <1>1, <2>4 DEF SerialOK, SuccessorOf, RequestOK
    <3>2. CASE m \in decl.members
      <4>1. Holds(m)
        BY <1>1, <2>1, <3>1, <3>2 DEF SerialInv, OneAtATime
      <4>2. QED
        BY <1>3, <2>1, <3>1, <4>1 DEF Holds
    <3>3. CASE m \in r.to
      BY <2>2, <3>3
    <3>4. QED
      BY <1>10, <2>1, <3>1, <3>2, <3>3
  <2>5. QED
    BY <2>3, <2>4
<1>11. (~unstored /\ decl # None =>
          \A m \in decl.members : Holds(m) \/ \E t \in Slots : req[t].pc = "grants" /\ m \in req[t].to)'
  BY <1>10
<1>12. MintedInviteKnown'
  <2>1. SUFFICES ASSUME ~unstored', NEW i \in Invites, minted'[i] # None
                 PROVE  pinv'[i] # None
    BY DEF MintedInviteKnown, Resolve
  <2>2. /\ decl' = r.next /\ ~unstored
        /\ i \in r.next.pending => pinv'[i] = "active"
        /\ pinv'[i] \in {"active", "removed", pinv[i]}
    BY <2>1, AcceptedStores
  <2>3. CASE minted[i] # None
    <3>1. pinv[i] # None
      BY <2>2, <2>3 DEF SerialInv, MintedInviteKnown, Resolve
    <3>2. QED
      BY <2>2, <3>1
  <2>4. CASE minted[i] = None
    <3>1. r.route \in Inviting /\ i = r.invite
      BY <1>1, <2>1, <2>4 DEF DeclarationAccepted, TypeOK, Inviting
    <3>2. i \in r.next.pending
      BY <1>1, <3>1 DEF SerialOK, SuccessorOf, Inviting, CreateRoutes
    <3>3. QED
      BY <2>2, <3>2
  <2>5. QED
    BY <2>3, <2>4
<1>13. QED
  BY <1>8, <1>9, <1>11, <1>12 DEF SerialInv

LEMMA PublishGrantsSerial ==
  ASSUME SerialInv, OneAtATime, GrantsInv', NEW s \in Slots, PublishGrants(s)
  PROVE  SerialInv'
<1> DEFINE r == req[s]
           Out(m) == [epoch |-> r.grant.epoch, key |-> r.grant.key, to |-> m, at |-> r.grant.at]
<1>1. PICK took \in SUBSET r.to :
              /\ unstored' = (unstored \/ took # r.to)
              /\ grants' = StoredGrants({Out(m) : m \in took})
  BY DEF PublishGrants
<1>2. /\ r.pc = "grants" /\ TypeOK /\ r \in Request /\ RequestOK(r, decl, published)
      /\ TimesOK(r) /\ SerialOK(r, decl) /\ now \in Nat /\ keys \in Nat
  BY SerialKnown DEF PublishGrants, At, SerialInv, GrantsInv
<1>3. /\ req'[s] = Idle /\ quietSince' = now
      /\ UNCHANGED <<now, decl, pinv, keys, minted>>
  BY <1>2 DEF PublishGrants, Answer, Go, TypeOK
<1>4. keys > 0 /\ r.grant.at <= now /\ (\A g \in grants : g.at < r.grant.at)
      /\ (decl # None => decl.at <= now) /\ r.grant \in GrantTemplate
  BY <1>2 DEF RequestOK, TimesOK, Request
<1>5. \A g \in grants' : g \in grants \/ g.at = r.grant.at
  BY <1>1 DEF StoredGrants
<1>6. SerialOK(req[s], decl)'
  BY <1>3 DEF SerialOK, Idle, CreateRoutes
<1>7. TimesOK(req[s])'
  <2>1. req'[s].pc = "idle" /\ req'[s].next = None /\ req'[s].grant = None
    BY <1>3 DEF Idle
  <2>2. /\ decl # None => decl.at \in Nat
        /\ \A g \in grants : g.at \in Nat
        /\ r.grant.at \in Nat
    BY <1>2, <1>4 DEF Declaration, Grant, GrantTemplate, TypeOK
  <2>3. \A g \in grants' : g.at <= now /\ g.at < now + 1
    BY <1>2, <1>4, <1>5, <2>2
  <2>4. QED
    BY <1>2, <1>3, <1>4, <2>1, <2>2, <2>3 DEF TimesOK, CacheBefore
<1>8. (\A t \in Slots : SerialOK(req[t], decl) /\ TimesOK(req[t]))'
  BY <1>6, <1>7 DEF OneAtATime
<1>9. ASSUME ~unstored', decl # None, NEW m \in decl.members PROVE Holds(m)'
  <2>1. took = r.to /\ ~unstored
    BY <1>1, <1>9
  <2>2. r.grant.epoch = decl.epoch /\ r.grant.key = decl.key
    BY <1>2, <2>1 DEF SerialOK
  <2>3. CASE m \in r.to
    <3>1. Out(m) \in grants'
      <4>1. \A h \in grants : ~(h.at >= r.grant.at)
        <5>1. \A h \in grants : h.at \in Nat
          BY <1>2 DEF Grant, TypeOK
        <5>2. QED
          BY <1>4, <5>1 DEF GrantTemplate
      <4> DEFINE batch == {Out(q) : q \in took}
                 kept == {h \in grants : \A g \in batch : SameGrant(g, h) => h.at >= g.at}
      <4>2. Out(m) \in batch /\ Out(m).at = r.grant.at
        BY <2>1, <2>3
      <4>3. \A h \in kept : ~SameGrant(Out(m), h)
        BY <4>1, <4>2
      <4>4. QED
        BY <1>1, <4>2, <4>3 DEF StoredGrants
    <3>2. Out(m).to = m /\ Out(m).epoch = decl.epoch /\ Out(m).key = decl.key
      BY <2>2
    <3>3. QED
      BY <1>3, <3>1, <3>2 DEF Holds
  <2>4. CASE m \notin r.to
    <3>1. PICK h \in grants : h.to = m /\ h.epoch = decl.epoch /\ h.key = decl.key
      BY <1>9, <2>1, <2>4 DEF SerialInv, Holds, OneAtATime
    <3>2. \A q \in took : ~SameGrant(Out(q), h)
      BY <2>1, <2>4, <3>1 DEF SameGrant
    <3>3. h \in grants'
      BY <1>1, <3>2 DEF StoredGrants
    <3>4. QED
      BY <1>3, <3>1, <3>3 DEF Holds
  <2>5. QED
    BY <2>3, <2>4
<1>10. MintedInviteKnown'
  BY <1>1, <1>3 DEF SerialInv, MintedInviteKnown, Resolve
<1>11. (keys = 0 => decl = None /\ grants = {})' /\ (decl # None => decl.key <= keys)'
  BY <1>3, <1>4 DEF SerialInv
<1>12. QED
  BY <1>3, <1>8, <1>9, <1>10, <1>11 DEF SerialInv

LEMMA RawGrantLookupSerial ==
  ASSUME SerialInv, OneAtATime, GrantsInv', NEW s \in Slots, RawGrantLookup(s)
  PROVE  SerialInv'
<1> DEFINE r == [req[s] EXCEPT !.pc = "guard", !.base = ParsedDecl]
<1>1. req \in [Slots -> Request] /\ req[s] \in Request
  BY SerialKnown DEF SerialInv, GrantsInv, TypeOK
<1>2. /\ req[s].pc = "lookup" /\ req[s].route = "raw/grant"
      /\ Step(s, r) /\ UNCHANGED untouched
  BY DEF RawGrantLookup, At
<1>3. Unchecked
  BY <1>2, CheckQuiet
<1>4. /\ req'[s].pc = "guard" /\ req'[s].route = req[s].route
      /\ req'[s].next = req[s].next /\ req'[s].to = req[s].to
      /\ req'[s].grant = req[s].grant /\ req'[s].invite = req[s].invite
  BY <1>1, <1>2 DEF Step, Go, Request
<1>5. GuardHolds(req'[s], decl)
  BY <1>2, <1>4 DEF GuardHolds
<1>6. QED
  BY <1>2, <1>3, <1>4, <1>5, GoesOn DEF Unchecked, CreateRoutes

LEMMA HandleSerial ==
  ASSUME SerialInv, OneAtATime, GrantsInv', NEW s \in Slots, Handle(s)
  PROVE  SerialInv'
<1>1. CASE InviteLookup(s) \/ ProcessLookup(s) \/ ReadClaim(s)
  BY <1>1, ReadSerial
<1>2. CASE \/ Guard(s) \/ ClaimLookup(s) \/ LeaveLookup(s) \/ ClaimGuard(s)
           \/ RawGuard(s) \/ RawPriorStatus(s)
  BY <1>2, PassSerial
<1>3. CASE RawGrantGuard(s)
  BY <1>3, PassSerial, RawRegrantSerial
<1>4. CASE \/ Refuse(s) \/ DeclarationRejected(s) \/ PublishClaim(s)
  BY <1>4, AnsweredSerial
<1>5. CASE ClaimsRead(s)
  BY <1>5, AnsweredSerial, ClaimsReadSerial
<1>6. CASE InviteGuard(s)
  BY <1>6, InviteGuardSerial
<1>7. CASE GrantLookup(s)
  BY <1>7, GrantLookupSerial
<1>8. CASE RotateLookup(s)
  BY <1>8, RotateLookupSerial
<1>9. CASE RawGrantLookup(s)
  BY <1>9, RawGrantLookupSerial
<1>10. CASE DeclarationAccepted(s)
  BY <1>10, DeclarationAcceptedSerial
<1>11. CASE PublishGrants(s)
  BY <1>11, PublishGrantsSerial
<1>12. CASE GrantSign(s)
  BY <1>12, GrantSignSerial
<1>13. QED
  BY <1>1, <1>2, <1>3, <1>4, <1>5, <1>6, <1>7, <1>8, <1>9, <1>10, <1>11, <1>12 DEF Handle

LEMMA NextSerial ==
  ASSUME SerialInv, OneAtATime, GrantsInv', [Next]_vars
  PROVE  SerialInv'
<1>1. CASE Tick
  BY <1>1, TickSerial
<1>2. ASSUME NEW s \in Slots,
             \/ ArriveCreate(s) \/ ArriveCustodial(s) \/ ArriveClaim(s) \/ ArriveLeave(s)
             \/ ArriveRaw(s) \/ Handle(s)
      PROVE  SerialInv'
  BY <1>2, ArriveCreateSerial, ArriveCustodialSerial, ArriveClaimSerial, ArriveRawSerial,
     HandleSerial
<1>3. CASE UNCHANGED vars
  <2>1. UNCHANGED <<now, decl, pinv, grants, req, keys, minted, unstored, quietSince>>
    BY <1>3 DEF vars, store, bounds
  <2>2. QED
    BY <2>1 DEF SerialInv, SerialOK, TimesOK, SuccessorOf, FirstOf, GuardHolds, CacheBefore,
       Public, Holds, MintedInviteKnown, Resolve
<1>4. QED
  BY <1>1, <1>2, <1>3 DEF Next

LEMMA InitSerial ==
  ASSUME Init
  PROVE  SerialInv
<1>1. GrantsInv
  BY InitInv
<1>2. /\ decl = None /\ grants = {} /\ now = 0 /\ quietSince = 0
      /\ \A s \in Slots : req[s] = Idle
      /\ \A i \in Invites : minted[i] = None
  BY DEF Init
<1>3. Idle.pc = "idle" /\ Idle.route = "none" /\ Idle.next = None /\ Idle.grant = None
  BY DEF Idle
<1>4. \A s \in Slots : SerialOK(req[s], decl) /\ TimesOK(req[s])
  BY <1>2, <1>3 DEF SerialOK, TimesOK, CacheBefore, CreateRoutes
<1>5. QED
  BY <1>1, <1>2, <1>4 DEF SerialInv, MintedInviteKnown

LEMMA SerialAlways ==
  ASSUME OneAtATime
  PROVE  Spec => []SerialInv
<1>1. Init => SerialInv
  BY InitSerial
<1>2. SerialInv /\ GrantsInv' /\ [Next]_vars => SerialInv'
  BY NextSerial
<1>3. QED
  BY <1>1, <1>2, GrantsInvAlways, PTL DEF Spec

\* A founder who waits for each answer never hands out an invite link that
\* /by-invite-pub does not know: what another request replaced in between is
\* the only way to lose one (two-request runs do lose one).
THEOREM MintedInvitesKnown ==
  ASSUME OneAtATime
  PROVE  Spec => []MintedInviteKnown
<1>1. SerialInv => MintedInviteKnown
  BY DEF SerialInv
<1>2. QED
  BY <1>1, SerialAlways, PTL

\* A founder who waits for each answer finds every member of the room with a
\* grant of its current key, through any number of invites, grants, rotations,
\* claims and raw declarations, unless a relay or the cache failed.
THEOREM MembersAlwaysHoldKey ==
  ASSUME OneAtATime
  PROVE  Spec => []MembersHoldCurrentKey
<1>1. SerialInv => MembersHoldCurrentKey
  BY DEF SerialInv, MembersHoldCurrentKey, InFlight, Holds
<1>2. QED
  BY <1>1, SerialAlways, PTL

-----------------------------------------------------------------------------
(* The refinement.                                                         *)

RoomOf(d) == [epoch |-> d.epoch, key |-> d.key, members |-> d.members, status |-> d.status]
TheRoom == IF decl = None THEN None ELSE RoomOf(decl)

\* What is stored is one operation of the room, or nothing it shows.
LEMMA StoredIsRoomStep ==
  ASSUME SerialInv, OneAtATime, NEW s \in Slots, req[s].pc = "publish", decl' = req[s].next
  PROVE  Room!Next \/ TheRoom' = TheRoom
<1> DEFINE d == req[s].next
           r == req[s]
<1>1. /\ d \in Declaration /\ d # None /\ SerialOK(r, decl)
      /\ RequestOK(r, decl, published) /\ decl \in Declaration \cup {None}
      /\ r \in Request
  BY SerialKnown DEF RequestOK, Request
<1>2. TheRoom' = RoomOf(d)
  BY <1>1 DEF TheRoom, RoomOf
<1> HIDE DEF d
<1>3. CASE r.route \in CreateRoutes
  <2>1. /\ decl = None /\ d.epoch = 1 /\ d.members = {Founder} /\ d.status = "active"
    BY <1>1, <1>3 DEF SerialOK, FirstOf, d
  <2>2. Room!Create
    BY <1>1, <1>2, <2>1 DEF Room!Create, TheRoom, RoomOf, Declaration
  <2>3. QED
    BY <2>2 DEF Room!Next
<1>4. CASE r.route \notin CreateRoutes
  <2>1. /\ SuccessorOf(r, decl) /\ GuardHolds(r, decl) /\ decl # None /\ decl \in Declaration
    BY <1>1, <1>4 DEF SerialOK, RequestOK, d
  <2>2. /\ TheRoom = RoomOf(decl) /\ TheRoom # None
    BY <2>1, AbsentRoomAssumption DEF TheRoom, RoomOf, Declaration
  <2>3. r.route # "raw/publish-declaration" => decl.status = "active" /\ d.status = "active"
    <3>1. r.route # "raw/publish-declaration" => decl.status = "active"
      BY <1>4, <2>1 DEF GuardHolds
    <3>2. r.route \in RawRoutes \ RawCopies => r.route \notin Rotating \cup Inviting \cup Granting
      BY DEF RawRoutes, RawCopies, Rotating, Inviting, Granting
    <3>3. QED
      BY <2>1, <3>1, <3>2 DEF SuccessorOf, d
  <2>4. CASE r.route \in Rotating
    <3>1. /\ d.epoch = decl.epoch + 1 /\ d.key # decl.key /\ r.route # "raw/publish-declaration"
      BY <2>1, <2>4 DEF SuccessorOf, d, Rotating
    <3>2. Room!Rotate
      BY <1>1, <1>2, <2>1, <2>2, <2>3, <3>1 DEF Room!Rotate, Room!Open, TheRoom, RoomOf, Declaration
    <3>3. QED
      BY <3>2 DEF Room!Next
  <2>5. CASE r.route \in Inviting
    <3>1. /\ d.epoch = decl.epoch /\ d.key = decl.key /\ d.members = decl.members
          /\ r.route # "raw/publish-declaration"
      BY <2>1, <2>5 DEF SuccessorOf, d, Rotating, Inviting
    <3>2. TheRoom' = TheRoom
      BY <1>2, <2>2, <2>3, <3>1 DEF RoomOf
    <3>3. QED
      BY <3>2
  <2>6. CASE r.route \in Granting
    <3>1. PICK m \in Members : d.members = decl.members \cup {m}
      BY <2>1, <2>6 DEF SuccessorOf, d
    <3>2. d.epoch = decl.epoch /\ d.key = decl.key /\ r.route # "raw/publish-declaration"
      BY <2>1, <2>6 DEF SuccessorOf, d, Rotating, Granting
    <3>3. TheRoom' = [TheRoom EXCEPT !.members = @ \cup {m}]
      BY <1>2, <2>2, <2>3, <3>1, <3>2 DEF RoomOf
    <3>4. Room!Add
      BY <2>2, <2>3, <3>2, <3>3 DEF Room!Add, Room!Open, TheRoom, RoomOf
    <3>5. QED
      BY <3>4 DEF Room!Next
  <2>7. CASE r.route = "raw/publish-declaration"
    <3>1. /\ d.epoch = decl.epoch /\ d.key = decl.key
          /\ decl.status = "closed" /\ d.status = "closed" => d.members = decl.members
          /\ d.members \in SUBSET Members /\ d.status \in {"active", "closed"}
      BY <1>1, <2>1, <2>7 DEF SuccessorOf, GuardHolds, d, Rotating, CreateRoutes,
         Declaration, Statuses
    <3> DEFINE moved == [RoomOf(decl) EXCEPT !.members = d.members]
    <3>2. moved = [epoch |-> d.epoch, key |-> d.key, members |-> d.members,
                   status |-> decl.status]
      BY <3>1 DEF RoomOf
    <3> HIDE DEF moved
    <3>3. RoomOf(d) = [moved EXCEPT !.status = d.status]
      BY <3>2 DEF RoomOf
    <3>4. TheRoom' = [TheRoom EXCEPT !.members = d.members, !.status = d.status]
      BY <1>2, <2>2, <3>3 DEF moved
    <3>5. TheRoom.status = decl.status /\ TheRoom.members = decl.members
      BY <2>2 DEF RoomOf
    <3> HIDE DEF d
    <3>6. \E status \in {"active", "closed"}, roster \in SUBSET Members :
            /\ TheRoom.status = "closed" /\ status = "closed" => roster = TheRoom.members
            /\ TheRoom' = [TheRoom EXCEPT !.members = roster, !.status = status]
      BY <3>1, <3>4, <3>5
    <3>7. Room!Lifecycle
      BY <2>2, <3>6 DEF Room!Lifecycle, TheRoom, RoomOf
    <3>8. QED
      BY <3>7 DEF Room!Next
  <2>8. QED
    BY <2>1, <2>4, <2>5, <2>6, <2>7 DEF SuccessorOf
<1>5. QED
  BY <1>3, <1>4

LEMMA NextIsRoomStep ==
  ASSUME SerialInv, OneAtATime, [Next]_vars
  PROVE  Room!Next \/ TheRoom' = TheRoom
<1>1. ASSUME NEW s \in Slots, DeclarationAccepted(s)
      PROVE  Room!Next \/ TheRoom' = TheRoom
  <2>1. req[s].pc = "publish"
    BY <1>1 DEF DeclarationAccepted, At
  <2>2. decl' = req[s].next \/ decl' = decl
    BY <1>1 DEF DeclarationAccepted, StoreDeclaration
  <2>3. QED
    BY <2>1, <2>2, StoredIsRoomStep DEF TheRoom
<1>2. ASSUME NEW s \in Slots,
             \/ ArriveCreate(s) \/ ArriveCustodial(s) \/ ArriveClaim(s)
             \/ ArriveLeave(s) \/ ArriveRaw(s)
      PROVE  decl' = decl
  BY <1>2 DEF ArriveCreate, ArriveCustodial, ArriveClaim, ArriveLeave, ArriveRaw, Arrive, store
<1>3. ASSUME NEW s \in Slots, Handle(s), ~DeclarationAccepted(s)
      PROVE  decl' = decl
  BY <1>3 DEF Handle, InviteLookup, InviteGuard, Guard, GrantLookup, GrantSign, RotateLookup,
     ProcessLookup, ReadClaim, ClaimsRead, ClaimLookup, ClaimGuard, LeaveLookup, RawGuard,
     RawGrantLookup, RawGrantGuard, RawPriorStatus, Refuse, DeclarationRejected,
     PublishGrants, PublishClaim, untouched, store
<1>4. CASE Tick \/ UNCHANGED vars
  BY <1>4 DEF Tick, vars, store, TheRoom
<1>5. QED
  BY <1>1, <1>2, <1>3, <1>4 DEF Next, TheRoom

\* One request at a time makes the gateway's read-check-publish-store routes
\* atomic operations of the room: every declaration it caches is a create, a
\* grant of one member, a rotation to the next epoch and a fresh key, or a
\* lifecycle change that locks a closed room's roster.
THEOREM ImplementsRoom ==
  ASSUME OneAtATime
  PROVE  Spec => RefinesRoom
<1>1. Init => Room!Init
  BY DEF Init, Room!Init
<1>2. SerialInv /\ [Next]_vars => [Room!Next]_TheRoom
  BY NextIsRoomStep
<1>3. QED
  BY <1>1, <1>2, SerialAlways, PTL DEF Spec, RefinesRoom, Room!Spec, TheRoom, RoomOf

=============================================================================
