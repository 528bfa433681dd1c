# Verification of the 4A gateway

TLA+ models, TLC runs and TLAPS proofs for the gateway of 4A
(`gateway/src`, a Cloudflare Worker with two Durable Objects, `RelayPool` and
`McpHub`). The gateway signs or checks Nostr events, publishes them to public
relays, keeps its own cache of what it published and serves readers from that
cache.

## 1. Inventory

| Component | Code | State | Operations | What makes it correct |
|---|---|---|---|---|
| Retry queue | `relay-pool.ts` | `retry:` records, `cooldown:` records, the object's one alarm, the locals of each running walk | `enqueueRetry`, `alarm`, `processRetries`, the cron's `sweepFromRelays` | every record is retried in time, settles once, and finally leaves the queue; a throttling relay is left alone for as long as it asked |
| Subscriptions | `relay-pool.ts`, `lib/relay-connect.ts` | the connections map, sockets, cached events | `ensureConnected`, `openRelay`, `handleEvent`, `scheduleReconnect`, `replayRelay` | no relay is forgotten or mapped to a dead socket; what sockets lose, sweeps recover; newest event wins |
| Audience cache | `relay-pool.ts` | newest 30520/30521/30522 event of each address, `pinv:` index | `storeAudienceEvent`, `getObject`, `getDeclarationByInvitePub` | the index agrees with the declaration |
| Audience routes, custodial | `audience.ts` | none of their own: each reads the cache, publishes, writes the cache | create, invite, grant, claim, process-claims, rotate, publish, inbox | epoch, key, roster and status of a room change as if atomically; members get keys, non-members do not |
| Audience routes, raw | `audience-raw.ts`, validators | none: the caller signs, the route checks | the same, leave claims, publish-declaration, publish-wraps | as above, for events it did not build |
| Audience stream | `audience-stream.ts` | wraps by receive second, the cursor of each pump | `storeGiftWrap`, `listWrapPage`, `listKeyGrants`, replay, live tail | a connected member sees everything once, soon |
| Inbox paging | `audience.ts` | the client's `since` or cursor | `runInbox`, `unwrapInboxItem` | a reader that follows its cursor misses nothing and gets to the end |
| Hook inbox | `webhook-receiver.ts`, `inbox-stream.ts` | hook wraps, their retention, the cursor of each pump | `handleHookRequest`, `storeHookWrap`, prune, stream | what was answered 202 is kept for the retention and sent |
| Relay fan-out | `publish.ts`, `score.ts`, `comment.ts` | sockets, per-isolate cool-downs and rate limit | `publishBatchToRelay`, `enqueueRelayRetries`, the routes | each event gets one verdict per relay; transient ones are queued; a rationale follows its score |
| Artifacts | `artifacts.ts`, `relay-pool.ts` | manifests, `artifactid:`, `artifactblob:` bindings, revocations | publish, revoke, render | a blob stays with the first publisher; what is revoked is not rendered |
| Blossom | `blossom.ts`, `blob.ts` | blobs, quota records | upload, fetch | the quota covers what is stored |
| Authorization | `auth.ts`, `kms.ts` | none (signed tokens) | register, start, callback, token exchange, key derivation | a token stands for a sign-in of that user for that client |
| MCP sessions | `mcp.ts` | open sessions, heartbeats, running requests | open, message, close | an answer reaches the session that asked; dead sessions leave |
| Kanban | `kanban-*-route.ts`, validators | hourly budgets per caller and board | publish an issue, board, sprint, tide | a republish corrects its entity and no other; budgets are exact |
| Pure checks, readers and builders | `credibility.ts`, `profile*.ts`, `org-builder.ts`, `api.ts`, `studio-v0`, `encrypted-variant-validator.ts`, `artifact-viewer.ts` | none | one request in, one answer out | field by field |

How they interact. Worker isolates call `RelayPool` by RPC. Every route waits
for the relays (seconds) between reading the cache and writing it, and other
requests run at every wait. `RelayPool` runs its handlers on one thread; the
input gate keeps other events out while a handler waits for its own storage,
but not while it waits for the network. What the relays did not take is handed
to the retry queue, which shares the object's single alarm with the
reconnects. Streams are polls of the same cache. The hard behaviours are
therefore: read-modify-write across awaits, two walks of one queue, one alarm
for several purposes, sockets that answer late or die silently,
second-granularity timestamps used as versions and as cursors, windows that
must outlast a slow client or relay, and publishes that succeed on the relays
only, in the cache only, or for some recipients. `PROJECT.json` lists each
hazard at its line.

## 2. Modules

| Module | What it is |
|---|---|
| `RetryQueue`, `RetryQueueProofs` | the retry queue, its walks, cool-downs and the alarm; theorems |
| `Connections`, `ConnectionsProofs` | subscriptions, the reconnect alarm, sweeps and their replays; theorems |
| `Fanout`, `FanoutProofs` | one isolate's publishes: sockets, verdicts, hand-off; theorems |
| `Audience`, `AudienceProofs` | the audience cache and both families of routes; theorems |
| `AudienceRoom` | what an audience is meant to be: a room that changes atomically |
| `WrapStream`, `WrapStreamProofs` | gift wraps, grants and the declaration: replay and live tail of one connection; theorems |
| `Inboxes`, `InboxesProofs` | the paged audience inbox and the webhook inbox of one key; theorems |
| `Artifacts`, `ArtifactsProofs` | blobs, quotas, manifests, revocations and renders; theorems |
| `ArtifactLedger` | what artifacts are meant to be: an append-only ledger |
| `Sessions` | OAuth tokens and the MCP sessions opened with them |
| `Kanban` | signed board events, their addresses and budgets |
| `Worker` | the clock and the absent value these two share |
| `CallersProofs` | theorems about `Sessions` and `Kanban`, the two ways a caller is known |
| `MC...` | the instances TLC checks: sequences, records and sets a cfg cannot write |

The seams between modules. `Fanout` ends where `RetryQueue` begins: its fate
`queued` is an `EnqueueRetry`, its `poolCooldowns` the throttles that call
reports. `RetryQueue` and `Connections` share the object's alarm: each models
its own use and lets the other's happen (`ScheduleReconnect` in `RetryQueue`,
an alarm that may fire at any time in `Connections`). `Audience` decides which
grants and declarations are cached, `WrapStream` and `Inboxes` what a reader
then sees of them (`CacheGrant`). `Kanban` owns the hourly budget that the
audience routes spend too (`PostAudience`). They are checked one by one: a
product of two of them has no property that one of them does not have.

### RetryQueue

`retry` and `cooldown` are the durable records, `alarm` what `getAlarm`
reports, `walk[w]` the locals of one call of `processRetries` (`snap` is the
unvisited rest of the page `storage.list` returned). The input gate is modelled
as the variable `gate`: a walk holds it from one network wait to the next, so
`EnqueueRetry`, `ScheduleReconnect`, the alarm and the cron run only between
walks or while a walk awaits `publishOnce`. Each branch of the loop body is an
action (`VisitNotDue`, `VisitOverBudget`, `VisitCooling`, `Attempt`, then
`Settled`, `Exhausted` or `Reschedule` by outcome). The random jitter is any
value of its range, in an abstract time unit; the relay's answer is any of the
four outcomes. `Evict` loses the walks and keeps storage; the runtime
redelivers the alarm of an interrupted alarm handler. The one code path left
out is an exception thrown by storage itself. Four variables are history, read
by no action: `missed` (records a walk left for a later one), `published` and
`uncounted` (the `publishOnce` calls of each record, and those its attempts may
not show), `overlapped` (walks that ran beside another).

### Connections

`connections` is the map, `sockets[r][s]` whether a socket is live, mute (it
died without an end) or closed, `pending` what a live one will still deliver,
`caller[c]` where a run of `ensureConnected` is: the alarm's, the sweep's, or a
request's. The await of the upgrade lies between `Check` and `openRelay` or
`ConnectFails`, and callers overlap there: a second socket may take the entry of
the first. `handleEnd` drops the entry only if it is its own. A sweep connects,
then `replayRelay` or `replayRelayCutShort` fetches a window from each relay.
The cache is one address, whose versions `handleEvent` compares. `held`,
`swept` and `failed` are history for the recovery property. Time is counted in
ticks of the cron; the length of a back-off and the kinds of events that are not
replaceable are left out.

### Fanout

A request follows a plan: the sizes of its batches and whether the first must
be taken (`/v0/score` is two batches of one, gated; the wraps of an audience
message are one ungated batch). `sock[q][r]` are the locals of
`publishBatchToRelay`; `Pump` is its `pump`, with the 50 ms gap over or not.
`Answered` and `AnsweredLate` are the listener before and after the batch was
finished: it is never removed, so a late OK still starts or ends a cool-down.
`Gather` is the `Promise.all`, `HandOff` one `enqueueRelayRetries`, `Conclude`
the gate, the next batch, or the answer. `took` and `refused` are what relays
said while somebody listened. `Evict` loses the isolate.

### Audience and AudienceRoom

`decl`, `pinv`, `claims` and `grants` are the cache; `req[s]` is the request a
slot serves, with the locals it carries across awaits. Actions follow a route
from one await to the next: `InviteLookup`, `InviteGuard`, `DeclarationAccepted`
and so on; a grant's lookup and its signing are two steps, as the caller's key
is derived between them (`GrantLookup`, `GrantSign`). `Refuse` is every 4xx. A publish is accepted by some relay or by
none; an accepted event may still fail to be cached, which the code only logs
(`unstored` remembers it). The caller assumed is the room's founder, who stays
a member; join claims come from anyone who holds an invite link, leave claims
from members. A raw caller signs a successor of the declaration it has just
read, which is what the shipped client does. Lapsed invites are dropped by
reads, and a declaration carrying one is refused by the raw routes. Left out:
grants to invite keys, several granters for one member, signatures (forged
events do not pass them) and a crash of the object inside
`storeAudienceEvent`, whose writes the runtime coalesces.

`AudienceRoom` has one variable, the room, and four atomic operations: create,
add a member on the same key, rotate to the next epoch on a new key, and
close/reopen/boot on the same key. `RefinesRoom` says the cached declaration
behaves like that.

### WrapStream

`wraps` holds receive seconds, `signed` and `cached` the two lives of a grant,
`decl` the declaration the cache keeps, `pump` the locals of one connection.
Replay and live tail are followed read by read: `ReplayWraps`, `ReplayGrants`
(the merged, sorted and cut list), `Hello`, then `DrainPage` for each page,
`PollGrants`, `PollDeclaration` or `SkipDeclaration` (its slower cadence),
`BumpCursor` and `Wake`. The clock may move between any two of them, as far as
it likes: that stands for slow reads, for relays that are waited for between
signing a grant and caching it, and for a client that drains its socket slowly.
`arrived`, `due`, `ended`, `late` and `sent` are history; `late` are the events
filed under a second more than the overlap before the last turn ended. Not modelled:
keepalives, the announcement of an epoch (sent with its declaration), and
duplicates (the code suppresses them in the tail by id; an event replayed before
the hello may be sent again by the tail).

### Inboxes

One `store` of keys `<<receive second, id>>`, gift wraps and hook wraps side by
side, as in the RelayPool. The inbox half is `runInbox` page by page
(`InboxRequest`, `ReadPage`, one `ExamineWrap` per entry, `InboxReply`), with a
client that resumes from `next_since` or from `next_cursor`. Decryption is
whether the first grant that `unwrapInboxItem` finds holds the epoch key. The
hook half is `HookRequest`, `StoreHookWrap` with its bounded prune, and the
stream's replay and tail, whose reads prune as well. A model has one of the two
readers (`reader`), which keeps their products apart. The hook stream's replay
is cut at `ReplayLimit`; what it leaves out is not owed by the tail.

### Artifacts and ArtifactLedger

`blobs` and `quota` are R2; `latest`, `snapshots`, `binding`, `rev` and
`revaddr` the keys of the RelayPool. Each call from the worker to either is a
step of its own, and `Lose` drops a request between two of them. Any number of
uploads of one key may be between the read and the write of its quota record;
`behind` and `forgone` are the history of the charges such a race loses. `gone` in a
render's locals is what callers had been told is revoked when it started. The
ledger appends manifests, gives each blob its first owner for good, and only
grows its withdrawals; `RefinesLedger` maps the keys to it.

### Sessions

Tokens are records with an expiry, the sets of those minted so far; nothing is
stored, so start, callback and exchange may be repeated and mixed. A token
remembers the user, client and URI it was minted for and the verifier presented
for it, which `PublishedByConsent` compares with the challenge of the sign-in;
`presented` is the token a session accepted last. A session
has its entry in the hub, its user and its wire (up, cut, or silent: a client
that vanished unnoticed). `Post` runs its messages one by one: `Act`, `Reauth`,
`Serve`, then `Emit` if an answer is due. Requests of one session run at the
same time. `Evict` loses the hub.

### Kanban

An event is what its kind pins: `ValidPlaintext` and `ValidTide` are the checks
that tie the `d` tag to the entity, `Entity` what it speaks of. A post is an
event with its author and date, `Address` what a relay keeps it under. `Spend`
is `rateLimitCheck`, `SpendBoard` the ten buckets a board has; `stamps` keeps
the stamps the code's filter drops, which `Recent` never counts again. `spent`
is history. A caller may sign in this second or the one before.

## 3. Runs

| Run | Expect | Question |
|---|---|---|
| `RetryOverlap` | pass | two overlapping walks, full pages, enqueues, reconnects, one eviction: is every queued record that no walk left behind covered by an alarm, is every publish counted, what can bring a deleted record back, are cool-downs only extended? |
| `RetryAlone` | pass | one walk at a time: types, and does every record resolve (liveness)? |
| `Connections` | pass | alarm, cron and a request race for one relay: is the map true, is no relay forgotten, do sweeps recover what sockets lost, does the cache only move forward, is the relay connected again (liveness)? |
| `Fanout` | pass | relays that accept, refuse, throttle, ban, go silent or answer late: does no socket stall, are answers true, do retries and throttles reach the pool, is every request answered (liveness)? |
| `AudienceRoutes` | pass | two concurrent requests of any two routes, with failures: index exact, no grant before its declaration |
| `AudienceSerial` | pass | one request at a time, a second apart: invites resolve, members hold the current key, the room is atomic (refinement) |
| `AudienceStale` | violation | epochs under two concurrent custodial requests |
| `WrapTail` | pass | does each turn of the stream send all that had arrived, but for what was filed too long before? |
| `Inboxes` | pass | what may a reader that pages miss; does it reach the end (liveness); is what was answered 202 kept and sent? |
| `Artifacts` | pass | uploads, manifests, revocations and renders at every await: indexes in step, nothing revoked shown, every blob charged but for what races and losses account for, the ledger implemented (refinement) |
| `Callers` | pass | of `Sessions`, two accounts, mixed flows and a session that switches its user: is every token traced to a sign-in, and every publish to the token its session accepted last? Of `Kanban`: does a republish replace only its own entity; is every budget exact? |
| `Sessions` | pass | is every message answered, every cut session reaped (liveness)? |

### Bounds, and why they are enough

- *RetryQueue*: two events to one relay are two records and two competitors for a
  budget (`RETRY_BATCH` = 1), in pages of one (`RetryOverlap`, where each page is
  full) or in one page (`RetryAlone`); attempts 2 is the least with both
  a reschedule and an exhaustion; cool-down levels 0 and 1 show the escalation
  and its cap; `MaxNow`, `MaxLag`, `MaxEnqueues`, `LastEnqueueAt` and
  `MaxEvictions` cut the clock, the lateness of an alarm, and the environment.
  In `RetryAlone` the clock outlasts the longest chain of backoffs and
  cool-downs of two records, so that liveness is not refuted by the cut.
- *Connections*: one relay, two sockets of it at a time (a superseded one and
  its successor) and three callers that may race for it; a window of two ticks
  with one failed replay (`MaxFailures`) and no late arrival (`MaxDelay` = 0)
  leaves no slack: one tick less and `RecoveredInWindow` fails. Two events show an
  older one after a newer one. `MaxTime` stops the counting, not the cron. The
  proofs cover several relays, late arrivals and any window that fits.
- *Fanout*: two relays, one request of every shape; a batch of two with a window
  of two unacknowledged events has events sent, awaited and unsent at a throttle.
- *Audience*: two slots give every pairwise interleaving at every await; one
  invite and one member besides the founder are enough for each route to change
  each field. `InviteTtl` below `MaxNow` lets invites lapse. `AudienceSerial`
  uses one slot and `Gap` = 1: a caller that waits for each answer and a second
  more. `MaxRequests` and `MaxFailures` cut the rest.
- *WrapStream*: two wraps and a page of one make bursts of two pages and ties
  within a second; two declarations, one superseding the other within a turn.
  The capacity of a turn (pages times page size) is exactly the number of wraps.
  With an overlap of a second and `MaxNow` = 3, turns and grants can be both
  shorter and longer than the overlap; without the overlap the property fails.
- *Inboxes*: two wraps, one of them of another audience, each perhaps stored
  twice, one item per request and a budget of three entries: a request stops on
  its item, on its budget and at the end of a page. Two hook wraps, a retention
  of a second and a prune of one key at a time. `MaxStored`, `MaxBeside`: wraps
  stored for the inbox's reader, and beside the stream's hooks.
- *Artifacts*: two keys, two blobs, two times and one slug: every pair of manifests that
  share an address, a blob, a second, or none; a quota of two for two blobs. Two slots are two
  requests at any two awaits, two uploads of one key among them; `MaxLost` = 1.
  Keys, blobs and slots are symmetric.
- *Callers*: either `Sessions` or `Kanban` moves in a behaviour, as they share only
  the clock. Of `Sessions`: two accounts at two providers, a configured and a registered client,
  two allowed redirect URIs and one that is not; two states, two codes and two
  tokens, so that the two accounts' flows can be mixed; lifetimes of one tick and
  a clock of two, so that each can have expired; one session whose one post
  publishes, signs in again and publishes. Of `Kanban`: two boards, a sprint, an item,
  two days; one stamp per bucket and two buckets: a window of two seconds slides
  over four spent slots. `MaxEvents` = 1 address on the relays is enough for a
  replacement by any other event.
- *Sessions*: the liveness run has one sign-in and one state; its one session is used
  by two requests at a time, one of which signs in again and acts while the other runs a
  batch of three, or an empty one.
- Every cfg but `Connections` says `CHECK_DEADLOCK FALSE`: the bounded clock and
  the bounded number of requests stop the model in the end, as a gateway nobody
  calls stops.

### Fairness

Time, timers and the runtime's deliveries are fair; callers never are, and
relays and providers only where said.

- `RetryAlone`: time passes, the runtime delivers a due alarm, `ensureConnected`
  returns (its connects are bounded by a timeout), each step of a started walk is
  taken (`publishOnce` resolves by its own timer). A relay may throttle for ever.
- `Connections`: the runtime fires alarms and cron triggers; a connect attempt
  ends by its timeout; a replay ends by its own. One strong fairness is the
  relays': one asked again and again takes a connection at last. Without it
  nothing could be promised.
- `Fanout`: the connect timeout and the batch window end what waits for a relay;
  the worker runs what is ready; KMS and the RelayPool answer or fail. Relays may
  stay silent for ever.
- `Inboxes`: the client keeps asking and the object answers. New wraps are
  finitely many.
- `Sessions`: tools answer (their calls have time limits), heartbeat timers fire.
  A client that neither reads nor closes excuses its own answers.

## 4. Proofs

All for every value of the constants that satisfies the modules' named
assumptions: any number of walkers, relays, members, invites, keys, requests
and evictions.

- `RetryQueueProofs`: `TypeCorrect`; `CooldownsOnlyExtended`, from the type
  invariant and a lemma on `NextCooldown`; `AlarmCoversQueueAlways`, for queues of
  any length and any page size. `AlarmCoversQueue` says
  nothing while a walk runs, so it is not inductive. `CoverInv` adds: each record
  no walk has left behind (`missed`) is covered by the alarm, or by a walk that
  has not listed it yet and will list on (`Ahead`), holds it unchanged in its
  page, or carries an `earliest` soon enough (`QueueCovered`). The
  proof shows that each branch of the loop hands a record from one of these to
  another, and that `FinishWalk` hands them to the alarm or, of the pages it
  never read, to `missed`.
  `ReturnsNeedOverlap` and `PublishesAlwaysCounted` hold for any number of
  overlapping walks. Their invariant, `SnapInv`: walks that run together are
  `overlapped`, and what any other walk holds in its page and
  has not visited is what is stored. So only a walk that overlaps can bring back a
  record, and only it can write an older count; the second theorem adds that each
  such write is paid for in `uncounted`, and each publish in flight by its walk.
- `ConnectionsProofs`: `TypeCorrect`, `EntryIsLive`, `NoRelayForgotten`,
  `RecoveredBySweep`, `NewestStays`. The invariant adds to the checked ones that
  only the sweep replays and a walk stays in `RELAYS` (`CallerInv`), that no relay's last replay
  is more than a tick behind (`SweepInv`), and that what a relay has and the
  cache has not was missed by no more sweeps than replays failed in a row
  (`MissedInv`). With `MaxDelay + MaxFailures + 1 <= Window` the next complete
  replay still finds it.
- `FanoutProofs`: `TypeCorrect`, `NeverStalls`, `DeliveriesAccounted`,
  `CommentAfterScore`, `OkIsTaken`, `ThrottleHandedOn`. The properties speak of
  answers and fates, the code of sockets: the invariant says that a socket's
  answers are exactly what its relay said while it listened (`Heard`), that every
  open socket is driven (`Driven`), that a batch's fates are read off these answers
  (`FateInv`), and that nothing was taken of a batch that has not gone out
  (`HistoryInv`).
- `AudienceProofs`: `TypeCorrect`; `PinvIndexAlwaysExact`;
  `GrantsAlwaysFollowDeclaration`. The last needs `GrantsInv`: the grants a
  request still carries fit the declaration it is about to publish, or one
  already published (`RequestOK`), and the cached declaration is itself
  published, so a grant that needs no new declaration fits too.
  `MintedInvitesKnown`, `MembersAlwaysHoldKey` and `ImplementsRoom` suppose one
  request at a time and a second between two (`OneAtATime`; with two slots TLC
  refutes `MintedInviteKnown`). The invariant, `SerialInv`, ties the declaration
  a request is about to publish to the cached one, as its first or its successor
  by that route, and its `created_at` to the clock, so that the cache takes what
  was published.
  The simulation maps the write of the cache to the room's step, and everything
  before and after it to a stutter.
- `ArtifactsProofs`: `TypeCorrect`; `IndexesAlwaysAgree`; `RevokedNeverRendered`,
  for which a render's locals must remember that what its reader knew to be gone
  still is, and the revocation keys hold all that was acknowledged
  (`RequestsInv`, `AckedStored`); `ImplementsLedger`, the step simulation: storing
  a manifest is the ledger's `Publish`, storing a revocation its `Withdraw`,
  everything else a stutter. `QuotaAlwaysCovers`, by `QuotaInv`: what an upload
  read, and the charges written since (`behind`), together reach the
  record as it is now, and the upload still fits the quota. So a put adds a blob
  and a charge to come, and the write turns one into the other and the charges it
  overwrites into `forgone`. It takes no bound on keys, blobs or slots.
- `WrapStreamProofs`: `TypeCorrect`, `DeclarationNotAhead`,
  `AlwaysSeenWithinOneCycle`. The position of the
  tail is chosen from a page, so the types rest on a lemma that a finite page has
  a last key (`LastOfPage`), and on `DeclarationInv`: the declaration a
  connection knows is not later than the stored one, so what a poll finds
  different exists. `AlwaysSeenWithinOneCycle` takes turns and
  waits of any length and supposes, as a hypothesis on the behaviour,
  `BurstFits`: the wraps of the window fit `LIVE_TAIL_MAX_PAGES` pages, the
  grants one, and what a replay covers is below `replay_limit`. Section 6 says
  what happens without it. By `SeenInv`, each item owed to a connection was
  sent, is in the replay being sent, is late, or lies ahead of the tail's position
  in the window (`DueOK`, `ReplayOK`), whose start is the end of the turn before
  less the overlap (`CursorOK`); the keys passed by a turn number a full page
  each (`PagesOK`); a declaration owed is the one last announced or older, or
  still differs from the one the connection knows (`DeclarationsOK`).
- `CallersProofs`, on `Sessions`: `TypeCorrect`, `AlwaysPublishedByConsent`,
  `PublishersAlwaysSignedIn`. Nothing is stored, so the argument follows what a
  token inherits (`ConsentInv`): the state that a registered client's own URI
  got it (`StatesOK`), the code the state's fields and a sign-in (`CodesOK`), the
  token the code's, and a verifier that meets the code's challenge (`JwtsOK`). On the hub's side a session's user is that of a
  token it was given (`SessionsOK`), and a request runs on an opened session
  (`PostsOK`), so what it signs has such a user's key (`ActsOK`).
  On `Kanban`: `BudgetAlwaysExact`. A budget is spent under several keys, so the
  property is not inductive. `BudgetInv` says that, after any second, the slots
  spent of a budget are as many as the stamps under its keys, that no key has more
  than its limit in the window, and that at a refusal each key of the budget is
  full. It needs no induction over the keys: `CountCells` numbers each key's
  stamps and so maps them one to one into keys times `1..PerHour`, and onto it if
  every key is full. Time only takes stamps out of the window, and the first
  bucket with room exists if any has room (`NoFirstNoRoom`).
  `RepublishAlwaysCorrects`: the relays hold only what the validators let through
  (`RelayInv`), and two such events of one address speak of one entity
  (`OneEntityPerAddress`), as each kind's `d` tag is pinned to it and ids tell
  boards from sprints (`DistinctAssumption`). The two models share `Worker` and no
  other name (hence `BoardSpec`), so that one module extends both.
- `InboxesProofs`: `TypeCorrect`; `AcceptedAlwaysKept`; `InboxNeverMisses`, whose
  invariant (`InboxInv`) says that every owed wrap was seen, was dark, lies
  behind a cursor that passed its second (`Behind`), or is still covered by the
  position of the request or of the client (`Covered`), and that each page ends
  at the last key it listed (`WalkOK`). `HooksAlwaysSeen` supposes
  `CycleSeconds <= OverlapSeconds` (`TurnsWithinOverlap`; the code polls each two
  seconds and reads ten back) and that no burst exceeds a turn's pages
  (`BurstFits`, of which `PROJECT.json` lists the hazard). By `StreamInv` what
  a turn owes is sent, expired, or ahead of it (`DueOK`), and the keys its pages
  have passed number a full page each (`PagesOK`): were a key still ahead after the last
  page, the window would hold more than `BurstFits` allows.

Model-checked only is liveness, which is out of the prover's reach:
`EveryRecordResolves`, `RelayReconnected`, `EveryRequestAnswered`,
`CursorDrains`, `CutSessionsReaped`, `EveryMessageAnswered`. Every other property
of a passing run is stated by a theorem.

## 5. Plan

Done: `RetryQueue`, `Audience` against `AudienceRoom`, `WrapStream`, `Inboxes`,
`Fanout`, `Artifacts` against `ArtifactLedger`, `Connections`, `Sessions`,
`Kanban`, and the theorems above: every safety and action property the passing
runs check is proved, some from the named conditions section 4 gives. What is
left is the code section 7 lists.

## 6. Where code and documentation differ

The run `AudienceStale` demonstrates one of them.

- **AudienceStale**: an invite and a rotation overlap; the invite's copy of the
  old declaration is newer by `created_at` and replaces the rotation: the epoch
  and key go back, a removed member is a member again. `SPEC-v0.5.md` says that
  `fa:epoch` must increase across supersessions.
Others were met while modelling. The models contain them; the passing runs
exclude them by a named condition, or state what does hold.

- *A deleted record* (`relay-pool.ts:1053`): the cron's sweep walks the queue while the
  alarm's walk awaits a relay. Both hold a record; the first deletes it on an
  accept, the second's transient failure puts it back, and the relay is sent it
  again. `publish.ts:365` says that records are deleted on accept, permanent
  failure or exhaustion. `ReturnsOnlyByOverlap` and `EveryPublishCounted` say
  what is left: such a walk is the only cause, and what it costs is bounded.
- *A full page* (`relay-pool.ts:1001`): `while (more && processed < RETRY_BATCH)` ends
  after a full page whose last attempt spent the budget. Keys of later pages
  are neither visited nor in `earliest`; they wait for the cron, although
  `relay-pool.ts:978` says that surviving records reschedule the alarm. Hence
  `missed` in `AlarmCoversQueue`.
- *A grant cached late* (`audience-stream.ts:408`): grants are filtered by signing time and
  cached after up to 15 s of relay waits, for a batch of many; the overlap is
  10 s. The file's header (`audience-stream.ts:27`) promises a same-instance pair one
  poll cycle. A turn of the pump longer than the overlap (a client that stops
  reading) loses wraps in the same way. Hence `late` in `SeenWithinOneCycle`.
- *Two uploads of one key* (`blossom.ts:120`): both read one quota record, both pass,
  and one charge is lost: the key stores more than the quota
  `use-cases/public-artifacts.md:18` gives. Hence `forgone` in `QuotaCoversBlobs`.
- *The same second* (`relay-pool.ts:378`): on a tie of `created_at` the cache keeps what it has.
  The relays have the second declaration, the gateway does not, the answer is
  200. Hence `Gap` = 1 in `AudienceSerial`.
- *A claim from before a rotation* (`audience.ts:812`): the invite URL names the epoch it was
  minted in, the claim is stored under it, and `process-claims` asks for the
  current epoch, although its comment promises a rotation for each pending
  invite that was claimed. A claim's epoch is not compared with the
  declaration's by any route.
- *A declaration cut off* (`audience-stream.ts:344`): the replay sends the oldest
  `replay_limit` items, a new declaration is among the last, and `lastDeclId`
  starts with it: if the limit cuts it off, the tail takes it for sent. Hence the
  `ReplayLimit` of `WrapTail`.
- *Paging by since*: more wraps of one second than `limit` stall a client that
  resumes from `next_since`; paging by cursor does not stall (`CursorDrains`), but
  may skip a wrap stored later in the same second (`Overtaken`).
- *Bans* (`publish.ts:309`): comments at `publish.ts:60` and `:79` say that a relay
  that bans is rested; `classifyRejection` takes `banned:` for permanent first, so
  the throttle test is only made of messages that also say to try again. The
  test `relay-fanout-timeout.test.ts:58` uses such a message.
- *Uploads by two routes* (`blob.ts:95`): `POST /v0/blob` overwrites the uploader of
  stored bytes and charges again; `blossom.ts:94` promises no overwrite for its own
  route. A manifest is checked against the current uploader.
- *Tides*: `kanban-tide-route.ts:15` says that tide events are cached;
  `AUDIENCE_KINDS` has none of 30550 to 30560, so `storeAudienceEvent` refuses them.
- *Encrypted variants*: the validator's comment says it runs when a rumor is
  built; no route calls it.
- *list-my* (`audience.ts:943`): audiences are looked up by the granter's key, so a
  grant that a member signed is not listed.

## 7. Not modelled, and why

- Ciphers, signatures, hashes and encodings: events and tokens that pass them are
  genuine, those that do not are refused.
- Field checks without state: studio payloads, encrypted variants, the fields of a
  manifest, a profile or an organisation. They decide on one event alone; a route
  that refuses one is a request that ends.
- Pure reads: credibility, `/v0/object` and the read API, `list-my`,
  `list-pending-claims`, `raw/process-claims`, fetching a blob, the viewer page.
- The audience stream's keepalives.
- Grants to an invite key: the models' founder grants to identity keys.
- The command line, the site build, one-off scripts and descriptions of the
  surfaces: clients of the gateway, or generated.
