------------------------------ MODULE Inboxes -------------------------------
(***************************************************************************)
(* The two inboxes of one key.  Gift wraps of its audiences are stored by  *)
(* the publish routes and read page by page, and decrypted, by             *)
(* GET /v0/audience/:slug/inbox (gateway/src/audience.ts).  Webhook        *)
(* deliveries are accepted by POST /v0/hook (webhook-receiver.ts), kept    *)
(* for a while, and tailed by GET /v0/inbox/:pubkey/stream                 *)
(* (inbox-stream.ts).  Both live in the RelayPool under keys               *)
(*   <prefix><recipient>:<12-digit receive second>:<wrap id>               *)
(* so that key order is order of arrival but for wraps of one second,      *)
(* which are in the order of their ids.                                    *)
(***************************************************************************)
EXTENDS Integers, FiniteSets

CONSTANTS
    Wraps, Hooks,       \* gift wraps and hook wraps, numbered in id order
    Foreign,            \* the gift wraps of another audience of the reader
    AudId, Granters,    \* who may sign the reader's key grant, in p-tag order
    None,               \* absent value
    Limit,              \* limit of an inbox request
    ExamineFactor,      \* examineBudget = limit * 4
    WrapPageMax,        \* WRAP_PAGE_MAX
    HookRetention,      \* HOOK_WRAP_RETENTION_SECONDS
    PruneBatch,         \* keys one prune deletes at most
    OverlapSeconds, LivePollLimit, LiveTailMaxPages, ReplayLimit,
    CycleSeconds,       \* seconds one turn of the pump, or the replay, takes at most
    Sinces,             \* ?since= of the first inbox request and of a stream
    MaxNow,             \* bound: the clock stops here
    MaxStored,          \* bound: gift wraps stored when the inbox is read
    MaxBeside,          \* bound: gift wraps stored when the stream is read
    Readers             \* bound: which of the two readers there is; hooks are
                        \* delivered when it is the stream

ASSUME IdsAssumption == Wraps \subseteq Nat /\ Hooks \subseteq Nat /\ Wraps \cap Hooks = {}
ASSUME FiniteAssumption == IsFiniteSet(Wraps) /\ IsFiniteSet(Hooks)
ASSUME GrantersAssumption == Granters \subseteq Nat /\ AudId \in Granters /\ \A g \in Granters : AudId <= g
ASSUME NoneAssumption == None \notin Nat /\ None \notin Nat \X Nat
\* The routes cap limit at 200: a request's budget fits one page.
ASSUME OnePageAssumption ==
    /\ {Limit, ExamineFactor, WrapPageMax, LivePollLimit, LiveTailMaxPages,
        ReplayLimit, PruneBatch} \subseteq Nat \ {0}
    /\ Limit * ExamineFactor <= WrapPageMax
    /\ {HookRetention, OverlapSeconds, CycleSeconds, MaxNow} \cup Sinces \subseteq Nat

VARIABLES
    now,                \* the clock, in seconds
    store,              \* durable: the keys of the stored wraps
    wrapping,           \* the gift wraps a running publish request is about to store
    grants,             \* durable: what each granter's cached grant decrypts to
    members,            \* of the cached declaration, who may have granted
    reader,             \* which of the readers there is
    client,             \* what the inbox's client keeps from one request to the next
    req,                \* the local variables of runInbox
    hook,               \* each webhook delivery: "none", "wrapping", "accepted", "failed"
    pump,               \* the local variables of the inbox stream
    arrived, due, sent, \* history of the stream, as in WrapStream
    kept,               \* history: every key ever stored
    owed,               \* history: the gift wraps stored when the request came
    examined, dark      \* history: the keys examined, and those that could not be read then

mail == <<wrapping, grants, members>>
inbox == <<client, req, owed, examined, dark>>
stream == <<pump, due, sent>>
vars == <<now, store, mail, reader, inbox, hook, stream, arrived, kept>>

-----------------------------------------------------------------------------
(* The RelayPool's store.                                                  *)

KeyBefore(j, k) == j[1] < k[1] \/ (j[1] = k[1] /\ j[2] < k[2])

\* The first `limit' keys of a range, as storage.list returns them.
FirstKeys(range, limit) ==
    {k \in range : Cardinality({j \in range : KeyBefore(j, k)}) < limit}

FirstKey(keys) == CHOOSE k \in keys : \A j \in keys \ {k} : KeyBefore(k, j)
LastKey(keys) == CHOOSE k \in keys : \A j \in keys \ {k} : KeyBefore(j, k)

\* Mutant: the cursor is read as the start of the range, not what precedes it.
KeyRange_FromCursor(keys, since, after) ==
    IF after # None THEN {k \in keys : ~KeyBefore(k, after)} ELSE {k \in keys : k[1] >= since}

\* listWrapPage: afterCursor, exclusive, takes precedence over sinceUnix.
KeyRange(keys, since, after) ==
    IF after # None THEN {k \in keys : KeyBefore(after, k)} ELSE {k \in keys : k[1] >= since}

GiftKeys(keys) == {k \in keys : k[2] \in Wraps}
HookKeys(keys) == {k \in keys : k[2] \in Hooks}

Expired(k) == k[1] < now - HookRetention

\* Mutant: the cutoff key is one second late: it is the clock's at the end.
Pruned_Late(keys) ==
    keys \ FirstKeys({k \in HookKeys(keys) : k[1] < now + 1 - HookRetention}, PruneBatch)

\* pruneExpiredHookWraps: a bounded delete of the range below the cutoff.
Pruned(keys) == keys \ FirstKeys({k \in HookKeys(keys) : Expired(k)}, PruneBatch)

Store(k) ==
    /\ store' = store \cup {k}
    /\ kept' = kept \cup {k}

-----------------------------------------------------------------------------
Requests ==
    [pc: {"idle", "page", "entry", "reply"}, since: Nat, after: (Nat \X Nat) \cup {None},
     page: SUBSET (Nat \X Wraps), exhausted: BOOLEAN, examined: 0..(Limit * ExamineFactor),
     items: SUBSET Wraps, last: (Nat \X Nat) \cup {None}, more: BOOLEAN]

Idle == [pc |-> "idle", since |-> 0, after |-> None, page |-> {}, exhausted |-> FALSE,
         examined |-> 0, items |-> {}, last |-> None, more |-> FALSE]

Pumps == [pc: {"off", "replay", "hello", "tail", "bump", "sleep"}, since: Nat, cursor: Int,
          after: (Nat \X Nat) \cup {None}, pages: 0..(LiveTailMaxPages - 1), start: Nat]

Off == [pc |-> "off", since |-> 0, cursor |-> 0, after |-> None, pages |-> 0, start |-> 0]

Init ==
    /\ now = 0
    /\ store = {} /\ kept = {}
    /\ wrapping = {}
    /\ grants = [g \in Granters |-> None]
    /\ members = Granters \ {AudId}
    /\ reader \in Readers
    /\ \E by \in IF reader = "inbox" THEN {"since", "cursor"} ELSE {"since"}, from \in Sinces :
          client = [by |-> by, from |-> from, since |-> from, cursor |-> None,
                    seen |-> {}, done |-> FALSE]
    /\ req = Idle
    /\ hook = [h \in Hooks |-> "none"]
    /\ pump = Off
    /\ arrived = {} /\ due = {} /\ sent = {}
    /\ owed = {} /\ examined = {} /\ dark = {}

Tick ==
    /\ now < MaxNow
    /\ pump.pc \notin {"off", "sleep"} => now < pump.start + CycleSeconds
    /\ now' = now + 1
    /\ UNCHANGED <<store, mail, reader, inbox, hook, stream, arrived, kept>>

-----------------------------------------------------------------------------
(* Publishing to the reader.                                               *)

More ==
    LET bound == IF reader = "inbox" THEN MaxStored ELSE MaxBeside
    IN  Cardinality(wrapping) + Cardinality(GiftKeys(store)) < bound

Wrap(w) ==
    /\ w \notin wrapping /\ More
    /\ wrapping' = wrapping \cup {w}
    /\ UNCHANGED <<now, store, grants, members, reader, inbox, hook, stream, arrived, kept>>

\* runAudiencePublish: the declaration is open, lists the publisher and is on
\* the epoch key the caller names; the rumor is wrapped for every member.
AudiencePublish(w) == (\A k \in kept : k[2] # w) /\ Wrap(w)

\* runPublishWraps: the caller's own wraps, which it may send again.
PublishWraps(w) == Wrap(w)

\* deliverMemberWraps and storeGiftWrap: cached before the relays are asked.
DeliverWrap(w) ==
    /\ w \in wrapping
    /\ wrapping' = wrapping \ {w}
    /\ Store(<<now, w>>)
    /\ UNCHANGED <<now, grants, members, reader, inbox, hook, stream, arrived>>

\* A store call that throws is logged: the wrap goes to the relays only.
DeliverFails(w) ==
    /\ w \in wrapping
    /\ wrapping' = wrapping \ {w}
    /\ UNCHANGED <<now, store, grants, members, reader, inbox, hook, stream, arrived, kept>>

\* A grant to the reader is cached: signed by the audience key or by a member,
\* it holds the epoch key or anything else.
CacheGrant(g, content) ==
    /\ reader = "inbox"
    /\ g \in {AudId} \cup members /\ grants[g] = None
    /\ grants' = [grants EXCEPT ![g] = content]
    /\ UNCHANGED <<now, store, wrapping, members, reader, inbox, hook, stream, arrived, kept>>

MemberLeaves(g) ==
    /\ reader = "inbox"
    /\ g \in members
    /\ members' = members \ {g}
    /\ UNCHANGED <<now, store, wrapping, grants, reader, inbox, hook, stream, arrived, kept>>

-----------------------------------------------------------------------------
(* GET /v0/audience/:slug/inbox.                                           *)

\* unwrapInboxItem tries the grant signed by the audience key, then those of
\* the current members in order; the first one found is the one used.
GrantOpens ==
    \E g \in {AudId} \cup members :
        /\ grants[g] = "epoch-key"
        /\ \A f \in {AudId} \cup members : f < g => grants[f] = None

Readable(k) == k[2] \notin Foreign /\ GrantOpens

\* The client sends the cursor it has, or its since.
InboxRequest ==
    /\ reader = "inbox"
    /\ req.pc = "idle"
    /\ req' = [Idle EXCEPT !.pc = "page", !.since = client.since, !.after = client.cursor]
    /\ client' = [client EXCEPT !.done = FALSE]
    /\ owed' = {k \in GiftKeys(store) : k[1] >= client.from}
    /\ UNCHANGED <<now, store, mail, reader, examined, dark, hook, stream, arrived, kept>>

MinOf(a, b) == IF a < b THEN a ELSE b

ReadPage ==
    LET limit == MinOf(Limit * ExamineFactor - req.examined, WrapPageMax)
        page == FirstKeys(KeyRange(GiftKeys(store), req.since, req.after), limit)
    IN  /\ req.pc = "page"
        /\ req' = [req EXCEPT !.page = page, !.exhausted = Cardinality(page) < limit,
                              !.pc = IF page = {} THEN "reply" ELSE "entry"]
        /\ UNCHANGED <<now, store, mail, reader, client, owed, examined, dark, hook, stream, arrived, kept>>

\* Mutant: an exhausted page is taken for a page examined to its end.
ExamineWrap_EndOfPage ==
    LET k == FirstKey(req.page)
        rest == req.page \ {k}
        items == IF Readable(k) THEN req.items \cup {k[2]} ELSE req.items
        stop == Cardinality(items) >= Limit \/ req.examined + 1 >= Limit * ExamineFactor
    IN  /\ req.pc = "entry"
        /\ req' = [req EXCEPT !.page = rest, !.examined = @ + 1, !.last = k, !.items = items,
              !.more = stop /\ ~req.exhausted,
              !.after = IF rest = {} THEN k ELSE @,
              !.pc = CASE stop \/ (rest = {} /\ req.exhausted) -> "reply"
                       [] rest = {} /\ ~req.exhausted /\ ~stop -> "page"
                       [] OTHER -> "entry"]
        /\ examined' = examined \cup {k}
        /\ dark' = IF Readable(k) THEN dark ELSE dark \cup {k}
        /\ UNCHANGED <<now, store, mail, reader, client, owed, hook, stream, arrived, kept>>

\* One entry: it is consumed whether or not it can be read.  The walk stops
\* with enough items or when the budget is spent, else at the page's end.
ExamineWrap ==
    LET k == FirstKey(req.page)
        rest == req.page \ {k}
        items == IF Readable(k) THEN req.items \cup {k[2]} ELSE req.items
        stop == Cardinality(items) >= Limit \/ req.examined + 1 >= Limit * ExamineFactor
    IN  /\ req.pc = "entry"
        /\ req' = [req EXCEPT !.page = rest, !.examined = @ + 1, !.last = k, !.items = items,
              !.more = stop /\ ~(req.exhausted /\ rest = {}),
              !.after = IF rest = {} THEN k ELSE @,
              !.pc = CASE stop \/ (rest = {} /\ req.exhausted) -> "reply"
                       [] rest = {} /\ ~req.exhausted /\ ~stop -> "page"
                       [] OTHER -> "entry"]
        /\ examined' = examined \cup {k}
        /\ dark' = IF Readable(k) THEN dark ELSE dark \cup {k}
        /\ UNCHANGED <<now, store, mail, reader, client, owed, hook, stream, arrived, kept>>

\* next_since, next_cursor and has_more; the client keeps the one it pages by.
InboxReply ==
    /\ req.pc = "reply"
    /\ client' = [client EXCEPT
          !.seen = @ \cup req.items,
          !.done = ~req.more,
          !.since = IF client.by = "since" /\ req.last # None THEN req.last[1] ELSE @,
          !.cursor = IF client.by = "cursor" /\ req.last # None THEN req.last ELSE @]
    /\ req' = Idle
    /\ UNCHANGED <<now, store, mail, reader, owed, examined, dark, hook, stream, arrived, kept>>

InboxStep == InboxRequest \/ ReadPage \/ ExamineWrap \/ InboxReply

-----------------------------------------------------------------------------
(* POST /v0/hook/:pubkey/:slug.                                            *)

\* handleHookRequest: the declared length, the two rate limits, then the real
\* length decide; nothing is written when it refuses.
HookRequest(h, declared, actual, limited) ==
    /\ hook[h] = "none"
    /\ reader = "stream"
    /\ hook' = [hook EXCEPT ![h] =
          IF declared = "exceeds" \/ limited \/ actual \in {"unreadable", "exceeds"}
          THEN "failed" ELSE "wrapping"]
    /\ UNCHANGED <<now, store, mail, reader, inbox, stream, arrived, kept>>

\* storeHookWrap: the put, then the prune; 202 when both have resolved.
StoreHookWrap(h) ==
    LET k == <<now, h>>
    IN  /\ hook[h] = "wrapping"
        /\ hook' = [hook EXCEPT ![h] = "accepted"]
        /\ store' = Pruned(store \cup {k})
        /\ kept' = kept \cup {k}
        /\ arrived' = IF pump.pc = "off" THEN arrived ELSE arrived \cup {k}
        /\ UNCHANGED <<now, mail, reader, inbox, stream>>

\* The request dies first: the provider sees an error and delivers again.
HookLost(h) ==
    /\ hook[h] = "wrapping"
    /\ hook' = [hook EXCEPT ![h] = "failed"]
    /\ UNCHANGED <<now, store, mail, reader, inbox, stream, arrived, kept>>

-----------------------------------------------------------------------------
(* GET /v0/inbox/:pubkey/stream.                                           *)

\* listHookWrapPage prunes before it reads.
HookPage(since, after, limit) == FirstKeys(KeyRange(HookKeys(Pruned(store)), since, after), limit)

\* With since the connection owes the client the replay page.
StreamConnect(since) ==
    /\ reader = "stream"
    /\ pump.pc = "off"
    /\ pump' = [Off EXCEPT !.pc = IF since = None THEN "hello" ELSE "replay",
                           !.since = IF since = None THEN 0 ELSE since, !.start = now]
    /\ arrived' = IF since = None THEN {} ELSE FirstKeys(KeyRange(HookKeys(store), since, None), ReplayLimit)
    /\ due' = {} /\ sent' = {}
    /\ UNCHANGED <<now, store, mail, reader, inbox, hook, kept>>

Replay ==
    /\ pump.pc = "replay"
    /\ store' = Pruned(store)
    /\ sent' = sent \cup HookPage(pump.since, None, ReplayLimit)
    /\ pump' = [pump EXCEPT !.pc = "hello"]
    /\ UNCHANGED <<now, mail, reader, inbox, hook, arrived, due, kept>>

NewTurn(cursor) ==
    /\ pump' = [pump EXCEPT !.pc = "tail", !.cursor = cursor, !.after = None, !.pages = 0,
                            !.start = now]
    /\ due' = due \cup arrived
    /\ arrived' = {}

Hello ==
    /\ pump.pc = "hello"
    /\ NewTurn(now - OverlapSeconds)
    /\ UNCHANGED <<now, store, mail, reader, inbox, hook, sent, kept>>

\* One page of the turn.  What the tail has sent is skipped (seenIds).
TailPage ==
    LET page == HookPage(pump.cursor, pump.after, LivePollLimit)
        next == Cardinality(page) = LivePollLimit /\ pump.pages + 1 < LiveTailMaxPages
    IN  /\ pump.pc = "tail"
        /\ store' = Pruned(store)
        /\ sent' = sent \cup page
        /\ pump' = [pump EXCEPT !.pages = IF next THEN @ + 1 ELSE 0,
                                !.pc = IF next THEN "tail" ELSE "bump",
                                !.after = IF next THEN LastKey(page) ELSE None]
        /\ UNCHANGED <<now, mail, reader, inbox, hook, arrived, due, kept>>

\* Mutant: the cursor follows the clock without the overlap.
BumpCursor_NoOverlap ==
    /\ pump.pc = "bump"
    /\ pump' = [pump EXCEPT !.pc = "sleep", !.cursor = now]
    /\ UNCHANGED <<now, store, mail, reader, inbox, hook, arrived, due, sent, kept>>

BumpCursor ==
    /\ pump.pc = "bump"
    /\ pump' = [pump EXCEPT !.pc = "sleep", !.cursor = now - OverlapSeconds]
    /\ UNCHANGED <<now, store, mail, reader, inbox, hook, arrived, due, sent, kept>>

Wake ==
    /\ pump.pc = "sleep"
    /\ NewTurn(pump.cursor)
    /\ UNCHANGED <<now, store, mail, reader, inbox, hook, sent, kept>>

\* The client goes, or the pump reaches a cap.
Close ==
    /\ pump.pc # "off"
    /\ pump' = Off
    /\ arrived' = {} /\ due' = {} /\ sent' = {}
    /\ UNCHANGED <<now, store, mail, reader, inbox, hook, kept>>

StreamStep == Replay \/ Hello \/ TailPage \/ BumpCursor \/ Wake \/ Close

Next ==
    \/ Tick
    \/ \E w \in Wraps : AudiencePublish(w) \/ PublishWraps(w) \/ DeliverWrap(w) \/ DeliverFails(w)
    \/ \E g \in Granters, content \in {"epoch-key", "other"} : CacheGrant(g, content)
    \/ \E g \in Granters : MemberLeaves(g)
    \/ InboxStep
    \/ \E h \in Hooks, declared \in {"absent", "fits", "exceeds"},
          actual \in {"unreadable", "fits", "exceeds"}, limited \in BOOLEAN :
             HookRequest(h, declared, actual, limited)
    \/ \E h \in Hooks : StoreHookWrap(h) \/ HookLost(h)
    \/ \E since \in Sinces \cup {None} : StreamConnect(since)
    \/ StreamStep

Spec == Init /\ [][Next]_vars

\* The client keeps asking and the Durable Object answers.
FairSpec == Spec /\ WF_vars(InboxStep)

-----------------------------------------------------------------------------
(* Correctness.                                                            *)

TypeOK ==
    /\ now \in Nat
    /\ {store, kept, arrived, due, sent} \subseteq SUBSET (Nat \X (Wraps \cup Hooks))
    /\ wrapping \subseteq Wraps
    /\ grants \in [Granters -> {None, "epoch-key", "other"}]
    /\ members \subseteq Granters
    /\ reader \in Readers
    /\ client \in [by: {"since", "cursor"}, from: Nat, since: Nat,
                   cursor: (Nat \X Wraps) \cup {None}, seen: SUBSET Wraps, done: BOOLEAN]
    /\ req \in Requests
    /\ hook \in [Hooks -> {"none", "wrapping", "accepted", "failed"}]
    /\ pump \in Pumps
    /\ {owed, examined, dark} \subseteq SUBSET (Nat \X Wraps)

\* A wrap of the same second, of a larger id, was examined before this one.
Overtaken(k) == \E j \in examined : j[1] = k[1] /\ k[2] < j[2]

\* "has_more - false only when every wrap up to now was examined": a client
\* told so has received every wrap that was stored when it asked, but for
\* those whose grant could not be found when they were examined - and, with
\* next_cursor, those stored after a wrap of the same second and larger id.
InboxMissesNothing ==
    req.pc = "idle" /\ client.done =>
        \A k \in owed : \/ k[2] \in client.seen
                        \/ k \in dark
                        \/ client.by = "cursor" /\ Overtaken(k)

\* What has been answered 202 is stored, and what is stored stays: gift wraps
\* for good, hook wraps for the retention.
StoredIsKept ==
    /\ \A h \in Hooks : hook[h] = "accepted" => \E k \in kept : k[2] = h
    /\ \A k \in kept \ store : k[2] \in Hooks /\ Expired(k)

\* When a turn of the stream ends, the deliveries stored when it began have
\* been sent, unless their retention is over.
HookSeenWithinOneCycle ==
    pump.pc = "sleep" => \A k \in due : k \in sent \/ Expired(k)

\* "no stall when many wraps share one second": a client that follows
\* next_cursor reaches has_more = false.
CursorDrains == client.by = "cursor" /\ req.pc # "idle" ~> client.done

=============================================================================
