----------------------------- MODULE WrapStream -----------------------------
(***************************************************************************)
(* One member's event stream: the gift wraps the RelayPool keeps under     *)
(* their receive second, the key grants it caches under their signing      *)
(* second, the audience's current declaration, and the pump of             *)
(* GET /v0/audience/:slug/stream that replays and then polls them          *)
(* (gateway/src/audience-stream.ts).                                       *)
(*                                                                         *)
(* Every read of the pump is a call of the RelayPool and every emit waits  *)
(* for the client: events arrive and time passes in between.  A new epoch  *)
(* is announced with its declaration; keepalives are left out.             *)
(***************************************************************************)
EXTENDS Integers, FiniteSets

CONSTANTS
    Wraps,              \* gift wraps to the member, numbered in id order
    Grants,             \* key grants to the member, numbered
    Declarations,       \* declarations of the audience, numbered as they are stored
    None,               \* absent value
    OverlapSeconds,     \* OVERLAP_SECONDS
    LivePollLimit,      \* livePollLimit, a page of the live tail
    LiveTailMaxPages,   \* LIVE_TAIL_MAX_PAGES
    ReplayLimit,        \* replay_limit
    Sinces,             \* since_ts of the connections, in seconds, or None
    MaxNow,             \* bound: the clock stops here
    MaxConnections      \* bound: connections made one after the other

ASSUME IdsAssumption == Wraps \subseteq Nat /\ Grants \subseteq Nat /\ Declarations \subseteq Nat \ {0}
ASSUME FiniteAssumption == IsFiniteSet(Wraps) /\ IsFiniteSet(Grants)
ASSUME NoneAssumption == None \notin Nat
ASSUME LimitsAssumption ==
    /\ {LivePollLimit, LiveTailMaxPages, ReplayLimit} \subseteq Nat \ {0}
    /\ {OverlapSeconds, MaxNow, MaxConnections} \subseteq Nat
    /\ Sinces \subseteq Nat \cup {None}

VARIABLES
    now,            \* the clock, in seconds
    wraps,          \* durable: the receive second of each wrap, or None
    signed,         \* created_at of each grant, or None
    cached,         \* durable: the grants storeAudienceEvent has stored
    decl,           \* durable: the declaration it keeps, and its created_at
    pump,           \* the local variables of the connection's pump
    arrived, due,   \* history: what the connection owes its client, that reached
                    \* the cache after and before the current turn of the pump began
    ended,          \* history: the second of the pump's hello or of its last turn's end
    late,           \* history: what of `due' was filed too long before `ended'
    sent,           \* history: what the connection has sent
    connections

cache == <<wraps, signed, cached, decl>>
history == <<arrived, due, ended, late, sent>>
vars == <<now, cache, pump, history, connections>>

WrapEvents == {"gift-wrap"} \X Wraps
GrantEvents == {"key-grant"} \X Grants
DeclarationEvents == {"declaration-updated"} \X Declarations
Events == WrapEvents \cup GrantEvents \cup DeclarationEvents

Wrap(w) == <<"gift-wrap", w>>
Grant(g) == <<"key-grant", g>>
Declaration(d) == <<"declaration-updated", d>>

-----------------------------------------------------------------------------
(* The RelayPool's reads.                                                  *)

\* Key order of giftwrap:<recipient>:<receive second>:<id>.
KeyBefore(v, w) == wraps[v] < wraps[w] \/ (wraps[v] = wraps[w] /\ v < w)

Stored == {w \in Wraps : wraps[w] # None}
Since(s) == {w \in Stored : wraps[w] >= s}
After(v) == {w \in Stored : KeyBefore(v, w)}

\* listWrapPage: the first `limit' keys of a range.
WrapPage(range, limit) ==
    {w \in range : Cardinality({v \in range : KeyBefore(v, w)}) < limit}

GrantBefore(f, g) == signed[f] < signed[g] \/ (signed[f] = signed[g] /\ f < g)

\* listKeyGrants: oldest first, inclusive of `since'.
KeyGrants(since, limit) ==
    LET range == {g \in cached : signed[g] >= since}
    IN  {g \in range : Cardinality({f \in range : GrantBefore(f, g)}) < limit}

-----------------------------------------------------------------------------
Pump == [pc: {"off", "replay-wraps", "replay-grants", "hello", "wraps", "grants", "declaration",
              "bump", "sleep"},
         since: Nat \cup {None}, items: SUBSET Events,
         last: [id: Declarations \cup {0}, at: Nat], polled: BOOLEAN,
         cursor: Int, after: Wraps \cup {None}, pages: 0..(LiveTailMaxPages - 1)]

First == [id |-> 0, at |-> 0]

Off == [pc |-> "off", since |-> None, items |-> {}, last |-> First, polled |-> FALSE,
        cursor |-> 0, after |-> None, pages |-> 0]

At(pc) == pump.pc = pc

Init ==
    /\ now = 0
    /\ wraps = [w \in Wraps |-> None]
    /\ signed = [g \in Grants |-> None]
    /\ cached = {}
    /\ decl = First
    /\ pump = Off
    /\ arrived = {} /\ due = {} /\ ended = 0 /\ late = {} /\ sent = {}
    /\ connections = 0

Tick ==
    /\ now < MaxNow
    /\ now' = now + 1
    /\ UNCHANGED <<cache, pump, history, connections>>

Arrives(e) ==
    /\ arrived' = IF At("off") THEN arrived ELSE arrived \cup {e}
    /\ UNCHANGED <<due, ended, late, sent>>

\* storeGiftWrap: keyed by the second of its arrival, whatever its created_at.
StoreGiftWrap(w) ==
    /\ wraps[w] = None
    /\ wraps' = [wraps EXCEPT ![w] = now]
    /\ Arrives(Wrap(w))
    /\ UNCHANGED <<now, signed, cached, decl, pump, connections>>

\* A route signs a grant; it is cached once the relays have answered, however
\* long that takes.
SignGrant(g) ==
    /\ signed[g] = None
    /\ signed' = [signed EXCEPT ![g] = now]
    /\ UNCHANGED <<now, wraps, cached, decl, pump, history, connections>>

CacheGrant(g) ==
    /\ signed[g] # None /\ g \notin cached
    /\ cached' = cached \cup {g}
    /\ Arrives(Grant(g))
    /\ UNCHANGED <<now, wraps, signed, decl, pump, connections>>

\* Another declaration is stored: it was signed a while ago, in a later second
\* than the one the cache has.
StoreDeclaration(d) ==
    /\ d > decl.id
    /\ \E at \in 0..now :
          /\ at > decl.at
          /\ decl' = [id |-> d, at |-> at]
    /\ Arrives(Declaration(d))
    /\ UNCHANGED <<now, wraps, signed, cached, pump, connections>>

-----------------------------------------------------------------------------
(* The pump.                                                               *)

\* Unlike a wrap's, a declaration's second is that of its signing.
NewDeclaration(d, since) == IF d.at > since THEN {Declaration(d.id)} ELSE {}

\* With since_ts the connection owes the client what it has missed.
Missed(since) ==
    IF since = None THEN {}
    ELSE {Wrap(w) : w \in Since(since)} \cup {Grant(g) : g \in {h \in cached : signed[h] > since}}
         \cup NewDeclaration(decl, since)

Connect(since) ==
    /\ At("off")
    /\ connections < MaxConnections
    /\ pump' = [Off EXCEPT !.pc = IF since = None THEN "hello" ELSE "replay-wraps",
                           !.since = since, !.last = decl]
    /\ due' = Missed(since)
    /\ arrived' = {} /\ ended' = now /\ late' = {} /\ sent' = {}
    /\ connections' = connections + 1
    /\ UNCHANGED <<now, cache>>

ReplayWraps ==
    /\ At("replay-wraps")
    /\ pump' = [pump EXCEPT !.pc = "replay-grants",
                            !.items = {Wrap(w) : w \in WrapPage(Since(pump.since), ReplayLimit)}]
    /\ UNCHANGED <<now, cache, history, connections>>

\* The receive-axis second of a replay item.
AtSec(e) == CASE e \in WrapEvents -> wraps[e[2]]
              [] e \in GrantEvents -> signed[e[2]]
              [] e \in DeclarationEvents -> pump.last.at

\* items.sort by that second: the sort is stable, wraps were pushed first and
\* the declaration last.
Pushed(e) == CASE e \in WrapEvents -> 1 [] e \in GrantEvents -> 2 [] e \in DeclarationEvents -> 3
ItemBefore(d, e) ==
    \/ AtSec(d) < AtSec(e)
    \/ AtSec(d) = AtSec(e) /\ Pushed(d) < Pushed(e)
    \/ AtSec(d) = AtSec(e) /\ d[1] = e[1] /\ d[2] < e[2]

\* Grants of the same second as since_ts are left out, and so is the
\* declaration, the one read when the client connected; the oldest items up to
\* the limit are sent.
ReplayGrants ==
    LET later == {g \in KeyGrants(pump.since, ReplayLimit) : signed[g] > pump.since}
        items == pump.items \cup {Grant(g) : g \in later} \cup NewDeclaration(pump.last, pump.since)
    IN  /\ At("replay-grants")
        /\ sent' = {e \in items : Cardinality({d \in items : ItemBefore(d, e)}) < ReplayLimit}
        /\ pump' = [pump EXCEPT !.pc = "hello", !.items = {}]
        /\ UNCHANGED <<now, cache, arrived, due, ended, late, connections>>

\* e is kept under a second more than the overlap before this one.
FiledTooLongBefore(e, second) ==
    \/ e \in WrapEvents /\ wraps[e[2]] + OverlapSeconds < second
    \/ e \in GrantEvents /\ signed[e[2]] + OverlapSeconds < second

\* A new turn of the loop: all that has arrived by now is due in it.
NewTurn(cursor, second) ==
    /\ pump' = [pump EXCEPT !.pc = "wraps", !.cursor = cursor, !.after = None,
                            !.polled = FALSE, !.pages = 0]
    /\ due' = due \cup arrived
    /\ late' = late \cup {e \in arrived : FiledTooLongBefore(e, second)}
    /\ ended' = second
    /\ arrived' = {}

Hello ==
    /\ At("hello")
    /\ NewTurn(now - OverlapSeconds, now)
    /\ UNCHANGED <<now, cache, sent, connections>>

\* The page of the current turn after the pages already drained.
TailPage == WrapPage(IF pump.after = None THEN Since(pump.cursor) ELSE After(pump.after),
                     LivePollLimit)

\* One page of the live tail; a full one is followed by the next.  What the
\* tail has sent before is skipped (seenIds): `sent' holds it once.
DrainPage ==
    LET page == TailPage
        next == Cardinality(page) = LivePollLimit /\ pump.pages + 1 < LiveTailMaxPages
    IN  /\ At("wraps")
        /\ sent' = sent \cup {Wrap(w) : w \in page}
        /\ pump' = [pump EXCEPT
              !.pages = IF next THEN @ + 1 ELSE 0,
              !.pc = IF next THEN "wraps" ELSE "grants",
              !.after = IF ~next THEN None
                        ELSE CHOOSE w \in page : \A v \in page \ {w} : KeyBefore(v, w)]
        /\ UNCHANGED <<now, cache, arrived, due, ended, late, connections>>

PollGrants ==
    /\ At("grants")
    /\ sent' = sent \cup {Grant(g) : g \in KeyGrants(pump.cursor, LivePollLimit)}
    /\ pump' = [pump EXCEPT !.pc = "declaration"]
    /\ UNCHANGED <<now, cache, arrived, due, ended, late, connections>>

\* Every epochPollMs the declaration is read, and sent if it is another one.
PollDeclaration ==
    /\ At("declaration")
    /\ pump' = [pump EXCEPT !.pc = "bump", !.last = decl, !.polled = TRUE]
    /\ sent' = IF decl.id = pump.last.id THEN sent ELSE sent \cup {Declaration(decl.id)}
    /\ UNCHANGED <<now, cache, arrived, due, ended, late, connections>>

SkipDeclaration ==
    /\ At("declaration")
    /\ pump' = [pump EXCEPT !.pc = "bump"]
    /\ UNCHANGED <<now, cache, history, connections>>

\* Mutant: the cursor follows the clock without the overlap.
BumpCursor_NoOverlap ==
    /\ At("bump")
    /\ pump' = [pump EXCEPT !.pc = "sleep", !.cursor = now]
    /\ ended' = now
    /\ UNCHANGED <<now, cache, arrived, due, late, sent, connections>>

\* After all writes of the turn.
BumpCursor ==
    /\ At("bump")
    /\ pump' = [pump EXCEPT !.pc = "sleep", !.cursor = now - OverlapSeconds]
    /\ ended' = now
    /\ UNCHANGED <<now, cache, arrived, due, late, sent, connections>>

Wake ==
    /\ At("sleep")
    /\ NewTurn(pump.cursor, ended)
    /\ UNCHANGED <<now, cache, sent, connections>>

\* The client goes, a write fails, or the pump reaches one of its caps.
Close ==
    /\ ~At("off")
    /\ pump' = Off
    /\ arrived' = {} /\ due' = {} /\ ended' = 0 /\ late' = {} /\ sent' = {}
    /\ UNCHANGED <<now, cache, connections>>

PumpStep ==
    \/ ReplayWraps \/ ReplayGrants \/ Hello
    \/ DrainPage \/ PollGrants \/ PollDeclaration \/ SkipDeclaration \/ BumpCursor \/ Wake

Next ==
    \/ Tick
    \/ \E w \in Wraps : StoreGiftWrap(w)
    \/ \E g \in Grants : SignGrant(g) \/ CacheGrant(g)
    \/ \E d \in Declarations : StoreDeclaration(d)
    \/ \E since \in Sinces : Connect(since)
    \/ PumpStep
    \/ Close

Spec == Init /\ [][Next]_vars

-----------------------------------------------------------------------------
(* Correctness.                                                            *)

TypeOK ==
    /\ now \in Nat
    /\ wraps \in [Wraps -> Nat \cup {None}]
    /\ signed \in [Grants -> Nat \cup {None}]
    /\ cached \subseteq Grants
    /\ decl \in [id: Declarations \cup {0}, at: Nat]
    /\ pump \in Pump
    /\ {arrived, due, late, sent} \subseteq SUBSET Events /\ ended \in Nat
    /\ connections \in Nat

\* When a turn of the pump ends, every wrap and grant that had reached the
\* cache when it began - since the client connected, or after its since_ts -
\* has been sent; but for those the RelayPool had filed under a second more
\* than OVERLAP_SECONDS before the end of the turn in which, or after which,
\* they arrived.  And if the turn polled the declaration, so has each one that
\* was stored by then, or a later one.
SeenWithinOneCycle ==
    At("sleep") =>
        /\ due \ (DeclarationEvents \cup late) \subseteq sent
        /\ pump.polled => \A d \in Declarations : Declaration(d) \in due =>
                             \E e \in Declarations : e >= d /\ Declaration(e) \in sent

=============================================================================
