-------------------------- MODULE WrapStreamProofs --------------------------
(***************************************************************************)
(* Theorems about WrapStream, for any wraps, grants, declarations, limits  *)
(* and times: TypeCorrect, DeclarationNotAhead and, of bursts that fit     *)
(* their pages, AlwaysSeenWithinOneCycle.                                  *)
(*                                                                         *)
(* That the tail's position is a wrap rests on LastOfPage: a page that is  *)
(* not empty has a last key.  That only declarations that exist are sent   *)
(* rests on DeclarationInv.  SeenInv ties each event a connection owes to  *)
(* the part of the window its pump has yet to read.                        *)
(***************************************************************************)
EXTENDS WrapStream, FiniteSetTheorems, TLAPS

USE IdsAssumption, NoneAssumption, LimitsAssumption

-----------------------------------------------------------------------------
(* Pages.                                                                  *)

\* Key order is a strict total order of the wraps that are stored.
LEMMA KeyOrder ==
  ASSUME TypeOK
  PROVE  /\ \A v, w \in Stored : v # w => KeyBefore(v, w) \/ KeyBefore(w, v)
         /\ \A u, v, w \in Stored : KeyBefore(u, v) /\ KeyBefore(v, w) => KeyBefore(u, w)
<1>1. \A w \in Stored : w \in Nat /\ wraps[w] \in Nat
  BY DEF TypeOK, Stored
<1>2. QED
  BY <1>1 DEF KeyBefore

HasLast(page) == \E w \in page : \A v \in page \ {w} : KeyBefore(v, w)

\* A page of stored wraps has a last one: without its least set that has none
\* there would be a smaller one.
LEMMA LastOfPage ==
  ASSUME TypeOK, NEW page \in SUBSET Stored, page # {}
  PROVE  HasLast(page)
<1> DEFINE Lastless == {A \in SUBSET page : A # {} /\ ~HasLast(A)}
<1>1. IsFiniteSet(page)
  <2>1. page \subseteq Wraps
    BY DEF Stored
  <2>2. QED
    BY <2>1, FiniteAssumption, FS_Subset
<1>2. IsWellFoundedOn(StrictSubsetOrdering(page), SUBSET page)
  <2>1. FiniteSubsetsOf(page) = SUBSET page
    BY <1>1, FS_FiniteSubsetsOfFinite
  <2>2. IsWellFoundedOn(StrictSubsetOrdering(page), FiniteSubsetsOf(page))
    BY FS_StrictSubsetOrderingWellFounded, Zenon
  <2>3. QED
    BY <2>1, <2>2, Zenon
<1>3. Lastless \subseteq SUBSET page
  OBVIOUS
<1>4. SUFFICES ASSUME Lastless # {} PROVE FALSE
  BY DEF HasLast
<1>5. PICK A \in Lastless : \A B \in Lastless : <<B, A>> \notin StrictSubsetOrdering(page)
  <2> HIDE DEF Lastless
  <2>1. QED
    BY <1>2, <1>3, <1>4, WFMin
<1>6. PICK x \in A : TRUE
  OBVIOUS
<1>7. A \ {x} \notin Lastless
  BY <1>5 DEF StrictSubsetOrdering
<1>8. CASE A \ {x} = {}
  <2>1. \A v \in A \ {x} : KeyBefore(v, x)
    BY <1>8
  <2>2. QED
    BY <2>1, <1>6 DEF HasLast
<1>9. CASE A \ {x} # {}
  <2>1. PICK y \in A \ {x} : \A v \in (A \ {x}) \ {y} : KeyBefore(v, y)
    BY <1>7, <1>9 DEF HasLast
  <2>2. A \subseteq Stored /\ x \in Stored /\ y \in Stored /\ x # y
    BY <1>6
  <2>3. CASE KeyBefore(x, y)
    <3>1. \A v \in A \ {y} : KeyBefore(v, y)
      BY <2>1, <2>3
    <3>2. QED
      BY <3>1 DEF HasLast
  <2>4. CASE KeyBefore(y, x)
    <3>1. \A v \in A \ {x} : KeyBefore(v, x)
      BY <2>1, <2>2, <2>4, KeyOrder
    <3>2. QED
      BY <3>1, <1>6 DEF HasLast
  <2>5. QED
    BY <2>2, <2>3, <2>4, KeyOrder
<1>10. QED
  BY <1>8, <1>9

-----------------------------------------------------------------------------
(* Type correctness.                                                       *)

LEMMA InitType == Init => TypeOK
  BY DEF Init, TypeOK, First, Off, Pump, Events

\* The steps of the cache and of the clock.
LEMMA CacheType ==
  ASSUME TypeOK,
         \/ Tick
         \/ \E w \in Wraps : StoreGiftWrap(w)
         \/ \E g \in Grants : SignGrant(g) \/ CacheGrant(g)
         \/ \E d \in Declarations : StoreDeclaration(d)
  PROVE  TypeOK'
<1>1. CASE Tick
  BY <1>1 DEF Tick, TypeOK, cache, history
<1>2. ASSUME NEW w \in Wraps, StoreGiftWrap(w) PROVE TypeOK'
  BY <1>2 DEF StoreGiftWrap, TypeOK, Arrives, Wrap, Events, WrapEvents
<1>3. ASSUME NEW g \in Grants, SignGrant(g) PROVE TypeOK'
  BY <1>3 DEF SignGrant, TypeOK, history
<1>4. ASSUME NEW g \in Grants, CacheGrant(g) PROVE TypeOK'
  BY <1>4 DEF CacheGrant, TypeOK, Arrives, Grant, Events, GrantEvents
<1>5. ASSUME NEW d \in Declarations, StoreDeclaration(d) PROVE TypeOK'
  <2>1. decl' \in [id: Declarations \cup {0}, at: Nat]
    BY <1>5 DEF StoreDeclaration, TypeOK
  <2>2. QED
    BY <1>5, <2>1 DEF StoreDeclaration, TypeOK, Arrives, Declaration, Events, DeclarationEvents
<1>6. QED
  BY <1>1, <1>2, <1>3, <1>4, <1>5

\* What the types rest on: no declaration (0) has no second, the one the pump
\* knows is not later than the one that is stored, and only a connection with
\* since_ts replays.
DeclarationInv ==
    /\ \A d \in {decl, pump.last} : d.id = 0 => d.at = 0
    /\ pump.last.id <= decl.id
    /\ pump.pc \in {"replay-wraps", "replay-grants"} => pump.since # None

Inv == TypeOK /\ DeclarationInv

LEMMA DeclarationIds == \A d \in Declarations \cup {0} : d \in Nat /\ (d \in Declarations <=> d # 0)
  OBVIOUS

LEMMA NewDeclarationIsEvent ==
  ASSUME NEW d \in [id: Declarations \cup {0}, at: Nat], d.id = 0 => d.at = 0, NEW since \in Nat
  PROVE  NewDeclaration(d, since) \subseteq Events
<1>1. CASE d.at > since
  <2>1. d.id \in Declarations
    BY <1>1
  <2>2. QED
    BY <2>1 DEF NewDeclaration, Declaration, Events, DeclarationEvents
<1>2. CASE ~(d.at > since)
  BY <1>2 DEF NewDeclaration
<1>3. QED
  BY <1>1, <1>2

\* What the pump reads from the cache are events.
LEMMA ReadsAreEvents ==
  ASSUME Inv
  PROVE  /\ \A since, limit : {Grant(g) : g \in KeyGrants(since, limit)} \subseteq Events
         /\ \A limit : \A range \in SUBSET Wraps :
               {Wrap(w) : w \in WrapPage(range, limit)} \subseteq Events
         /\ \A since \in Nat \cup {None} : Missed(since) \subseteq Events
<1>1. \A g \in Grants : Grant(g) \in Events
  BY DEF Grant, Events, GrantEvents
<1>2. \A w \in Wraps : Wrap(w) \in Events
  BY DEF Wrap, Events, WrapEvents
<1>3. ASSUME NEW since, NEW limit
      PROVE  {Grant(g) : g \in KeyGrants(since, limit)} \subseteq Events
  <2>1. KeyGrants(since, limit) \subseteq Grants
    BY DEF Inv, TypeOK, KeyGrants
  <2>2. QED
    BY <2>1, <1>1
<1>4. ASSUME NEW range \in SUBSET Wraps, NEW limit
      PROVE  {Wrap(w) : w \in WrapPage(range, limit)} \subseteq Events
  <2>1. WrapPage(range, limit) \subseteq Wraps
    BY DEF WrapPage
  <2>2. QED
    BY <2>1, <1>2
<1>5. ASSUME NEW since \in Nat \cup {None} PROVE Missed(since) \subseteq Events
  <2> CASE since = None
    BY DEF Missed
  <2> SUFFICES ASSUME since # None PROVE Missed(since) \subseteq Events
    OBVIOUS
  <2>1. Since(since) \subseteq Wraps
    BY DEF Since, Stored
  <2>2. {h \in cached : signed[h] > since} \subseteq Grants
    BY DEF Inv, TypeOK
  <2>3. NewDeclaration(decl, since) \subseteq Events
    BY NewDeclarationIsEvent DEF Inv, TypeOK, DeclarationInv
  <2>4. QED
    BY <2>1, <2>2, <2>3, <1>1, <1>2 DEF Missed
<1>6. QED
  BY <1>3, <1>4, <1>5

-----------------------------------------------------------------------------
(* The pump's steps.                                                       *)

\* A turn of the loop starts from a pump between two turns.
LEMMA NewTurnType ==
  ASSUME TypeOK, NEW cursor \in Int, NEW second \in Nat, NewTurn(cursor, second),
         UNCHANGED <<now, cache, sent, connections>>
  PROVE  TypeOK'
<1>1. pump' \in Pump
  <2>1. now \in Nat /\ 0 \in 0..(LiveTailMaxPages - 1)
    BY DEF TypeOK
  <2>2. QED
    BY <2>1 DEF NewTurn, TypeOK, Pump
<1>2. QED
  BY <1>1 DEF NewTurn, TypeOK, cache

LEMMA ReplayType ==
  ASSUME Inv, ReplayWraps \/ ReplayGrants
  PROVE  TypeOK'
<1>1. CASE ReplayWraps
  <2>1. {Wrap(w) : w \in WrapPage(Since(pump.since), ReplayLimit)} \subseteq Events
    BY ReadsAreEvents DEF Since, Stored
  <2>2. pump' \in Pump
    BY <1>1, <2>1 DEF ReplayWraps, Inv, TypeOK, Pump
  <2>3. QED
    BY <1>1, <2>2 DEF ReplayWraps, Inv, TypeOK, cache, history
<1>2. CASE ReplayGrants
  <2> DEFINE later == {g \in KeyGrants(pump.since, ReplayLimit) : signed[g] > pump.since}
             items == pump.items \cup {Grant(g) : g \in later}
                      \cup NewDeclaration(pump.last, pump.since)
  <2>1. later \subseteq Grants
    BY DEF Inv, TypeOK, KeyGrants
  <2>2. {Grant(g) : g \in later} \subseteq Events
    BY <2>1 DEF Grant, Events, GrantEvents
  <2>3. NewDeclaration(pump.last, pump.since) \subseteq Events
    BY <1>2, NewDeclarationIsEvent DEF ReplayGrants, At, Inv, TypeOK, Pump, DeclarationInv
  <2>4. items \subseteq Events
    BY <2>2, <2>3 DEF Inv, TypeOK, Pump
  <2>5. sent' \subseteq items
    BY <1>2 DEF ReplayGrants
  <2>6. pump' \in Pump
    BY <1>2 DEF ReplayGrants, Inv, TypeOK, Pump
  <2>7. QED
    <3> HIDE DEF items
    <3>1. QED
      BY <1>2, <2>4, <2>5, <2>6 DEF ReplayGrants, Inv, TypeOK, cache
<1>3. QED
  BY <1>1, <1>2

LEMMA DrainType ==
  ASSUME Inv, DrainPage
  PROVE  TypeOK'
<1> DEFINE page == TailPage
           next == Cardinality(page) = LivePollLimit /\ pump.pages + 1 < LiveTailMaxPages
           last == CHOOSE w \in page : \A v \in page \ {w} : KeyBefore(v, w)
<1>1. page \in SUBSET Stored
  BY DEF TailPage, WrapPage, Since, After
<1>2. next => last \in Wraps
  <2>1. SUFFICES ASSUME next PROVE last \in Wraps
    OBVIOUS
  <2>2. page # {}
    BY <2>1, FS_EmptySet
  <2>3. HasLast(page)
    <3> HIDE DEF page
    <3>1. QED
      BY <1>1, <2>2, LastOfPage DEF Inv
  <2>4. last \in page
    <3> HIDE DEF page
    <3>1. QED
      BY <2>3 DEF HasLast
  <2>5. QED
    BY <1>1, <2>4 DEF Stored
<1>3. {Wrap(w) : w \in page} \subseteq Events
  <2>1. page \subseteq Wraps
    BY <1>1 DEF Stored
  <2> HIDE DEF page
  <2>2. QED
    BY <2>1 DEF Wrap, Events, WrapEvents
<1>4. pump' \in Pump
  <2>1. pump' = [pump EXCEPT !.pages = IF next THEN @ + 1 ELSE 0,
                             !.pc = IF next THEN "wraps" ELSE "grants",
                             !.after = IF ~next THEN None ELSE last]
    BY DEF DrainPage
  <2>2. next => pump.pages + 1 \in 0..(LiveTailMaxPages - 1)
    <3>1. LiveTailMaxPages \in Nat /\ pump.pages \in Nat
      BY DEF Inv, TypeOK, Pump
    <3>2. QED
      BY <3>1
  <2>3. (IF next THEN pump.pages + 1 ELSE 0) \in 0..(LiveTailMaxPages - 1)
    <3>1. 0 \in 0..(LiveTailMaxPages - 1)
      OBVIOUS
    <3> HIDE DEF next
    <3>2. QED
      BY <2>2, <3>1
  <2>4. (IF ~next THEN None ELSE last) \in Wraps \cup {None}
    <3> HIDE DEF next, last
    <3>1. QED
      BY <1>2
  <2> HIDE DEF next, last
  <2>5. QED
    BY <2>1, <2>3, <2>4 DEF Inv, TypeOK, Pump
<1>5. QED
  <2>1. sent' = sent \cup {Wrap(w) : w \in page}
    BY DEF DrainPage
  <2> HIDE DEF page
  <2>2. QED
    BY <1>3, <1>4, <2>1 DEF DrainPage, Inv, TypeOK, cache

\* The turns of the live tail.
LEMMA TurnType ==
  ASSUME Inv, \/ Hello \/ PollGrants \/ PollDeclaration \/ SkipDeclaration
                 \/ BumpCursor \/ Wake
  PROVE  TypeOK'
<1>1. CASE Hello
  BY <1>1, NewTurnType DEF Hello, Inv, TypeOK
<1>2. CASE PollGrants
  <2>1. {Grant(g) : g \in KeyGrants(pump.cursor, LivePollLimit)} \subseteq Events
    BY ReadsAreEvents
  <2>2. pump' \in Pump
    BY <1>2 DEF PollGrants, Inv, TypeOK, Pump
  <2>3. QED
    BY <1>2, <2>1, <2>2 DEF PollGrants, Inv, TypeOK, cache
<1>3. CASE PollDeclaration
  <2>1. pump' \in Pump
    BY <1>3 DEF PollDeclaration, Inv, TypeOK, Pump
  <2>2. sent' \subseteq Events
    <3>1. CASE decl.id = pump.last.id
      BY <1>3, <3>1 DEF PollDeclaration, Inv, TypeOK
    <3>2. CASE decl.id # pump.last.id
      <4>1. decl.id \in Declarations
        <5>1. /\ decl.id \in Declarations \cup {0}
              /\ pump.last.id \in Declarations \cup {0}
              /\ pump.last.id <= decl.id
          BY DEF Inv, TypeOK, Pump, DeclarationInv
        <5>2. decl.id \in Nat /\ pump.last.id \in Nat
          BY <5>1, DeclarationIds
        <5>3. decl.id # 0
          BY <3>2, <5>1, <5>2
        <5>4. QED
          BY <5>1, <5>3, DeclarationIds
      <4>2. sent' = sent \cup {Declaration(decl.id)}
        BY <1>3, <3>2 DEF PollDeclaration
      <4>3. QED
        BY <4>1, <4>2 DEF Inv, TypeOK, Declaration, Events, DeclarationEvents
    <3>3. QED
      BY <3>1, <3>2
  <2>3. QED
    BY <1>3, <2>1, <2>2 DEF PollDeclaration, Inv, TypeOK, cache
<1>4. CASE SkipDeclaration
  BY <1>4 DEF SkipDeclaration, Inv, TypeOK, Pump, cache, history
<1>5. CASE BumpCursor
  <2>1. now - OverlapSeconds \in Int
    BY DEF Inv, TypeOK
  <2>2. pump' \in Pump
    BY <1>5, <2>1 DEF BumpCursor, Inv, TypeOK, Pump
  <2>3. QED
    BY <1>5, <2>2 DEF BumpCursor, Inv, TypeOK, cache
<1>6. CASE Wake
  BY <1>6, NewTurnType DEF Wake, Inv, TypeOK, Pump
<1>7. QED
  BY <1>1, <1>2, <1>3, <1>4, <1>5, <1>6

\* Connecting to the stream and leaving it.
LEMMA ConnectionType ==
  ASSUME Inv, (\E since \in Sinces : Connect(since)) \/ Close
  PROVE  TypeOK'
<1>1. Off \in Pump
  BY DEF Off, First, Pump
<1>2. ASSUME NEW since \in Sinces, Connect(since) PROVE TypeOK'
  <2>1. Missed(since) \subseteq Events
    BY ReadsAreEvents
  <2>2. pump' \in Pump
    BY <1>1, <1>2 DEF Connect, Inv, TypeOK, Pump
  <2>3. /\ {arrived', due', late', sent'} \subseteq SUBSET Events
        /\ ended' \in Nat /\ connections' \in Nat
    <3>1. /\ due' = Missed(since) /\ arrived' = {} /\ late' = {} /\ sent' = {}
          /\ ended' = now /\ connections' = connections + 1
      BY <1>2 DEF Connect
    <3>2. connections \in Nat /\ now \in Nat
      BY DEF Inv, TypeOK
    <3>3. QED
      BY <2>1, <3>1, <3>2
  <2>4. QED
    BY <1>2, <2>2, <2>3 DEF Connect, Inv, TypeOK, cache
<1>3. CASE Close
  BY <1>1, <1>3 DEF Close, Inv, TypeOK, cache
<1>4. QED
  BY <1>2, <1>3

-----------------------------------------------------------------------------
(* Every step.                                                             *)

LEMMA NextType ==
  ASSUME Inv, [Next]_vars
  PROVE  TypeOK'
<1>1. CASE PumpStep
  BY <1>1, ReplayType, DrainType, TurnType DEF PumpStep
<1>2. CASE UNCHANGED vars
  BY <1>2 DEF Inv, TypeOK, vars, cache, history
<1>3. QED
  BY <1>1, <1>2, CacheType, ConnectionType DEF Inv, Next

LEMMA NextDeclaration ==
  ASSUME Inv, TypeOK', [Next]_vars
  PROVE  DeclarationInv'
<1>1. ASSUME NEW d \in Declarations, StoreDeclaration(d) PROVE DeclarationInv'
  <2>1. decl'.id = d /\ d > decl.id /\ pump' = pump
    BY <1>1 DEF StoreDeclaration, Inv, TypeOK
  <2>2. {pump.last.id, decl.id, d} \subseteq Nat /\ d # 0
    BY DeclarationIds DEF Inv, TypeOK, Pump
  <2>3. pump.last.id <= d
    BY <2>1, <2>2 DEF Inv, DeclarationInv
  <2>4. QED
    BY <2>1, <2>2, <2>3 DEF Inv, DeclarationInv
<1>2. ASSUME NEW since \in Sinces, Connect(since) PROVE DeclarationInv'
  <2>1. /\ pump'.last = decl /\ decl' = decl /\ pump'.since = since
        /\ since = None => pump'.pc = "hello"
    BY <1>2 DEF Connect, Off, cache
  <2>2. decl.id \in Nat
    BY DeclarationIds DEF Inv, TypeOK
  <2>3. QED
    BY <2>1, <2>2 DEF Inv, DeclarationInv
<1>3. CASE Close
  <2>1. pump'.last = First /\ pump'.pc = "off" /\ decl' = decl
    BY <1>3 DEF Close, Off, cache
  <2>2. decl.id \in Nat
    BY DeclarationIds DEF Inv, TypeOK
  <2>3. QED
    BY <2>1, <2>2 DEF Inv, DeclarationInv, First
<1>4. CASE PollDeclaration
  BY <1>4 DEF PollDeclaration, cache, Inv, TypeOK, Pump, DeclarationInv
<1>5. CASE ReplayWraps
  BY <1>5 DEF ReplayWraps, At, cache, Inv, TypeOK, Pump, DeclarationInv
<1>6. CASE \/ Hello \/ Wake
  <2>1. pump'.last = pump.last /\ pump'.pc = "wraps" /\ decl' = decl
    BY <1>6 DEF Hello, Wake, NewTurn, cache, Inv, TypeOK, Pump
  <2>2. QED
    BY <2>1 DEF Inv, DeclarationInv
<1>7. CASE DrainPage
  <2>1. pump'.last = pump.last /\ pump'.pc \in {"wraps", "grants"} /\ decl' = decl
    <3> DEFINE page == TailPage
               next == Cardinality(page) = LivePollLimit /\ pump.pages + 1 < LiveTailMaxPages
               last == CHOOSE w \in page : \A v \in page \ {w} : KeyBefore(v, w)
    <3>1. pump' = [pump EXCEPT !.pages = IF next THEN @ + 1 ELSE 0,
                               !.pc = IF next THEN "wraps" ELSE "grants",
                               !.after = IF ~next THEN None ELSE last]
      BY <1>7 DEF DrainPage
    <3>2. decl' = decl
      BY <1>7 DEF DrainPage, cache
    <3> HIDE DEF next, last
    <3>3. QED
      BY <3>1, <3>2 DEF Inv, TypeOK, Pump
  <2>2. QED
    BY <2>1 DEF Inv, DeclarationInv
<1>8. CASE ReplayGrants \/ PollGrants \/ SkipDeclaration \/ BumpCursor
  <2>1. pump'.last = pump.last /\ decl' = decl
    BY <1>8 DEF ReplayGrants, PollGrants, SkipDeclaration, BumpCursor, cache, Inv, TypeOK, Pump
  <2>2. pump'.pc \notin {"replay-wraps", "replay-grants"}
    BY <1>8 DEF ReplayGrants, PollGrants, SkipDeclaration, BumpCursor, Inv, TypeOK, Pump
  <2>3. QED
    BY <2>1, <2>2 DEF Inv, DeclarationInv
<1>9. CASE \/ \E w \in Wraps : StoreGiftWrap(w)
           \/ \E g \in Grants : SignGrant(g) \/ CacheGrant(g)
  BY <1>9 DEF StoreGiftWrap, SignGrant, CacheGrant, Inv, DeclarationInv
<1>10. CASE Tick \/ UNCHANGED vars
  BY <1>10 DEF Tick, vars, cache, Inv, DeclarationInv
<1>11. CASE PumpStep
  BY <1>4, <1>5, <1>6, <1>7, <1>8, <1>11 DEF PumpStep
<1>12. QED
  BY <1>1, <1>2, <1>3, <1>9, <1>10, <1>11 DEF Next

LEMMA InvAlways == Spec => []Inv
<1>1. Init => Inv
  BY InitType DEF Init, First, Off, Inv, DeclarationInv
<1>2. Inv /\ [Next]_vars => Inv'
  BY NextType, NextDeclaration DEF Inv
<1>3. QED
  BY <1>1, <1>2, PTL DEF Spec

\* Whatever is stored, signed and announced, every event the stream owes or
\* has sent is one of the audience's, its position in the tail is a wrap and
\* its page count stays within LIVE_TAIL_MAX_PAGES (pump, liveTail).
THEOREM TypeCorrect == Spec => []TypeOK
<1>1. Inv => TypeOK
  BY DEF Inv
<1>2. QED
  BY <1>1, InvAlways, PTL

\* The declaration a connection knows is the stored one or an earlier one, so
\* what PollDeclaration sends never takes the client back to an older one.
THEOREM DeclarationNotAhead == Spec => [](pump.last.id <= decl.id)
<1>1. Inv => pump.last.id <= decl.id
  BY DEF Inv, DeclarationInv
<1>2. QED
  BY <1>1, InvAlways, PTL

-----------------------------------------------------------------------------
(* What a turn of the pump owes is sent by its end.                        *)

GrantsFrom(second) == {g \in cached : signed[g] >= second}

\* What a turn has to read fits its pages, and what a replay has to send its
\* limit (the declaration takes one place).
BurstFits ==
    /\ At("wraps") => Cardinality(Since(pump.cursor)) <= LivePollLimit * LiveTailMaxPages
    /\ At("grants") => Cardinality(GrantsFrom(pump.cursor)) <= LivePollLimit
    /\ pump.pc \in {"replay-wraps", "replay-grants"} =>
          Cardinality(Since(pump.since)) + Cardinality(GrantsFrom(pump.since)) < ReplayLimit

Turn == {"wraps", "grants", "declaration", "bump"}

\* e can be read from the cache by one who reads on from this second.
InWindow(e, second) ==
    /\ e \in WrapEvents => e[2] \in Since(second)
    /\ e \in GrantEvents => e[2] \in GrantsFrom(second)

\* What has arrived is in the cache.
KeptOK == \A e \in arrived : InWindow(e, 0)

\* The replay has e, or will read it; it sends the declaration it knows.
InReplay(e) ==
    /\ e \in WrapEvents => IF At("replay-wraps") THEN e[2] \in Since(pump.since) ELSE e \in pump.items
    /\ e \in GrantEvents => e[2] \in GrantsFrom(pump.since + 1)

\* The turn has not come to e.
Ahead(e) ==
    /\ e \in WrapEvents => /\ At("wraps")
                           /\ e[2] \in Since(pump.cursor)
                           /\ pump.after # None => e[2] \in After(pump.after)
    /\ e \in GrantEvents => pump.pc \in {"wraps", "grants"} /\ e[2] \in GrantsFrom(pump.cursor)

SigningOK == \A g \in cached : signed[g] # None

\* Between two turns the cursor is the overlap behind the end of the last.
CursorOK == At("sleep") => pump.cursor = ended - OverlapSeconds

DueOK ==
    \A e \in due \ DeclarationEvents :
        /\ pump.pc \in {"replay-wraps", "replay-grants"} => InReplay(e)
        /\ At("hello") => e \in sent
        /\ pump.pc \in Turn => e \in sent \cup late \/ Ahead(e)
        /\ At("sleep") => e \in sent \cup late

ReplayOK ==
    /\ pump.pc \in {"replay-wraps", "replay-grants"} => sent = {}
    /\ At("replay-grants") => pump.items \subseteq {Wrap(w) : w \in Since(pump.since)}

\* What the pages of a turn have passed.
Passed == {w \in Since(pump.cursor) : w \notin After(pump.after)}

PagesOK ==
    At("wraps") =>
        IF pump.after = None THEN pump.pages = 0
        ELSE /\ pump.after \in Since(pump.cursor)
             /\ Cardinality(Passed) >= pump.pages * LivePollLimit

Announced(d) == \E e \in Declarations : e >= d /\ Declaration(e) \in sent

\* A declaration the connection owes has been sent, or a later one; or it is
\* later than the one the pump knows, which the next poll will find; or it
\* is the one the replay will send.
DeclarationsOK ==
    /\ \A d \in Declarations : Declaration(d) \in arrived \cup due =>
          /\ d <= decl.id
          /\ \/ Announced(d)
             \/ d > pump.last.id
             \/ /\ pump.pc \in {"replay-wraps", "replay-grants"}
                /\ d = pump.last.id /\ pump.last.at > pump.since
    /\ pump.polled => \A d \in Declarations : Declaration(d) \in due => Announced(d)

SeenInv ==
    /\ Inv
    /\ SigningOK /\ CursorOK
    /\ KeptOK /\ DueOK /\ ReplayOK /\ PagesOK /\ DeclarationsOK

\* What the types say of the parts of the state.
LEMMA SeenKnown ==
  ASSUME SeenInv
  PROVE  /\ Inv /\ TypeOK /\ pump \in Pump /\ pump.cursor \in Int /\ now \in Nat /\ ended \in Nat
         /\ pump.pages \in Nat /\ pump.pages < LiveTailMaxPages
         /\ pump.since \in Nat \cup {None} /\ pump.after \in Wraps \cup {None}
         /\ {arrived, due, late, sent} \subseteq SUBSET Events
         /\ {decl.id, pump.last.id, decl.at, pump.last.at} \subseteq Nat
         /\ \A w \in Stored : w \in Wraps /\ wraps[w] \in Nat
         /\ \A g \in cached : g \in Grants /\ signed[g] \in Nat
<1>1. Inv /\ TypeOK /\ SigningOK
  BY DEF SeenInv, Inv
<1>2. pump \in Pump
  BY <1>1 DEF TypeOK
<1>3. pump.pages \in 0..(LiveTailMaxPages - 1) /\ pump.last \in [id: Declarations \cup {0}, at: Nat]
  BY <1>2 DEF Pump
<1>4. pump.pages \in Nat /\ pump.pages < LiveTailMaxPages
  BY <1>3
<1>5. {decl.id, pump.last.id, decl.at, pump.last.at} \subseteq Nat
  BY <1>1, <1>3, DeclarationIds DEF TypeOK
<1>6. \A w \in Stored : w \in Wraps /\ wraps[w] \in Nat
  BY <1>1 DEF TypeOK, Stored
<1>7. \A g \in cached : g \in Grants /\ signed[g] \in Nat
  BY <1>1 DEF TypeOK, SigningOK
<1>8. QED
  BY <1>1, <1>2, <1>4, <1>5, <1>6, <1>7 DEF TypeOK, Pump

\* The three kinds of event are apart.
LEMMA EventKinds ==
  ASSUME NEW e \in Events
  PROVE  /\ \/ e \in WrapEvents /\ e[2] \in Wraps /\ e = Wrap(e[2])
            \/ e \in GrantEvents /\ e[2] \in Grants /\ e = Grant(e[2])
            \/ e \in DeclarationEvents /\ e[2] \in Declarations /\ e = Declaration(e[2])
         /\ e \in WrapEvents => e \notin GrantEvents /\ e \notin DeclarationEvents
         /\ e \in GrantEvents => e \notin DeclarationEvents
  BY DEF Events, WrapEvents, GrantEvents, DeclarationEvents, Wrap, Grant, Declaration

LEMMA NamedEvents ==
  /\ \A w \in Wraps : Wrap(w) \in WrapEvents /\ Wrap(w)[2] = w
  /\ \A g \in Grants : Grant(g) \in GrantEvents /\ Grant(g)[2] = g
  /\ \A d \in Declarations : Declaration(d) \in DeclarationEvents /\ Declaration(d)[2] = d
  BY DEF WrapEvents, GrantEvents, DeclarationEvents, Wrap, Grant, Declaration

\* What is kept of a finite set is finite, and counted.
LEMMA RangesFinite ==
  /\ IsFiniteSet(Stored) /\ \A R \in SUBSET Stored : IsFiniteSet(R) /\ Cardinality(R) \in Nat
  /\ TypeOK => \A R \in SUBSET cached : IsFiniteSet(R) /\ Cardinality(R) \in Nat
<1>1. Stored \in SUBSET Wraps
  BY DEF Stored
<1>2. TypeOK => cached \in SUBSET Grants
  BY DEF TypeOK
<1>3. QED
  BY <1>1, <1>2, FiniteAssumption, FS_Subset, FS_CardinalityType

\* Of a set within the limit, each element has fewer than the limit before it.
LEMMA FewBefore ==
  ASSUME NEW S, IsFiniteSet(S), NEW limit \in Nat, Cardinality(S) <= limit,
         NEW x \in S, NEW B \in SUBSET (S \ {x})
  PROVE  Cardinality(B) < limit
<1>1. Cardinality(S \ {x}) = Cardinality(S) - 1 /\ IsFiniteSet(S \ {x})
  BY FS_RemoveElement
<1>2. Cardinality(B) <= Cardinality(S \ {x}) /\ IsFiniteSet(B)
  BY <1>1, FS_Subset
<1>3. Cardinality(B) \in Nat /\ Cardinality(S) \in Nat
  BY <1>2, FS_CardinalityType
<1>4. QED
  BY <1>1, <1>2, <1>3

\* A page as large as its range is all of it.
LEMMA WholePages ==
  ASSUME SeenInv
  PROVE  /\ \A second \in Int, limit \in Nat :
               Cardinality(Since(second)) <= limit => WrapPage(Since(second), limit) = Since(second)
         /\ \A second \in Int, limit \in Nat :
               Cardinality(GrantsFrom(second)) <= limit => KeyGrants(second, limit) = GrantsFrom(second)
<1>1. ASSUME NEW second \in Int, NEW limit \in Nat, Cardinality(Since(second)) <= limit
      PROVE  WrapPage(Since(second), limit) = Since(second)
  <2>1. Since(second) \in SUBSET Stored
    BY DEF Since
  <2>2. ASSUME NEW w \in Since(second)
        PROVE  Cardinality({v \in Since(second) : KeyBefore(v, w)}) < limit
    <3> wraps[w] \in Nat /\ w \in Nat
      BY <2>1, SeenKnown
    <3>1. ~KeyBefore(w, w)
      BY DEF KeyBefore
    <3>2. {v \in Since(second) : KeyBefore(v, w)} \in SUBSET (Since(second) \ {w})
      BY <3>1
    <3>3. IsFiniteSet(Since(second))
      BY <2>1, RangesFinite
    <3>4. QED
      BY <1>1, <3>2, <3>3, FewBefore
  <2>3. QED
    BY <2>2 DEF WrapPage
<1>2. ASSUME NEW second \in Int, NEW limit \in Nat, Cardinality(GrantsFrom(second)) <= limit
      PROVE  KeyGrants(second, limit) = GrantsFrom(second)
  <2> DEFINE range == GrantsFrom(second)
  <2>1. range \in SUBSET cached
    BY DEF GrantsFrom
  <2>2. ASSUME NEW g \in range
        PROVE  Cardinality({f \in range : GrantBefore(f, g)}) < limit
    <3> signed[g] \in Nat /\ g \in Nat
      BY <2>1, SeenKnown
    <3>1. ~GrantBefore(g, g)
      BY DEF GrantBefore
    <3>2. {f \in range : GrantBefore(f, g)} \in SUBSET (range \ {g})
      BY <3>1
    <3>3. IsFiniteSet(range)
      BY <2>1, RangesFinite, SeenKnown
    <3>4. QED
      BY <1>2, <3>2, <3>3, FewBefore
  <2>3. KeyGrants(second, limit) = {g \in range : Cardinality({f \in range : GrantBefore(f, g)}) < limit}
    BY DEF KeyGrants, GrantsFrom
  <2>4. QED
    BY <2>2, <2>3
<1>3. QED
  BY <1>1, <1>2

Before(w, R) == {v \in R : KeyBefore(v, w)}

LEMMA BeforeGrows ==
  ASSUME TypeOK, NEW R \in SUBSET Stored, NEW v \in R, NEW w \in R, KeyBefore(v, w)
  PROVE  /\ Cardinality(Before(v, R)) \in Nat /\ Cardinality(Before(w, R)) \in Nat
         /\ Cardinality(Before(v, R)) < Cardinality(Before(w, R))
<1>1. Before(v, R) \in SUBSET Before(w, R)
  <2>1. ASSUME NEW u \in Before(v, R) PROVE u \in Before(w, R)
    BY <2>1, KeyOrder DEF Before
  <2>2. QED
    BY <2>1
<1>2. ~KeyBefore(v, v)
  <2>1. wraps[v] \in Nat /\ v \in Nat
    BY DEF TypeOK, Stored
  <2>2. QED
    BY <2>1 DEF KeyBefore
<1>3. Before(v, R) \in SUBSET (Before(w, R) \ {v})
  BY <1>1, <1>2 DEF Before
<1>4. IsFiniteSet(Before(w, R)) /\ Cardinality(Before(w, R)) \in Nat /\ Cardinality(Before(v, R)) \in Nat
  BY RangesFinite DEF Before
<1>5. v \in Before(w, R)
  BY DEF Before
<1>6. QED
  BY <1>3, <1>4, <1>5, FewBefore

\* Wraps that are not empty have a first one: the one with the fewest before it.
LEMMA FirstOfWraps ==
  ASSUME TypeOK, NEW R \in SUBSET Stored, R # {}
  PROVE  \E w \in R : \A v \in R \ {w} : KeyBefore(w, v)
<1> DEFINE Counts == {Cardinality(Before(w, R)) : w \in R}
<1>1. \A w \in R : Cardinality(Before(w, R)) \in Nat
  BY RangesFinite DEF Before
<1>2. Counts \subseteq Nat /\ Counts # {}
  BY <1>1
<1>3. PICK n \in Counts : \A m \in Counts : <<m, n>> \notin OpToRel(<, Nat)
  <2>1. IsWellFoundedOn(OpToRel(<, Nat), Nat)
    BY NatLessThanWellFounded
  <2> HIDE DEF OpToRel, Counts
  <2>2. QED
    BY <1>2, <2>1, WFMin
<1>4. PICK w \in R : n = Cardinality(Before(w, R))
  OBVIOUS
<1>5. ASSUME NEW v \in R \ {w} PROVE KeyBefore(w, v)
  <2>1. SUFFICES ASSUME KeyBefore(v, w) PROVE FALSE
    BY KeyOrder
  <2>2. Cardinality(Before(v, R)) < n /\ Cardinality(Before(v, R)) \in Nat /\ n \in Nat
    BY <1>4, <2>1, BeforeGrows
  <2>3. <<Cardinality(Before(v, R)), n>> \in OpToRel(<, Nat)
    BY <2>2 DEF OpToRel
  <2>4. QED
    BY <1>3, <2>3
<1>6. QED
  BY <1>5

\* listWrapPage returns a prefix of its range, no more than the limit, and all
\* of the range if fewer.
LEMMA PageIsPrefix ==
  ASSUME TypeOK, NEW R \in SUBSET Stored, NEW limit \in Nat \ {0}
  PROVE  LET page == WrapPage(R, limit)
         IN  /\ page \in SUBSET R /\ IsFiniteSet(page) /\ Cardinality(page) \in Nat
             /\ \A w \in page, v \in R \ page : KeyBefore(w, v)
             /\ Cardinality(page) <= limit
             /\ Cardinality(page) < limit => page = R
<1> DEFINE page == WrapPage(R, limit)
<1>1. page \in SUBSET R /\ \A w \in R : w \in page <=> Cardinality(Before(w, R)) < limit
  BY DEF WrapPage, Before
<1> HIDE DEF page
<1>2. page \in SUBSET Stored /\ IsFiniteSet(page) /\ Cardinality(page) \in Nat
  BY <1>1, RangesFinite
<1>3. ASSUME NEW w \in page, NEW v \in R \ page PROVE KeyBefore(w, v)
  <2>1. SUFFICES ASSUME KeyBefore(v, w) PROVE FALSE
    BY <1>1, KeyOrder
  <2>2. /\ Cardinality(Before(v, R)) \in Nat /\ Cardinality(Before(w, R)) \in Nat
        /\ Cardinality(Before(v, R)) < Cardinality(Before(w, R))
    BY <1>1, <2>1, BeforeGrows
  <2>3. QED
    BY <1>1, <2>2
<1>4. Cardinality(page) <= limit
  <2>1. CASE page = {}
    BY <2>1, FS_EmptySet
  <2>2. CASE page # {}
    <3>1. PICK w \in page : \A v \in page \ {w} : KeyBefore(v, w)
      BY <1>2, <2>2, LastOfPage DEF HasLast
    <3>2. page \ {w} \in SUBSET Before(w, R)
      BY <1>1, <3>1 DEF Before
    <3>3. IsFiniteSet(Before(w, R)) /\ Cardinality(Before(w, R)) \in Nat
      BY RangesFinite DEF Before
    <3>4. Cardinality(page \ {w}) <= Cardinality(Before(w, R))
      BY <3>2, <3>3, FS_Subset
    <3>5. Cardinality(page \ {w}) = Cardinality(page) - 1
      BY <1>2, FS_RemoveElement
    <3>6. QED
      BY <1>1, <1>2, <3>3, <3>4, <3>5
  <2>3. QED
    BY <2>1, <2>2
<1>5. ASSUME Cardinality(page) < limit PROVE page = R
  <2>1. SUFFICES ASSUME R \ page # {} PROVE FALSE
    BY <1>1
  <2>2. PICK w \in R \ page : \A v \in (R \ page) \ {w} : KeyBefore(w, v)
    <3>1. R \ page \in SUBSET Stored
      OBVIOUS
    <3>2. QED
      BY <2>1, <3>1, FirstOfWraps
  <2>3. Before(w, R) \in SUBSET page
    <3>1. ASSUME NEW v \in Before(w, R), v \notin page PROVE FALSE
      <4>1. v \in R /\ v \in Stored /\ w \in Stored /\ KeyBefore(v, w)
        BY <3>1 DEF Before
      <4>2. v = w \/ KeyBefore(w, v)
        BY <2>2, <3>1, <4>1
      <4>3. KeyBefore(v, v)
        BY <4>1, <4>2, KeyOrder
      <4>4. wraps[v] \in Nat /\ v \in Nat
        BY <4>1 DEF TypeOK, Stored
      <4>5. QED
        BY <4>3, <4>4 DEF KeyBefore
    <3>2. QED
      BY <3>1
  <2>4. Cardinality(Before(w, R)) <= Cardinality(page) /\ Cardinality(Before(w, R)) \in Nat
    BY <1>2, <2>3, FS_Subset, FS_CardinalityType
  <2>5. QED
    BY <1>1, <1>2, <1>5, <2>4
<1>6. QED
  BY <1>1, <1>2, <1>3, <1>4, <1>5 DEF page

-----------------------------------------------------------------------------
(* The steps of the cache and of the clock.                                *)

\* What is stored stays where it is.
Kept ==
    /\ \A w \in Stored : w \in Stored' /\ wraps'[w] = wraps[w]
    /\ \A g \in cached : g \in cached' /\ signed'[g] = signed[g]

LEMMA RangesGrow ==
  ASSUME Kept
  PROVE  /\ \A second : \A w \in Since(second) : w \in Stored' /\ wraps'[w] >= second
         /\ \A second : \A g \in GrantsFrom(second) : g \in cached' /\ signed'[g] >= second
         /\ \A w \in Stored : w \in Stored' /\ wraps'[w] = wraps[w]
  BY DEF Kept, Since, GrantsFrom

\* A step of the cache or of the clock: what the pump can read it still can.
LEMMA CacheSeen ==
  ASSUME SeenInv, Kept, Inv', SigningOK',
         UNCHANGED <<pump, due, ended, late, sent>>, decl'.id \in Nat, decl.id <= decl'.id,
         \A e \in arrived' \ arrived :
            /\ InWindow(e, 0)'
            /\ e \in DeclarationEvents => e = Declaration(decl'.id) /\ decl.id < decl'.id
  PROVE  SeenInv'
<1> USE RangesGrow
<1>1. \A e \in Events : InWindow(e, 0) => InWindow(e, 0)'
  BY DEF InWindow, Since, GrantsFrom
<1>2. \A e \in Events : InReplay(e) => InReplay(e)'
  BY DEF InReplay, At, Since, GrantsFrom
<1>3. \A e \in Events : Ahead(e) => Ahead(e)'
  <2>1. SUFFICES ASSUME NEW e \in Events, Ahead(e) PROVE Ahead(e)'
    OBVIOUS
  <2>2. e \in GrantEvents => pump.pc \in {"wraps", "grants"} /\ (e[2] \in GrantsFrom(pump.cursor))'
    BY <2>1 DEF Ahead, GrantsFrom
  <2>3. ASSUME e \in WrapEvents
        PROVE At("wraps") /\ (e[2] \in Since(pump.cursor))' /\ (pump.after # None => e[2] \in After(pump.after)')
    <3>1. At("wraps") /\ e[2] \in Since(pump.cursor) /\ (pump.after # None => e[2] \in After(pump.after))
      BY <2>1, <2>3 DEF Ahead
    <3>2. (e[2] \in Since(pump.cursor))'
      BY <3>1 DEF Since
    <3>3. ASSUME pump.after # None PROVE e[2] \in After(pump.after)'
      <4>1. pump.after \in Since(pump.cursor)
        BY <3>1, <3>3 DEF SeenInv, PagesOK
      <4>2. pump.after \in Stored /\ e[2] \in Stored /\ KeyBefore(pump.after, e[2])
        BY <3>1, <3>3, <4>1 DEF Since, After
      <4>3. /\ e[2] \in Stored' /\ wraps'[e[2]] = wraps[e[2]]
            /\ wraps'[pump.after] = wraps[pump.after] /\ pump'.after = pump.after
        BY <4>2 DEF Kept
      <4>4. KeyBefore(pump.after, e[2])'
        BY <4>2, <4>3 DEF KeyBefore
      <4>5. QED
        BY <4>3, <4>4 DEF After
    <3>4. QED
      BY <3>1, <3>2, <3>3
  <2>4. QED
    BY <2>2, <2>3 DEF Ahead, At
<1>4. pump.cursor \in Int /\ arrived \subseteq Events /\ due \subseteq Events
  BY SeenKnown
<1>5. KeptOK' /\ CursorOK'
  BY <1>1, <1>4 DEF SeenInv, KeptOK, CursorOK, At
<1>6. DueOK'
  <2>1. ASSUME NEW e \in due, e \notin DeclarationEvents
        PROVE  /\ pump.pc \in {"replay-wraps", "replay-grants"} => InReplay(e)'
               /\ At("hello") => e \in sent
               /\ pump.pc \in Turn => e \in sent \cup late \/ Ahead(e)'
               /\ At("sleep") => e \in sent \cup late
    BY <1>2, <1>3, <1>4, <2>1 DEF SeenInv, DueOK
  <2>2. QED
    BY <2>1 DEF DueOK, At
<1>7. ReplayOK'
  <2>1. SUFFICES ASSUME At("replay-grants"), NEW e \in pump.items
        PROVE  e \in {Wrap(w) : w \in Since(pump.since)'}
    BY DEF SeenInv, ReplayOK, At
  <2>2. PICK w \in Since(pump.since) : e = Wrap(w)
    BY <2>1 DEF SeenInv, ReplayOK
  <2>3. w \in Since(pump.since)'
    BY <2>2 DEF Since
  <2>4. QED
    BY <2>2, <2>3
<1>8. PagesOK'
  <2>1. SUFFICES ASSUME At("wraps"), pump.after # None
        PROVE  (pump.after \in Since(pump.cursor))' /\ Cardinality(Passed') >= pump.pages * LivePollLimit
    BY DEF SeenInv, PagesOK, At
  <2>2. pump.after \in Since(pump.cursor) /\ Cardinality(Passed) >= pump.pages * LivePollLimit
    BY <2>1 DEF SeenInv, PagesOK
  <2>3. Passed \in SUBSET Passed'
    <3>1. SUFFICES ASSUME NEW w \in Passed PROVE w \in Passed'
      OBVIOUS
    <3>2. w \in Since(pump.cursor) /\ w \in Stored /\ pump.after \in Stored /\ ~KeyBefore(pump.after, w)
      BY <2>2, <3>1 DEF Passed, Since, After
    <3>3. wraps'[w] = wraps[w] /\ wraps'[pump.after] = wraps[pump.after] /\ pump'.after = pump.after
      BY <3>2
    <3>4. ~KeyBefore(pump.after, w)'
      BY <3>2, <3>3 DEF KeyBefore
    <3>5. (w \in Since(pump.cursor))'
      BY <3>2 DEF Since
    <3>6. QED
      BY <3>4, <3>5 DEF Passed, After
  <2>4. Passed \in SUBSET Stored /\ Passed' \in SUBSET Stored'
    BY DEF Passed, Since
  <2>5. IsFiniteSet(Passed') /\ Cardinality(Passed') \in Nat /\ Cardinality(Passed) \in Nat
    <3>1. Stored' \in SUBSET Wraps
      BY DEF Stored
    <3>2. QED
      BY <2>4, <3>1, RangesFinite, FiniteAssumption, FS_Subset, FS_CardinalityType
  <2>6. Cardinality(Passed) <= Cardinality(Passed')
    BY <2>3, <2>5, FS_Subset
  <2>7. pump.pages * LivePollLimit \in Nat
    BY SeenKnown
  <2>8. pump.after \in Since(pump.cursor)'
    BY <2>2 DEF Since
  <2>9. QED
    BY <2>2, <2>5, <2>6, <2>7, <2>8
<1>9. DeclarationsOK'
  <2>1. \A d : Announced(d)' <=> Announced(d)
    BY DEF Announced
  <2>2. \A d \in Declarations : Declaration(d) \in arrived' \cup due' =>
           \/ Declaration(d) \in arrived \cup due
           \/ d = decl'.id /\ decl.id < decl'.id
    BY NamedEvents DEF DeclarationEvents, Declaration
  <2>3. \A d \in Declarations : d \in Nat
    BY DeclarationIds
  <2>4. pump.last.id <= decl.id /\ {pump.last.id, decl.id, decl'.id} \subseteq Nat
    BY SeenKnown DEF Inv, DeclarationInv
  <2>5. /\ \A d \in Declarations : Declaration(d) \in arrived \cup due =>
              /\ d <= decl.id
              /\ \/ Announced(d)
                 \/ d > pump.last.id
                 \/ /\ pump.pc \in {"replay-wraps", "replay-grants"}
                    /\ d = pump.last.id /\ pump.last.at > pump.since
        /\ pump.polled => \A d \in Declarations : Declaration(d) \in due => Announced(d)
    BY DEF SeenInv, DeclarationsOK
  <2>6. ASSUME NEW d \in Declarations, Declaration(d) \in arrived' \cup due'
        PROVE  /\ d <= decl'.id
               /\ \/ Announced(d)
                  \/ d > pump.last.id
                  \/ /\ pump.pc \in {"replay-wraps", "replay-grants"}
                     /\ d = pump.last.id /\ pump.last.at > pump.since
    BY <2>2, <2>3, <2>4, <2>5, <2>6
  <2>7. QED
    BY <2>1, <2>5, <2>6 DEF DeclarationsOK
<1>10. QED
  BY <1>5, <1>6, <1>7, <1>8, <1>9 DEF SeenInv, At

CacheStep ==
    \/ Tick
    \/ \E w \in Wraps : StoreGiftWrap(w)
    \/ \E g \in Grants : SignGrant(g) \/ CacheGrant(g)
    \/ \E d \in Declarations : StoreDeclaration(d)
    \/ UNCHANGED vars

LEMMA CacheStepSeen ==
  ASSUME SeenInv, Inv', CacheStep
  PROVE  SeenInv'
<1>1. now \in Nat /\ decl.id \in Nat /\ \A g \in cached : g \in Grants /\ signed[g] # None
  BY SeenKnown DEF SeenInv, SigningOK
<1>2. signed \in [Grants -> Nat \cup {None}] /\ wraps \in [Wraps -> Nat \cup {None}]
  BY SeenKnown DEF TypeOK
<1>3. CASE Tick \/ UNCHANGED vars
  <2>1. UNCHANGED <<wraps, signed, cached, decl, pump, arrived, due, ended, late, sent>>
    BY <1>3 DEF Tick, vars, cache, history
  <2>2. Kept /\ SigningOK'
    BY <1>1, <2>1 DEF Kept, Stored, SigningOK
  <2>3. QED
    BY <1>1, <2>1, <2>2, CacheSeen
<1>4. ASSUME NEW w \in Wraps, StoreGiftWrap(w) PROVE SeenInv'
  <2>1. /\ wraps[w] = None /\ wraps' = [wraps EXCEPT ![w] = now]
        /\ arrived' = IF At("off") THEN arrived ELSE arrived \cup {Wrap(w)}
        /\ UNCHANGED <<signed, cached, decl, pump, due, ended, late, sent>>
    BY <1>4 DEF StoreGiftWrap, Arrives
  <2>2. Kept /\ SigningOK'
    BY <1>1, <1>2, <2>1 DEF Kept, Stored, SigningOK
  <2>3. Wrap(w)[2] = w /\ Wrap(w) \notin GrantEvents /\ Wrap(w) \notin DeclarationEvents
    BY DEF Wrap, GrantEvents, DeclarationEvents
  <2>4. w \in Stored' /\ wraps'[w] = now
    BY <1>1, <1>2, <2>1 DEF Stored
  <2>5. InWindow(Wrap(w), 0)'
    BY <1>1, <2>3, <2>4 DEF InWindow, Since
  <2>6. QED
    BY <1>1, <2>1, <2>2, <2>3, <2>5, CacheSeen
<1>5. ASSUME NEW g \in Grants, SignGrant(g) PROVE SeenInv'
  <2>1. /\ signed[g] = None /\ signed' = [signed EXCEPT ![g] = now]
        /\ UNCHANGED <<wraps, cached, decl, pump, arrived, due, ended, late, sent>>
    BY <1>5 DEF SignGrant, history
  <2>2. Kept /\ SigningOK'
    BY <1>1, <1>2, <2>1 DEF Kept, Stored, SigningOK
  <2>3. QED
    BY <1>1, <2>1, <2>2, CacheSeen
<1>6. ASSUME NEW g \in Grants, CacheGrant(g) PROVE SeenInv'
  <2>1. /\ signed[g] # None /\ cached' = cached \cup {g}
        /\ arrived' = IF At("off") THEN arrived ELSE arrived \cup {Grant(g)}
        /\ UNCHANGED <<wraps, signed, decl, pump, due, ended, late, sent>>
    BY <1>6 DEF CacheGrant, Arrives
  <2>2. Kept /\ SigningOK'
    BY <1>1, <2>1 DEF Kept, Stored, SigningOK
  <2>3. Grant(g)[2] = g /\ Grant(g) \notin WrapEvents /\ Grant(g) \notin DeclarationEvents
    BY DEF Grant, WrapEvents, DeclarationEvents
  <2>4. g \in cached' /\ signed'[g] \in Nat
    BY <1>2, <2>1
  <2>5. InWindow(Grant(g), 0)'
    BY <2>3, <2>4 DEF InWindow, GrantsFrom
  <2>6. QED
    BY <1>1, <2>1, <2>2, <2>3, <2>5, CacheSeen
<1>7. ASSUME NEW d \in Declarations, StoreDeclaration(d) PROVE SeenInv'
  <2>1. /\ d > decl.id /\ decl'.id = d
        /\ arrived' = IF At("off") THEN arrived ELSE arrived \cup {Declaration(d)}
        /\ UNCHANGED <<wraps, signed, cached, pump, due, ended, late, sent>>
    BY <1>7, SeenKnown DEF StoreDeclaration, Arrives, TypeOK
  <2>2. Kept /\ SigningOK'
    BY <1>1, <2>1 DEF Kept, Stored, SigningOK
  <2>3. Declaration(d) \notin WrapEvents /\ Declaration(d) \notin GrantEvents /\ d \in Nat
    BY DeclarationIds DEF Declaration, WrapEvents, GrantEvents, DeclarationEvents
  <2>4. InWindow(Declaration(d), 0)'
    BY <2>3 DEF InWindow
  <2>5. QED
    BY <1>1, <2>1, <2>2, <2>3, <2>4, CacheSeen
<1>8. QED
  BY <1>3, <1>4, <1>5, <1>6, <1>7 DEF CacheStep

-----------------------------------------------------------------------------
(* The steps of the pump.                                                  *)

SameCache == UNCHANGED <<now, wraps, signed, cached, decl>>

LEMMA SameRanges ==
  ASSUME SameCache
  PROVE  /\ Stored' = Stored
         /\ \A second : Since(second)' = Since(second) /\ GrantsFrom(second)' = GrantsFrom(second)
         /\ \A v : After(v)' = After(v)
  BY DEF SameCache, Stored, Since, GrantsFrom, After, KeyBefore

LEMMA ConnectSeen ==
  ASSUME SeenInv, Inv', NEW since \in Sinces, Connect(since)
  PROVE  SeenInv'
<1>1. /\ pump' = [Off EXCEPT !.pc = IF since = None THEN "hello" ELSE "replay-wraps",
                             !.since = since, !.last = decl]
      /\ due' = Missed(since) /\ arrived' = {} /\ sent' = {} /\ SameCache
  BY DEF Connect, cache, SameCache
<1>2. /\ pump'.pc = (IF since = None THEN "hello" ELSE "replay-wraps")
      /\ pump'.since = since /\ pump'.last = decl /\ ~pump'.polled
  BY <1>1 DEF Off
<1>3. SigningOK'
  BY <1>1 DEF SeenInv, SigningOK, SameCache
<1>4. CursorOK' /\ KeptOK'
  BY <1>1, <1>2 DEF CursorOK, KeptOK, At
<1>5. DueOK'
  <2>1. CASE since = None
    BY <1>1, <2>1 DEF Missed, DueOK
  <2>2. CASE since # None
    <3>1. SUFFICES ASSUME NEW e \in Missed(since), e \notin DeclarationEvents PROVE InReplay(e)'
      BY <1>1, <1>2, <2>2 DEF DueOK, At, Turn
    <3>2. since \in Nat
      BY <2>2
    <3>3. \/ \E w \in Since(since) : e = Wrap(w)
          \/ \E g \in cached : signed[g] > since /\ e = Grant(g)
      <4>1. NewDeclaration(decl, since) \subseteq DeclarationEvents
        BY <3>2, NewDeclarationIsEvent, SeenKnown DEF Inv, DeclarationInv, TypeOK, NewDeclaration, Declaration, DeclarationEvents
      <4>2. QED
        BY <2>2, <3>1, <4>1 DEF Missed
    <3>4. CASE \E w \in Since(since) : e = Wrap(w)
      <4>1. e[2] \in Since(pump.since)' /\ e \notin GrantEvents
        BY <1>1, <1>2, <3>4 DEF Wrap, GrantEvents, Since, Stored, SameCache
      <4>2. QED
        BY <1>2, <2>2, <4>1 DEF InReplay, At
    <3>5. CASE \E g \in cached : signed[g] > since /\ e = Grant(g)
      <4>1. PICK g \in cached : signed[g] > since /\ e = Grant(g)
        BY <3>5
      <4>2. e \notin WrapEvents /\ e[2] = g /\ signed[g] \in Nat /\ signed[g] >= since + 1
        BY <3>2, <4>1, SeenKnown DEF Grant, WrapEvents
      <4>3. (g \in GrantsFrom(pump.since + 1))'
        BY <1>1, <1>2, <4>2 DEF GrantsFrom, SameCache
      <4>4. QED
        BY <4>2, <4>3 DEF InReplay
    <3>6. QED
      BY <3>3, <3>4, <3>5
  <2>3. QED
    BY <2>1, <2>2
<1>6. ReplayOK' /\ PagesOK'
  BY <1>1, <1>2 DEF ReplayOK, PagesOK, At
<1>7. DeclarationsOK'
  <2>1. ASSUME NEW d \in Declarations, Declaration(d) \in Missed(since)
        PROVE  since # None /\ d = decl.id /\ decl.at > since
    BY <2>1 DEF Missed, NewDeclaration, Declaration, Wrap, Grant
  <2>2. decl.id \in Nat
    BY SeenKnown
  <2>3. QED
    BY <1>1, <1>2, <2>1, <2>2 DEF DeclarationsOK, SameCache
<1>8. QED
  BY <1>3, <1>4, <1>5, <1>6, <1>7 DEF SeenInv

LEMMA ReplayWrapsSeen ==
  ASSUME SeenInv, BurstFits, Inv', ReplayWraps
  PROVE  SeenInv'
<1>1. /\ At("replay-wraps") /\ SameCache /\ UNCHANGED <<arrived, due, late, sent>>
      /\ pump' = [pump EXCEPT !.pc = "replay-grants",
                              !.items = {Wrap(w) : w \in WrapPage(Since(pump.since), ReplayLimit)}]
  BY DEF ReplayWraps, cache, history, SameCache
<1>2. pump.since \in Nat
  BY <1>1, SeenKnown DEF Inv, DeclarationInv, At
<1>3. WrapPage(Since(pump.since), ReplayLimit) = Since(pump.since)
  <2>1. Cardinality(Since(pump.since)) + Cardinality(GrantsFrom(pump.since)) < ReplayLimit
    BY <1>1 DEF BurstFits, At
  <2>2. Cardinality(Since(pump.since)) \in Nat /\ Cardinality(GrantsFrom(pump.since)) \in Nat
    BY RangesFinite, SeenKnown DEF Since, GrantsFrom
  <2>3. Cardinality(Since(pump.since)) <= ReplayLimit
    BY <2>1, <2>2
  <2>4. QED
    BY <1>2, <2>3, WholePages
<1>4. /\ pump'.pc = "replay-grants" /\ pump'.items = {Wrap(w) : w \in Since(pump.since)}
      /\ pump'.since = pump.since /\ pump'.last = pump.last
      /\ pump'.polled = pump.polled
  BY <1>1, <1>3, SeenKnown DEF Pump
<1>5. SigningOK' /\ CursorOK' /\ KeptOK'
  BY <1>1, <1>4, SameRanges DEF SeenInv, SigningOK, CursorOK, KeptOK, InWindow, SameCache, At
<1>6. DueOK'
  <2>1. SUFFICES ASSUME NEW e \in due, e \notin DeclarationEvents PROVE InReplay(e)'
    BY <1>1, <1>4 DEF DueOK, At, Turn
  <2>2. InReplay(e)
    BY <1>1, <2>1 DEF SeenInv, DueOK, At
  <2>3. e \in GrantEvents => (e[2] \in GrantsFrom(pump.since + 1))'
    BY <1>1, <1>4, <2>2 DEF InReplay, GrantsFrom, SameCache
  <2>4. ASSUME e \in WrapEvents PROVE e \in pump'.items
    BY <1>1, <1>4, <2>2, <2>4 DEF InReplay, WrapEvents, Wrap
  <2>5. QED
    BY <1>4, <2>3, <2>4 DEF InReplay, At
<1>7. PagesOK'
  BY <1>4 DEF PagesOK, At
<1>8. ReplayOK'
  BY <1>1, <1>4 DEF SeenInv, ReplayOK, At, Since, Stored, SameCache
<1>9. DeclarationsOK'
  BY <1>1, <1>4 DEF SeenInv, DeclarationsOK, Announced, At, SameCache
<1>10. QED
  BY <1>5, <1>6, <1>7, <1>8, <1>9 DEF SeenInv

\* As many events as wraps, as many as grants.
LEMMA EventCounts ==
  ASSUME TypeOK
  PROVE  /\ \A R \in SUBSET Stored : LET T == {Wrap(w) : w \in R}
               IN IsFiniteSet(T) /\ Cardinality(T) \in Nat /\ Cardinality(T) <= Cardinality(R)
         /\ \A R \in SUBSET cached : LET T == {Grant(g) : g \in R}
               IN IsFiniteSet(T) /\ Cardinality(T) \in Nat /\ Cardinality(T) <= Cardinality(R)
<1>1. ASSUME NEW R \in SUBSET Stored
      PROVE LET T == {Wrap(w) : w \in R}
            IN IsFiniteSet(T) /\ Cardinality(T) \in Nat /\ Cardinality(T) <= Cardinality(R)
  <2> DEFINE T == {Wrap(w) : w \in R}
             f == [w \in R |-> Wrap(w)]
  <2>1. f \in Surjection(R, T)
    BY DEF Surjection
  <2>2. IsFiniteSet(R)
    BY RangesFinite
  <2> HIDE DEF T, f
  <2>3. IsFiniteSet(T) /\ Cardinality(T) <= Cardinality(R)
    BY <2>1, <2>2, FS_Surjection
  <2>4. Cardinality(T) \in Nat
    BY <2>3, FS_CardinalityType
  <2>5. QED
    BY <2>3, <2>4 DEF T
<1>2. ASSUME NEW R \in SUBSET cached
      PROVE LET T == {Grant(g) : g \in R}
            IN IsFiniteSet(T) /\ Cardinality(T) \in Nat /\ Cardinality(T) <= Cardinality(R)
  <2> DEFINE T == {Grant(g) : g \in R}
             f == [g \in R |-> Grant(g)]
  <2>1. f \in Surjection(R, T)
    BY DEF Surjection
  <2>2. IsFiniteSet(R)
    BY RangesFinite
  <2> HIDE DEF T, f
  <2>3. IsFiniteSet(T) /\ Cardinality(T) <= Cardinality(R)
    BY <2>1, <2>2, FS_Surjection
  <2>4. Cardinality(T) \in Nat
    BY <2>3, FS_CardinalityType
  <2>5. QED
    BY <2>3, <2>4 DEF T
<1>3. QED
  BY <1>1, <1>2

LEMMA ReplayGrantsSeen ==
  ASSUME SeenInv, BurstFits, Inv', ReplayGrants
  PROVE  SeenInv'
<1> DEFINE W == {Wrap(w) : w \in Since(pump.since)}
           later == {g \in KeyGrants(pump.since, ReplayLimit) : signed[g] > pump.since}
           G == {Grant(g) : g \in later}
           D == NewDeclaration(pump.last, pump.since)
           items == pump.items \cup G \cup D
<1>1. /\ At("replay-grants") /\ SameCache /\ UNCHANGED <<arrived, due, late>>
      /\ pump' = [pump EXCEPT !.pc = "hello", !.items = {}]
      /\ sent' = {e \in items : Cardinality({d \in items : ItemBefore(d, e)}) < ReplayLimit}
  BY DEF ReplayGrants, cache, SameCache
<1>2. pump.since \in Nat /\ pump.items \subseteq W /\ sent = {} /\ TypeOK
  BY <1>1, SeenKnown DEF SeenInv, ReplayOK, Inv, DeclarationInv, At
<1>3. /\ Cardinality(Since(pump.since)) \in Nat /\ Cardinality(GrantsFrom(pump.since)) \in Nat
      /\ Cardinality(Since(pump.since)) + Cardinality(GrantsFrom(pump.since)) < ReplayLimit
      /\ Since(pump.since) \in SUBSET Stored /\ GrantsFrom(pump.since) \in SUBSET cached
  BY <1>1, <1>2, RangesFinite DEF BurstFits, At, Since, GrantsFrom
<1>4. KeyGrants(pump.since, ReplayLimit) = GrantsFrom(pump.since)
  BY <1>2, <1>3, WholePages
\* All that was read is within the limit.
<1>5. IsFiniteSet(items) /\ Cardinality(items) <= ReplayLimit
  <2>1. IsFiniteSet(W) /\ Cardinality(W) \in Nat /\ Cardinality(W) <= Cardinality(Since(pump.since))
    BY <1>2, <1>3, EventCounts
  <2>2. /\ later \in SUBSET cached /\ Cardinality(later) \in Nat
        /\ Cardinality(later) <= Cardinality(GrantsFrom(pump.since))
    <3>1. later \in SUBSET GrantsFrom(pump.since)
      BY <1>4
    <3>2. IsFiniteSet(GrantsFrom(pump.since))
      BY <1>2, <1>3, RangesFinite
    <3> HIDE DEF later
    <3>3. QED
      BY <1>3, <3>1, <3>2, FS_Subset, FS_CardinalityType
  <2> HIDE DEF later
  <2>3. IsFiniteSet(G) /\ Cardinality(G) \in Nat /\ Cardinality(G) <= Cardinality(later)
    BY <1>2, <2>2, EventCounts
  <2>4. D \in SUBSET {Declaration(pump.last.id)}
    BY DEF NewDeclaration
  <2> DEFINE one == Declaration(pump.last.id)
  <2> HIDE DEF W, G, D, one
  <2>5. /\ IsFiniteSet(W \cup G) /\ Cardinality(W \cup G) \in Nat
        /\ Cardinality(W \cup G) <= Cardinality(W) + Cardinality(G)
    <3>1. IsFiniteSet(W \cup G) /\ Cardinality(W \cup G) = Cardinality(W) + Cardinality(G) - Cardinality(W \cap G)
      BY <2>1, <2>3, FS_Union
    <3>2. Cardinality(W \cap G) \in Nat /\ Cardinality(W \cup G) \in Nat
      BY <2>1, <3>1, FS_Subset, FS_CardinalityType
    <3>3. QED
      BY <2>1, <2>3, <3>1, <3>2
  <2>6. /\ IsFiniteSet((W \cup G) \cup {one}) /\ Cardinality((W \cup G) \cup {one}) \in Nat
        /\ Cardinality((W \cup G) \cup {one}) <= Cardinality(W \cup G) + 1
    <3>1. /\ IsFiniteSet((W \cup G) \cup {one})
          /\ Cardinality((W \cup G) \cup {one})
                = IF one \in W \cup G THEN Cardinality(W \cup G) ELSE Cardinality(W \cup G) + 1
      BY <2>5, FS_AddElement
    <3>2. QED
      BY <2>5, <3>1
  <2>7. items \in SUBSET ((W \cup G) \cup {one})
    BY <1>2, <2>4 DEF one
  <2> HIDE DEF items
  <2>8. /\ IsFiniteSet(items) /\ Cardinality(items) \in Nat
        /\ Cardinality(items) <= Cardinality((W \cup G) \cup {one})
    BY <2>6, <2>7, FS_Subset, FS_CardinalityType
  <2>9. QED
    BY <1>3, <2>1, <2>2, <2>3, <2>5, <2>6, <2>8
<1>6. sent' = items
  <2>1. ASSUME NEW e \in items PROVE Cardinality({d \in items : ItemBefore(d, e)}) < ReplayLimit
    <3>1. ~ItemBefore(e, e)
      <4>1. e \in Events
        <5>1. W \subseteq Events
          BY <1>3 DEF Stored, Events, WrapEvents, Wrap
        <5>2. G \subseteq Events
          BY <1>3, <1>4, SeenKnown DEF Events, GrantEvents, Grant
        <5>3. D \subseteq Events
          BY <1>2, NewDeclarationIsEvent, SeenKnown DEF Inv, DeclarationInv, Pump
        <5>4. QED
          BY <1>2, <2>1, <5>1, <5>2, <5>3
      <4>2. e[2] \in Nat
        BY <4>1, EventKinds
      <4>3. Pushed(e) \in Nat
        BY <4>1, EventKinds DEF Pushed
      <4>4. AtSec(e) \in Nat
        <5>1. CASE e \in W
          <6>1. PICK w \in Since(pump.since) : e = Wrap(w)
            BY <5>1
          <6>2. w \in Stored /\ w \in Wraps /\ wraps[w] \in Nat
            BY <1>3, SeenKnown
          <6>3. e \in WrapEvents /\ e[2] = w
            BY <6>1, <6>2, NamedEvents
          <6>4. e \notin GrantEvents /\ e \notin DeclarationEvents
            BY <4>1, <6>3, EventKinds
          <6>5. AtSec(e) = wraps[e[2]]
            BY <6>3, <6>4 DEF AtSec
          <6>6. QED
            BY <6>2, <6>3, <6>5
        <5>2. CASE e \in G
          <6>1. PICK g \in GrantsFrom(pump.since) : e = Grant(g)
            BY <1>4, <5>2
          <6>2. g \in Grants /\ signed[g] \in Nat
            BY <1>3, SeenKnown
          <6>3. e \in GrantEvents /\ e[2] = g
            BY <6>1, <6>2, NamedEvents
          <6>4. e \notin WrapEvents /\ e \notin DeclarationEvents
            BY <4>1, <6>3, EventKinds
          <6>5. AtSec(e) = signed[e[2]]
            BY <6>3, <6>4 DEF AtSec
          <6>6. QED
            BY <6>2, <6>3, <6>5
        <5>3. CASE e \in D
          <6>1. e \in DeclarationEvents
            BY <4>1, <5>3, EventKinds DEF NewDeclaration, Declaration, WrapEvents, GrantEvents
          <6>2. e \notin WrapEvents /\ e \notin GrantEvents /\ pump.last.at \in Nat
            BY <4>1, <6>1, EventKinds, SeenKnown
          <6>3. QED
            BY <6>1, <6>2 DEF AtSec
        <5>4. QED
          BY <1>2, <2>1, <5>1, <5>2, <5>3
      <4>5. QED
        BY <4>2, <4>3, <4>4 DEF ItemBefore
    <3> HIDE DEF items
    <3>2. {d \in items : ItemBefore(d, e)} \in SUBSET (items \ {e})
      BY <3>1
    <3>3. QED
      BY <1>5, <2>1, <3>2, FewBefore
  <2>2. QED
    BY <1>1, <2>1
<1>7. pump'.pc = "hello" /\ pump'.last = pump.last /\ pump'.polled = pump.polled
  BY <1>1, SeenKnown DEF Pump
<1>8. SigningOK' /\ CursorOK' /\ KeptOK'
  BY <1>1, <1>7, SameRanges DEF SeenInv, SigningOK, CursorOK, KeptOK, InWindow, SameCache, At
<1>9. DueOK'
  <2>1. SUFFICES ASSUME NEW e \in due, e \notin DeclarationEvents PROVE e \in items
    BY <1>1, <1>6, <1>7 DEF DueOK, At, Turn
  <2>2. InReplay(e) /\ e \in Events
    BY <1>1, <2>1, SeenKnown DEF SeenInv, DueOK, At
  <2>3. CASE e \in WrapEvents
    BY <1>1, <2>2, <2>3 DEF InReplay, At
  <2>4. CASE e \in GrantEvents
    <3>1. e[2] \in GrantsFrom(pump.since + 1) /\ e = Grant(e[2])
      BY <2>2, <2>4, EventKinds DEF InReplay
    <3>2. e[2] \in GrantsFrom(pump.since) /\ signed[e[2]] > pump.since
      BY <1>2, <3>1, SeenKnown DEF GrantsFrom
    <3>3. QED
      BY <1>4, <3>1, <3>2
  <2>5. QED
    BY <2>1, <2>2, <2>3, <2>4, EventKinds
<1>10. PagesOK' /\ ReplayOK'
  BY <1>1, <1>7 DEF PagesOK, ReplayOK, At
<1>11. DeclarationsOK'
  <2>1. \A d \in Declarations : ~Announced(d)
    BY <1>2 DEF Announced
  <2>2. pump.polled => \A d \in Declarations : Declaration(d) \notin due
    BY <2>1 DEF SeenInv, DeclarationsOK
  <2>3. ASSUME NEW d \in Declarations, d = pump.last.id, pump.last.at > pump.since
        PROVE  Announced(d)'
    <3>1. Declaration(d) \in items
      BY <2>3 DEF NewDeclaration
    <3>2. d >= d
      BY DeclarationIds
    <3> HIDE DEF items
    <3>3. QED
      BY <1>6, <3>1, <3>2 DEF Announced
  <2>4. ASSUME NEW d \in Declarations, Declaration(d) \in arrived \cup due
        PROVE  /\ d <= decl.id
               /\ d > pump.last.id \/ (d = pump.last.id /\ pump.last.at > pump.since)
    BY <2>1, <2>4 DEF SeenInv, DeclarationsOK
  <2> HIDE DEF items
  <2>5. QED
    BY <1>1, <1>7, <2>2, <2>3, <2>4 DEF DeclarationsOK, SameCache
<1>12. QED
  BY <1>8, <1>9, <1>10, <1>11 DEF SeenInv

\* A turn begins: what arrived can be read from the cursor on, or is late.
LEMMA TurnSeen ==
  ASSUME SeenInv, Inv', NEW second \in Nat, NewTurn(second - OverlapSeconds, second),
         SameCache, sent' = sent, pump.pc \in {"hello", "sleep"}
  PROVE  SeenInv'
<1> DEFINE cursor == second - OverlapSeconds
<1>1. /\ due' = due \cup arrived /\ arrived' = {}
      /\ late' = late \cup {e \in arrived : FiledTooLongBefore(e, second)}
      /\ pump'.pc = "wraps" /\ pump'.cursor = cursor /\ pump'.after = None /\ ~pump'.polled
      /\ pump'.pages = 0 /\ pump'.last = pump.last
  BY SeenKnown DEF NewTurn, Pump
<1>2. SigningOK' /\ CursorOK' /\ KeptOK' /\ PagesOK' /\ ReplayOK'
  BY <1>1 DEF SeenInv, SigningOK, CursorOK, KeptOK, PagesOK, ReplayOK, SameCache, At
<1>3. ASSUME NEW e \in arrived, ~FiledTooLongBefore(e, second) PROVE InWindow(e, cursor)
  <2>1. InWindow(e, 0)
    BY DEF SeenInv, KeptOK
  <2>2. ASSUME e \in WrapEvents PROVE e[2] \in Since(cursor)
    <3>1. e[2] \in Stored /\ wraps[e[2]] \in Nat /\ ~(wraps[e[2]] + OverlapSeconds < second)
      BY <1>3, <2>1, <2>2, SeenKnown DEF InWindow, Since, FiledTooLongBefore
    <3>2. QED
      BY <3>1 DEF Since
  <2>3. ASSUME e \in GrantEvents PROVE e[2] \in GrantsFrom(cursor)
    <3>1. e[2] \in cached /\ signed[e[2]] \in Nat /\ ~(signed[e[2]] + OverlapSeconds < second)
      BY <1>3, <2>1, <2>3, SeenKnown DEF InWindow, GrantsFrom, FiledTooLongBefore
    <3>2. QED
      BY <3>1 DEF GrantsFrom
  <2>4. QED
    BY <2>2, <2>3 DEF InWindow
<1>4. DueOK'
  <2>1. ASSUME NEW e \in due \cup arrived, e \notin DeclarationEvents, e \notin sent \cup late'
        PROVE  Ahead(e)'
    <3>1. e \notin due
      BY <1>1, <2>1 DEF SeenInv, DueOK, At
    <3>2. InWindow(e, cursor)
      BY <1>1, <1>3, <2>1, <3>1
    <3>3. QED
      BY <1>1, <3>2, SameRanges DEF InWindow, Ahead, At
  <2>2. QED
    BY <1>1, <2>1 DEF DueOK, At, Turn
<1>5. DeclarationsOK'
  <2>1. \A d : Announced(d)' <=> Announced(d)
    BY DEF Announced
  <2>2. QED
    BY <1>1, <2>1 DEF SeenInv, DeclarationsOK, SameCache
<1>6. QED
  BY <1>2, <1>4, <1>5 DEF SeenInv

LEMMA HelloSeen ==
  ASSUME SeenInv, Inv', Hello
  PROVE  SeenInv'
<1>1. At("hello") /\ NewTurn(now - OverlapSeconds, now) /\ SameCache /\ sent' = sent /\ now \in Nat
  BY SeenKnown DEF Hello, cache, SameCache
<1>2. QED
  BY <1>1, TurnSeen DEF At

LEMMA WakeSeen ==
  ASSUME SeenInv, Inv', Wake
  PROVE  SeenInv'
<1>1. /\ At("sleep") /\ NewTurn(pump.cursor, ended) /\ SameCache /\ sent' = sent
      /\ pump.cursor = ended - OverlapSeconds /\ ended \in Nat
  BY SeenKnown DEF Wake, cache, SameCache, SeenInv, CursorOK
<1>2. QED
  BY <1>1, TurnSeen DEF At

\* A step within a turn: what it leaves behind it has sent.
LEMMA WithinTurn ==
  ASSUME SeenInv, Inv', SameCache, UNCHANGED <<arrived, due, late>>, sent \in SUBSET sent',
         pump.pc \in Turn, pump'.pc \in Turn \ {"wraps"},
         \A e \in due \ DeclarationEvents : Ahead(e) => e \in sent' \/ Ahead(e)',
         DeclarationsOK'
  PROVE  SeenInv'
<1>1. SigningOK' /\ CursorOK' /\ KeptOK'
  BY SameRanges DEF SeenInv, SigningOK, CursorOK, KeptOK, InWindow, SameCache, At, Turn
<1>2. DueOK'
  BY DEF SeenInv, DueOK, At, Turn
<1>3. PagesOK' /\ ReplayOK'
  BY DEF PagesOK, ReplayOK, At, Turn
<1>4. QED
  BY <1>1, <1>2, <1>3 DEF SeenInv

LEMMA PollGrantsSeen ==
  ASSUME SeenInv, BurstFits, Inv', PollGrants
  PROVE  SeenInv'
<1>1. /\ At("grants") /\ SameCache /\ UNCHANGED <<arrived, due, late>>
      /\ sent' = sent \cup {Grant(g) : g \in KeyGrants(pump.cursor, LivePollLimit)}
      /\ pump' = [pump EXCEPT !.pc = "declaration"]
  BY DEF PollGrants, cache, SameCache
<1>2. /\ pump'.pc = "declaration"
      /\ pump'.last = pump.last /\ pump'.polled = pump.polled
  BY <1>1, SeenKnown DEF Pump
<1>3. KeyGrants(pump.cursor, LivePollLimit) = GrantsFrom(pump.cursor)
  BY <1>1, SeenKnown, WholePages DEF BurstFits
<1>4. ASSUME NEW e \in due, e \notin DeclarationEvents, Ahead(e) PROVE e \in sent'
  <2>1. e \in Events
    BY SeenKnown
  <2>2. e \notin WrapEvents
    BY <1>1, <1>4 DEF Ahead, At
  <2>3. e = Grant(e[2]) /\ e[2] \in GrantsFrom(pump.cursor)
    BY <1>4, <2>1, <2>2, EventKinds DEF Ahead
  <2>4. QED
    BY <1>1, <1>3, <2>3
<1>5. DeclarationsOK'
  <2>1. \A d : Announced(d) => Announced(d)'
    BY <1>1 DEF Announced
  <2>2. QED
    BY <1>1, <1>2, <2>1 DEF SeenInv, DeclarationsOK, SameCache, At
<1>6. QED
  BY <1>1, <1>2, <1>4, <1>5, WithinTurn DEF At, Turn

LEMMA PollDeclarationSeen ==
  ASSUME SeenInv, Inv', PollDeclaration \/ SkipDeclaration
  PROVE  SeenInv'
<1>1. /\ At("declaration") /\ SameCache /\ UNCHANGED <<arrived, due, late>>
      /\ \/ /\ pump' = [pump EXCEPT !.pc = "bump", !.last = decl, !.polled = TRUE]
            /\ sent' = IF decl.id = pump.last.id THEN sent ELSE sent \cup {Declaration(decl.id)}
         \/ pump' = [pump EXCEPT !.pc = "bump"] /\ sent' = sent
  BY DEF PollDeclaration, SkipDeclaration, cache, history, SameCache
<1>2. /\ pump'.pc = "bump"
      /\ \/ /\ pump'.last = decl /\ pump'.polled
            /\ sent' = IF decl.id = pump.last.id THEN sent ELSE sent \cup {Declaration(decl.id)}
         \/ pump'.last = pump.last /\ pump'.polled = pump.polled /\ sent' = sent
  BY <1>1, SeenKnown DEF Pump
<1>3. sent \in SUBSET sent'
  BY <1>2
<1>4. ASSUME NEW e \in due, e \notin DeclarationEvents, Ahead(e) PROVE FALSE
  <2>1. e \in Events
    BY SeenKnown
  <2>2. QED
    BY <1>1, <1>4, <2>1, EventKinds DEF Ahead, At
<1>5. DeclarationsOK'
  <2>1. \A d : Announced(d) => Announced(d)'
    BY <1>3 DEF Announced
  <2>2. \A d \in Declarations : Declaration(d) \in arrived \cup due =>
           d <= decl.id /\ (Announced(d) \/ d > pump.last.id)
    BY <1>1 DEF SeenInv, DeclarationsOK, At
  <2>3. {decl.id, pump.last.id} \subseteq Nat /\ pump.last.id <= decl.id
    BY SeenKnown DEF Inv, DeclarationInv
  <2>4. CASE pump'.last = pump.last /\ pump'.polled = pump.polled /\ sent' = sent
    BY <1>1, <1>2, <2>1, <2>2, <2>4 DEF SeenInv, DeclarationsOK, SameCache
  <2>5. CASE /\ pump'.last = decl /\ pump'.polled
             /\ sent' = IF decl.id = pump.last.id THEN sent ELSE sent \cup {Declaration(decl.id)}
    <3>1. ASSUME NEW d \in Declarations, Declaration(d) \in arrived \cup due PROVE Announced(d)'
      <4>1. CASE Announced(d)
        BY <2>1, <4>1
      <4>2. CASE d > pump.last.id
        <5>1. d <= decl.id /\ d \in Nat /\ d # 0
          BY <2>2, <3>1, DeclarationIds
        <5>2. decl.id \in Declarations /\ decl.id # pump.last.id
          <6>1. decl.id # 0 /\ decl.id \in Declarations \cup {0}
            BY <2>3, <5>1, SeenKnown DEF TypeOK
          <6>2. QED
            BY <2>3, <4>2, <5>1, <6>1
        <5>3. Declaration(decl.id) \in sent'
          BY <2>5, <5>2
        <5>4. QED
          BY <2>3, <5>1, <5>2, <5>3 DEF Announced
      <4>3. QED
        BY <2>2, <3>1, <4>1, <4>2
    <3>2. QED
      BY <1>1, <2>2, <2>5, <3>1 DEF DeclarationsOK, SameCache
  <2>6. QED
    BY <1>2, <2>4, <2>5
<1>6. QED
  BY <1>1, <1>2, <1>3, <1>4, <1>5, WithinTurn DEF At, Turn

LEMMA BumpSeen ==
  ASSUME SeenInv, Inv', BumpCursor
  PROVE  SeenInv'
<1>1. /\ At("bump") /\ SameCache /\ UNCHANGED <<arrived, due, late, sent>> /\ ended' = now
      /\ pump' = [pump EXCEPT !.pc = "sleep", !.cursor = now - OverlapSeconds]
  BY DEF BumpCursor, cache, SameCache
<1>2. /\ pump'.pc = "sleep" /\ pump'.cursor = now - OverlapSeconds
      /\ pump'.last = pump.last /\ pump'.polled = pump.polled
  BY <1>1, SeenKnown DEF Pump
<1>3. SigningOK' /\ CursorOK' /\ KeptOK'
  BY <1>1, <1>2, SameRanges DEF SeenInv, SigningOK, CursorOK, KeptOK, InWindow, SameCache, At
<1>4. DueOK'
  <2>1. ASSUME NEW e \in due, e \notin DeclarationEvents PROVE e \in sent \cup late
    <3>1. e \in Events /\ (e \in sent \cup late \/ Ahead(e))
      BY <1>1, <2>1, SeenKnown DEF SeenInv, DueOK, At, Turn
    <3>2. QED
      BY <1>1, <2>1, <3>1, EventKinds DEF Ahead, At
  <2>2. QED
    BY <1>1, <1>2, <2>1 DEF DueOK, At, Turn
<1>5. PagesOK' /\ ReplayOK'
  BY <1>2 DEF PagesOK, ReplayOK, At
<1>6. DeclarationsOK'
  <2>1. \A d : Announced(d)' <=> Announced(d)
    BY <1>1 DEF Announced
  <2>2. QED
    BY <1>1, <1>2, <2>1 DEF SeenInv, DeclarationsOK, SameCache, At
<1>7. QED
  BY <1>3, <1>4, <1>5, <1>6 DEF SeenInv

LEMMA CloseSeen ==
  ASSUME SeenInv, Inv', Close
  PROVE  SeenInv'
<1>1. pump' = Off /\ arrived' = {} /\ due' = {} /\ sent' = {} /\ SameCache
  BY DEF Close, cache, SameCache
<1>2. pump'.pc = "off" /\ ~pump'.polled
  BY <1>1 DEF Off
<1>3. SigningOK'
  BY <1>1 DEF SeenInv, SigningOK, SameCache
<1>4. QED
  BY <1>1, <1>2, <1>3
     DEF SeenInv, CursorOK, KeptOK, DueOK, ReplayOK, PagesOK, DeclarationsOK, At, Turn

LEMMA DrainSeen ==
  ASSUME SeenInv, BurstFits, Inv', DrainPage
  PROVE  SeenInv'
<1> DEFINE page == TailPage
           range == IF pump.after = None THEN Since(pump.cursor) ELSE After(pump.after)
           next == Cardinality(page) = LivePollLimit /\ pump.pages + 1 < LiveTailMaxPages
           last == CHOOSE w \in page : \A v \in page \ {w} : KeyBefore(v, w)
           window == Since(pump.cursor)
           passed == IF pump.after = None THEN {} ELSE Passed
<1>1. /\ At("wraps") /\ SameCache /\ UNCHANGED <<arrived, due, late>>
      /\ sent' = sent \cup {Wrap(w) : w \in page}
      /\ pump' = [pump EXCEPT !.pages = IF next THEN @ + 1 ELSE 0,
                              !.pc = IF next THEN "wraps" ELSE "grants",
                              !.after = IF ~next THEN None ELSE last]
  BY DEF DrainPage, cache, SameCache
<1>2. /\ pump.after # None => /\ pump.after \in window
                              /\ Cardinality(Passed) >= pump.pages * LivePollLimit
      /\ pump.after = None => pump.pages = 0
  BY <1>1 DEF SeenInv, PagesOK
<1>3. TypeOK /\ pump \in Pump /\ pump.cursor \in Int /\ pump.pages \in Nat /\ pump.pages < LiveTailMaxPages
      /\ LivePollLimit \in Nat \ {0} /\ LiveTailMaxPages \in Nat
  BY SeenKnown
<1>4. /\ window \in SUBSET Stored /\ range \in SUBSET Stored
      /\ IsFiniteSet(window) /\ Cardinality(window) \in Nat
      /\ Cardinality(window) <= LivePollLimit * LiveTailMaxPages
  <2>1. window \in SUBSET Stored /\ range \in SUBSET Stored
    BY DEF Since, After
  <2>2. Cardinality(window) <= LivePollLimit * LiveTailMaxPages
    BY <1>1 DEF BurstFits
  <2> HIDE DEF window, range
  <2>3. QED
    BY <2>1, <2>2, RangesFinite
<1>5. /\ page \in SUBSET range /\ IsFiniteSet(page) /\ Cardinality(page) \in Nat
      /\ \A w \in page, v \in range \ page : KeyBefore(w, v)
      /\ Cardinality(page) <= LivePollLimit
      /\ Cardinality(page) < LivePollLimit => page = range
  <2> HIDE DEF range
  <2>1. page = WrapPage(range, LivePollLimit)
    BY DEF TailPage, range
  <2> HIDE DEF page
  <2>2. QED
    BY <1>3, <1>4, <2>1, PageIsPrefix
<1>6. next => last \in page /\ \A v \in page \ {last} : KeyBefore(v, last)
  <2>1. SUFFICES ASSUME next PROVE \E w \in page : \A v \in page \ {w} : KeyBefore(v, w)
    BY DEF last
  <2>2. page # {}
    BY <1>3, <2>1, FS_EmptySet
  <2>3. page \in SUBSET Stored
    BY <1>4, <1>5
  <2> HIDE DEF page
  <2>4. QED
    BY <1>3, <2>2, <2>3, LastOfPage DEF HasLast
<1>7. /\ pump'.pc = (IF next THEN "wraps" ELSE "grants")
      /\ pump'.pages = (IF next THEN pump.pages + 1 ELSE 0)
      /\ pump'.after = (IF next THEN last ELSE None)
      /\ pump'.cursor = pump.cursor
      /\ pump'.last = pump.last /\ pump'.polled = pump.polled
  <2> HIDE DEF next, last
  <2>1. QED
    BY <1>1, <1>3 DEF Pump
<1>8. ASSUME NEW w \in range PROVE w \in window /\ w \notin passed
  <2>1. CASE pump.after = None
    BY <2>1
  <2>2. CASE pump.after # None
    <3>1. pump.after \in Stored /\ w \in Stored /\ KeyBefore(pump.after, w) /\ wraps[pump.after] >= pump.cursor
      BY <1>2, <2>2 DEF After, Since
    <3>2. wraps[w] \in Nat /\ wraps[pump.after] \in Nat /\ w \in Nat /\ pump.after \in Nat
      BY <3>1, SeenKnown
    <3>3. wraps[w] >= pump.cursor
      BY <1>3, <3>1, <3>2 DEF KeyBefore
    <3>4. w \in After(pump.after)
      BY <2>2
    <3>5. QED
      BY <2>2, <3>1, <3>3, <3>4 DEF Passed, Since
  <2>3. QED
    BY <2>1, <2>2
<1>9. /\ passed \in SUBSET window /\ IsFiniteSet(passed) /\ Cardinality(passed) \in Nat
      /\ Cardinality(passed) >= pump.pages * LivePollLimit
  <2>1. passed \in SUBSET window
    BY DEF Passed
  <2>2. CASE pump.after = None
    BY <1>2, <1>3, <2>2, FS_EmptySet
  <2>3. CASE pump.after # None
    BY <1>2, <1>4, <2>1, <2>3, FS_Subset, FS_CardinalityType
  <2>4. QED
    BY <2>1, <2>2, <2>3
<1> HIDE DEF page, range, next, last, window, passed
<1>10. /\ passed \cup page \in SUBSET window /\ IsFiniteSet(passed \cup page)
       /\ Cardinality(passed \cup page) = Cardinality(passed) + Cardinality(page)
  <2>1. passed \cap page = {} /\ page \in SUBSET window
    BY <1>5, <1>8
  <2>2. Cardinality(passed \cap page) = 0
    BY <2>1, FS_EmptySet
  <2>3. /\ IsFiniteSet(passed \cup page)
        /\ Cardinality(passed \cup page) = Cardinality(passed) + Cardinality(page) - Cardinality(passed \cap page)
    BY <1>5, <1>9, FS_Union
  <2>4. QED
    BY <1>5, <1>9, <2>1, <2>2, <2>3
\* Either the page holds what is ahead, or there is another page.
<1>11. ASSUME NEW w \in range, w \notin page PROVE next
  <2>1. Cardinality(page) = LivePollLimit
    BY <1>3, <1>5, <1>11
  <2>2. SUFFICES ASSUME pump.pages + 1 >= LiveTailMaxPages PROVE FALSE
    BY <1>3, <2>1 DEF next
  <2>3. pump.pages + 1 = LiveTailMaxPages
    BY <1>3, <2>2
  <2>4. w \in window /\ w \notin passed \cup page
    BY <1>8, <1>11
  <2>5. Cardinality((passed \cup page) \cup {w}) <= Cardinality(window)
    BY <1>4, <1>10, <2>4, FS_Subset
  <2>6. Cardinality((passed \cup page) \cup {w}) = Cardinality(passed) + LivePollLimit + 1
    BY <1>10, <2>1, <2>4, FS_AddElement
  <2>7. pump.pages * LivePollLimit + LivePollLimit = LivePollLimit * LiveTailMaxPages
    BY <1>3, <2>3
  <2>8. LivePollLimit * LiveTailMaxPages \in Nat /\ pump.pages * LivePollLimit \in Nat
    BY <1>3
  <2>9. QED
    BY <1>3, <1>4, <1>9, <2>5, <2>6, <2>7, <2>8
<1>12. ASSUME NEW e \in due, e \notin DeclarationEvents, Ahead(e) PROVE e \in sent' \/ Ahead(e)'
  <2>1. e \in Events
    BY SeenKnown
  <2>2. CASE e \in GrantEvents
    <3>1. e \notin WrapEvents
      BY <2>1, <2>2, EventKinds
    <3>2. e[2] \in GrantsFrom(pump.cursor)
      BY <1>12, <2>2 DEF Ahead
    <3>3. (e[2] \in GrantsFrom(pump.cursor))' /\ pump'.pc \in {"wraps", "grants"}
      BY <1>1, <1>7, <3>2 DEF GrantsFrom, SameCache
    <3>4. QED
      BY <3>1, <3>3 DEF Ahead
  <2>3. CASE e \in WrapEvents /\ e[2] \notin page
    <3>1. e[2] \in window /\ e[2] \in range /\ e \notin GrantEvents
      BY <1>12, <2>1, <2>3, EventKinds DEF Ahead, window, range
    <3>2. next
      BY <1>11, <2>3, <3>1
    <3>3. last \in page /\ KeyBefore(last, e[2]) /\ e[2] \in Stored
      BY <1>4, <1>5, <1>6, <2>3, <3>1, <3>2
    <3>4. (e[2] \in After(pump.after))' /\ (e[2] \in Since(pump.cursor))' /\ At("wraps")'
      <4>1. pump'.after = last /\ pump'.pc = "wraps"
        BY <1>7, <3>2
      <4>2. e[2] \in After(last) /\ e[2] \in Since(pump.cursor)
        BY <3>1, <3>3 DEF After, window
      <4>3. QED
        BY <1>1, <1>7, <4>1, <4>2 DEF After, Since, Stored, KeyBefore, SameCache, At
    <3>5. QED
      BY <3>1, <3>4 DEF Ahead
  <2>4. CASE e \in WrapEvents /\ e[2] \in page
    BY <1>1, <2>1, <2>4, EventKinds
  <2>5. QED
    BY <1>12, <2>1, <2>2, <2>3, <2>4, EventKinds
<1>13. DeclarationsOK'
  <2>1. \A d : Announced(d) => Announced(d)'
    BY <1>1 DEF Announced
  <2>2. QED
    BY <1>1, <1>7, <2>1 DEF SeenInv, DeclarationsOK, SameCache, At
<1>14. CASE ~next
  BY <1>1, <1>7, <1>12, <1>13, <1>14, WithinTurn DEF At, Turn
<1>15. CASE next
  <2>1. /\ pump'.pc = "wraps" /\ pump'.after = last /\ pump'.pages = pump.pages + 1
        /\ last \in page /\ Cardinality(page) = LivePollLimit
    BY <1>6, <1>7, <1>15 DEF next
  <2>2. last \in window /\ last \in Stored
    BY <1>4, <1>10, <2>1
  <2>3. passed \cup page \in SUBSET Passed'
    <3>1. ASSUME NEW w \in passed \cup page PROVE ~KeyBefore(last, w)
      <4>1. w \in Stored /\ w \in Nat /\ wraps[w] \in Nat /\ last \in Nat /\ wraps[last] \in Nat
        BY <1>4, <1>10, <2>2, SeenKnown
      <4>2. CASE w \in page
        <5>1. w = last \/ KeyBefore(w, last)
          BY <1>6, <1>15, <4>2
        <5>2. QED
          BY <4>1, <5>1 DEF KeyBefore
      <4>3. CASE w \in passed
        <5>1. pump.after # None /\ pump.after \in Stored /\ ~KeyBefore(pump.after, w)
          BY <1>2, <1>4, <4>1, <4>3 DEF passed, Passed, After
        <5>2. KeyBefore(pump.after, last)
          BY <1>5, <2>1, <5>1 DEF range, After
        <5>3. pump.after \in Nat /\ wraps[pump.after] \in Nat
          BY <5>1, SeenKnown
        <5>4. QED
          BY <4>1, <5>1, <5>2, <5>3 DEF KeyBefore
      <4>4. QED
        BY <3>1, <4>2, <4>3
    <3>2. ASSUME NEW w \in passed \cup page PROVE w \in Passed'
      <4>1. w \in Since(pump.cursor) /\ ~KeyBefore(last, w)
        BY <1>10, <3>1, <3>2 DEF window
      <4>2. w \in Since(pump.cursor)'
        BY <1>1, <1>7, <4>1 DEF Since, Stored, SameCache
      <4>3. w \notin After(pump.after)'
        BY <1>1, <2>1, <4>1 DEF After, Stored, KeyBefore, SameCache
      <4>4. QED
        BY <4>2, <4>3 DEF Passed
    <3>3. QED
      BY <3>2
  <2>4. Passed' \in SUBSET window
    BY <1>1, <1>7 DEF Passed, Since, Stored, SameCache, window
  <2>5. /\ Cardinality(passed \cup page) <= Cardinality(Passed')
        /\ Cardinality(Passed') \in Nat
    BY <1>4, <2>3, <2>4, FS_Subset, FS_CardinalityType
  <2>6. pump'.pages * LivePollLimit = pump.pages * LivePollLimit + LivePollLimit
    BY <1>3, <2>1
  <2>7. pump.pages * LivePollLimit \in Nat
    BY <1>3
  <2>8. Cardinality(Passed') >= pump'.pages * LivePollLimit
    BY <1>3, <1>5, <1>9, <1>10, <2>1, <2>5, <2>6, <2>7
  <2>9. (pump.after \in Since(pump.cursor))' /\ pump'.after # None
    <3>1. last \in Nat
      BY <2>2, SeenKnown
    <3>2. QED
      BY <1>1, <1>7, <2>1, <2>2, <3>1 DEF Since, Stored, SameCache, window
  <2>10. PagesOK'
    BY <2>8, <2>9 DEF PagesOK
  <2>11. SigningOK' /\ CursorOK' /\ KeptOK'
    BY <1>1, <2>1, SameRanges DEF SeenInv, SigningOK, CursorOK, KeptOK, InWindow, SameCache, At
  <2>12. DueOK'
    <3>1. sent \in SUBSET sent'
      BY <1>1
    <3>2. ASSUME NEW e \in due, e \notin DeclarationEvents PROVE e \in sent' \cup late \/ Ahead(e)'
      BY <1>1, <1>12, <3>1, <3>2 DEF SeenInv, DueOK, At, Turn
    <3>3. QED
      BY <1>1, <2>1, <3>2 DEF DueOK, At, Turn
  <2>13. ReplayOK'
    BY <2>1 DEF ReplayOK, At
  <2>14. QED
    BY <1>13, <2>10, <2>11, <2>12, <2>13 DEF SeenInv
<1>16. QED
  BY <1>14, <1>15

LEMMA NextSeen ==
  ASSUME SeenInv, BurstFits, [Next]_vars
  PROVE  SeenInv'
<1>1. Inv'
  BY NextType, NextDeclaration DEF SeenInv, Inv
<1>2. CASE CacheStep
  BY <1>1, <1>2, CacheStepSeen
<1>3. ASSUME NEW since \in Sinces, Connect(since) PROVE SeenInv'
  BY <1>1, <1>3, ConnectSeen
<1>4. CASE PumpStep
  BY <1>1, <1>4, ReplayWrapsSeen, ReplayGrantsSeen, HelloSeen, DrainSeen, PollGrantsSeen,
     PollDeclarationSeen, BumpSeen, WakeSeen DEF PumpStep
<1>5. CASE Close
  BY <1>1, <1>5, CloseSeen
<1>6. QED
  BY <1>2, <1>3, <1>4, <1>5 DEF Next, CacheStep

\* When a turn of the pump ends, every wrap, grant and (if it was polled)
\* declaration that had reached the cache when it began has been sent, or a
\* later declaration, however long a turn lasts and the relays keep a grant
\* from the cache; but for what was filed more than OVERLAP_SECONDS before the
\* end of the turn it reached the cache in or after (SeenWithinOneCycle).  It
\* is said of streams whose bursts exceed neither the pages of a turn
\* (LIVE_TAIL_MAX_PAGES) nor the limit of a replay (replay_limit).
THEOREM AlwaysSeenWithinOneCycle == Spec /\ []BurstFits => []SeenWithinOneCycle
<1>1. Init => SeenInv
  <2>1. SUFFICES ASSUME Init PROVE SeenInv
    OBVIOUS
  <2>2. pump.pc = "off" /\ ~pump.polled /\ arrived = {} /\ due = {} /\ cached = {}
    BY <2>1 DEF Init, Off
  <2>3. Inv
    BY <2>1, InitType DEF Init, First, Off, Inv, DeclarationInv
  <2>4. QED
    BY <2>2, <2>3
       DEF SeenInv, SigningOK, CursorOK, KeptOK, DueOK, ReplayOK, PagesOK, DeclarationsOK, At, Turn
<1>2. SeenInv /\ BurstFits /\ [Next]_vars => SeenInv'
  BY NextSeen
<1>3. SeenInv => SeenWithinOneCycle
  <2>1. SeenInv /\ At("sleep") => due \ (DeclarationEvents \cup late) \subseteq sent
    BY DEF SeenInv, DueOK, At
  <2>2. SeenInv /\ pump.polled => \A d \in Declarations : Declaration(d) \in due => Announced(d)
    BY DEF SeenInv, DeclarationsOK
  <2>3. QED
    BY <2>1, <2>2 DEF SeenWithinOneCycle, Announced
<1>4. QED
  BY <1>1, <1>2, <1>3, PTL DEF Spec

=============================================================================
