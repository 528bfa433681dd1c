------------------------------- MODULE Kanban -------------------------------
(***************************************************************************)
(* The public half of the evenflow board vocabulary.  A caller signs an    *)
(* event with its own key, proves who it is with a NIP-98 header and posts *)
(* it to /v0/publish/kanban_plaintext (kinds 30550-30554) or to            *)
(* /v0/publish/kanban_tide (30560); the gateway checks it, spends a slot   *)
(* of an hourly budget and fans it out (gateway/src/kanban-*.ts).  The     *)
(* relays keep the newest event of an address.  The audience routes for    *)
(* signed events spend the same per-identity budget.                       *)
(*                                                                         *)
(* Budgets live in the isolate's memory.  The gateway caches none of these *)
(* kinds: storeAudienceEvent refuses them.                                 *)
(***************************************************************************)
EXTENDS Worker, Integers, Sequences, FiniteSetsExt

CONSTANTS
    Callers,            \* keys that sign requests and events
    Boards, Sprints, Items, Days,
    Readings,           \* <<committed, done, remaining>> a tide may carry
    PerHour,            \* RATE_LIMIT_PER_HOUR
    Buckets,            \* BUCKETS
    Window,             \* RATE_LIMIT_WINDOW_MS
    MaxAge,             \* MAX_AGE_SEC of a NIP-98 header
    MaxSpent,           \* bound: slots spent in the life of an isolate
    MaxEvents           \* bound: addresses the relays hold events of

ASSUME LimitsAssumption == {PerHour, Buckets, Window} \subseteq Nat \ {0} /\ MaxAge \in Nat
ASSUME BoundsAssumption == {MaxNow, MaxSpent, MaxEvents} \subseteq Nat
ASSUME DistinctAssumption ==
    /\ None \notin Boards \cup Sprints \cup Items \cup Days
    /\ Boards \cap Sprints = {} /\ Sprints \cap Items = {} /\ Boards \cap Items = {}

VARIABLES
    stamps,             \* rateLimitWindow: the stamps under each key
    relay,              \* the events consumers can read
    spent,              \* every slot spent of each budget, in order (history)
    refused             \* the budget the last answer was 429 for, or None

boardVars == <<now, stamps, relay, spent, refused>>

-----------------------------------------------------------------------------
(* Events.  Ids of different entities never coincide.                      *)

Ids == Boards \cup Sprints \cup Items \cup {None}
PlaintextKinds == {"board", "issue", "comment", "status", "sprint"}

\* What a caller may put in an event; `sound' says that its id, signature,
\* fa:context, alt, blake3, content and the tags no property looks at are what
\* they must be.  A deletion is an event like the others, at the same address.
PlaintextEvents == [kind: PlaintextKinds, board: Boards \cup {None},
                    sprint: Sprints \cup {None}, issue: Items \cup {None},
                    id: Ids, sound: BOOLEAN]
TideEvents == [kind: {"tide"}, scope: {"sprint", "board"}, board: Boards \cup {None},
               sprint: Sprints \cup {None}, day: Days \cup {None},
               id: Ids, idDay: Days, points: Readings, sound: BOOLEAN]

\* SPECS: the tag that the d tag of a kind must equal, where there is one.
PinnedId(e) ==
    CASE e.kind = "board" -> e.board
      [] e.kind = "sprint" -> e.sprint
      [] OTHER -> e.id

\* validateKanbanPlaintextEvent
ValidPlaintext(e) ==
    /\ e.sound
    /\ e.board # None
    /\ e.id # None /\ e.id = PinnedId(e)
    /\ e.kind \in {"comment", "status"} => e.issue # None
    /\ e.kind = "sprint" => e.sprint # None

Subject(e) == IF e.sprint # None THEN e.sprint ELSE e.board

\* Mutant: the day in the d tag need not be the day of the reading.
ValidTide_AnyDay(e) ==
    /\ e.sound /\ e.board # None /\ e.day # None
    /\ (e.scope = "sprint") = (e.sprint # None)
    /\ e.id = Subject(e)

\* validateKanbanTideEvent
ValidTide(e) ==
    /\ e.sound /\ e.board # None /\ e.day # None
    /\ (e.scope = "sprint") = (e.sprint # None)
    /\ e.id = Subject(e) /\ e.idDay = e.day
    /\ LET committed == e.points[1]
           done == e.points[2]
       IN  done <= committed /\ e.points[3] = committed - done

\* A post is an event, its author and its created_at.  A relay keeps it under
\* an address; the event speaks of an entity.
Address(p) ==
    IF p.event.kind = "tide" THEN <<p.event.kind, p.by, p.event.id, p.event.idDay>>
    ELSE <<p.event.kind, p.by, p.event.id>>
Entity(e) ==
    CASE e.kind = "tide" -> <<e.scope, Subject(e), e.day>>
      [] e.kind = "board" -> <<e.board>>
      [] e.kind = "sprint" -> <<e.sprint>>
      [] OTHER -> <<e.id>>

\* A relay that takes an event keeps the newest of its address.
Kept(p) ==
    LET rivals == {q \in relay : Address(q) = Address(p)}
    IN  IF \E q \in rivals : q.at > p.at THEN relay ELSE (relay \ rivals) \cup {p}

-----------------------------------------------------------------------------
(* Budgets.                                                                *)

BoardKeys == {<<c, b, i>> : c \in Callers, b \in Boards, i \in 1..Buckets}
CallerKeys == {<<c>> : c \in Callers}

\* Mutant: a stamp that has just left the window still counts.
Recent_Inclusive(times) == {i \in DOMAIN times : times[i] >= now - Window}

\* The positions of the stamps that pass the filter.  The filter also drops
\* the others from the list; here they stay and are not counted, which is the
\* same, as no stamp comes back into the window.
Recent(times) == {i \in DOMAIN times : times[i] > now - Window}
HasRoom(key) == Cardinality(Recent(stamps[key])) < PerHour
Stamped(key) == [stamps EXCEPT ![key] = Append(@, now)]

\* A budget: a caller's own, or a caller's for one board.
BudgetOf(key) == IF key \in BoardKeys THEN <<key[1], key[2]>> ELSE key
Budgets == {BudgetOf(key) : key \in BoardKeys \cup CallerKeys}
Slots(budget) == IF Len(budget) = 2 THEN Buckets * PerHour ELSE PerHour

\* rateLimitCheck
Spend(key) ==
    /\ HasRoom(key)
    /\ stamps' = Stamped(key)
    /\ spent' = [spent EXCEPT ![BudgetOf(key)] = Append(@, now)]
    /\ refused' = None

Refuse(budget) ==
    /\ refused' = budget
    /\ UNCHANGED <<stamps, spent>>

\* spendBoardBudget takes the first bucket with room.
FirstRoom(c, b) ==
    {i \in 1..Buckets : HasRoom(<<c, b, i>>) /\ \A j \in 1..i-1 : ~HasRoom(<<c, b, j>>)}

SpendBoard(c, b) ==
    IF FirstRoom(c, b) = {} THEN Refuse(<<c, b>>)
    ELSE \E i \in FirstRoom(c, b) : Spend(<<c, b, i>>)

-----------------------------------------------------------------------------
(* The routes.  A refused request leaves no trace but the answer.          *)

\* verifyNip98: a header for this request, signed within MaxAge of now.
Authentic(header) ==
    header.intact /\ header.at \in (now - MaxAge)..(now + MaxAge)

Headers == [by: Callers, at: 0..MaxNow, intact: BOOLEAN]

\* publishAndStore, without the cache: some relay takes the event, or none.
Publish(p) ==
    /\ relay' \in {relay, Kept(p)}
    /\ Cardinality(relay') <= MaxEvents

\* An event was signed in this second or, if it comes late, the one before.
Dated(e, by, at) == [event |-> e, by |-> by, at |-> at]
SignedAt == {now - 1, now} \cap Nat

\* Tags that do not belong to the kind are ignored: none is sent.
PlaintextToPublish ==
    {e \in PlaintextEvents : /\ ValidPlaintext(e)
                             /\ e.kind # "sprint" => e.sprint = None
                             /\ e.kind \notin {"comment", "status"} => e.issue = None}
TidesToPublish == {e \in TideEvents : ValidTide(e)}

\* handleKanbanPlaintextRequest: header, signature, author and shape first,
\* then the budget of the board the checked event names.
PostPlaintext(header) ==
    /\ Authentic(header)
    /\ \E e \in PlaintextToPublish, at \in SignedAt :
          /\ SpendBoard(header.by, e.board)
          /\ IF refused' = None THEN Publish(Dated(e, header.by, at)) ELSE UNCHANGED relay
    /\ UNCHANGED now

\* handleKanbanTideRequest: the caller's budget comes before the event is
\* looked at, so a malformed or foreign event spends a slot as well.
PostTide(header) ==
    /\ Authentic(header)
    /\ \/ ~HasRoom(<<header.by>>) /\ Refuse(<<header.by>>) /\ UNCHANGED relay
       \/ /\ Spend(<<header.by>>)
          /\ \/ \E e \in TidesToPublish, at \in SignedAt : Publish(Dated(e, header.by, at))
             \/ UNCHANGED relay
    /\ UNCHANGED now

\* handleAudienceRawRequest spends the caller's budget on every request; what
\* its routes then do is in Audience and Inboxes.
PostAudience(header) ==
    /\ Authentic(header)
    /\ IF HasRoom(<<header.by>>) THEN Spend(<<header.by>>) ELSE Refuse(<<header.by>>)
    /\ UNCHANGED <<now, relay>>

BoardTick ==
    /\ now < MaxNow
    /\ now' = now + 1
    /\ refused' = None
    /\ UNCHANGED <<stamps, relay, spent>>

\* The isolate is replaced: its budgets start afresh.
Recycle ==
    /\ stamps' = [key \in DOMAIN stamps |-> <<>>]
    /\ spent' = [budget \in Budgets |-> <<>>]
    /\ refused' = None
    /\ UNCHANGED <<now, relay>>

BoardInit ==
    /\ now = 0
    /\ stamps = [key \in BoardKeys \cup CallerKeys |-> <<>>]
    /\ relay = {}
    /\ spent = [budget \in Budgets |-> <<>>]
    /\ refused = None

BoardNext ==
    \/ BoardTick
    \/ Recycle
    \/ /\ MapThenSumSet(LAMBDA budget : Len(spent[budget]), Budgets) < MaxSpent
       /\ \E header \in Headers :
             PostPlaintext(header) \/ PostTide(header) \/ PostAudience(header)

BoardSpec == BoardInit /\ [][BoardNext]_boardVars

-----------------------------------------------------------------------------
(* Correctness.                                                            *)

\* "a republish CORRECTS that entity rather than appending" and the d tag is
\* checked so that no two entities collapse onto one event: what an event
\* replaces spoke of the same board, sprint, issue or day.
RepublishCorrects ==
    [][\A p \in relay \ relay' :
          \E q \in relay' : /\ Address(q) = Address(p)
                            /\ Entity(q.event) = Entity(p.event)
                            /\ q.at >= p.at]_boardVars

InWindow(times) == Cardinality({i \in DOMAIN times : times[i] > now - Window})

\* "the arithmetic is exact: 10 buckets x 60": over any window a budget gives
\* out its whole limit and no more, and a request is refused only when that
\* is used up, whatever other boards and callers spent.
BudgetIsExact ==
    /\ \A budget \in Budgets : InWindow(spent[budget]) <= Slots(budget)
    /\ refused # None => InWindow(spent[refused]) = Slots(refused)

=============================================================================
