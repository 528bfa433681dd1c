----------------------------- MODULE RetryQueue -----------------------------
(***************************************************************************)
(* The publish-side retry queue of the RelayPool Durable Object            *)
(* (gateway/src/relay-pool.ts): enqueueRetry, the paged walk of            *)
(* processRetries, the per-relay cool-downs and the object's one alarm.    *)
(*                                                                         *)
(* A Durable Object runs its handlers on one thread.  While a handler      *)
(* awaits only its own storage no other event is delivered to the object,  *)
(* so a walk holds the `gate' from one network wait to the next; while it  *)
(* awaits publishOnce (a fresh WebSocket) every other handler may run.     *)
(* Two walks overlap in this way: the alarm handler's and the one the      *)
(* 5-minute cron starts through sweepFromRelays.                           *)
(***************************************************************************)
EXTENDS Integers, FiniteSets

CONSTANTS
    Events,                 \* event ids, numbered in storage order
    Relays,                 \* relay URLs, numbered in storage order
    Walkers,                \* handlers that may be inside processRetries
    AlarmHandler,           \* the walker that is the alarm handler
    None,                   \* absent value
    RetryBaseMs, RetryMaxMs, RetryMaxAttempts, RetryBatch, RetryListPage,
    RelayCooldownMs, RelayCooldownMaxMs, RelayCooldownMaxLevel,
    ReconnectDelays,        \* delays scheduleReconnect can ask the alarm for
    MaxNow,                 \* bound: the clock stops here
    MaxLag,                 \* bound: how far the clock runs past a due alarm
                            \* or the start of a walk
    MaxEnqueues,            \* bound: calls of enqueueRetry
    LastEnqueueAt,          \* bound: no call of enqueueRetry after this time
    MaxEvictions            \* bound: evictions of the object

Keys == Events \X Relays    \* retry:<eventId>:<relay>

ASSUME IdsAssumption == Events \subseteq Nat /\ Relays \subseteq Nat
ASSUME FiniteAssumption == IsFiniteSet(Events) /\ IsFiniteSet(Relays)
ASSUME WalkersAssumption == AlarmHandler \in Walkers /\ IsFiniteSet(Walkers)
ASSUME NoneAssumption == None \notin Nat /\ None \notin Keys /\ None \notin Walkers
                         /\ None \notin [attempts: Nat, nextAttemptAt: Nat]
                         /\ None \notin [until: Nat, level: Nat]
ASSUME RetryAssumption == /\ {RetryBaseMs, RetryMaxMs, RetryListPage} \subseteq Nat
                          /\ {RetryMaxAttempts, RetryBatch} \subseteq Nat \ {0}
ASSUME CooldownAssumption == /\ RelayCooldownMs \in Nat \ {0}
                             /\ RelayCooldownMaxMs \in Nat \ {0}
                             /\ RelayCooldownMaxLevel \in Nat
ASSUME BoundsAssumption == /\ ReconnectDelays \subseteq Nat
                           /\ {MaxNow, MaxLag, MaxEnqueues, LastEnqueueAt, MaxEvictions} \subseteq Nat

VARIABLES
    now,        \* Date.now(), in an abstract unit
    alarm,      \* the time storage.getAlarm() reports, or None
    retry,      \* durable: the retry record of each key, or None
    cooldown,   \* durable: the cool-down record of each relay, or None
    gate,       \* the walker whose storage operations hold the input gate
    walk,       \* the local variables of each walk
    enqueues,   \* calls of enqueueRetry so far
    evictions   \* evictions of the object so far

(* History: no action reads these four, only the properties do.            *)
VARIABLES
    missed,     \* keys a walk left for a later one: queued beyond the page at
                \* which its budget ran out, or when an eviction cut a sweep off
    published,  \* publishOnce calls for each key since enqueueRetry queued it
    uncounted,  \* of those, the most its record's attempts can have missed:
                \* cut off by an eviction, or of a walk that overlapped another
                \* and found the record changed under it
    overlapped  \* walks in flight that ran beside another walk

history == <<missed, published, uncounted, overlapped>>
vars == <<now, alarm, retry, cooldown, gate, walk, enqueues, evictions, history>>

RetryRecord == [attempts: 0..(RetryMaxAttempts - 1), nextAttemptAt: Nat]
RelayCooldown == [until: Nat, level: 0..RelayCooldownMaxLevel]
Outcomes == {"accepted", "rate-limited-retrying", "throttled", "failed-permanent"}

-----------------------------------------------------------------------------
(* Pure helpers of the source.                                             *)

Smaller(a, b) == IF a <= b THEN a ELSE b
Larger(a, b) == IF a >= b THEN a ELSE b

\* Math.round(base * noise) over every noise of jitteredBackoff.
JitteredBackoff(attempts) ==
    LET base == Smaller(RetryBaseMs * 2^attempts, RetryMaxMs)
    IN  {b \in 0..(2 * RetryMaxMs) : 4 * b >= 3 * base /\ 4 * b <= 5 * base}

AfterCooldown(until) ==
    {IF until <= 0 THEN 0 ELSE until + slack : slack \in 0..RetryBaseMs}

CooldownDurationMs(level) ==
    Smaller(RelayCooldownMaxMs, RelayCooldownMs * 2^level)

\* Mutant: every throttle starts over at the first level.
NextCooldown_StartsOver(prev, t) == [level |-> 0, until |-> t + CooldownDurationMs(0)]

NextCooldown(prev, t) ==
    IF prev # None /\ prev.until > t
    THEN prev
    ELSE LET level == IF prev = None THEN 0
                      ELSE Smaller(prev.level + 1, RelayCooldownMaxLevel)
         IN  [level |-> level, until |-> t + CooldownDurationMs(level)]

CooldownUntil(relay) == IF cooldown[relay] = None THEN 0 ELSE cooldown[relay].until

\* The order of storage.list over the retry: prefix.
Before(k, l) == k[1] < l[1] \/ (k[1] = l[1] /\ k[2] < l[2])

\* The "if (t < earliest) earliest = t" of both handlers; None is Infinity.
Sooner(t, earliest) == IF earliest = None \/ t < earliest THEN t ELSE earliest

\* Mutant: setAlarm without the getAlarm check.
SetAlarmNoLater_Unchecked(earliest) ==
    alarm' = IF earliest = None THEN alarm ELSE earliest

\* getAlarm / setAlarm: the alarm only ever moves to an earlier time.
SetAlarmNoLater(earliest) ==
    alarm' = IF earliest = None THEN alarm ELSE Sooner(earliest, alarm)

-----------------------------------------------------------------------------
(* The locals of one call of processRetries.  `snap' is the part of the    *)
(* current page not yet visited, as storage.list returned it.              *)

Walk == [pc: {"idle", "scan", "await", "connect"},
         start: Nat,
         snap: [Keys -> RetryRecord \cup {None}],
         startAfter: Keys \cup {None},
         more: BOOLEAN,
         earliest: Nat \cup {None},
         processed: 0..RetryBatch,
         known: [Relays -> Nat \cup {None}]]

NoPage == [k \in Keys |-> None]

IdleWalk == [pc |-> "idle", start |-> 0, snap |-> NoPage, startAfter |-> None,
             more |-> FALSE, earliest |-> None, processed |-> 0,
             known |-> [r \in Relays |-> None]]

NewWalk == [IdleWalk EXCEPT !.pc = "scan", !.start = now, !.more = TRUE]

Page(w) == {k \in Keys : walk[w].snap[k] # None}
IsNext(w, k) == k \in Page(w) /\ \A l \in Page(w) \ {k} : Before(k, l)

\* What storage.list({prefix, limit, startAfter}) can still return to w.
Unlisted(w) == {k \in Keys : /\ retry[k] # None
                             /\ \/ walk[w].startAfter = None
                                \/ Before(walk[w].startAfter, k)}

\* The cool-down of relay as w sees it: cached on first use.
CooldownOf(w, relay) ==
    IF walk[w].known[relay] = None THEN CooldownUntil(relay) ELSE walk[w].known[relay]

\* The relay of the key's record has been visited: drop it from the page.
Visit(w, k) == [walk[w] EXCEPT !.snap[k] = None, !.startAfter = k]

Due(w, k) == walk[w].snap[k].nextAttemptAt <= walk[w].start

Scanning(w) == gate = w /\ walk[w].pc = "scan"
Walking(w) == walk[w].pc \in {"scan", "await"}

(* The history of a walk: it begins beside others, and leaves k behind.    *)

Others(w) == {v \in Walkers \ {w} : Walking(v)}

Overlap(w) == IF Others(w) = {} THEN overlapped \ {w}
              ELSE overlapped \cup Others(w) \cup {w}

\* publishOnce calls for k that have yet to answer.
InFlight(k) == Cardinality({w \in Walkers : walk[w].pc = "await" /\ IsNext(w, k)})

\* w writes or deletes a record that is no longer the one it listed.
Overtaken(w, k) == w \in overlapped /\ retry[k] # walk[w].snap[k]

Account(w, k) ==
    /\ uncounted' = IF Overtaken(w, k)
                    THEN [uncounted EXCEPT ![k] = @ + RetryMaxAttempts] ELSE uncounted
    /\ UNCHANGED <<missed, published, overlapped>>

-----------------------------------------------------------------------------
Init ==
    /\ now = 0
    /\ alarm = None
    /\ retry = [k \in Keys |-> None]
    /\ cooldown = [r \in Relays |-> None]
    /\ gate = None
    /\ walk = [w \in Walkers |-> IdleWalk]
    /\ enqueues = 0
    /\ evictions = 0
    /\ missed = {}
    /\ published = [k \in Keys |-> 0]
    /\ uncounted = [k \in Keys |-> 0]
    /\ overlapped = {}

Tick ==
    /\ gate = None
    /\ now < MaxNow
    /\ alarm # None => now < alarm + MaxLag
    /\ \A w \in Walkers : walk[w].pc = "await" => now < walk[w].start + MaxLag
    /\ now' = now + 1
    /\ UNCHANGED <<alarm, retry, cooldown, gate, walk, enqueues, evictions, history>>

\* startCooldown for each throttled relay.
Cooldowns(throttled) ==
    [r \in Relays |-> IF r \in throttled THEN NextCooldown(cooldown[r], now) ELSE cooldown[r]]

\* The times a new record for a relay with this cool-down may be scheduled for.
FirstAttemptTimes(cool) ==
    {Larger(now + b, c) : b \in JitteredBackoff(0),
                          c \in AfterCooldown(IF cool = None THEN 0 ELSE cool.until)}

(***************************************************************************)
(* enqueueRetry(event, relays, throttled), called by a worker after its    *)
(* fan-out.  One storage-only handler: no other handler runs inside it.    *)
(***************************************************************************)
EnqueueRetry(e, relays, throttled) ==
    LET fresh == {r \in relays : retry[<<e, r>>] = None}
        times == [r \in Relays |-> FirstAttemptTimes(Cooldowns(throttled)[r])]
    IN  /\ gate = None
        /\ enqueues < MaxEnqueues
        /\ now <= LastEnqueueAt
        /\ cooldown' = Cooldowns(throttled)
        /\ \E at \in [fresh -> UNION {times[r] : r \in fresh}] :
              /\ \A r \in fresh : at[r] \in times[r]
              /\ retry' = [k \in Keys |-> IF k[1] = e /\ k[2] \in fresh
                                          THEN [attempts |-> 0, nextAttemptAt |-> at[k[2]]]
                                          ELSE retry[k]]
              /\ IF fresh = {} THEN alarm' = alarm
                 ELSE \E r \in fresh : /\ \A q \in fresh : at[r] <= at[q]
                                       /\ SetAlarmNoLater(at[r])
        /\ enqueues' = enqueues + 1
        /\ missed' = missed \ ({e} \X fresh)
        /\ published' = [k \in Keys |-> IF k \in {e} \X fresh THEN 0 ELSE published[k]]
        /\ uncounted' = [k \in Keys |-> IF k \in {e} \X fresh THEN 0 ELSE uncounted[k]]
        /\ UNCHANGED <<now, gate, walk, evictions, overlapped>>

\* scheduleReconnect, from a dropped subscription or a failed reopen: here
\* only its effect on the shared alarm; the subscriptions are not modelled.
ScheduleReconnect ==
    /\ gate = None
    /\ \E d \in ReconnectDelays : SetAlarmNoLater(now + d)
    /\ UNCHANGED <<now, retry, cooldown, gate, walk, enqueues, evictions, history>>

-----------------------------------------------------------------------------
(* processRetries                                                          *)

\* The runtime delivers the alarm; while the handler runs getAlarm reports
\* none unless it has been set again.
FireAlarm ==
    /\ gate = None
    /\ walk[AlarmHandler].pc = "idle"
    /\ alarm # None /\ alarm <= now
    /\ alarm' = None
    /\ walk' = [walk EXCEPT ![AlarmHandler] = NewWalk]
    /\ gate' = AlarmHandler
    /\ overlapped' = Overlap(AlarmHandler)
    /\ UNCHANGED <<now, retry, cooldown, enqueues, evictions, missed, published, uncounted>>

\* The last step of sweepFromRelays, which the cron starts.
StartSweep(w) ==
    /\ gate = None
    /\ w # AlarmHandler
    /\ walk[w].pc = "idle"
    /\ walk' = [walk EXCEPT ![w] = NewWalk]
    /\ gate' = w
    /\ overlapped' = Overlap(w)
    /\ UNCHANGED <<now, alarm, retry, cooldown, enqueues, evictions,
                   missed, published, uncounted>>

ListPage(w) ==
    LET page == {k \in Unlisted(w) :
                    Cardinality({l \in Unlisted(w) : Before(l, k)}) < RetryListPage}
    IN  /\ Scanning(w)
        /\ Page(w) = {}
        /\ walk[w].more /\ walk[w].processed < RetryBatch
        /\ walk' = [walk EXCEPT
              ![w].snap = [k \in Keys |-> IF k \in page THEN retry[k] ELSE None],
              ![w].more = (Cardinality(page) = RetryListPage)]
        /\ missed' = missed \ page
        /\ UNCHANGED <<now, alarm, retry, cooldown, gate, enqueues, evictions,
                       published, uncounted, overlapped>>

VisitNotDue(w, k) ==
    /\ Scanning(w) /\ IsNext(w, k)
    /\ ~Due(w, k)
    /\ walk' = [walk EXCEPT ![w] =
          [Visit(w, k) EXCEPT !.earliest = Sooner(walk[w].snap[k].nextAttemptAt, @)]]
    /\ UNCHANGED <<now, alarm, retry, cooldown, gate, enqueues, evictions, history>>

\* Due, but over this tick's budget: stop and run again right away.
VisitOverBudget(w, k) ==
    /\ Scanning(w) /\ IsNext(w, k)
    /\ Due(w, k)
    /\ walk[w].processed >= RetryBatch
    /\ walk' = [walk EXCEPT ![w] =
          [@ EXCEPT !.snap = NoPage, !.startAfter = k, !.more = FALSE,
                    !.earliest = walk[w].start]]
    /\ UNCHANGED <<now, alarm, retry, cooldown, gate, enqueues, evictions, history>>

\* Mutant: a deferred record starts counting again.
VisitCooling_Recounts(w, k) ==
    LET cooling == CooldownOf(w, k[2])
    IN  /\ Scanning(w) /\ IsNext(w, k)
        /\ Due(w, k)
        /\ walk[w].processed < RetryBatch
        /\ cooling > walk[w].start
        /\ \E deferredTo \in AfterCooldown(cooling) :
              /\ retry' = [retry EXCEPT ![k] = [attempts |-> 0, nextAttemptAt |-> deferredTo]]
              /\ walk' = [walk EXCEPT ![w] =
                    [Visit(w, k) EXCEPT !.known[k[2]] = cooling,
                                        !.earliest = Sooner(deferredTo, @)]]
        /\ Account(w, k)
        /\ UNCHANGED <<now, alarm, cooldown, gate, enqueues, evictions>>

\* The relay is cooling: push the record past it, spend no attempt.
VisitCooling(w, k) ==
    LET cooling == CooldownOf(w, k[2])
    IN  /\ Scanning(w) /\ IsNext(w, k)
        /\ Due(w, k)
        /\ walk[w].processed < RetryBatch
        /\ cooling > walk[w].start
        /\ \E deferredTo \in AfterCooldown(cooling) :
              /\ retry' = [retry EXCEPT ![k] =
                              [walk[w].snap[k] EXCEPT !.nextAttemptAt = deferredTo]]
              /\ walk' = [walk EXCEPT ![w] =
                    [Visit(w, k) EXCEPT !.known[k[2]] = cooling,
                                        !.earliest = Sooner(deferredTo, @)]]
        /\ Account(w, k)
        /\ UNCHANGED <<now, alarm, cooldown, gate, enqueues, evictions>>

\* Mutant: the budget of a tick is not counted against an attempt.
Attempt_Unbudgeted(w, k) ==
    /\ Scanning(w) /\ IsNext(w, k)
    /\ Due(w, k)
    /\ CooldownOf(w, k[2]) <= walk[w].start
    /\ walk' = [walk EXCEPT ![w] =
          [walk[w] EXCEPT !.pc = "await", !.processed = @ + 1,
                          !.known[k[2]] = CooldownOf(w, k[2])]]
    /\ gate' = None
    /\ published' = [published EXCEPT ![k] = @ + 1]
    /\ UNCHANGED <<now, alarm, retry, cooldown, enqueues, evictions,
                   missed, uncounted, overlapped>>

\* publishOnce: the socket is opened and the object handles other events.
Attempt(w, k) ==
    LET cooling == CooldownOf(w, k[2])
    IN  /\ Scanning(w) /\ IsNext(w, k)
        /\ Due(w, k)
        /\ walk[w].processed < RetryBatch
        /\ cooling <= walk[w].start
        /\ walk' = [walk EXCEPT ![w] =
              [walk[w] EXCEPT !.pc = "await", !.processed = @ + 1, !.known[k[2]] = cooling]]
        /\ gate' = None
        /\ published' = [published EXCEPT ![k] = @ + 1]
        /\ UNCHANGED <<now, alarm, retry, cooldown, enqueues, evictions,
                       missed, uncounted, overlapped>>

\* Mutant: the record is deleted and then visited again.
Settled_NotVisited(w, k, outcome) ==
    /\ gate = None
    /\ walk[w].pc = "await" /\ IsNext(w, k)
    /\ outcome \in {"accepted", "failed-permanent"}
    /\ retry' = [retry EXCEPT ![k] = None]
    /\ walk' = [walk EXCEPT ![w].pc = "scan", ![w].processed = 0]
    /\ gate' = w
    /\ Account(w, k)
    /\ UNCHANGED <<now, alarm, cooldown, enqueues, evictions>>

\* The relay took the event, or refused it for good.
Settled(w, k, outcome) ==
    LET forget == outcome = "accepted" /\ walk[w].known[k[2]] > 0
    IN  /\ gate = None
        /\ walk[w].pc = "await" /\ IsNext(w, k)
        /\ outcome \in {"accepted", "failed-permanent"}
        /\ cooldown' = IF forget THEN [cooldown EXCEPT ![k[2]] = None] ELSE cooldown
        /\ retry' = [retry EXCEPT ![k] = None]
        /\ walk' = [walk EXCEPT ![w] =
              [Visit(w, k) EXCEPT !.pc = "scan",
                                  !.known[k[2]] = IF forget THEN 0 ELSE @]]
        /\ gate' = w
        /\ Account(w, k)
        /\ UNCHANGED <<now, alarm, enqueues, evictions>>

\* Mutant: an exhausted record is left in the queue, and not rescheduled.
Exhausted_StaysQueued(w, k, outcome) ==
    /\ gate = None
    /\ walk[w].pc = "await" /\ IsNext(w, k)
    /\ outcome \in {"rate-limited-retrying", "throttled"}
    /\ walk[w].snap[k].attempts + 1 >= RetryMaxAttempts
    /\ walk' = [walk EXCEPT ![w] = [Visit(w, k) EXCEPT !.pc = "scan"]]
    /\ gate' = w
    /\ Account(w, k)
    /\ UNCHANGED <<now, alarm, retry, cooldown, enqueues, evictions>>

\* A transient failure of the last attempt: give up.
Exhausted(w, k, outcome) ==
    /\ gate = None
    /\ walk[w].pc = "await" /\ IsNext(w, k)
    /\ outcome \in {"rate-limited-retrying", "throttled"}
    /\ walk[w].snap[k].attempts + 1 >= RetryMaxAttempts
    /\ retry' = [retry EXCEPT ![k] = None]
    /\ walk' = [walk EXCEPT ![w] = [Visit(w, k) EXCEPT !.pc = "scan"]]
    /\ gate' = w
    /\ Account(w, k)
    /\ UNCHANGED <<now, alarm, cooldown, enqueues, evictions>>

\* A transient failure: count the attempt and back off.
Reschedule(w, k, outcome) ==
    LET relay == k[2]
        attempts == walk[w].snap[k].attempts + 1
        started == NextCooldown(cooldown[relay], walk[w].start)
        throttled == outcome = "throttled"
    IN  /\ gate = None
        /\ walk[w].pc = "await" /\ IsNext(w, k)
        /\ outcome \in {"rate-limited-retrying", "throttled"}
        /\ attempts < RetryMaxAttempts
        /\ cooldown' = IF throttled THEN [cooldown EXCEPT ![relay] = started] ELSE cooldown
        /\ \E b \in JitteredBackoff(attempts),
              c \in IF throttled THEN AfterCooldown(started.until) ELSE {0} :
              LET at == Larger(walk[w].start + b, c)
              IN  /\ retry' = [retry EXCEPT ![k] = [attempts |-> attempts, nextAttemptAt |-> at]]
                  /\ walk' = [walk EXCEPT ![w] =
                        [Visit(w, k) EXCEPT
                            !.pc = "scan",
                            !.known[relay] = IF throttled THEN started.until ELSE @,
                            !.earliest = Sooner(at, @)]]
        /\ gate' = w
        /\ Account(w, k)
        /\ UNCHANGED <<now, alarm, enqueues, evictions>>

\* The end of processRetries.  alarm() goes on to ensureConnected; the sweep
\* returns.
FinishWalk(w) ==
    /\ Scanning(w)
    /\ Page(w) = {}
    /\ ~(walk[w].more /\ walk[w].processed < RetryBatch)
    /\ SetAlarmNoLater(walk[w].earliest)
    /\ walk' = [walk EXCEPT ![w] =
          [IdleWalk EXCEPT !.pc = IF w = AlarmHandler THEN "connect" ELSE "idle"]]
    /\ gate' = None
    /\ missed' = IF walk[w].more THEN missed \cup Unlisted(w) ELSE missed
    /\ overlapped' = overlapped \ {w}
    /\ UNCHANGED <<now, retry, cooldown, enqueues, evictions, published, uncounted>>

\* ensureConnected returns and the alarm handler is done.
EndAlarm ==
    /\ gate = None
    /\ walk[AlarmHandler].pc = "connect"
    /\ walk' = [walk EXCEPT ![AlarmHandler] = IdleWalk]
    /\ UNCHANGED <<now, alarm, retry, cooldown, gate, enqueues, evictions, history>>

\* The object is evicted: the walks are lost, storage is not.  Alarms are
\* delivered at least once, so an interrupted alarm handler runs again.
Evict ==
    /\ evictions < MaxEvictions
    /\ evictions' = evictions + 1
    /\ walk' = [w \in Walkers |-> IdleWalk]
    /\ alarm' = IF walk[AlarmHandler].pc = "idle" THEN alarm ELSE Sooner(now, alarm)
    /\ gate' = None
    /\ missed' = IF walk[AlarmHandler].pc = "idle" /\ \E w \in Walkers : Walking(w)
                 THEN missed \cup {k \in Keys : retry[k] # None} ELSE missed
    /\ uncounted' = [k \in Keys |-> uncounted[k] + InFlight(k)]
    /\ overlapped' = {}
    /\ UNCHANGED <<now, retry, cooldown, enqueues, published>>

WalkStep(w) ==
    \/ ListPage(w)
    \/ \E k \in Keys :
          \/ VisitNotDue(w, k)
          \/ VisitOverBudget(w, k)
          \/ VisitCooling(w, k)
          \/ Attempt(w, k)
          \/ \E outcome \in Outcomes :
                \/ Settled(w, k, outcome)
                \/ Exhausted(w, k, outcome)
                \/ Reschedule(w, k, outcome)
    \/ FinishWalk(w)

Next ==
    \/ Tick
    \/ \E e \in Events, relays \in SUBSET Relays : \E throttled \in SUBSET relays :
          relays # {} /\ EnqueueRetry(e, relays, throttled)
    \/ ScheduleReconnect
    \/ FireAlarm
    \/ \E w \in Walkers : StartSweep(w) \/ WalkStep(w)
    \/ EndAlarm
    \/ Evict

Spec == Init /\ [][Next]_vars

\* A started handler runs on and relays answer or time out; time passes; the
\* runtime delivers a due alarm.  Nothing obliges the cron, callers or relays
\* to do anything.
Fairness ==
    /\ WF_vars(Tick)
    /\ WF_vars(FireAlarm)
    /\ WF_vars(EndAlarm)
    /\ \A w \in Walkers : WF_vars(WalkStep(w))

FairSpec == Spec /\ Fairness

-----------------------------------------------------------------------------
(* Correctness.                                                            *)

HistoryOK ==
    /\ missed \subseteq Keys
    /\ published \in [Keys -> Nat]
    /\ uncounted \in [Keys -> Nat]
    /\ overlapped \subseteq Walkers

TypeOK ==
    /\ now \in Nat
    /\ alarm \in Nat \cup {None}
    /\ retry \in [Keys -> RetryRecord \cup {None}]
    /\ cooldown \in [Relays -> RelayCooldown \cup {None}]
    /\ gate \in Walkers \cup {None}
    /\ walk \in [Walkers -> Walk]
    /\ enqueues \in Nat
    /\ evictions \in Nat
    /\ HistoryOK

AlarmCovers(t) == alarm # None /\ alarm <= Larger(t, now)

\* "Surviving records reschedule the alarm to their soonest nextAttemptAt"
\* (processRetries) and "the next alarm fires at the soonest nextAttemptAt"
\* (enqueueRetry): whenever no walk is in flight, every queued record has an
\* alarm no later than its own time, however pages, walks, enqueues,
\* reconnects and evictions interleaved - except the records a walk missed,
\* which wait for a later walk to list them.
AlarmCoversQueue ==
    (\A w \in Walkers : ~Walking(w)) =>
        \A k \in Keys \ missed : retry[k] # None => AlarmCovers(retry[k].nextAttemptAt)

(* What makes AlarmCoversQueue inductive: each record is covered by the    *)
(* alarm, or by a walk that has yet to list it, has it in its page         *)
(* unchanged, or carries an `earliest' soon enough.                        *)

\* k sorts after all that w has listed, and w will list on.
Ahead(w, k) ==
    /\ walk[w].more
    /\ walk[w].startAfter = None \/ Before(walk[w].startAfter, k)
    /\ \A l \in Page(w) : Before(l, k)

WalkCovers(w, k) ==
    /\ Walking(w)
    /\ \/ Ahead(w, k)
       \/ walk[w].snap[k] = retry[k]
       \/ walk[w].earliest # None
            /\ walk[w].earliest <= Larger(retry[k].nextAttemptAt, now)

QueueCovered ==
    \A k \in Keys \ missed : retry[k] # None =>
        \/ AlarmCovers(retry[k].nextAttemptAt)
        \/ \E w \in Walkers : WalkCovers(w, k)

WalksStarted == \A w \in Walkers : Walking(w) => walk[w].start <= now

CoverInv == TypeOK /\ WalksStarted /\ QueueCovered

\* A throttle never shortens a relay's cool-down nor lowers its level
\* (nextCooldown), even when the walk that reports it began long ago; only an
\* accept forgets the record.
CooldownOnlyExtended ==
    [][\A r \in Relays :
          cooldown[r] # None /\ cooldown'[r] # None =>
              /\ cooldown'[r].until >= cooldown[r].until
              /\ cooldown'[r].level >= cooldown[r].level]_vars

\* The queue is "deleted on accept / permanent failure / exhaustion"
\* (enqueueRelayRetries in publish.ts): a deleted record comes back without
\* enqueueRetry only by the hand of a walk that ran beside another and had it
\* in its page.
ReturnsOnlyByOverlap ==
    [][enqueues' = enqueues =>
          \A k \in Keys : retry[k] = None /\ retry'[k] # None =>
              \E w \in overlapped : walk[w].snap[k] # None]_vars

\* No publish of a record is forgotten: its publishOnce calls so far are in
\* its attempts, still in flight, cut off by an eviction, or of a walk that
\* another overtook; so RETRY_MAX_ATTEMPTS bounds the publishes of a record
\* from the enqueueRetry that made it to its deletion, but for those two
\* causes, each at its named price.
EveryPublishCounted ==
    \A k \in Keys :
        published[k] <= (IF retry[k] = None THEN RetryMaxAttempts ELSE retry[k].attempts)
                        + InFlight(k) + uncounted[k]

(* What makes both inductive: a walk that runs alone holds what is stored. *)

SnapInv ==
    /\ TypeOK
    /\ \A v, w \in Walkers : v # w /\ Walking(v) /\ Walking(w) => v \in overlapped
    /\ \A w \in Walkers, k \in Keys : walk[w].snap[k] # None =>
          Walking(w) /\ (w \in overlapped \/ retry[k] = walk[w].snap[k])

\* Every queued record leaves the queue: accepted, refused or exhausted.
EveryRecordResolves ==
    \A k \in Keys : retry[k] # None ~> retry[k] = None

=============================================================================
