-------------------------- MODULE RetryQueueProofs --------------------------
(***************************************************************************)
(* Theorems about RetryQueue, for every value of its constants, any number *)
(* of walks that overlap as they like and a queue of any length:           *)
(* TypeCorrect, CooldownsOnlyExtended, AlarmCoversQueueAlways,             *)
(* ReturnsNeedOverlap and PublishesAlwaysCounted.                          *)
(***************************************************************************)
EXTENDS RetryQueue, FiniteSetTheorems, NaturalsInduction, WellFoundedInduction, TLAPS

-----------------------------------------------------------------------------
(* Arithmetic of the cool-downs.                                           *)

\* 2 ** level is a positive number: the number of subsets of a set of `level'
\* elements.
LEMMA PowerOfTwo ==
    ASSUME NEW n \in Nat
    PROVE  2^n \in Nat \ {0}
<1>1. IsFiniteSet(1..n) /\ Cardinality(1..n) = n
  BY FS_Interval
<1>2. IsFiniteSet(SUBSET (1..n)) /\ Cardinality(SUBSET (1..n)) = 2^n
  BY <1>1, FS_SUBSET
<1>3. Cardinality(SUBSET (1..n)) \in Nat
  BY <1>2, FS_CardinalityType
<1>4. Cardinality(SUBSET (1..n)) # 0
  BY <1>2, FS_EmptySet
<1> QED BY <1>2, <1>3, <1>4

\* cooldownDurationMs never returns 0: a throttle always costs the relay time.
LEMMA DurationType ==
    ASSUME NEW level \in Nat
    PROVE  CooldownDurationMs(level) \in Nat \ {0}
<1>1. 2^level \in Nat \ {0}
  BY PowerOfTwo
<1>2. RelayCooldownMs * 2^level \in Nat \ {0}
  <2> DEFINE p == 2^level
  <2>1. p \in Nat \ {0}
    BY <1>1
  <2> HIDE DEF p
  <2>2. RelayCooldownMs * p \in Nat \ {0}
    BY <2>1, CooldownAssumption
  <2> QED BY <2>2 DEF p
<1> QED BY <1>2, CooldownAssumption DEF CooldownDurationMs, Smaller

\* nextCooldown: the record it returns is running at t, ends no earlier than
\* the one before and is at no lower a level.
LEMMA NextCooldownExtends ==
    ASSUME NEW prev \in RelayCooldown \cup {None}, NEW t \in Nat
    PROVE  /\ NextCooldown(prev, t) \in RelayCooldown
           /\ NextCooldown(prev, t).until > t
           /\ prev # None => /\ NextCooldown(prev, t).until >= prev.until
                             /\ NextCooldown(prev, t).level >= prev.level
<1> DEFINE level == IF prev = None THEN 0
                    ELSE Smaller(prev.level + 1, RelayCooldownMaxLevel)
<1>1. level \in 0..RelayCooldownMaxLevel
  BY CooldownAssumption DEF RelayCooldown, Smaller
<1>2. CooldownDurationMs(level) \in Nat \ {0}
  BY <1>1, DurationType, CooldownAssumption
<1>3. CASE prev # None /\ prev.until > t
  BY <1>3 DEF NextCooldown, RelayCooldown
<1>4. CASE ~(prev # None /\ prev.until > t)
  <2>1. NextCooldown(prev, t) = [level |-> level, until |-> t + CooldownDurationMs(level)]
    BY <1>4 DEF NextCooldown
  <2>2. prev # None => level >= prev.level /\ prev.until <= t
    BY <1>4, CooldownAssumption DEF RelayCooldown, Smaller
  <2> HIDE DEF level
  <2>3. NextCooldown(prev, t) \in RelayCooldown
    BY <2>1, <1>1, <1>2 DEF RelayCooldown
  <2> QED BY <2>1, <2>2, <2>3, <1>2, CooldownAssumption DEF RelayCooldown
<1> QED BY <1>3, <1>4

LEMMA AfterCooldownType ==
    ASSUME NEW until \in Nat
    PROVE  AfterCooldown(until) \subseteq Nat
BY RetryAssumption DEF AfterCooldown

LEMMA JitteredBackoffType == ASSUME NEW a PROVE JitteredBackoff(a) \subseteq Nat
BY RetryAssumption DEF JitteredBackoff

\* The alarm after getAlarm / setAlarm: a time, no later than before.
LEMMA SoonerType ==
    ASSUME NEW t \in Nat, NEW e \in Nat \cup {None}
    PROVE  /\ Sooner(t, e) \in Nat
           /\ Sooner(t, e) <= t
           /\ e # None => Sooner(t, e) <= e
BY NoneAssumption DEF Sooner

-----------------------------------------------------------------------------
(* Type correctness.                                                       *)

LEMMA IdleWalkType == IdleWalk \in Walk
BY RetryAssumption, NoneAssumption DEF IdleWalk, Walk, NoPage

LEMMA NewWalkType == ASSUME TypeOK PROVE NewWalk \in Walk
BY IdleWalkType DEF NewWalk, Walk, TypeOK, IdleWalk

LEMMA CooldownUntilType ==
    ASSUME TypeOK, NEW r \in Relays PROVE CooldownUntil(r) \in Nat
BY DEF TypeOK, CooldownUntil, RelayCooldown

LEMMA CooldownOfType ==
    ASSUME TypeOK, NEW w \in Walkers, NEW r \in Relays PROVE CooldownOf(w, r) \in Nat
<1>1. walk[w].known[r] \in Nat \cup {None}
  BY DEF TypeOK, Walk
<1> QED BY <1>1, CooldownUntilType DEF CooldownOf

LEMMA AccountType ==
    ASSUME TypeOK, NEW w \in Walkers, NEW k \in Keys, Account(w, k)
    PROVE  HistoryOK'
BY RetryAssumption DEF Account, TypeOK, HistoryOK

LEMMA HistoryStays == ASSUME HistoryOK, UNCHANGED history PROVE HistoryOK'
BY DEF HistoryOK, history

LEMMA InFlightType ==
    ASSUME NEW k \in Keys
    PROVE  /\ IsFiniteSet({w \in Walkers : walk[w].pc = "await" /\ IsNext(w, k)})
           /\ InFlight(k) \in Nat
<1>1. {w \in Walkers : walk[w].pc = "await" /\ IsNext(w, k)} \subseteq Walkers
  OBVIOUS
<1> QED BY <1>1, WalkersAssumption, FS_Subset, FS_CardinalityType DEF InFlight

LEMMA KeyRelay == ASSUME NEW k \in Keys PROVE k[1] \in Events /\ k[2] \in Relays
BY DEF Keys

\* Visiting a key leaves a well-formed walk.
LEMMA VisitType ==
    ASSUME TypeOK, NEW w \in Walkers, NEW k \in Keys
    PROVE  Visit(w, k) \in Walk
BY ZenonT(30) DEF TypeOK, Visit, Walk

LEMMA AlarmType ==
    ASSUME TypeOK, NEW t \in Nat \cup {None}, SetAlarmNoLater(t)
    PROVE  alarm' \in Nat \cup {None}
BY SoonerType DEF TypeOK, SetAlarmNoLater

LEMMA FirstAttemptTimesType ==
    ASSUME TypeOK, NEW cool \in RelayCooldown \cup {None}
    PROVE  FirstAttemptTimes(cool) \subseteq Nat
<1> DEFINE until == IF cool = None THEN 0 ELSE cool.until
<1>1. until \in Nat
  BY DEF RelayCooldown
<1>2. JitteredBackoff(0) \subseteq Nat /\ AfterCooldown(until) \subseteq Nat
  BY <1>1, AfterCooldownType, JitteredBackoffType
<1> QED BY <1>2 DEF FirstAttemptTimes, TypeOK, Larger

\* What enqueueRetry does to the storage and to the alarm: no pending record
\* is touched, and each new one has an alarm no later than its own time.
LEMMA EnqueueEffect ==
    ASSUME TypeOK, NEW e \in Events, NEW relays \in SUBSET Relays,
           NEW throttled \in SUBSET relays, EnqueueRetry(e, relays, throttled)
    PROVE  /\ cooldown' \in [Relays -> RelayCooldown \cup {None}]
           /\ retry' \in [Keys -> RetryRecord \cup {None}]
           /\ alarm' \in Nat \cup {None}
           /\ alarm # None => alarm' # None /\ alarm' <= alarm
           /\ \A k \in Keys : retry[k] # None => retry'[k] = retry[k]
           /\ \A k \in Keys : retry[k] = None /\ retry'[k] # None =>
                               alarm' # None /\ alarm' <= retry'[k].nextAttemptAt
<1> DEFINE fresh == {r \in relays : retry[<<e, r>>] = None}
           times == [r \in Relays |-> FirstAttemptTimes(Cooldowns(throttled)[r])]
           anytime == UNION {times[r] : r \in fresh}
<1>1. Cooldowns(throttled) \in [Relays -> RelayCooldown \cup {None}]
  BY NextCooldownExtends DEF TypeOK, Cooldowns
<1>2. anytime \subseteq Nat
  <2>1. ASSUME NEW r \in Relays PROVE times[r] \subseteq Nat
    BY <1>1, FirstAttemptTimesType
  <2>2. fresh \subseteq Relays
    OBVIOUS
  <2> HIDE DEF times, fresh
  <2> QED BY <2>1, <2>2
<1>3. PICK at \in [fresh -> anytime] :
         /\ retry' = [k \in Keys |-> IF k[1] = e /\ k[2] \in fresh
                                     THEN [attempts |-> 0, nextAttemptAt |-> at[k[2]]]
                                     ELSE retry[k]]
         /\ IF fresh = {} THEN alarm' = alarm
            ELSE \E r \in fresh : /\ \A q \in fresh : at[r] <= at[q]
                                  /\ SetAlarmNoLater(at[r])
  BY DEF EnqueueRetry
<1>4. cooldown' = Cooldowns(throttled)
  BY DEF EnqueueRetry
<1>5. \A k \in Keys : k[1] = e /\ k[2] \in fresh => retry[k] = None
  <2> TAKE k \in Keys
  <2>1. k = <<k[1], k[2]>>
    BY DEF Keys
  <2> QED BY <2>1
<1> HIDE DEF anytime, fresh, times
<1>6. at \in [fresh -> Nat]
  BY <1>2, <1>3
<1>7. retry' \in [Keys -> RetryRecord \cup {None}]
  BY <1>3, <1>6, RetryAssumption DEF TypeOK, RetryRecord
<1>8. \A k \in Keys : retry[k] # None => retry'[k] = retry[k]
  BY <1>3, <1>5
<1>9. CASE fresh = {}
  <2>1. alarm' = alarm /\ \A k \in Keys : retry'[k] = retry[k]
    BY <1>3, <1>9
  <2> QED BY <2>1, <1>1, <1>4, <1>7 DEF TypeOK
<1>10. CASE fresh # {}
  <2>1. PICK r \in fresh : (\A q \in fresh : at[r] <= at[q]) /\ SetAlarmNoLater(at[r])
    BY <1>3, <1>10
  <2>2. at[r] \in Nat /\ at[r] # None
    BY <1>6, <2>1, NoneAssumption
  <2>3. alarm' = Sooner(at[r], alarm)
    BY <2>1, <2>2 DEF SetAlarmNoLater
  <2>4. /\ alarm' \in Nat
        /\ alarm' <= at[r]
        /\ alarm # None => alarm' <= alarm
    BY <2>2, <2>3, SoonerType DEF TypeOK
  <2>5. ASSUME NEW k \in Keys, retry[k] = None, retry'[k] # None
        PROVE  alarm' <= retry'[k].nextAttemptAt
    <3>1. k[2] \in fresh /\ retry'[k].nextAttemptAt = at[k[2]]
      BY <1>3, <2>5
    <3>2. at[r] <= at[k[2]] /\ at[k[2]] \in Nat
      BY <3>1, <2>1, <1>6
    <3> QED BY <3>1, <3>2, <2>2, <2>4
  <2> QED BY <2>4, <2>5, <1>1, <1>4, <1>7, <1>8, NoneAssumption
<1> QED BY <1>9, <1>10

\* What a transient failure with attempts left does: the record is due again
\* at a time the walk's `earliest' will not miss.
LEMMA RescheduleEffect ==
    ASSUME TypeOK, NEW w \in Walkers, NEW k \in Keys, NEW outcome \in Outcomes,
           Reschedule(w, k, outcome)
    PROVE  /\ TypeOK'
           /\ walk'[w].earliest # None
           /\ walk'[w].earliest <= retry'[k].nextAttemptAt
           /\ retry' = [retry EXCEPT ![k] = retry'[k]]
           /\ \A l \in Keys \ {k} : walk'[w].snap[l] = walk[w].snap[l]
           /\ walk[w].earliest # None => walk'[w].earliest <= walk[w].earliest
           /\ walk'[w].pc = "scan" /\ walk'[w].more = walk[w].more
           /\ walk'[w].start = walk[w].start /\ walk'[w].startAfter = k
           /\ walk' = [walk EXCEPT ![w] = walk'[w]]
<1> DEFINE relay == k[2]
           attempts == walk[w].snap[k].attempts + 1
           started == NextCooldown(cooldown[relay], walk[w].start)
           throttled == outcome = "throttled"
           slack == IF throttled THEN AfterCooldown(started.until) ELSE {0}
<1>1. walk[w].snap[k] \in RetryRecord /\ walk[w].start \in Nat
  BY DEF Reschedule, IsNext, Page, TypeOK, Walk
<1>2. attempts \in 0..(RetryMaxAttempts - 1)
  BY <1>1, RetryAssumption DEF Reschedule, RetryRecord
<1>3. started \in RelayCooldown
  BY <1>1, NextCooldownExtends, KeyRelay DEF TypeOK
<1>4. slack \subseteq Nat
  BY <1>3, AfterCooldownType DEF RelayCooldown
<1>5. PICK b \in JitteredBackoff(attempts), c \in slack :
         LET at == Larger(walk[w].start + b, c)
         IN  /\ retry' = [retry EXCEPT ![k] = [attempts |-> attempts, nextAttemptAt |-> at]]
             /\ walk' = [walk EXCEPT ![w] =
                   [Visit(w, k) EXCEPT
                       !.pc = "scan",
                       !.known[relay] = IF throttled THEN started.until ELSE @,
                       !.earliest = Sooner(at, @)]]
  BY DEF Reschedule
<1> DEFINE at == Larger(walk[w].start + b, c)
<1>6. at \in Nat
  BY <1>1, <1>4, <1>5, JitteredBackoffType DEF Larger
<1>7. cooldown' \in [Relays -> RelayCooldown \cup {None}]
  BY <1>3, KeyRelay DEF Reschedule, TypeOK
<1> HIDE DEF at, attempts, started, slack, relay
<1>8. retry' \in [Keys -> RetryRecord \cup {None}] /\ retry'[k].nextAttemptAt = at
  BY <1>2, <1>5, <1>6 DEF TypeOK, RetryRecord, at
<1>9. /\ Sooner(at, walk[w].earliest) \in Nat
      /\ Sooner(at, walk[w].earliest) <= at
      /\ walk[w].earliest # None => Sooner(at, walk[w].earliest) <= walk[w].earliest
  BY <1>6, SoonerType DEF TypeOK, Walk
<1>10. relay \in Relays /\ started.until \in Nat
  BY <1>3, KeyRelay DEF relay, RelayCooldown
<1> DEFINE next == [Visit(w, k) EXCEPT
                       !.pc = "scan",
                       !.known[relay] = IF throttled THEN started.until ELSE @,
                       !.earliest = Sooner(at, @)]
<1>11. /\ next \in Walk
       /\ next.earliest = Sooner(at, walk[w].earliest)
       /\ next.pc = "scan" /\ next.more = walk[w].more /\ next.start = walk[w].start
       /\ next.startAfter = k
       /\ \A l \in Keys \ {k} : next.snap[l] = walk[w].snap[l]
  <2> DEFINE known == IF throttled THEN started.until ELSE Visit(w, k).known[relay]
             v == Visit(w, k)
  <2>1. v \in Walk
    BY VisitType
  <2>2. /\ v.earliest = walk[w].earliest
        /\ v.more = walk[w].more
        /\ v.start = walk[w].start
        /\ v.startAfter = k
        /\ \A l \in Keys \ {k} : v.snap[l] = walk[w].snap[l]
    BY DEF Visit, TypeOK, Walk
  <2>3. known \in Nat \cup {None}
    BY <2>1, <1>10 DEF Walk
  <2>4. next = [v EXCEPT !.pc = "scan", !.known[relay] = known,
                         !.earliest = Sooner(at, walk[w].earliest)]
    BY <2>2
  <2> HIDE DEF v, known, next
  <2> QED BY <2>1, <2>2, <2>3, <2>4, <1>9, <1>10 DEF Walk
<1>12. walk' = [walk EXCEPT ![w] = next]
  BY <1>5 DEF at
<1> HIDE DEF next
<1>13. walk'[w] = next /\ walk' \in [Walkers -> Walk]
  BY <1>11, <1>12 DEF TypeOK
<1>14. retry' = [retry EXCEPT ![k] = retry'[k]]
  BY <1>5 DEF TypeOK
<1>15. TypeOK'
  BY <1>7, <1>8, <1>13, AccountType DEF Reschedule, TypeOK
<1> QED BY <1>8, <1>9, <1>11, <1>12, <1>13, <1>14, <1>15, NoneAssumption

LEMMA WalkStepType ==
    ASSUME TypeOK, NEW w \in Walkers, WalkStep(w)
    PROVE  TypeOK'
<1>1. CASE ListPage(w)
  <2> DEFINE page == {k \in Unlisted(w) :
                        Cardinality({l \in Unlisted(w) : Before(l, k)}) < RetryListPage}
             snap == [k \in Keys |-> IF k \in page THEN retry[k] ELSE None]
             more == Cardinality(page) = RetryListPage
  <2>1. walk' = [walk EXCEPT ![w].snap = snap, ![w].more = more]
    BY <1>1 DEF ListPage
  <2>2. snap \in [Keys -> RetryRecord \cup {None}] /\ more \in BOOLEAN
    BY DEF TypeOK
  <2> HIDE DEF page, snap, more
  <2>3. [walk[w] EXCEPT !.snap = snap, !.more = more] \in Walk
    BY <2>2, ZenonT(30) DEF TypeOK, Walk
  <2>4. walk' = [walk EXCEPT ![w] = [walk[w] EXCEPT !.snap = snap, !.more = more]]
    BY <2>1 DEF TypeOK, Walk
  <2>5. HistoryOK'
    BY <1>1 DEF ListPage, TypeOK, HistoryOK
  <2> QED BY <2>3, <2>4, <2>5, <1>1 DEF ListPage, TypeOK
<1>2. ASSUME NEW k \in Keys, VisitNotDue(w, k) PROVE TypeOK'
  <2> DEFINE t == walk[w].snap[k].nextAttemptAt
  <2>1. walk[w].snap[k] \in RetryRecord
    BY <1>2 DEF VisitNotDue, IsNext, Page, TypeOK, Walk
  <2>2. Sooner(t, walk[w].earliest) \in Nat
    BY <2>1, SoonerType DEF RetryRecord, TypeOK, Walk
  <2>3. [Visit(w, k) EXCEPT !.earliest = Sooner(t, @)] \in Walk
    BY <2>2, VisitType DEF Walk, Visit
  <2> QED BY <2>3, <1>2, HistoryStays DEF VisitNotDue, TypeOK
<1>3. ASSUME NEW k \in Keys, VisitOverBudget(w, k) PROVE TypeOK'
  <2> DEFINE v == walk[w]
             snap == NoPage
  <2>a. v \in Walk
    BY DEF TypeOK
  <2>b. snap \in [Keys -> RetryRecord \cup {None}]
    BY DEF NoPage
  <2>c. v.start \in Nat
    BY <2>a DEF Walk
  <2> HIDE DEF v, snap
  <2>d. [v EXCEPT !.snap = snap, !.startAfter = k, !.more = FALSE,
                  !.earliest = v.start] \in Walk
    BY <2>a, <2>b, <2>c DEF Walk
  <2>1. [walk[w] EXCEPT !.snap = NoPage, !.startAfter = k, !.more = FALSE,
                        !.earliest = walk[w].start] \in Walk
    BY <2>d DEF v, snap
  <2> QED BY <2>1, <1>3, HistoryStays DEF VisitOverBudget, TypeOK
<1>4. ASSUME NEW k \in Keys, VisitCooling(w, k) PROVE TypeOK'
  <2> DEFINE cooling == CooldownOf(w, k[2])
  <2>1. cooling \in Nat
    BY CooldownOfType, KeyRelay
  <2> HIDE DEF cooling
  <2>2. PICK deferredTo \in AfterCooldown(cooling) :
          /\ retry' = [retry EXCEPT ![k] = [walk[w].snap[k] EXCEPT !.nextAttemptAt = deferredTo]]
          /\ walk' = [walk EXCEPT ![w] =
                [Visit(w, k) EXCEPT !.known[k[2]] = cooling, !.earliest = Sooner(deferredTo, @)]]
    BY <1>4 DEF VisitCooling, cooling
  <2>3. deferredTo \in Nat
    BY <2>1, <2>2, AfterCooldownType
  <2>4. walk[w].snap[k] \in RetryRecord
    BY <1>4 DEF VisitCooling, IsNext, Page, TypeOK, Walk
  <2>5. retry' \in [Keys -> RetryRecord \cup {None}]
    BY <2>2, <2>3, <2>4 DEF TypeOK, RetryRecord
  <2>6. Sooner(deferredTo, walk[w].earliest) \in Nat
    BY <2>3, SoonerType DEF TypeOK, Walk
  <2>7. [Visit(w, k) EXCEPT !.known[k[2]] = cooling, !.earliest = Sooner(deferredTo, @)] \in Walk
    BY <2>1, <2>6, VisitType, KeyRelay, ZenonT(30) DEF Walk, Visit
  <2> QED BY <2>2, <2>5, <2>7, <1>4, AccountType DEF VisitCooling, TypeOK
<1>5. ASSUME NEW k \in Keys, Attempt(w, k) PROVE TypeOK'
  <2> DEFINE cooling == CooldownOf(w, k[2])
  <2>1. cooling \in Nat
    BY CooldownOfType, KeyRelay
  <2> HIDE DEF cooling
  <2>2. walk[w].processed + 1 \in 0..RetryBatch
    BY <1>5, RetryAssumption DEF Attempt, TypeOK, Walk
  <2>3. [walk[w] EXCEPT !.pc = "await", !.processed = @ + 1, !.known[k[2]] = cooling] \in Walk
    <3> DEFINE v == walk[w]
               known == [v.known EXCEPT ![k[2]] = cooling]
               processed == v.processed + 1
    <3>1. v \in Walk
      BY DEF TypeOK
    <3>2. known \in [Relays -> Nat \cup {None}]
      BY <2>1, <3>1 DEF Walk
    <3>3. processed \in 0..RetryBatch
      BY <2>2
    <3> HIDE DEF v, known, processed
    <3>4. [v EXCEPT !.pc = "await", !.processed = processed, !.known = known] \in Walk
      BY <3>1, <3>2, <3>3 DEF Walk
    <3> QED
      BY <3>4 DEF v, known, processed
  <2>4. walk' = [walk EXCEPT ![w] = [walk[w] EXCEPT !.pc = "await", !.processed = @ + 1,
                                                    !.known[k[2]] = cooling]]
    BY <1>5 DEF Attempt, TypeOK, cooling
  <2>5. walk' \in [Walkers -> Walk]
    BY <2>3, <2>4 DEF TypeOK
  <2>6. HistoryOK'
    BY <1>5 DEF Attempt, TypeOK, HistoryOK
  <2> QED BY <2>5, <2>6, <1>5 DEF Attempt, TypeOK
<1>6. ASSUME NEW k \in Keys, NEW outcome \in Outcomes, Settled(w, k, outcome) PROVE TypeOK'
  <2> DEFINE forget == outcome = "accepted" /\ walk[w].known[k[2]] > 0
             v == Visit(w, k)
             known == IF forget THEN 0 ELSE v.known[k[2]]
  <2>1. [v EXCEPT !.pc = "scan", !.known[k[2]] = IF forget THEN 0 ELSE @] \in Walk
    <3>1. v \in Walk /\ k[2] \in Relays
      BY VisitType, KeyRelay
    <3>2. known \in Nat \cup {None}
      BY <3>1 DEF Walk
    <3> HIDE DEF v, forget
    <3> QED BY <3>1, <3>2 DEF Walk
  <2>2. retry' \in [Keys -> RetryRecord \cup {None}]
    BY <1>6 DEF Settled, TypeOK
  <2>3. cooldown' \in [Relays -> RelayCooldown \cup {None}]
    BY <1>6, KeyRelay DEF Settled, TypeOK
  <2> QED BY <2>1, <2>2, <2>3, <1>6, AccountType DEF Settled, TypeOK
<1>7. ASSUME NEW k \in Keys, NEW outcome \in Outcomes, Exhausted(w, k, outcome) PROVE TypeOK'
  <2>1. [Visit(w, k) EXCEPT !.pc = "scan"] \in Walk
    BY VisitType DEF Walk
  <2> QED BY <2>1, <1>7, AccountType DEF Exhausted, TypeOK
<1>8. ASSUME NEW k \in Keys, NEW outcome \in Outcomes, Reschedule(w, k, outcome) PROVE TypeOK'
  BY <1>8, RescheduleEffect
<1>9. CASE FinishWalk(w)
  <2>1. [IdleWalk EXCEPT !.pc = IF w = AlarmHandler THEN "connect" ELSE "idle"] \in Walk
    BY IdleWalkType DEF Walk
  <2>2. alarm' \in Nat \cup {None}
    BY <1>9, AlarmType DEF FinishWalk, TypeOK, Walk
  <2>3. HistoryOK'
    BY <1>9 DEF FinishWalk, TypeOK, HistoryOK, Unlisted
  <2> QED BY <2>1, <2>2, <2>3, <1>9 DEF FinishWalk, TypeOK
<1> QED BY <1>1, <1>2, <1>3, <1>4, <1>5, <1>6, <1>7, <1>8, <1>9 DEF WalkStep

\* Every variable keeps its type: in particular a queued record has fewer
\* than RETRY_MAX_ATTEMPTS attempts and a walk starts at most RETRY_BATCH
\* publishes, in every interleaving of walks, enqueues and evictions.
THEOREM TypeCorrect == Spec => []TypeOK
<1>1. Init => TypeOK
  <2> SUFFICES ASSUME Init PROVE TypeOK
    OBVIOUS
  <2>1. walk \in [Walkers -> Walk]
    BY IdleWalkType DEF Init
  <2> QED BY <2>1 DEF Init, TypeOK, HistoryOK
<1>2. TypeOK /\ [Next]_vars => TypeOK'
  <2> SUFFICES ASSUME TypeOK, [Next]_vars PROVE TypeOK'
    OBVIOUS
  <2>1. CASE Tick
    BY <2>1, HistoryStays DEF Tick, TypeOK
  <2>2. ASSUME NEW e \in Events, NEW relays \in SUBSET Relays,
               NEW throttled \in SUBSET relays, EnqueueRetry(e, relays, throttled)
        PROVE  TypeOK'
    <3>1. /\ cooldown' \in [Relays -> RelayCooldown \cup {None}]
          /\ retry' \in [Keys -> RetryRecord \cup {None}]
          /\ alarm' \in Nat \cup {None}
      BY <2>2, EnqueueEffect
    <3>2. enqueues' = enqueues + 1 /\ UNCHANGED <<now, gate, walk, evictions>>
      BY <2>2 DEF EnqueueRetry
    <3>3. HistoryOK'
      BY <2>2 DEF EnqueueRetry, TypeOK, HistoryOK
    <3> QED BY <3>1, <3>2, <3>3 DEF TypeOK
  <2>3. CASE ScheduleReconnect
    <3>1. PICK d \in ReconnectDelays : SetAlarmNoLater(now + d)
      BY <2>3 DEF ScheduleReconnect
    <3>2. now + d \in Nat
      BY BoundsAssumption DEF TypeOK
    <3> QED BY <3>1, <3>2, <2>3, AlarmType, HistoryStays DEF ScheduleReconnect, TypeOK
  <2>4. CASE FireAlarm
    BY <2>4, NewWalkType, WalkersAssumption DEF FireAlarm, TypeOK, HistoryOK, Overlap, Others
  <2>5. ASSUME NEW w \in Walkers, StartSweep(w) PROVE TypeOK'
    BY <2>5, NewWalkType DEF StartSweep, TypeOK, HistoryOK, Overlap, Others
  <2>6. ASSUME NEW w \in Walkers, WalkStep(w) PROVE TypeOK'
    BY <2>6, WalkStepType
  <2>7. CASE EndAlarm
    BY <2>7, IdleWalkType, HistoryStays DEF EndAlarm, TypeOK
  <2>8. CASE Evict
    <3>1. walk' \in [Walkers -> Walk]
      BY <2>8, IdleWalkType DEF Evict
    <3>2. alarm' \in Nat \cup {None}
      BY <2>8, SoonerType DEF Evict, TypeOK
    <3>3. \A k \in Keys : uncounted[k] + InFlight(k) \in Nat
      <4>1. \A k \in Keys : InFlight(k) \in Nat
        BY InFlightType
      <4> QED BY <4>1 DEF TypeOK, HistoryOK
    <3>4. HistoryOK'
      BY <2>8, <3>3 DEF Evict, TypeOK, HistoryOK
    <3> QED BY <3>1, <3>2, <3>4, <2>8 DEF Evict, TypeOK
  <2>9. CASE UNCHANGED vars
    BY <2>9, HistoryStays DEF vars, TypeOK
  <2> QED BY <2>1, <2>2, <2>3, <2>4, <2>5, <2>6, <2>7, <2>8, <2>9 DEF Next
<1> QED BY <1>1, <1>2, PTL DEF Spec

\* No throttle reply shortens a cool-down or lowers its level, whichever
\* handler reports it and however stale that handler's clock is.
THEOREM CooldownsOnlyExtended == Spec => CooldownOnlyExtended
<1> DEFINE Extended ==
      \A r \in Relays : cooldown[r] # None /\ cooldown'[r] # None =>
          /\ cooldown'[r].until >= cooldown[r].until
          /\ cooldown'[r].level >= cooldown[r].level
<1>1. TypeOK /\ [Next]_vars => [Extended]_vars
  <2> SUFFICES ASSUME TypeOK, [Next]_vars PROVE Extended
    OBVIOUS
  <2>1. \A r \in Relays : cooldown[r] # None =>
           cooldown[r].until \in Nat /\ cooldown[r].level \in Nat
    BY DEF TypeOK, RelayCooldown
  <2>2. ASSUME UNCHANGED cooldown PROVE Extended
    BY <2>1, <2>2
  <2>3. ASSUME NEW e \in Events, NEW relays \in SUBSET Relays,
               NEW throttled \in SUBSET relays, EnqueueRetry(e, relays, throttled)
        PROVE  Extended
    <3>1. cooldown' = Cooldowns(throttled)
      BY <2>3 DEF EnqueueRetry
    <3> QED BY <2>1, <3>1, NextCooldownExtends DEF TypeOK, Cooldowns
  <2>4. ASSUME NEW w \in Walkers, NEW k \in Keys, NEW outcome \in Outcomes,
               Settled(w, k, outcome)
        PROVE  Extended
    BY <2>1, <2>4 DEF Settled, TypeOK
  <2>5. ASSUME NEW w \in Walkers, NEW k \in Keys, NEW outcome \in Outcomes,
               Reschedule(w, k, outcome)
        PROVE  Extended
    <3>1. walk[w].start \in Nat
      BY DEF TypeOK, Walk
    <3>2. \/ UNCHANGED cooldown
          \/ cooldown' = [cooldown EXCEPT ![k[2]] = NextCooldown(cooldown[k[2]], walk[w].start)]
      BY <2>5 DEF Reschedule
    <3> DEFINE relay == k[2]
               next == NextCooldown(cooldown[relay], walk[w].start)
    <3>3. relay \in Relays
      BY KeyRelay
    <3>4. cooldown[relay] # None =>
             next.until >= cooldown[relay].until /\ next.level >= cooldown[relay].level
      BY <3>1, <3>3, NextCooldownExtends DEF TypeOK
    <3> HIDE DEF next, relay
    <3>5. CASE cooldown' = [cooldown EXCEPT ![relay] = next]
      BY <2>1, <3>3, <3>4, <3>5 DEF TypeOK
    <3> QED BY <2>2, <3>2, <3>5 DEF next, relay
  <2>6. ASSUME NEW w \in Walkers, WalkStep(w) PROVE Extended
    BY <2>2, <2>4, <2>5, <2>6
       DEF WalkStep, ListPage, VisitNotDue, VisitOverBudget, VisitCooling, Attempt,
           Exhausted, FinishWalk
  <2> QED BY <2>2, <2>3, <2>6
          DEF Next, vars, Tick, ScheduleReconnect, FireAlarm, StartSweep, EndAlarm, Evict
<1> QED BY <1>1, TypeCorrect, PTL DEF Spec, CooldownOnlyExtended

-----------------------------------------------------------------------------
(* The order of storage.list, and its pages.                               *)

LEMMA KeyOrder ==
    /\ \A k \in Keys : ~Before(k, k)
    /\ \A k, l \in Keys : k # l => Before(k, l) \/ Before(l, k)
    /\ \A k, l, m \in Keys : Before(k, l) /\ Before(l, m) => Before(k, m)
<1>1. \A k \in Keys : k[1] \in Nat /\ k[2] \in Nat /\ k = <<k[1], k[2]>>
  <2> TAKE k \in Keys
  <2>1. k = <<k[1], k[2]>>
    BY DEF Keys
  <2> QED BY <2>1, KeyRelay, IdsAssumption
<1>2. \A k, l \in Keys : k # l => k[1] # l[1] \/ k[2] # l[2]
  <2> TAKE k, l \in Keys
  <2>1. k = <<k[1], k[2]>> /\ l = <<l[1], l[2]>>
    BY <1>1
  <2> QED BY <2>1
<1>3. \A k, l \in Keys : k # l => Before(k, l) \/ Before(l, k)
  BY <1>1, <1>2 DEF Before
<1> QED BY <1>1, <1>3 DEF Before

LEMMA KeySetsFinite ==
    ASSUME NEW S \in SUBSET Keys
    PROVE  IsFiniteSet(S) /\ Cardinality(S) \in Nat
<1>1. IsFiniteSet(Keys)
  BY FiniteAssumption, FS_Product DEF Keys
<1> QED BY <1>1, FS_Subset, FS_CardinalityType

\* Of some keys, the first along a strict total order of them is the one with
\* the fewest before it.
LEMMA FirstAlong ==
    ASSUME NEW R, NEW S \in SUBSET Keys, S # {},
           \A k \in Keys : <<k, k>> \notin R,
           \A k, l \in Keys : k # l => <<k, l>> \in R \/ <<l, k>> \in R,
           \A k, l, m \in Keys : <<k, l>> \in R /\ <<l, m>> \in R => <<k, m>> \in R
    PROVE  \E x \in S : \A y \in S \ {x} : <<x, y>> \in R
<1> DEFINE Pred(x) == {y \in S : <<y, x>> \in R}
           Counts == {Cardinality(Pred(x)) : x \in S}
<1>1. \A x \in S : Pred(x) \in SUBSET Keys
  OBVIOUS
<1>2. \A x \in S : IsFiniteSet(Pred(x)) /\ Cardinality(Pred(x)) \in Nat
  BY <1>1, KeySetsFinite
<1>3. Counts \subseteq Nat /\ Counts # {}
  <2> HIDE DEF Pred
  <2> QED BY <1>2
<1>4. PICK n \in Counts : \A m \in Counts : <<m, n>> \notin OpToRel(<, Nat)
  <2>1. IsWellFoundedOn(OpToRel(<, Nat), Nat)
    BY NatLessThanWellFounded
  <2> HIDE DEF OpToRel, Counts
  <2> QED BY <1>3, <2>1, WFMin
<1>5. PICK x \in S : n = Cardinality(Pred(x))
  OBVIOUS
<1>6. ASSUME NEW y \in S, <<y, x>> \in R PROVE FALSE
  <2>1. Pred(y) \in SUBSET (Pred(x) \ {y})
    BY <1>6
  <2>2. y \in Pred(x)
    BY <1>6
  <2> HIDE DEF Pred
  <2>3. Cardinality(Pred(x) \ {y}) = n - 1 /\ IsFiniteSet(Pred(x) \ {y})
    BY <1>2, <1>5, <2>2, FS_RemoveElement
  <2>4. Cardinality(Pred(y)) <= Cardinality(Pred(x) \ {y})
    BY <2>1, <2>3, FS_Subset
  <2>5. Cardinality(Pred(y)) < n /\ Cardinality(Pred(y)) \in Nat /\ n \in Nat
    BY <1>2, <1>5, <2>3, <2>4
  <2>6. <<Cardinality(Pred(y)), n>> \in OpToRel(<, Nat)
    BY <2>5 DEF OpToRel
  <2>7. Cardinality(Pred(y)) \in Counts
    OBVIOUS
  <2> QED BY <1>4, <2>6, <2>7
<1> QED BY <1>6

\* What a page leaves out: if storage.list does not return a key of the range,
\* the page is full and the key sorts after all of it.
LEMMA BeyondThePage ==
    ASSUME NEW U \in SUBSET Keys, NEW k \in U,
           Cardinality({l \in U : Before(l, k)}) >= RetryListPage
    PROVE  LET page == {m \in U : Cardinality({l \in U : Before(l, m)}) < RetryListPage}
           IN  /\ Cardinality(page) = RetryListPage
               /\ \A m \in page : Before(m, k)
<1> DEFINE Pred(m) == {l \in U : Before(l, m)}
           page == {m \in U : Cardinality(Pred(m)) < RetryListPage}
           rest == U \ page
<1>1. \A m \in U : Pred(m) \in SUBSET Keys
  OBVIOUS
<1>2. \A m \in U : IsFiniteSet(Pred(m)) /\ Cardinality(Pred(m)) \in Nat
  BY <1>1, KeySetsFinite
<1>3. k \in rest /\ RetryListPage \in Nat
  BY <1>2, RetryAssumption
<1>4. ASSUME NEW x \in rest, NEW m \in page PROVE Before(m, x)
  <2>1. SUFFICES ASSUME Before(x, m) PROVE FALSE
    BY <1>4, KeyOrder
  <2>2. Pred(x) \subseteq Pred(m)
    BY <2>1, KeyOrder
  <2> HIDE DEF Pred
  <2>3. Cardinality(Pred(x)) <= Cardinality(Pred(m))
    BY <1>2, <2>2, FS_Subset
  <2> QED BY <1>2, <1>3, <2>3
<1> DEFINE R == {p \in Keys \X Keys : Before(p[1], p[2])}
           Back == {p \in Keys \X Keys : Before(p[2], p[1])}
<1>5. PICK x \in rest : \A y \in rest \ {x} : Before(x, y)
  <2>1. /\ \A a \in Keys : <<a, a>> \notin R
        /\ \A a, b \in Keys : a # b => <<a, b>> \in R \/ <<b, a>> \in R
        /\ \A a, b, c \in Keys : <<a, b>> \in R /\ <<b, c>> \in R => <<a, c>> \in R
    BY KeyOrder
  <2>2. rest \in SUBSET Keys /\ rest # {}
    BY <1>3
  <2> HIDE DEF R, rest
  <2>3. \E z \in rest : \A y \in rest \ {z} : <<z, y>> \in R
    BY <2>1, <2>2, FirstAlong
  <2> QED BY <2>3 DEF R
<1>6. Pred(x) = page
  <2>1. page \subseteq Pred(x)
    BY <1>4
  <2>2. Pred(x) \subseteq page
    <3> SUFFICES ASSUME NEW y \in U, Before(y, x), y \in rest PROVE FALSE
      OBVIOUS
    <3>1. y # x
      BY KeyOrder
    <3>2. Before(x, y)
      BY <1>5, <3>1
    <3> QED BY <3>2, KeyOrder
  <2> QED BY <2>1, <2>2
<1>7. page \in SUBSET Keys
  OBVIOUS
<1>8. IsFiniteSet(page) /\ Cardinality(page) \in Nat /\ Cardinality(page) >= RetryListPage
  <2>1. Cardinality(Pred(x)) >= RetryListPage
    BY <1>2, <1>3
  <2> QED BY <1>6, <1>7, <2>1, KeySetsFinite
<1>9. Cardinality(page) <= RetryListPage
  <2>1. CASE page = {}
    <3> HIDE DEF page
    <3>1. Cardinality(page) = 0
      BY <2>1, FS_EmptySet
    <3> QED BY <1>3, <3>1
  <2>2. CASE page # {}
    <3>1. PICK z \in page : \A y \in page \ {z} : Before(y, z)
      <4>1. /\ \A a \in Keys : <<a, a>> \notin Back
            /\ \A a, b \in Keys : a # b => <<a, b>> \in Back \/ <<b, a>> \in Back
            /\ \A a, b, c \in Keys : <<a, b>> \in Back /\ <<b, c>> \in Back => <<a, c>> \in Back
        BY KeyOrder
      <4> HIDE DEF Back, page
      <4>2. \E z \in page : \A y \in page \ {z} : <<z, y>> \in Back
        BY <1>7, <2>2, <4>1, FirstAlong
      <4> QED BY <4>2 DEF Back
    <3>2. page \ {z} \subseteq Pred(z)
      BY <3>1
    <3>3. Cardinality(Pred(z)) < RetryListPage /\ z \in U
      OBVIOUS
    <3> HIDE DEF Pred, page
    <3>4. Cardinality(page \ {z}) <= Cardinality(Pred(z))
      BY <1>2, <3>2, <3>3, FS_Subset
    <3>5. Cardinality(page \ {z}) = Cardinality(page) - 1
      BY <1>8, FS_RemoveElement
    <3> QED BY <1>2, <1>3, <1>8, <3>3, <3>4, <3>5
  <2> QED BY <2>1, <2>2
<1>10. \A m \in page : Before(m, k)
  BY <1>3, <1>4
<1> QED BY <1>3, <1>8, <1>9, <1>10

-----------------------------------------------------------------------------
(* The alarm covers the queue.                                             *)

\* A step of one walk that leaves the alarm alone keeps the queue covered if
\* that walk answers for every record it covered before, has just written or
\* has just listed.
LEMMA OneWalkStep ==
    ASSUME TypeOK, QueueCovered, UNCHANGED <<now, alarm>>,
           NEW w \in Walkers, walk' = [walk EXCEPT ![w] = walk'[w]],
           \A l \in Keys \ missed' :
               retry'[l] # None /\ (l \in missed \/ retry'[l] # retry[l] \/ WalkCovers(w, l))
                  => WalkCovers(w, l)'
    PROVE  QueueCovered'
<1> SUFFICES ASSUME NEW l \in Keys \ missed', retry'[l] # None
             PROVE  \/ AlarmCovers(retry[l].nextAttemptAt)'
                    \/ \E v \in Walkers : WalkCovers(v, l)'
  BY DEF QueueCovered
<1>1. CASE l \in missed \/ retry'[l] # retry[l] \/ WalkCovers(w, l)
  BY <1>1
<1>2. CASE retry'[l] = retry[l] /\ AlarmCovers(retry[l].nextAttemptAt)
  BY <1>2 DEF AlarmCovers
<1>3. CASE retry'[l] = retry[l] /\ \E v \in Walkers \ {w} : WalkCovers(v, l)
  <2>1. PICK v \in Walkers \ {w} : WalkCovers(v, l)
    BY <1>3
  <2>2. walk'[v] = walk[v]
    BY <2>1 DEF TypeOK
  <2>3. WalkCovers(v, l)'
    BY <2>1, <2>2, <1>3 DEF WalkCovers, Walking, Ahead, Page
  <2> QED BY <2>1, <2>3
<1> QED BY <1>1, <1>2, <1>3 DEF QueueCovered

\* WalksStarted over a step of one walk.
LEMMA OneWalkStarted ==
    ASSUME TypeOK, WalksStarted, now' = now,
           NEW w \in Walkers, walk' = [walk EXCEPT ![w] = walk'[w]],
           walk'[w].start = walk[w].start, Walking(w)
    PROVE  WalksStarted'
BY DEF WalksStarted, TypeOK, Walking

\* After visiting k, the page holds what it held elsewhere.
LEMMA VisitSnap ==
    ASSUME TypeOK, NEW w \in Walkers, NEW k \in Keys
    PROVE  /\ \A l \in Keys \ {k} : Visit(w, k).snap[l] = walk[w].snap[l]
           /\ Visit(w, k).snap[k] = None
           /\ Visit(w, k).earliest = walk[w].earliest
           /\ Visit(w, k).start = walk[w].start
           /\ Visit(w, k).more = walk[w].more
           /\ Visit(w, k).startAfter = k
           /\ Visit(w, k).pc = walk[w].pc
BY DEF TypeOK, Walk, Visit

\* What a walk has in its page is not ahead of it.
LEMMA NotAhead ==
    ASSUME NEW w \in Walkers, NEW k \in Keys, IsNext(w, k)
    PROVE  ~Ahead(w, k)
BY KeyOrder DEF Ahead, IsNext

LEMMA ListPageCovers ==
    ASSUME CoverInv, NEW w \in Walkers, ListPage(w)
    PROVE  WalksStarted' /\ QueueCovered'
<1> DEFINE page == {k \in Unlisted(w) :
                      Cardinality({l \in Unlisted(w) : Before(l, k)}) < RetryListPage}
           next == [walk[w] EXCEPT !.snap = [k \in Keys |-> IF k \in page THEN retry[k] ELSE None],
                                   !.more = Cardinality(page) = RetryListPage]
<1>1. /\ TypeOK /\ WalksStarted /\ QueueCovered
      /\ Walking(w) /\ walk[w].more /\ Page(w) = {}
  BY DEF CoverInv, ListPage, Scanning, Walking
<1>2. walk' = [walk EXCEPT ![w] = next]
  BY <1>1 DEF ListPage, TypeOK
<1>3. /\ \A l \in Keys : next.snap[l] = IF l \in page THEN retry[l] ELSE None
      /\ next.more = (Cardinality(page) = RetryListPage)
      /\ next.pc = walk[w].pc /\ next.start = walk[w].start
      /\ next.startAfter = walk[w].startAfter /\ next.earliest = walk[w].earliest
  BY <1>1 DEF TypeOK, Walk
<1>4. page \subseteq Unlisted(w) /\ Unlisted(w) \subseteq Keys
      /\ \A l \in page : retry[l] # None
  BY DEF Unlisted
<1>5. ASSUME NEW l \in Unlisted(w), l \notin page
      PROVE  Cardinality(page) = RetryListPage /\ \A m \in page : Before(m, l)
  <2>1. Cardinality({m \in Unlisted(w) : Before(m, l)}) >= RetryListPage
    <3>1. {m \in Unlisted(w) : Before(m, l)} \in SUBSET Keys
      BY <1>4
    <3>2. Cardinality({m \in Unlisted(w) : Before(m, l)}) \in Nat
      BY <3>1, KeySetsFinite
    <3> QED BY <3>2, <1>5, RetryAssumption
  <2> QED BY <1>4, <2>1, BeyondThePage
<1>6. missed' = missed \ page
  BY DEF ListPage
<1> HIDE DEF next, page
<1>7. walk'[w] = next /\ retry' = retry /\ UNCHANGED <<now, alarm>>
  BY <1>1, <1>2 DEF ListPage, TypeOK
<1>8. Page(w)' = page
  BY <1>3, <1>4, <1>7 DEF Page
<1>9. ASSUME NEW l \in Keys \ missed', retry[l] # None, l \in missed \/ WalkCovers(w, l)
      PROVE  WalkCovers(w, l)'
  <2>1. CASE l \in page
    BY <1>1, <1>3, <1>7, <2>1 DEF WalkCovers, Walking
  <2>2. CASE l \notin page /\ l \in Unlisted(w)
    <3>1. Ahead(w, l)'
      BY <1>3, <1>5, <1>7, <1>8, <2>2 DEF Ahead, Unlisted
    <3> QED BY <1>1, <1>3, <1>7, <3>1 DEF WalkCovers, Walking
  <2>3. CASE l \notin Unlisted(w)
    <3>1. WalkCovers(w, l) /\ ~Ahead(w, l) /\ walk[w].snap[l] = None
      BY <1>1, <1>4, <1>6, <1>9, <2>3 DEF Ahead, Unlisted, Page
    <3> QED BY <1>1, <1>3, <1>7, <1>9, <3>1 DEF WalkCovers, Walking
  <2> QED BY <2>1, <2>2, <2>3
<1>10. WalksStarted'
  BY <1>1, <1>2, <1>3, <1>7, OneWalkStarted
<1>11. QueueCovered'
  BY <1>1, <1>2, <1>7, <1>9, OneWalkStep
<1> QED BY <1>10, <1>11

\* A step of walk w that visits k: it keeps the rest of its page, lets its
\* `earliest' only fall, and answers for k.
LEMMA VisitCovers ==
    ASSUME CoverInv, NEW w \in Walkers, NEW k \in Keys, IsNext(w, k), Walking(w),
           UNCHANGED <<now, alarm, missed>>,
           walk' = [walk EXCEPT ![w] = walk'[w]],
           walk'[w].startAfter \in {walk[w].startAfter, k},
           \A l \in Keys \ {k} : retry'[l] = retry[l] /\ walk'[w].snap[l] = walk[w].snap[l],
           walk'[w].pc \in {"scan", "await"},
           walk'[w].more = walk[w].more,
           walk'[w].start = walk[w].start,
           walk'[w].earliest \in Nat \cup {None},
           walk[w].earliest # None => walk'[w].earliest # None
                                      /\ walk'[w].earliest <= walk[w].earliest,
           retry'[k] # None /\ (retry'[k] # retry[k] \/ WalkCovers(w, k)) => WalkCovers(w, k)'
    PROVE  WalksStarted' /\ QueueCovered'
<1>1. TypeOK /\ WalksStarted /\ QueueCovered
  BY DEF CoverInv
<1>2. k \in Page(w) /\ Page(w)' \subseteq Page(w)
  BY DEF IsNext, Page
<1>3. WalksStarted'
  BY <1>1, OneWalkStarted
<1>4. ASSUME NEW l \in Keys \ missed', retry'[l] # None, retry'[l] # retry[l] \/ WalkCovers(w, l)
      PROVE  WalkCovers(w, l)'
  <2>1. CASE l = k
    BY <2>1, <1>4
  <2>2. CASE l # k
    <3>1. retry'[l] = retry[l] /\ walk'[w].snap[l] = walk[w].snap[l] /\ WalkCovers(w, l)
      BY <2>2, <1>4
    <3>2. retry[l].nextAttemptAt \in Nat /\ now \in Nat
          /\ walk[w].earliest \in Nat \cup {None}
      BY <1>1, <1>4, <3>1 DEF TypeOK, RetryRecord, Walk
    <3>3. Ahead(w, l) => Ahead(w, l)'
      BY <1>2 DEF Ahead
    <3> QED BY <3>1, <3>2, <3>3, NoneAssumption DEF WalkCovers, Walking, Larger
  <2> QED BY <2>1, <2>2
<1>5. \A l \in Keys \ missed' :
         retry'[l] # None /\ (l \in missed \/ retry'[l] # retry[l] \/ WalkCovers(w, l))
            => WalkCovers(w, l)'
  BY <1>4
<1> QED BY <1>1, <1>3, <1>5, OneWalkStep

LEMMA WalkStepCovers ==
    ASSUME CoverInv, TypeOK', NEW w \in Walkers, NEW k \in Keys,
           \/ VisitNotDue(w, k) \/ VisitOverBudget(w, k) \/ VisitCooling(w, k) \/ Attempt(w, k)
           \/ \E outcome \in Outcomes : \/ Settled(w, k, outcome)
                                        \/ Exhausted(w, k, outcome)
                                        \/ Reschedule(w, k, outcome)
    PROVE  WalksStarted' /\ QueueCovered'
<1>1. /\ TypeOK /\ WalksStarted /\ QueueCovered
      /\ Walking(w) /\ IsNext(w, k)
      /\ UNCHANGED <<now, alarm, missed>>
  BY DEF CoverInv, VisitNotDue, VisitOverBudget, VisitCooling, Attempt, Settled, Exhausted,
         Reschedule, Scanning, Walking, Account, history
<1>2. ~Ahead(w, k) /\ walk[w].start <= now
  BY <1>1, NotAhead DEF WalksStarted
<1>3. /\ walk[w].snap[k] \in RetryRecord
      /\ walk[w].earliest \in Nat \cup {None}
      /\ walk[w].start \in Nat /\ now \in Nat
      /\ retry[k] # None => retry[k].nextAttemptAt \in Nat
  BY <1>1 DEF IsNext, Page, TypeOK, Walk, RetryRecord
<1>4. CASE VisitNotDue(w, k)
  <2> DEFINE t == walk[w].snap[k].nextAttemptAt
             next == [Visit(w, k) EXCEPT !.earliest = Sooner(t, walk[w].earliest)]
  <2>1. walk' = [walk EXCEPT ![w] = next] /\ retry' = retry
    BY <1>1, <1>4, VisitSnap DEF VisitNotDue
  <2>2. /\ Sooner(t, walk[w].earliest) \in Nat
        /\ Sooner(t, walk[w].earliest) <= t
        /\ walk[w].earliest # None => Sooner(t, walk[w].earliest) <= walk[w].earliest
    BY <1>3, SoonerType DEF RetryRecord
  <2>3. /\ \A l \in Keys \ {k} : next.snap[l] = walk[w].snap[l]
        /\ next.earliest = Sooner(t, walk[w].earliest)
        /\ next.start = walk[w].start /\ next.more = walk[w].more
        /\ next.startAfter = k
        /\ next.pc = walk[w].pc
    BY <1>1, VisitSnap, VisitType DEF Walk
  <2> HIDE DEF next
  <2>4. walk'[w] = next
    BY <1>1, <2>1 DEF TypeOK
  <2>5. retry'[k] # None /\ WalkCovers(w, k) => WalkCovers(w, k)'
    BY <1>1, <1>2, <1>3, <2>1, <2>2, <2>3, <2>4, NoneAssumption
       DEF WalkCovers, Walking, Larger
  <2> QED BY <1>1, <2>1, <2>2, <2>3, <2>4, <2>5, VisitCovers, NoneAssumption DEF Walking
<1>5. CASE VisitOverBudget(w, k)
  <2> DEFINE next == [walk[w] EXCEPT !.snap = NoPage, !.startAfter = k, !.more = FALSE,
                                     !.earliest = walk[w].start]
  <2>1. walk' = [walk EXCEPT ![w] = next] /\ retry' = retry
    BY <1>5 DEF VisitOverBudget
  <2>2. next.earliest = walk[w].start /\ ~next.more /\ next.start = walk[w].start
        /\ next.pc = walk[w].pc
    BY <1>1 DEF TypeOK, Walk
  <2> HIDE DEF next
  <2>3. walk'[w] = next
    BY <1>1, <2>1 DEF TypeOK
  <2>4. WalksStarted'
    BY <1>1, <2>1, <2>2, <2>3, OneWalkStarted
  <2>5. \A l \in Keys : retry'[l] # None => WalkCovers(w, l)'
    <3> SUFFICES ASSUME NEW l \in Keys, retry[l] # None PROVE WalkCovers(w, l)'
      BY <2>1
    <3>1. retry[l].nextAttemptAt \in Nat
      BY <1>1 DEF TypeOK, RetryRecord
    <3> QED BY <1>1, <1>2, <1>3, <2>1, <2>2, <2>3, <3>1, NoneAssumption
            DEF WalkCovers, Walking, Larger
  <2> QED BY <1>1, <2>1, <2>3, <2>4, <2>5, OneWalkStep
<1>6. CASE VisitCooling(w, k)
  <2> DEFINE cooling == CooldownOf(w, k[2])
  <2>1. cooling \in Nat
    BY <1>1, CooldownOfType, KeyRelay
  <2>2. PICK at \in AfterCooldown(cooling) :
          /\ retry' = [retry EXCEPT ![k] = [walk[w].snap[k] EXCEPT !.nextAttemptAt = at]]
          /\ walk' = [walk EXCEPT ![w] =
                [Visit(w, k) EXCEPT !.known[k[2]] = cooling, !.earliest = Sooner(at, @)]]
    BY <1>6 DEF VisitCooling
  <2>3. at \in Nat
    BY <2>1, <2>2, AfterCooldownType
  <2> HIDE DEF cooling
  <2>4. /\ Sooner(at, walk[w].earliest) \in Nat
        /\ Sooner(at, walk[w].earliest) <= at
        /\ walk[w].earliest # None => Sooner(at, walk[w].earliest) <= walk[w].earliest
    BY <1>3, <2>3, SoonerType
  <2> DEFINE next == [Visit(w, k) EXCEPT !.known[k[2]] = cooling, !.earliest = Sooner(at, @)]
  <2>5. /\ \A l \in Keys \ {k} : next.snap[l] = walk[w].snap[l]
        /\ next.earliest = Sooner(at, walk[w].earliest)
        /\ next.start = walk[w].start /\ next.more = walk[w].more
        /\ next.startAfter = k
        /\ next.pc = walk[w].pc
    BY <1>1, VisitSnap, VisitType DEF Walk
  <2>6. walk' = [walk EXCEPT ![w] = next]
    BY <2>2
  <2> HIDE DEF next
  <2>7. walk'[w] = next /\ retry'[k].nextAttemptAt = at
        /\ \A l \in Keys \ {k} : retry'[l] = retry[l]
    BY <1>1, <1>3, <2>2, <2>6 DEF TypeOK, RetryRecord
  <2>8. WalkCovers(w, k)'
    BY <1>1, <1>3, <2>3, <2>4, <2>5, <2>7, NoneAssumption DEF WalkCovers, Walking, Larger
  <2> QED BY <1>1, <2>4, <2>5, <2>6, <2>7, <2>8, VisitCovers, NoneAssumption DEF Walking
<1>7. CASE Attempt(w, k)
  <2> DEFINE next == [walk[w] EXCEPT !.pc = "await", !.processed = @ + 1,
                                     !.known[k[2]] = CooldownOf(w, k[2])]
  <2>1. walk' = [walk EXCEPT ![w] = next] /\ retry' = retry
    BY <1>7 DEF Attempt
  <2>2. /\ next.snap = walk[w].snap /\ next.earliest = walk[w].earliest
        /\ next.start = walk[w].start /\ next.more = walk[w].more
        /\ next.startAfter = walk[w].startAfter
        /\ next.pc = "await"
    BY <1>1 DEF TypeOK, Walk
  <2> HIDE DEF next
  <2>3. walk'[w] = next
    BY <1>1, <2>1 DEF TypeOK
  <2>4. WalkCovers(w, k) => WalkCovers(w, k)'
    BY <1>1, <1>2, <2>1, <2>2, <2>3 DEF WalkCovers, Walking
  <2>5. /\ walk' = [walk EXCEPT ![w] = walk'[w]]
        /\ \A l \in Keys \ {k} : retry'[l] = retry[l] /\ walk'[w].snap[l] = walk[w].snap[l]
        /\ walk'[w].pc \in {"scan", "await"}
        /\ walk'[w].more = walk[w].more /\ walk'[w].start = walk[w].start
        /\ walk'[w].earliest = walk[w].earliest
        /\ walk'[w].startAfter = walk[w].startAfter
        /\ retry'[k] = retry[k]
    BY <2>1, <2>2, <2>3
  <2>6. walk[w].earliest # None => walk'[w].earliest <= walk[w].earliest
    BY <1>3, <2>5
  <2> QED BY <1>1, <1>3, <2>4, <2>5, <2>6, VisitCovers
<1>8. ASSUME NEW outcome \in Outcomes, Settled(w, k, outcome) \/ Exhausted(w, k, outcome)
      PROVE  WalksStarted' /\ QueueCovered'
  <2> DEFINE forget == outcome = "accepted" /\ walk[w].known[k[2]] > 0
             settled == [Visit(w, k) EXCEPT !.pc = "scan",
                                            !.known[k[2]] = IF forget THEN 0 ELSE @]
             exhausted == [Visit(w, k) EXCEPT !.pc = "scan"]
  <2>1. PICK next \in {settled, exhausted} : walk' = [walk EXCEPT ![w] = next]
    <3>1. CASE Settled(w, k, outcome)
      <4>1. walk' = [walk EXCEPT ![w] = settled]
        BY <3>1 DEF Settled
      <4> QED BY <4>1
    <3>2. CASE Exhausted(w, k, outcome)
      <4>1. walk' = [walk EXCEPT ![w] = exhausted]
        BY <3>2 DEF Exhausted
      <4> QED BY <4>1
    <3> QED BY <1>8, <3>1, <3>2
  <2>2. retry' = [retry EXCEPT ![k] = None]
    BY <1>8 DEF Settled, Exhausted
  <2>3. /\ \A l \in Keys \ {k} : next.snap[l] = walk[w].snap[l]
        /\ next.earliest = walk[w].earliest
        /\ next.start = walk[w].start /\ next.more = walk[w].more
        /\ next.startAfter = k
        /\ next.pc = "scan"
    <3> DEFINE v == Visit(w, k)
    <3>1. /\ v \in Walk
          /\ \A l \in Keys \ {k} : v.snap[l] = walk[w].snap[l]
          /\ v.earliest = walk[w].earliest
          /\ v.start = walk[w].start /\ v.more = walk[w].more
          /\ v.startAfter = k
      BY <1>1, VisitSnap, VisitType
    <3>2. next = settled \/ next = exhausted
      OBVIOUS
    <3> HIDE DEF v, forget
    <3>3. CASE next = [v EXCEPT !.pc = "scan", !.known[k[2]] = IF forget THEN 0 ELSE @]
      BY <3>1, <3>3 DEF Walk
    <3>4. CASE next = [v EXCEPT !.pc = "scan"]
      BY <3>1, <3>4 DEF Walk
    <3> QED BY <3>2, <3>3, <3>4 DEF v
  <2> HIDE DEF settled, exhausted
  <2>4. walk'[w] = next /\ retry'[k] = None /\ \A l \in Keys \ {k} : retry'[l] = retry[l]
    BY <1>1, <2>1, <2>2 DEF TypeOK
  <2>5. walk' = [walk EXCEPT ![w] = walk'[w]]
    BY <2>1, <2>4
  <2>6. walk[w].earliest # None => walk'[w].earliest <= walk[w].earliest
    BY <1>3, <2>3, <2>4
  <2> QED BY <1>1, <1>3, <2>3, <2>4, <2>5, <2>6, VisitCovers
<1>9. ASSUME NEW outcome \in Outcomes, Reschedule(w, k, outcome)
      PROVE  WalksStarted' /\ QueueCovered'
  <2>1. /\ walk'[w].earliest # None
        /\ walk'[w].earliest <= retry'[k].nextAttemptAt
        /\ retry' = [retry EXCEPT ![k] = retry'[k]]
        /\ \A l \in Keys \ {k} : walk'[w].snap[l] = walk[w].snap[l]
        /\ walk[w].earliest # None => walk'[w].earliest <= walk[w].earliest
        /\ walk'[w].pc = "scan" /\ walk'[w].more = walk[w].more
        /\ walk'[w].start = walk[w].start /\ walk'[w].startAfter = k
        /\ walk' = [walk EXCEPT ![w] = walk'[w]]
    BY <1>1, <1>9, RescheduleEffect
  <2>2. walk'[w].earliest \in Nat /\ (retry'[k] # None => retry'[k].nextAttemptAt \in Nat)
    BY <2>1 DEF TypeOK, Walk, RetryRecord
  <2>3. \A l \in Keys \ {k} : retry'[l] = retry[l]
    BY <1>1, <2>1 DEF TypeOK
  <2>4. retry'[k] # None => WalkCovers(w, k)'
    BY <1>1, <1>3, <2>1, <2>2 DEF WalkCovers, Walking, Larger
  <2> QED BY <1>1, <2>1, <2>2, <2>3, <2>4, VisitCovers
<1> QED BY <1>4, <1>5, <1>6, <1>7, <1>8, <1>9

LEMMA FinishWalkCovers ==
    ASSUME CoverInv, NEW w \in Walkers, FinishWalk(w)
    PROVE  WalksStarted' /\ QueueCovered'
<1> DEFINE pc == IF w = AlarmHandler THEN "connect" ELSE "idle"
           next == [IdleWalk EXCEPT !.pc = pc]
<1>1. /\ TypeOK /\ WalksStarted /\ QueueCovered /\ Walking(w)
      /\ Page(w) = {} /\ SetAlarmNoLater(walk[w].earliest)
      /\ UNCHANGED <<now, retry>>
      /\ missed' = IF walk[w].more THEN missed \cup Unlisted(w) ELSE missed
      /\ walk' = [walk EXCEPT ![w] = next]
  BY DEF CoverInv, FinishWalk, Scanning, Walking
<1>2. ASSUME NEW l \in Keys \ missed', retry[l] # None PROVE ~Ahead(w, l)
  BY <1>1, <1>2 DEF Ahead, Unlisted
<1>3. walk[w].earliest \in Nat \cup {None} /\ alarm \in Nat \cup {None} /\ now \in Nat
  BY <1>1 DEF TypeOK, Walk
<1>4. /\ alarm' \in Nat \cup {None}
      /\ alarm # None => alarm' # None /\ alarm' <= alarm
      /\ walk[w].earliest # None => alarm' # None /\ alarm' <= walk[w].earliest
  BY <1>1, <1>3, SoonerType, NoneAssumption DEF SetAlarmNoLater
<1>5. ~(next.pc \in {"scan", "await"})
  BY IdleWalkType DEF Walk
<1> HIDE DEF next
<1>6. walk'[w] = next /\ \A v \in Walkers \ {w} : walk'[v] = walk[v]
  BY <1>1 DEF TypeOK
<1>7. WalksStarted'
  BY <1>1, <1>5, <1>6 DEF WalksStarted, Walking
<1>8. QueueCovered'
  <2> SUFFICES ASSUME NEW l \in Keys \ missed', retry[l] # None
               PROVE  \/ AlarmCovers(retry[l].nextAttemptAt)'
                      \/ \E v \in Walkers : WalkCovers(v, l)'
    BY <1>1 DEF QueueCovered
  <2>1. retry[l].nextAttemptAt \in Nat
    BY <1>1 DEF TypeOK, RetryRecord
  <2>2. CASE AlarmCovers(retry[l].nextAttemptAt)
    BY <1>1, <1>3, <1>4, <2>1, <2>2, NoneAssumption DEF AlarmCovers, Larger
  <2>3. CASE WalkCovers(w, l)
    <3>1. walk[w].snap[l] = None
      BY <1>1 DEF Page
    <3>2. walk[w].earliest # None /\ walk[w].earliest <= Larger(retry[l].nextAttemptAt, now)
      BY <1>2, <2>3, <3>1 DEF WalkCovers
    <3> QED BY <1>1, <1>3, <1>4, <2>1, <3>2, NoneAssumption DEF AlarmCovers, Larger
  <2>4. CASE \E v \in Walkers \ {w} : WalkCovers(v, l)
    <3>1. PICK v \in Walkers \ {w} : WalkCovers(v, l)
      BY <2>4
    <3>2. WalkCovers(v, l)'
      BY <1>1, <1>6, <3>1 DEF WalkCovers, Walking, Ahead, Page
    <3> QED BY <3>1, <3>2
  <2>5. l \notin missed
    BY <1>1
  <2> QED BY <1>1, <2>2, <2>3, <2>4, <2>5 DEF QueueCovered
<1> QED BY <1>7, <1>8

\* A new walk has yet to list anything, so it answers for the whole queue.
LEMMA StartCovers ==
    ASSUME CoverInv, NEW w \in Walkers, walk' = [walk EXCEPT ![w] = NewWalk],
           UNCHANGED <<now, retry>>
    PROVE  WalksStarted' /\ QueueCovered'
<1>1. TypeOK /\ WalksStarted
  BY DEF CoverInv
<1>2. /\ NewWalk.pc = "scan" /\ NewWalk.more /\ NewWalk.start = now
      /\ NewWalk.startAfter = None /\ NewWalk.snap = NoPage
  BY IdleWalkType DEF NewWalk, IdleWalk, Walk
<1>3. walk'[w] = NewWalk /\ \A v \in Walkers \ {w} : walk'[v] = walk[v]
  BY <1>1 DEF TypeOK
<1>4. Page(w)' = {}
  BY <1>2, <1>3 DEF Page, NoPage
<1>5. \A l \in Keys : WalkCovers(w, l)'
  BY <1>2, <1>3, <1>4 DEF WalkCovers, Walking, Ahead
<1>6. WalksStarted'
  BY <1>1, <1>2, <1>3 DEF WalksStarted, Walking, TypeOK
<1> QED BY <1>5, <1>6 DEF QueueCovered

\* Steps that leave the walks alone and let the alarm only move earlier.
LEMMA AlarmStepCovers ==
    ASSUME CoverInv, TypeOK', walk' = walk, now' >= now,
           \A k \in Keys \ missed' : k \notin missed \/ retry[k] = None,
           alarm # None => alarm' # None /\ alarm' <= alarm,
           \A k \in Keys : retry[k] # None => retry'[k] = retry[k],
           \A k \in Keys : retry[k] = None /\ retry'[k] # None =>
                               alarm' # None /\ alarm' <= retry'[k].nextAttemptAt
    PROVE  WalksStarted' /\ QueueCovered'
<1>1. TypeOK /\ WalksStarted /\ QueueCovered /\ now \in Nat /\ now' \in Nat
      /\ alarm \in Nat \cup {None} /\ alarm' \in Nat \cup {None}
  BY DEF CoverInv, TypeOK
<1>2. ASSUME NEW w \in Walkers, Walking(w)
      PROVE  walk[w].start <= now'
  BY <1>1, <1>2 DEF WalksStarted, TypeOK, Walk
<1>3. WalksStarted'
  BY <1>1, <1>2 DEF WalksStarted, Walking
<1>4. QueueCovered'
  <2> SUFFICES ASSUME NEW l \in Keys \ missed', retry'[l] # None
               PROVE  \/ AlarmCovers(retry[l].nextAttemptAt)'
                      \/ \E v \in Walkers : WalkCovers(v, l)'
    BY DEF QueueCovered
  <2>1. retry'[l].nextAttemptAt \in Nat
    BY DEF TypeOK, RetryRecord
  <2>2. CASE retry[l] = None
    BY <1>1, <2>1, <2>2, NoneAssumption DEF AlarmCovers, Larger
  <2>3. CASE retry[l] # None /\ AlarmCovers(retry[l].nextAttemptAt)
    BY <1>1, <2>1, <2>3, NoneAssumption DEF AlarmCovers, Larger
  <2>4. CASE retry[l] # None /\ \E v \in Walkers : WalkCovers(v, l)
    <3>1. PICK v \in Walkers : WalkCovers(v, l)
      BY <2>4
    <3>2. walk[v].earliest \in Nat \cup {None}
      BY <1>1 DEF TypeOK, Walk
    <3>3. WalkCovers(v, l)'
      BY <1>1, <2>1, <2>4, <3>1, <3>2, NoneAssumption DEF WalkCovers, Walking, Larger, Ahead, Page
    <3> QED BY <3>3
  <2> QED BY <1>1, <2>2, <2>3, <2>4 DEF QueueCovered
<1> QED BY <1>3, <1>4

\* However long the queue and however walks overlap, every queued record is
\* covered by the alarm whenever no walk is in flight, but for those a walk
\* missed: beyond the page at which its budget ran out, or with an eviction.
THEOREM AlarmCoversQueueAlways == Spec => []AlarmCoversQueue
<1>1. Init => CoverInv
  <2> SUFFICES ASSUME Init PROVE CoverInv
    OBVIOUS
  <2>1. TypeOK
    <3>1. walk \in [Walkers -> Walk]
      BY IdleWalkType DEF Init
    <3> QED BY <3>1 DEF Init, TypeOK, HistoryOK
  <2>2. \A w \in Walkers : ~Walking(w)
    BY DEF Init, Walking, IdleWalk
  <2> QED BY <2>1, <2>2 DEF Init, CoverInv, WalksStarted, QueueCovered
<1>2. CoverInv /\ TypeOK' /\ [Next]_vars => CoverInv'
  <2> SUFFICES ASSUME CoverInv, TypeOK', [Next]_vars PROVE WalksStarted' /\ QueueCovered'
    BY DEF CoverInv
  <2> USE DEF CoverInv
  <2>1. CASE Tick
    BY <2>1, AlarmStepCovers DEF Tick, TypeOK, history
  <2>2. ASSUME NEW e \in Events, NEW relays \in SUBSET Relays,
               NEW throttled \in SUBSET relays, EnqueueRetry(e, relays, throttled)
        PROVE  WalksStarted' /\ QueueCovered'
    <3>1. now' = now /\ walk' = walk /\ now \in Nat
      BY <2>2 DEF EnqueueRetry, TypeOK
    <3>a. \A k \in Keys \ missed' : k \notin missed \/ retry[k] = None
      BY <2>2 DEF EnqueueRetry
    <3>2. /\ alarm # None => alarm' # None /\ alarm' <= alarm
          /\ \A k \in Keys : retry[k] # None => retry'[k] = retry[k]
          /\ \A k \in Keys : retry[k] = None /\ retry'[k] # None =>
                              alarm' # None /\ alarm' <= retry'[k].nextAttemptAt
      BY <2>2, EnqueueEffect
    <3>3. now' >= now
      BY <3>1
    <3> QED BY <3>1, <3>a, <3>2, <3>3, AlarmStepCovers
  <2>3. CASE ScheduleReconnect
    <3>1. PICK d \in ReconnectDelays : SetAlarmNoLater(now + d)
      BY <2>3 DEF ScheduleReconnect
    <3>2. now + d \in Nat
      BY BoundsAssumption DEF TypeOK
    <3>3. alarm # None => alarm' # None /\ alarm' <= alarm
      BY <3>1, <3>2, SoonerType, NoneAssumption DEF SetAlarmNoLater, TypeOK
    <3> QED BY <2>3, <3>3, AlarmStepCovers DEF ScheduleReconnect, TypeOK, history
  <2>4. CASE FireAlarm
    BY <2>4, StartCovers, WalkersAssumption DEF FireAlarm
  <2>5. ASSUME NEW w \in Walkers, StartSweep(w) PROVE WalksStarted' /\ QueueCovered'
    BY <2>5, StartCovers DEF StartSweep
  <2>6. ASSUME NEW w \in Walkers, WalkStep(w) PROVE WalksStarted' /\ QueueCovered'
    BY <2>6, ListPageCovers, WalkStepCovers, FinishWalkCovers DEF WalkStep
  <2>7. CASE EndAlarm
    <3>1. ~Walking(AlarmHandler) /\ IdleWalk.pc = "idle"
      BY <2>7 DEF EndAlarm, Walking, IdleWalk
    <3>2. \A w \in Walkers : Walking(w)' => walk'[w] = walk[w]
      BY <2>7, <3>1, WalkersAssumption DEF EndAlarm, Walking, TypeOK
    <3>3. \A w \in Walkers : Walking(w) => walk'[w] = walk[w]
      BY <2>7, <3>1, WalkersAssumption DEF EndAlarm, Walking, TypeOK
    <3>4. WalksStarted'
      BY <2>7, <3>2 DEF EndAlarm, WalksStarted, Walking
    <3>5. QueueCovered'
      BY <2>7, <3>3 DEF EndAlarm, QueueCovered, WalkCovers, Walking, AlarmCovers, Ahead, Page, history
    <3> QED BY <3>4, <3>5
  <2>8. CASE Evict
    <3>1. \A w \in Walkers : ~Walking(w)'
      BY <2>8 DEF Evict, Walking, IdleWalk
    <3>2. WalksStarted'
      BY <3>1 DEF WalksStarted
    <3>3. ASSUME NEW l \in Keys \ missed', retry'[l] # None
          PROVE  AlarmCovers(retry[l].nextAttemptAt)'
      <4>1. /\ retry' = retry /\ now' = now /\ l \notin missed /\ retry[l] # None
            /\ retry[l].nextAttemptAt \in Nat /\ now \in Nat
        BY <2>8, <3>3 DEF Evict, TypeOK, RetryRecord
      <4>2. CASE walk[AlarmHandler].pc # "idle"
        <5>1. alarm' \in Nat /\ alarm' <= now
          BY <2>8, <4>1, <4>2, SoonerType DEF Evict, TypeOK
        <5> QED BY <4>1, <5>1, NoneAssumption DEF AlarmCovers, Larger
      <4>3. CASE walk[AlarmHandler].pc = "idle"
        <5>1. alarm' = alarm /\ \A w \in Walkers : ~Walking(w)
          BY <2>8, <3>3, <4>1, <4>3 DEF Evict
        <5> QED BY <4>1, <5>1 DEF QueueCovered, WalkCovers, AlarmCovers
      <4> QED BY <4>2, <4>3
    <3> QED BY <3>2, <3>3 DEF QueueCovered
  <2>9. CASE UNCHANGED vars
    BY <2>9, AlarmStepCovers DEF vars, TypeOK, history
  <2> QED BY <2>1, <2>2, <2>3, <2>4, <2>5, <2>6, <2>7, <2>8, <2>9 DEF Next
<1>3. CoverInv => AlarmCoversQueue
  BY DEF CoverInv, QueueCovered, AlarmCoversQueue, WalkCovers
<1> QED BY <1>1, <1>2, <1>3, TypeCorrect, PTL DEF Spec

-----------------------------------------------------------------------------
(* The queue is what a walk that runs alone believes it is.  A walk writes *)
(* back what it read before it waited for the relay: that is sound when no *)
(* other walk is in flight, and enqueueRetry leaves a pending record alone.*)

\* A step of a walk that has visited k, and leaves x in its place.
Visited(w, k, x) ==
    /\ walk[w].snap[k] # None
    /\ retry' = [retry EXCEPT ![k] = x]
    /\ walk'[w].snap[k] = None
    /\ \A l \in Keys \ {k} : walk'[w].snap[l] = walk[w].snap[l]

\* What a step of a walk does to its page and to the queue.
SnapStep(w) ==
    /\ walk' = [walk EXCEPT ![w] = walk'[w]]
    /\ \A k \in Keys : walk'[w].snap[k] # None =>
          /\ walk'[w].pc \in {"scan", "await"}
          /\ retry'[k] = retry[k]
          /\ walk'[w].snap[k] \in {walk[w].snap[k], retry[k]}
    /\ \A k \in Keys : retry'[k] = retry[k] \/ walk[w].snap[k] # None
    /\ overlapped' = overlapped
    /\ enqueues' = enqueues

LEMMA VisitedSnap ==
    ASSUME TypeOK, NEW w \in Walkers, NEW k \in Keys, NEW x, Visited(w, k, x),
           walk' = [walk EXCEPT ![w] = walk'[w]], walk'[w].pc \in {"scan", "await"},
           overlapped' = overlapped, enqueues' = enqueues
    PROVE  SnapStep(w)
<1>1. \A l \in Keys \ {k} : retry'[l] = retry[l]
  BY DEF Visited, TypeOK
<1>2. retry'[k] = x
  BY DEF Visited, TypeOK
<1> QED BY <1>1, <1>2 DEF Visited, SnapStep

LEMMA WalkStepSnap ==
    ASSUME TypeOK, NEW w \in Walkers, WalkStep(w), ~FinishWalk(w)
    PROVE  SnapStep(w) /\ Walking(w)
<1>a. walk \in [Walkers -> Walk] /\ walk[w] \in Walk
  BY DEF TypeOK
<1>b. Walking(w)
  BY DEF WalkStep, ListPage, VisitNotDue, VisitOverBudget, VisitCooling, Attempt, Settled,
         Exhausted, Reschedule, Scanning, Walking
<1>1. CASE ListPage(w)
  <2> DEFINE page == {k \in Unlisted(w) :
                        Cardinality({l \in Unlisted(w) : Before(l, k)}) < RetryListPage}
             snap == [k \in Keys |-> IF k \in page THEN retry[k] ELSE None]
             more == Cardinality(page) = RetryListPage
  <2>1. walk' = [walk EXCEPT ![w].snap = snap, ![w].more = more] /\ retry' = retry
        /\ enqueues' = enqueues /\ overlapped' = overlapped /\ walk[w].pc = "scan"
    BY <1>1 DEF ListPage, Scanning
  <2>2. \A k \in Keys : snap[k] \in {retry[k], None}
    OBVIOUS
  <2> HIDE DEF page, snap, more
  <2>3. walk'[w].snap = snap /\ walk'[w].pc = "scan" /\ walk' = [walk EXCEPT ![w] = walk'[w]]
    BY <1>a, <2>1 DEF Walk
  <2> QED BY <1>b, <2>1, <2>2, <2>3 DEF SnapStep
<1>2. ASSUME NEW k \in Keys, IsNext(w, k), NEW v, walk' = [walk EXCEPT ![w] = v],
             v.snap = Visit(w, k).snap, v.pc = "scan", NEW x,
             retry' = [retry EXCEPT ![k] = x], enqueues' = enqueues, overlapped' = overlapped
      PROVE  SnapStep(w)
  <2>1. walk'[w] = v /\ walk' = [walk EXCEPT ![w] = walk'[w]]
    BY <1>a, <1>2
  <2>2. walk[w].snap[k] # None
    BY <1>2 DEF IsNext, Page
  <2>3. Visited(w, k, x)
    BY <1>2, <2>1, <2>2, VisitSnap DEF Visited
  <2> QED BY <1>2, <2>1, <2>3, VisitedSnap
<1>3. \A k \in Keys : Visit(w, k) \in Walk
  BY VisitType
<1>4. ASSUME NEW k \in Keys, VisitNotDue(w, k) PROVE SnapStep(w)
  <2> DEFINE v == [Visit(w, k) EXCEPT !.earliest = Sooner(walk[w].snap[k].nextAttemptAt, @)]
  <2>1. /\ walk' = [walk EXCEPT ![w] = v] /\ retry' = retry /\ enqueues' = enqueues
        /\ overlapped' = overlapped /\ walk[w].pc = "scan"
    BY <1>4 DEF VisitNotDue, Scanning, history
  <2>2. v.snap = Visit(w, k).snap /\ v.pc = "scan"
    BY <1>3, <2>1, VisitSnap DEF Walk
  <2> HIDE DEF v
  <2>3. walk'[w] = v /\ walk' = [walk EXCEPT ![w] = walk'[w]]
    BY <1>a, <2>1
  <2> QED BY <2>1, <2>2, <2>3, VisitSnap DEF SnapStep
<1>5. ASSUME NEW k \in Keys, VisitOverBudget(w, k) PROVE SnapStep(w)
  <2> DEFINE v == [walk[w] EXCEPT !.snap = NoPage, !.startAfter = k, !.more = FALSE,
                                  !.earliest = walk[w].start]
  <2>1. /\ walk' = [walk EXCEPT ![w] = v] /\ retry' = retry /\ enqueues' = enqueues
        /\ overlapped' = overlapped
    BY <1>5 DEF VisitOverBudget, history
  <2>2. \A l \in Keys : v.snap[l] = None
    BY <1>a DEF Walk, NoPage
  <2> HIDE DEF v
  <2>3. walk'[w] = v /\ walk' = [walk EXCEPT ![w] = walk'[w]]
    BY <1>a, <2>1
  <2> QED BY <2>1, <2>2, <2>3 DEF SnapStep
<1>6. ASSUME NEW k \in Keys, VisitCooling(w, k) PROVE SnapStep(w)
  <2>1. PICK deferredTo \in AfterCooldown(CooldownOf(w, k[2])) :
          /\ retry' = [retry EXCEPT ![k] = [walk[w].snap[k] EXCEPT !.nextAttemptAt = deferredTo]]
          /\ walk' = [walk EXCEPT ![w] =
                [Visit(w, k) EXCEPT !.known[k[2]] = CooldownOf(w, k[2]),
                                    !.earliest = Sooner(deferredTo, @)]]
    BY <1>6 DEF VisitCooling
  <2> DEFINE v == [Visit(w, k) EXCEPT !.known[k[2]] = CooldownOf(w, k[2]),
                                      !.earliest = Sooner(deferredTo, @)]
             x == [walk[w].snap[k] EXCEPT !.nextAttemptAt = deferredTo]
  <2>2. IsNext(w, k) /\ enqueues' = enqueues /\ overlapped' = overlapped /\ walk[w].pc = "scan"
    BY <1>6 DEF VisitCooling, Scanning, Account
  <2>3. v.snap = Visit(w, k).snap /\ v.pc = "scan"
    BY <1>3, <2>2, VisitSnap DEF Walk
  <2>5. retry' = [retry EXCEPT ![k] = x] /\ walk' = [walk EXCEPT ![w] = v]
    BY <2>1
  <2> HIDE DEF v, x
  <2> QED BY <1>2, <2>2, <2>3, <2>5
<1>7. ASSUME NEW k \in Keys, Attempt(w, k) PROVE SnapStep(w)
  <2> DEFINE v == [walk[w] EXCEPT !.pc = "await", !.processed = @ + 1,
                                  !.known[k[2]] = CooldownOf(w, k[2])]
  <2>1. /\ walk' = [walk EXCEPT ![w] = v] /\ retry' = retry /\ enqueues' = enqueues
        /\ overlapped' = overlapped
    BY <1>7 DEF Attempt
  <2>2. v.snap = walk[w].snap /\ v.pc = "await"
    BY <1>a DEF Walk
  <2> HIDE DEF v
  <2>3. walk'[w] = v /\ walk' = [walk EXCEPT ![w] = walk'[w]]
    BY <1>a, <2>1
  <2> QED BY <2>1, <2>2, <2>3 DEF SnapStep
<1>8. ASSUME NEW k \in Keys, NEW outcome \in Outcomes, Settled(w, k, outcome) PROVE SnapStep(w)
  <2> DEFINE forget == outcome = "accepted" /\ walk[w].known[k[2]] > 0
             v == [Visit(w, k) EXCEPT !.pc = "scan", !.known[k[2]] = IF forget THEN 0 ELSE @]
  <2>1. /\ walk' = [walk EXCEPT ![w] = v] /\ retry' = [retry EXCEPT ![k] = None]
        /\ enqueues' = enqueues /\ overlapped' = overlapped /\ IsNext(w, k)
    BY <1>8 DEF Settled, Account
  <2>2. v.snap = Visit(w, k).snap /\ v.pc = "scan"
    BY <1>3 DEF Walk
  <2> HIDE DEF v
  <2> QED BY <1>2, <2>1, <2>2
<1>9. ASSUME NEW k \in Keys, NEW outcome \in Outcomes, Exhausted(w, k, outcome) PROVE SnapStep(w)
  <2> DEFINE v == [Visit(w, k) EXCEPT !.pc = "scan"]
  <2>1. /\ walk' = [walk EXCEPT ![w] = v] /\ retry' = [retry EXCEPT ![k] = None]
        /\ enqueues' = enqueues /\ overlapped' = overlapped /\ IsNext(w, k)
    BY <1>9 DEF Exhausted, Account
  <2>2. v.snap = Visit(w, k).snap /\ v.pc = "scan"
    BY <1>3 DEF Walk
  <2> HIDE DEF v
  <2> QED BY <1>2, <2>1, <2>2
<1>10. ASSUME NEW k \in Keys, NEW outcome \in Outcomes, Reschedule(w, k, outcome) PROVE SnapStep(w)
  <2> DEFINE relay == k[2]
             attempts == walk[w].snap[k].attempts + 1
             started == NextCooldown(cooldown[relay], walk[w].start)
             throttled == outcome = "throttled"
  <2>1. PICK b \in JitteredBackoff(attempts), c \in IF throttled THEN AfterCooldown(started.until) ELSE {0} :
          LET at == Larger(walk[w].start + b, c)
          IN  /\ retry' = [retry EXCEPT ![k] = [attempts |-> attempts, nextAttemptAt |-> at]]
              /\ walk' = [walk EXCEPT ![w] =
                    [Visit(w, k) EXCEPT
                        !.pc = "scan",
                        !.known[relay] = IF throttled THEN started.until ELSE @,
                        !.earliest = Sooner(at, @)]]
    BY <1>10 DEF Reschedule
  <2> DEFINE at == Larger(walk[w].start + b, c)
             v == [Visit(w, k) EXCEPT !.pc = "scan",
                                      !.known[relay] = IF throttled THEN started.until ELSE @,
                                      !.earliest = Sooner(at, @)]
             x == [attempts |-> attempts, nextAttemptAt |-> at]
  <2>2. IsNext(w, k) /\ enqueues' = enqueues /\ overlapped' = overlapped
    BY <1>10 DEF Reschedule, Account
  <2>3. v.snap = Visit(w, k).snap /\ v.pc = "scan"
    BY <1>3 DEF Walk
  <2>5. retry' = [retry EXCEPT ![k] = x] /\ walk' = [walk EXCEPT ![w] = v]
    BY <2>1
  <2> HIDE DEF v, x
  <2> QED BY <1>2, <2>2, <2>3, <2>5
<1> QED BY <1>b, <1>1, <1>4, <1>5, <1>6, <1>7, <1>8, <1>9, <1>10 DEF WalkStep

\* The handlers that are not a step of a walk leave what is queued where it
\* was, and a walk that begins or ends leaves no page behind it.
LEMMA OtherStepSnap ==
    ASSUME SnapInv, TypeOK',
           \/ Tick \/ ScheduleReconnect \/ FireAlarm \/ EndAlarm \/ Evict
           \/ \E w \in Walkers : StartSweep(w) \/ FinishWalk(w)
           \/ UNCHANGED vars
    PROVE  SnapInv' /\ retry' = retry
<1>1. retry' = retry
  BY DEF Tick, ScheduleReconnect, FireAlarm, EndAlarm, Evict, StartSweep, FinishWalk, vars
<1>2. /\ \A k \in Keys : IdleWalk.snap[k] = None /\ NewWalk.snap[k] = None
      /\ IdleWalk.pc = "idle" /\ NewWalk.pc = "scan"
  BY IdleWalkType DEF IdleWalk, NewWalk, NoPage, Walk
<1>3. walk \in [Walkers -> Walk] /\ overlapped \subseteq Walkers
  BY DEF SnapInv, TypeOK, HistoryOK
<1>4. CASE \/ Tick \/ ScheduleReconnect \/ UNCHANGED vars
  <2>1. walk' = walk /\ overlapped' = overlapped
    BY <1>4 DEF Tick, ScheduleReconnect, vars, history
  <2> QED BY <1>1, <2>1 DEF SnapInv, Walking
<1>5. ASSUME NEW w \in Walkers, walk' = [walk EXCEPT ![w] = NewWalk], overlapped' = Overlap(w)
      PROVE  SnapInv'
  <2>1. walk'[w] = NewWalk /\ \A v \in Walkers \ {w} : walk'[v] = walk[v]
    BY <1>3, <1>5
  <2>2. \A v \in Walkers \ {w} : Walking(v) => v \in overlapped' /\ w \in overlapped'
    BY <1>5 DEF Overlap, Others
  <2>3. \A v \in Walkers \ {w} : v \in overlapped => v \in overlapped'
    BY <1>5 DEF Overlap
  <2>4. ASSUME NEW u \in Walkers, NEW v \in Walkers, u # v, Walking(u)', Walking(v)'
        PROVE  u \in overlapped'
    BY <2>1, <2>2, <2>4 DEF Walking
  <2>5. ASSUME NEW v \in Walkers, NEW k \in Keys, walk'[v].snap[k] # None
        PROVE  Walking(v)' /\ (v \in overlapped' \/ retry'[k] = walk'[v].snap[k])
    <3>1. v # w
      BY <1>2, <2>1, <2>5
    <3> QED BY <1>1, <2>1, <2>3, <2>5, <3>1 DEF SnapInv, Walking
  <2> QED BY <2>4, <2>5 DEF SnapInv
<1>6. ASSUME NEW w \in Walkers, FinishWalk(w) \/ (EndAlarm /\ w = AlarmHandler)
      PROVE  SnapInv'
  <2>1. /\ ~Walking(w)' /\ \A k \in Keys : walk'[w].snap[k] = None
        /\ \A v \in Walkers \ {w} : walk'[v] = walk[v] /\ (v \in overlapped => v \in overlapped')
    <3>1. CASE EndAlarm /\ w = AlarmHandler
      BY <1>2, <1>3, <3>1 DEF EndAlarm, Walking, history
    <3>2. CASE FinishWalk(w)
      <4> DEFINE pc == IF w = AlarmHandler THEN "connect" ELSE "idle"
                 v == [IdleWalk EXCEPT !.pc = pc]
      <4>1. walk' = [walk EXCEPT ![w] = v] /\ overlapped' = overlapped \ {w}
        BY <3>2 DEF FinishWalk
      <4>2. v.pc = pc /\ pc \notin {"scan", "await"} /\ \A k \in Keys : v.snap[k] = None
        BY <1>2, IdleWalkType DEF Walk
      <4> HIDE DEF v, pc
      <4> QED BY <1>3, <4>1, <4>2 DEF Walking
    <3> QED BY <1>6, <3>1, <3>2
  <2>2. ASSUME NEW u \in Walkers, NEW v \in Walkers, u # v, Walking(u)', Walking(v)'
        PROVE  u \in overlapped'
    BY <2>1, <2>2 DEF SnapInv, Walking
  <2>3. ASSUME NEW v \in Walkers, NEW k \in Keys, walk'[v].snap[k] # None
        PROVE  Walking(v)' /\ (v \in overlapped' \/ retry'[k] = walk'[v].snap[k])
    BY <1>1, <2>1, <2>3 DEF SnapInv, Walking
  <2> QED BY <2>2, <2>3 DEF SnapInv
<1>7. CASE Evict
  <2>1. \A w \in Walkers : walk'[w] = IdleWalk
    BY <1>7 DEF Evict
  <2>2. \A w \in Walkers : ~Walking(w)' /\ \A k \in Keys : walk'[w].snap[k] = None
    BY <1>2, <2>1 DEF Walking
  <2> QED BY <1>1, <2>2 DEF SnapInv
<1>8. CASE FireAlarm
  <2>1. walk' = [walk EXCEPT ![AlarmHandler] = NewWalk] /\ overlapped' = Overlap(AlarmHandler)
    BY <1>8 DEF FireAlarm
  <2> QED BY <1>1, <1>5, <2>1, WalkersAssumption
<1>9. ASSUME NEW w \in Walkers, StartSweep(w) PROVE SnapInv'
  <2>1. walk' = [walk EXCEPT ![w] = NewWalk] /\ overlapped' = Overlap(w)
    BY <1>9 DEF StartSweep
  <2> QED BY <1>5, <2>1
<1>10. CASE EndAlarm
  <2>1. AlarmHandler \in Walkers
    BY WalkersAssumption
  <2> QED BY <1>1, <1>6, <1>10, <2>1
<1> QED BY <1>1, <1>4, <1>6, <1>7, <1>8, <1>9, <1>10

LEMMA NextSnap ==
    ASSUME SnapInv, TypeOK', [Next]_vars
    PROVE  /\ SnapInv'
           /\ enqueues' = enqueues =>
                 \A k \in Keys : retry[k] = None /\ retry'[k] # None =>
                    \E w \in overlapped : walk[w].snap[k] # None
<1>1. CASE \/ Tick \/ ScheduleReconnect \/ FireAlarm \/ EndAlarm \/ Evict
           \/ \E w \in Walkers : StartSweep(w) \/ FinishWalk(w)
           \/ UNCHANGED vars
  BY <1>1, OtherStepSnap
<1>2. ASSUME NEW e \in Events, NEW relays \in SUBSET Relays,
             NEW throttled \in SUBSET relays, EnqueueRetry(e, relays, throttled)
      PROVE  SnapInv' /\ enqueues' # enqueues
  <2>1. \A k \in Keys : retry[k] # None => retry'[k] = retry[k]
    BY <1>2, EnqueueEffect DEF SnapInv
  <2>2. walk' = walk /\ overlapped' = overlapped /\ enqueues' = enqueues + 1 /\ enqueues \in Nat
    BY <1>2 DEF EnqueueRetry, SnapInv, TypeOK
  <2>3. SnapInv'
    BY <2>1, <2>2 DEF SnapInv, Walking
  <2> QED BY <2>2, <2>3
<1>3. ASSUME NEW w \in Walkers, WalkStep(w), ~FinishWalk(w)
      PROVE  /\ SnapInv'
             /\ \A k \in Keys : retry[k] = None /\ retry'[k] # None =>
                   w \in overlapped /\ walk[w].snap[k] # None
  <2>1. SnapStep(w) /\ Walking(w) /\ walk \in [Walkers -> Walk]
    BY <1>3, WalkStepSnap DEF SnapInv, TypeOK
  <2>2. \A v \in Walkers \ {w} : walk'[v] = walk[v]
    BY <2>1 DEF SnapStep
  <2>3. ASSUME NEW u \in Walkers, NEW v \in Walkers, u # v, Walking(u)', Walking(v)'
        PROVE  u \in overlapped'
    BY <2>1, <2>2, <2>3 DEF SnapInv, Walking, SnapStep
  <2>4. ASSUME NEW v \in Walkers, NEW k \in Keys, walk'[v].snap[k] # None
        PROVE  Walking(v)' /\ (v \in overlapped' \/ retry'[k] = walk'[v].snap[k])
    <3>1. CASE v = w
      BY <2>1, <2>4, <3>1 DEF SnapInv, SnapStep, Walking
    <3>2. CASE v # w
      <4>1. Walking(v) /\ walk'[v] = walk[v]
        BY <2>2, <2>4, <3>2 DEF SnapInv
      <4>2. v \in overlapped
        BY <2>1, <3>2, <4>1 DEF SnapInv
      <4> QED BY <2>1, <4>1, <4>2 DEF Walking, SnapStep
    <3> QED BY <3>1, <3>2
  <2>5. SnapInv'
    BY <2>3, <2>4 DEF SnapInv
  <2> QED BY <2>1, <2>5 DEF SnapInv, SnapStep
<1>4. CASE Next
  BY <1>1, <1>2, <1>3, <1>4 DEF Next, SnapInv, TypeOK
<1> QED BY <1>1, <1>4

LEMMA SnapInit == Init => SnapInv
<1> SUFFICES ASSUME Init PROVE SnapInv
  OBVIOUS
<1>1. walk \in [Walkers -> Walk]
  BY IdleWalkType DEF Init
<1>2. TypeOK
  BY <1>1 DEF Init, TypeOK, HistoryOK
<1> QED BY <1>2 DEF Init, SnapInv, IdleWalk, NoPage, Walking

\* A record that was accepted, refused or exhausted comes back only when two
\* walks overlap: a walk that runs alone never writes back what it read
\* before the record was deleted, whatever enqueueRetry does meanwhile.
THEOREM ReturnsNeedOverlap == Spec => ReturnsOnlyByOverlap
<1> DEFINE Returns ==
      enqueues' = enqueues =>
          \A k \in Keys : retry[k] = None /\ retry'[k] # None =>
              \E w \in overlapped : walk[w].snap[k] # None
<1>1. SnapInv /\ TypeOK' /\ [Next]_vars => SnapInv' /\ [Returns]_vars
  BY NextSnap
<1> QED BY <1>1, SnapInit, TypeCorrect, PTL DEF Spec, ReturnsOnlyByOverlap

-----------------------------------------------------------------------------
(* Every publish is counted.                                               *)

LEMMA NextIsOne ==
    ASSUME NEW w \in Walkers, NEW k \in Keys, NEW l \in Keys, IsNext(w, k), IsNext(w, l)
    PROVE  k = l
BY KeyOrder DEF IsNext, Page

\* The publishes in flight over a step of one walk: none begins or ends, one
\* begins, one ends.
LEMMA FlightStays ==
    ASSUME TypeOK, NEW w \in Walkers, walk' = [walk EXCEPT ![w] = walk'[w]],
           NEW k \in Keys,
           (walk'[w].pc = "await" /\ IsNext(w, k)') <=> (walk[w].pc = "await" /\ IsNext(w, k))
    PROVE  InFlight(k)' = InFlight(k)
<1>1. \A v \in Walkers \ {w} : walk'[v] = walk[v] /\ (IsNext(v, k)' <=> IsNext(v, k))
  BY DEF TypeOK, IsNext, Page
<1>2. {v \in Walkers : walk'[v].pc = "await" /\ IsNext(v, k)'}
         = {v \in Walkers : walk[v].pc = "await" /\ IsNext(v, k)}
  BY <1>1
<1> QED BY <1>2 DEF InFlight

LEMMA FlightBegins ==
    ASSUME TypeOK, NEW w \in Walkers, walk' = [walk EXCEPT ![w] = walk'[w]],
           NEW k \in Keys, walk[w].pc # "await", walk'[w].pc = "await", IsNext(w, k)'
    PROVE  InFlight(k)' = InFlight(k) + 1
<1> DEFINE F == {v \in Walkers : walk[v].pc = "await" /\ IsNext(v, k)}
           G == {v \in Walkers : walk'[v].pc = "await" /\ IsNext(v, k)'}
<1>1. \A v \in Walkers \ {w} : walk'[v] = walk[v] /\ (IsNext(v, k)' <=> IsNext(v, k))
  BY DEF TypeOK, IsNext, Page
<1>2. G = F \cup {w} /\ w \notin F
  BY <1>1
<1>3. InFlight(k) = Cardinality(F) /\ InFlight(k)' = Cardinality(G) /\ IsFiniteSet(F)
  BY InFlightType DEF InFlight
<1> HIDE DEF F, G
<1> QED BY <1>2, <1>3, FS_AddElement

LEMMA FlightEnds ==
    ASSUME TypeOK, NEW w \in Walkers, walk' = [walk EXCEPT ![w] = walk'[w]],
           NEW k \in Keys, walk[w].pc = "await", walk'[w].pc # "await", IsNext(w, k)
    PROVE  /\ InFlight(k)' = InFlight(k) - 1
           /\ \A l \in Keys \ {k} : InFlight(l)' = InFlight(l)
<1> DEFINE F == {v \in Walkers : walk[v].pc = "await" /\ IsNext(v, k)}
           G == {v \in Walkers : walk'[v].pc = "await" /\ IsNext(v, k)'}
<1>1. \A v \in Walkers \ {w} : walk'[v] = walk[v] /\ (IsNext(v, k)' <=> IsNext(v, k))
  BY DEF TypeOK, IsNext, Page
<1>2. G = F \ {w} /\ w \in F
  BY <1>1
<1>3. InFlight(k) = Cardinality(F) /\ InFlight(k)' = Cardinality(G) /\ IsFiniteSet(F)
  BY InFlightType DEF InFlight
<1>4. ASSUME NEW l \in Keys \ {k} PROVE InFlight(l)' = InFlight(l)
  <2>1. ~IsNext(w, l)
    BY NextIsOne
  <2> QED BY <2>1, FlightStays
<1> HIDE DEF F, G
<1>5. InFlight(k)' = InFlight(k) - 1
  BY <1>2, <1>3, FS_RemoveElement
<1> QED BY <1>4, <1>5

\* The most publishes the stored record accounts for.
Counted(k) == IF retry[k] = None THEN RetryMaxAttempts ELSE retry[k].attempts

CountedOK == \A k \in Keys : Counted(k) \in 0..RetryMaxAttempts

LEMMA CountedType == TypeOK => CountedOK
<1> SUFFICES ASSUME TypeOK, NEW k \in Keys PROVE Counted(k) \in 0..RetryMaxAttempts
  BY DEF CountedOK
<1>1. retry[k] \in RetryRecord \cup {None}
  BY DEF TypeOK
<1> QED BY <1>1, RetryAssumption DEF Counted, RetryRecord

CountInv == SnapInv /\ EveryPublishCounted

\* A step that leaves the history of publishes alone keeps the count if it
\* leaves the records and the publishes in flight alone.
LEMMA SameCount ==
    ASSUME EveryPublishCounted, UNCHANGED <<published, uncounted, retry>>,
           \A k \in Keys : InFlight(k)' = InFlight(k)
    PROVE  EveryPublishCounted'
BY DEF EveryPublishCounted

\* A walk that visits k writes x there: `more' publishes of k have ended, and
\* the record it read is x but for that many attempts, or has gone for good.
LEMMA VisitCounts ==
    ASSUME SnapInv, EveryPublishCounted, TypeOK', NEW w \in Walkers, NEW k \in Keys, IsNext(w, k),
           NEW x, retry' = [retry EXCEPT ![k] = x], Account(w, k),
           NEW more \in {0, 1},
           InFlight(k)' = InFlight(k) - more,
           \A l \in Keys \ {k} : InFlight(l)' = InFlight(l),
           x = None \/ x.attempts = walk[w].snap[k].attempts + more
    PROVE  EveryPublishCounted'
<1>1. /\ retry \in [Keys -> RetryRecord \cup {None}]
      /\ uncounted \in [Keys -> Nat] /\ published \in [Keys -> Nat]
      /\ walk[w].snap[k] \in RetryRecord
  BY DEF SnapInv, TypeOK, HistoryOK, IsNext, Page, Walk
<1>2. retry'[k] = x /\ \A l \in Keys \ {k} : retry'[l] = retry[l]
  BY <1>1
<1>3. published' = published
  BY DEF Account
<1>4. /\ Counted(k) \in 0..RetryMaxAttempts /\ Counted(k)' \in 0..RetryMaxAttempts
      /\ InFlight(k) \in Nat
  <2>1. Counted(k) \in 0..RetryMaxAttempts
    BY CountedType DEF SnapInv, CountedOK
  <2>2. (TypeOK => CountedOK)'
    BY CountedType, PTL
  <2> QED BY <2>1, <2>2, InFlightType DEF CountedOK
<1>5. published[k] <= Counted(k) + InFlight(k) + uncounted[k]
  BY DEF EveryPublishCounted, Counted
<1>6. Counted(k)' >= more /\ (x # None => Counted(k)' = walk[w].snap[k].attempts + more)
  BY <1>1, <1>2, RetryAssumption DEF Counted, RetryRecord
<1>7. CASE Overtaken(w, k)
  <2>1. uncounted'[k] = uncounted[k] + RetryMaxAttempts
        /\ \A l \in Keys \ {k} : uncounted'[l] = uncounted[l]
    BY <1>1, <1>7 DEF Account
  <2>2. published[k] <= Counted(k)' + (InFlight(k) - more) + uncounted'[k]
    BY <1>1, <1>4, <1>5, <1>6, <2>1, RetryAssumption
  <2>3. ASSUME NEW l \in Keys
        PROVE  published'[l] <= Counted(l)' + InFlight(l)' + uncounted'[l]
    <3>1. CASE l = k
      BY <1>3, <2>2, <3>1
    <3>2. CASE l # k
      BY <1>2, <1>3, <2>1, <3>2 DEF EveryPublishCounted, Counted
    <3> QED BY <3>1, <3>2
  <2> QED BY <2>3 DEF EveryPublishCounted, Counted
<1>8. CASE ~Overtaken(w, k)
  <2>1. retry[k] = walk[w].snap[k]
    BY <1>8 DEF Overtaken, SnapInv, IsNext, Page
  <2>2. Counted(k) = walk[w].snap[k].attempts /\ walk[w].snap[k].attempts + 1 <= RetryMaxAttempts
    BY <1>1, <2>1, NoneAssumption, RetryAssumption DEF Counted, RetryRecord, IsNext, Page
  <2>3. Counted(k)' >= Counted(k) + more
    BY <1>1, <1>2, <1>6, <2>2, RetryAssumption DEF Counted, RetryRecord
  <2>4. uncounted' = uncounted
    BY <1>8 DEF Account
  <2>5. published[k] <= Counted(k)' + (InFlight(k) - more) + uncounted'[k]
    BY <1>1, <1>4, <1>5, <2>3, <2>4
  <2>6. ASSUME NEW l \in Keys
        PROVE  published'[l] <= Counted(l)' + InFlight(l)' + uncounted'[l]
    <3>1. CASE l = k
      BY <1>3, <2>5, <3>1
    <3>2. CASE l # k
      BY <1>2, <1>3, <2>4, <3>2 DEF EveryPublishCounted, Counted
    <3> QED BY <3>1, <3>2
  <2> QED BY <2>6 DEF EveryPublishCounted, Counted
<1> QED BY <1>7, <1>8

LEMMA InFlightTypes == \A k \in Keys : InFlight(k) \in Nat
BY InFlightType

LEMMA WalkStepCounts ==
    ASSUME CountInv, TypeOK', NEW w \in Walkers, WalkStep(w)
    PROVE  EveryPublishCounted'
<1>a. TypeOK /\ SnapInv /\ EveryPublishCounted /\ walk \in [Walkers -> Walk] /\ walk[w] \in Walk
  BY DEF CountInv, SnapInv, TypeOK
<1>b. \A k \in Keys : Visit(w, k) \in Walk /\ Visit(w, k).pc = walk[w].pc
  BY <1>a, VisitType, VisitSnap
\* Steps of a walk that is not awaiting a relay, before or after.
<1>1. ASSUME NEW v, walk' = [walk EXCEPT ![w] = v], walk[w].pc # "await", v.pc # "await"
      PROVE  \A k \in Keys : InFlight(k)' = InFlight(k)
  <2>1. walk'[w] = v /\ walk' = [walk EXCEPT ![w] = walk'[w]]
    BY <1>a, <1>1
  <2> QED BY <1>a, <1>1, <2>1, FlightStays
<1>2. CASE ListPage(w)
  <2> DEFINE page == {k \in Unlisted(w) :
                        Cardinality({l \in Unlisted(w) : Before(l, k)}) < RetryListPage}
             snap == [k \in Keys |-> IF k \in page THEN retry[k] ELSE None]
             more == Cardinality(page) = RetryListPage
  <2>1. /\ walk' = [walk EXCEPT ![w].snap = snap, ![w].more = more] /\ walk[w].pc = "scan"
        /\ UNCHANGED <<published, uncounted, retry>>
    BY <1>2 DEF ListPage, Scanning
  <2> HIDE DEF page, snap, more
  <2> DEFINE v == [walk[w] EXCEPT !.snap = snap, !.more = more]
  <2>2. walk' = [walk EXCEPT ![w] = v] /\ v.pc = "scan"
    BY <1>a, <2>1 DEF Walk
  <2> HIDE DEF v
  <2> QED BY <1>a, <1>1, <2>1, <2>2, SameCount
<1>3. ASSUME NEW k \in Keys, VisitNotDue(w, k) PROVE EveryPublishCounted'
  <2> DEFINE v == [Visit(w, k) EXCEPT !.earliest = Sooner(walk[w].snap[k].nextAttemptAt, @)]
  <2>1. /\ walk' = [walk EXCEPT ![w] = v] /\ walk[w].pc = "scan"
        /\ UNCHANGED <<published, uncounted, retry>>
    BY <1>3 DEF VisitNotDue, Scanning, history
  <2>2. v.pc = "scan"
    BY <1>b, <2>1 DEF Walk
  <2> HIDE DEF v
  <2> QED BY <1>a, <1>1, <2>1, <2>2, SameCount
<1>4. ASSUME NEW k \in Keys, VisitOverBudget(w, k) PROVE EveryPublishCounted'
  <2> DEFINE v == [walk[w] EXCEPT !.snap = NoPage, !.startAfter = k, !.more = FALSE,
                                  !.earliest = walk[w].start]
  <2>1. /\ walk' = [walk EXCEPT ![w] = v] /\ walk[w].pc = "scan"
        /\ UNCHANGED <<published, uncounted, retry>>
    BY <1>4 DEF VisitOverBudget, Scanning, history
  <2>2. v.pc = "scan"
    BY <1>a, <2>1 DEF Walk
  <2> HIDE DEF v
  <2> QED BY <1>a, <1>1, <2>1, <2>2, SameCount
<1>5. ASSUME NEW k \in Keys, VisitCooling(w, k) PROVE EveryPublishCounted'
  <2>1. PICK deferredTo \in AfterCooldown(CooldownOf(w, k[2])) :
          /\ retry' = [retry EXCEPT ![k] = [walk[w].snap[k] EXCEPT !.nextAttemptAt = deferredTo]]
          /\ walk' = [walk EXCEPT ![w] =
                [Visit(w, k) EXCEPT !.known[k[2]] = CooldownOf(w, k[2]),
                                    !.earliest = Sooner(deferredTo, @)]]
    BY <1>5 DEF VisitCooling
  <2> DEFINE v == [Visit(w, k) EXCEPT !.known[k[2]] = CooldownOf(w, k[2]),
                                      !.earliest = Sooner(deferredTo, @)]
             x == [walk[w].snap[k] EXCEPT !.nextAttemptAt = deferredTo]
  <2>2. IsNext(w, k) /\ Account(w, k) /\ walk[w].pc = "scan"
    BY <1>5 DEF VisitCooling, Scanning
  <2>3. v.pc = "scan"
    BY <1>b, <2>2 DEF Walk
  <2>4. walk[w].snap[k] \in RetryRecord
    BY <1>a, <2>2 DEF IsNext, Page, Walk
  <2>5. x.attempts = walk[w].snap[k].attempts + 0
    BY <2>4 DEF RetryRecord
  <2>6. retry' = [retry EXCEPT ![k] = x] /\ walk' = [walk EXCEPT ![w] = v]
    BY <2>1
  <2> HIDE DEF v, x
  <2>7. \A l \in Keys : InFlight(l)' = InFlight(l)
    BY <1>1, <2>2, <2>3, <2>6
  <2>8. InFlight(k)' = InFlight(k) - 0
    BY <2>7, InFlightTypes
  <2> QED BY <1>a, <2>2, <2>5, <2>6, <2>7, <2>8, VisitCounts
<1>6. ASSUME NEW k \in Keys, Attempt(w, k) PROVE EveryPublishCounted'
  <2> DEFINE v == [walk[w] EXCEPT !.pc = "await", !.processed = @ + 1,
                                  !.known[k[2]] = CooldownOf(w, k[2])]
  <2>1. /\ walk' = [walk EXCEPT ![w] = v] /\ IsNext(w, k) /\ walk[w].pc = "scan"
        /\ published' = [published EXCEPT ![k] = @ + 1]
        /\ UNCHANGED <<retry, uncounted>>
    BY <1>6 DEF Attempt, Scanning
  <2>2. v.snap = walk[w].snap /\ v.pc = "await"
    BY <1>a DEF Walk
  <2> HIDE DEF v
  <2>3. walk'[w] = v /\ walk' = [walk EXCEPT ![w] = walk'[w]]
    BY <1>a, <2>1
  <2>4. \A l \in Keys : IsNext(w, l)' <=> IsNext(w, l)
    BY <2>2, <2>3 DEF IsNext, Page
  <2>5. InFlight(k)' = InFlight(k) + 1
    BY <1>a, <2>1, <2>2, <2>3, <2>4, FlightBegins
  <2>6. ASSUME NEW l \in Keys \ {k} PROVE InFlight(l)' = InFlight(l)
    <3>1. ~IsNext(w, l)
      BY <2>1, NextIsOne
    <3> QED BY <1>a, <2>3, <2>4, <3>1, FlightStays
  <2>7. /\ published[k] \in Nat /\ published'[k] = published[k] + 1
        /\ \A l \in Keys \ {k} : published'[l] = published[l]
        /\ uncounted[k] \in Nat /\ Counted(k) \in Nat /\ InFlight(k) \in Nat
        /\ published[k] <= Counted(k) + InFlight(k) + uncounted[k]
    BY <1>a, <2>1, CountedType, InFlightTypes, RetryAssumption
       DEF TypeOK, HistoryOK, EveryPublishCounted, Counted, CountedOK
  <2>8. published'[k] <= Counted(k) + InFlight(k)' + uncounted[k]
    BY <2>5, <2>7
  <2>9. ASSUME NEW l \in Keys
        PROVE  published'[l] <= Counted(l) + InFlight(l)' + uncounted[l]
    <3>1. CASE l = k
      BY <2>8, <3>1
    <3>2. CASE l # k
      BY <1>a, <2>6, <2>7, <3>2 DEF EveryPublishCounted, Counted
    <3> QED BY <3>1, <3>2
  <2> QED BY <2>1, <2>9 DEF EveryPublishCounted, Counted
\* An answer: the walk stops awaiting k.
<1>7. ASSUME NEW k \in Keys, IsNext(w, k), walk[w].pc = "await", NEW v,
             walk' = [walk EXCEPT ![w] = v], v.pc = "scan", NEW x,
             retry' = [retry EXCEPT ![k] = x], Account(w, k),
             x = None \/ x.attempts = walk[w].snap[k].attempts + 1
      PROVE  EveryPublishCounted'
  <2>1. walk'[w] = v /\ walk' = [walk EXCEPT ![w] = walk'[w]]
    BY <1>a, <1>7
  <2>2. walk'[w].pc # "await"
    BY <1>7, <2>1
  <2>3. /\ InFlight(k)' = InFlight(k) - 1
        /\ \A l \in Keys \ {k} : InFlight(l)' = InFlight(l)
    BY <1>a, <1>7, <2>1, <2>2, FlightEnds
  <2> QED BY <1>a, <1>7, <2>3, VisitCounts
<1>8. ASSUME NEW k \in Keys, NEW outcome \in Outcomes, Settled(w, k, outcome)
      PROVE  EveryPublishCounted'
  <2> DEFINE forget == outcome = "accepted" /\ walk[w].known[k[2]] > 0
             v == [Visit(w, k) EXCEPT !.pc = "scan", !.known[k[2]] = IF forget THEN 0 ELSE @]
  <2>1. /\ walk' = [walk EXCEPT ![w] = v] /\ retry' = [retry EXCEPT ![k] = None]
        /\ IsNext(w, k) /\ walk[w].pc = "await" /\ Account(w, k)
    BY <1>8 DEF Settled
  <2>2. v.pc = "scan"
    BY <1>b DEF Walk
  <2> HIDE DEF v
  <2> QED BY <1>7, <2>1, <2>2
<1>9. ASSUME NEW k \in Keys, NEW outcome \in Outcomes, Exhausted(w, k, outcome)
      PROVE  EveryPublishCounted'
  <2> DEFINE v == [Visit(w, k) EXCEPT !.pc = "scan"]
  <2>1. /\ walk' = [walk EXCEPT ![w] = v] /\ retry' = [retry EXCEPT ![k] = None]
        /\ IsNext(w, k) /\ walk[w].pc = "await" /\ Account(w, k)
    BY <1>9 DEF Exhausted
  <2>2. v.pc = "scan"
    BY <1>b DEF Walk
  <2> HIDE DEF v
  <2> QED BY <1>7, <2>1, <2>2
<1>10. ASSUME NEW k \in Keys, NEW outcome \in Outcomes, Reschedule(w, k, outcome)
       PROVE  EveryPublishCounted'
  <2>1. /\ IsNext(w, k) /\ walk[w].pc = "await" /\ Account(w, k)
        /\ walk' = [walk EXCEPT ![w] = walk'[w]] /\ walk'[w].pc = "scan"
        /\ retry' = [retry EXCEPT ![k] = retry'[k]]
    BY <1>a, <1>10, RescheduleEffect DEF Reschedule
  <2>2. retry'[k].attempts = walk[w].snap[k].attempts + 1
    BY <1>a, <1>10 DEF Reschedule, TypeOK
  <2> QED BY <1>7, <2>1, <2>2
<1>11. CASE FinishWalk(w)
  <2> DEFINE v == [IdleWalk EXCEPT !.pc = IF w = AlarmHandler THEN "connect" ELSE "idle"]
  <2>1. /\ walk' = [walk EXCEPT ![w] = v] /\ walk[w].pc = "scan"
        /\ UNCHANGED <<published, uncounted, retry>>
    BY <1>11 DEF FinishWalk, Scanning
  <2>2. v.pc # "await"
    BY IdleWalkType DEF Walk
  <2> HIDE DEF v
  <2> QED BY <1>a, <1>1, <2>1, <2>2, SameCount
<1> QED BY <1>2, <1>3, <1>4, <1>5, <1>6, <1>8, <1>9, <1>10, <1>11 DEF WalkStep

LEMMA EnqueueCounts ==
    ASSUME CountInv, NEW e \in Events, NEW relays \in SUBSET Relays,
           NEW throttled \in SUBSET relays, EnqueueRetry(e, relays, throttled)
    PROVE  EveryPublishCounted'
<1> DEFINE fresh == {r \in relays : retry[<<e, r>>] = None}
           times == [r \in Relays |-> FirstAttemptTimes(Cooldowns(throttled)[r])]
           anytime == UNION {times[r] : r \in fresh}
<1>1. PICK at \in [fresh -> anytime] :
         retry' = [k \in Keys |-> IF k[1] = e /\ k[2] \in fresh
                                   THEN [attempts |-> 0, nextAttemptAt |-> at[k[2]]]
                                   ELSE retry[k]]
  BY DEF EnqueueRetry
<1>2. /\ published' = [k \in Keys |-> IF k \in {e} \X fresh THEN 0 ELSE published[k]]
      /\ uncounted' = [k \in Keys |-> IF k \in {e} \X fresh THEN 0 ELSE uncounted[k]]
      /\ walk' = walk
  BY DEF EnqueueRetry
<1> HIDE DEF fresh, times, anytime
<1>3. \A k \in Keys : InFlight(k)' = InFlight(k) /\ InFlight(k) \in Nat
  BY <1>2, InFlightTypes DEF InFlight, IsNext, Page
<1>4. \A k \in Keys : k \in {e} \X fresh <=> k[1] = e /\ k[2] \in fresh
  <2> TAKE k \in Keys
  <2>1. k = <<k[1], k[2]>>
    BY DEF Keys
  <2> QED BY <2>1
<1>5. ASSUME NEW k \in Keys
      PROVE  published'[k] <= Counted(k)' + InFlight(k)' + uncounted'[k]
  <2>1. CASE k \in {e} \X fresh
    <3>1. published'[k] = 0 /\ uncounted'[k] = 0
      BY <1>2, <2>1
    <3>2. retry'[k] = [attempts |-> 0, nextAttemptAt |-> at[k[2]]]
      BY <1>1, <1>4, <2>1
    <3>3. Counted(k)' \in Nat
      BY <3>2, RetryAssumption DEF Counted
    <3> QED BY <1>3, <3>1, <3>3
  <2>2. CASE k \notin {e} \X fresh
    BY <1>1, <1>2, <1>3, <1>4, <2>2 DEF CountInv, EveryPublishCounted, Counted
  <2> QED BY <2>1, <2>2
<1> QED BY <1>5 DEF EveryPublishCounted, Counted

\* RETRY_MAX_ATTEMPTS bounds the publishes of every record, from the
\* enqueueRetry that made it to its deletion: each publishOnce is in the
\* record's attempts or still in flight, or was cut off by an eviction, or
\* belongs to a walk that overlapped another and found the record changed.
THEOREM PublishesAlwaysCounted == Spec => []EveryPublishCounted
<1>1. Init => CountInv
  <2> SUFFICES ASSUME Init PROVE EveryPublishCounted
    BY SnapInit DEF CountInv
  <2>1. \A k \in Keys : InFlight(k) \in Nat
    BY InFlightTypes
  <2> QED BY <2>1, RetryAssumption DEF Init, EveryPublishCounted
<1>2. CountInv /\ TypeOK' /\ [Next]_vars => CountInv'
  <2> SUFFICES ASSUME CountInv, TypeOK', [Next]_vars PROVE EveryPublishCounted'
    BY NextSnap DEF CountInv
  <2>a. TypeOK /\ EveryPublishCounted /\ walk \in [Walkers -> Walk]
    BY DEF CountInv, SnapInv, TypeOK
  <2>1. CASE Tick \/ ScheduleReconnect \/ UNCHANGED vars
    <3>1. walk' = walk /\ UNCHANGED <<published, uncounted, retry>>
      BY <2>1 DEF Tick, ScheduleReconnect, vars, history
    <3>2. \A k \in Keys : InFlight(k)' = InFlight(k)
      BY <3>1 DEF InFlight, IsNext, Page
    <3> QED BY <2>a, <3>1, <3>2, SameCount
  <2>2. ASSUME NEW e \in Events, NEW relays \in SUBSET Relays,
               NEW throttled \in SUBSET relays, EnqueueRetry(e, relays, throttled)
        PROVE  EveryPublishCounted'
    BY <2>2, EnqueueCounts
  <2>3. ASSUME NEW w \in Walkers, NEW v \in {NewWalk, IdleWalk},
               walk' = [walk EXCEPT ![w] = v], walk[w].pc # "await",
               UNCHANGED <<published, uncounted, retry>>
        PROVE  EveryPublishCounted'
    <3>1. v.pc # "await"
      BY IdleWalkType DEF NewWalk, IdleWalk, Walk
    <3>2. walk'[w] = v /\ walk' = [walk EXCEPT ![w] = walk'[w]]
      BY <2>a, <2>3
    <3>3. \A k \in Keys : InFlight(k)' = InFlight(k)
      BY <2>a, <2>3, <3>1, <3>2, FlightStays
    <3> QED BY <2>a, <2>3, <3>3, SameCount
  <2>4. CASE FireAlarm
    <3>1. /\ walk' = [walk EXCEPT ![AlarmHandler] = NewWalk] /\ AlarmHandler \in Walkers
          /\ walk[AlarmHandler].pc # "await" /\ UNCHANGED <<published, uncounted, retry>>
      BY <2>4, WalkersAssumption DEF FireAlarm
    <3> QED BY <2>3, <3>1
  <2>5. ASSUME NEW w \in Walkers, StartSweep(w) PROVE EveryPublishCounted'
    <3>1. /\ walk' = [walk EXCEPT ![w] = NewWalk]
          /\ walk[w].pc # "await" /\ UNCHANGED <<published, uncounted, retry>>
      BY <2>5 DEF StartSweep
    <3> QED BY <2>3, <3>1
  <2>6. ASSUME NEW w \in Walkers, WalkStep(w) PROVE EveryPublishCounted'
    BY <2>6, WalkStepCounts
  <2>7. CASE EndAlarm
    <3>1. /\ walk' = [walk EXCEPT ![AlarmHandler] = IdleWalk] /\ AlarmHandler \in Walkers
          /\ walk[AlarmHandler].pc # "await" /\ UNCHANGED <<published, uncounted, retry>>
      BY <2>7, WalkersAssumption DEF EndAlarm, history
    <3> QED BY <2>3, <3>1
  <2>8. CASE Evict
    <3>1. /\ retry' = retry /\ published' = published
          /\ uncounted' = [k \in Keys |-> uncounted[k] + InFlight(k)]
      BY <2>8 DEF Evict
    <3>2. (\A k \in Keys : InFlight(k) \in Nat)'
      BY InFlightTypes, PTL
    <3>3. ASSUME NEW k \in Keys
          PROVE  published'[k] <= Counted(k)' + InFlight(k)' + uncounted'[k]
      <4>1. published[k] <= Counted(k) + InFlight(k) + uncounted[k]
        BY <2>a DEF EveryPublishCounted, Counted
      <4>2. published[k] \in Nat /\ uncounted[k] \in Nat /\ Counted(k) \in Nat /\ InFlight(k) \in Nat
        BY <2>a, CountedType, InFlightTypes, RetryAssumption DEF TypeOK, HistoryOK, CountedOK
      <4>3. Counted(k)' = Counted(k) /\ uncounted'[k] = uncounted[k] + InFlight(k)
        BY <3>1 DEF Counted
      <4> QED BY <3>1, <3>2, <4>1, <4>2, <4>3
    <3> QED BY <3>3 DEF EveryPublishCounted, Counted
  <2> QED BY <2>1, <2>2, <2>4, <2>5, <2>6, <2>7, <2>8 DEF Next
<1>3. CountInv => EveryPublishCounted
  BY DEF CountInv
<1> QED BY <1>1, <1>2, <1>3, TypeCorrect, PTL DEF Spec

=============================================================================
