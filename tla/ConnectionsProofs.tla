-------------------------- MODULE ConnectionsProofs --------------------------
(***************************************************************************)
(* Theorems about Connections, for any number of relays, callers, sockets  *)
(* and evictions and any replay window that WindowAssumption allows:       *)
(*   TypeCorrect, EntryIsLive, NoRelayForgotten, RecoveredBySweep,         *)
(*   NewestStays.                                                          *)
(* RecoveredBySweep rests on an invariant of its own: an event that is not *)
(* covered yet was missed by no more sweeps than the relay's replays that  *)
(* failed in a row, and no sweep is more than one tick behind.             *)
(***************************************************************************)
EXTENDS Connections, TLAPS

-----------------------------------------------------------------------------
(* The inductive invariant.                                                *)

Callings == [pc : {"idle", "check", "connect", "replay"}, at : 0..Len(Relays)]

\* Only the sweep replays, and who walks is at a relay.
CallerInv ==
    \A c \in Callers :
        /\ caller[c].pc = "replay" => c = "sweep"
        /\ caller[c].pc # "idle" => caller[c].at \in Walk

\* A sweep is of the current tick: the relays it has passed were replayed in
\* it, the others in it or in the tick before.
SweepInv ==
    \A r \in Walk : /\ swept[r] <= now
                    /\ swept[r] >= now - 1
                    /\ ~Unreached(r) => swept[r] = now

\* What a relay has is not older than it can be, and what the cache does not
\* have yet was missed by failed replays only.
MissedInv ==
    \A r \in Walk : \A h \in held[r] :
        /\ h.since <= now
        /\ h.event.at >= h.since - MaxDelay
        /\ ~Has(h.event) => swept[r] - h.since <= failed[r]

IInv ==
    /\ TypeOK
    /\ CallerInv
    /\ MapIsLive
    /\ ReconnectCovered
    /\ SweepInv
    /\ MissedInv

-----------------------------------------------------------------------------
(* Facts about the operators.                                              *)

LEMMA WalkType ==
  /\ Walk = 1..Len(Relays) /\ Len(Relays) \in Nat /\ Len(Relays) >= 1
  BY RelaysAssumption DEF Walk

LEMMA AfterType ==
  ASSUME NEW c \in Callers, NEW k \in Walk
  PROVE  /\ After(c, k) \in Callings
         /\ After(c, k).pc = "replay" => c = "sweep"
         /\ After(c, k).pc # "idle" => After(c, k).at \in Walk
         /\ After(c, k).pc # "connect"
         /\ \A r \in Walk : r > k => After(c, k).pc = "check" /\ After(c, k).at <= r
         /\ c = "sweep" => After(c, k).pc \in {"check", "replay"}
         /\ c = "sweep" /\ After(c, k).pc = "replay" => After(c, k).at = 1
  BY WalkType DEF After, Idle, Callings

LEMMA ReplayedType ==
  ASSUME NEW k \in Walk
  PROVE  /\ Replayed(k) \in Callings
         /\ Replayed(k).pc \in {"replay", "idle"}
         /\ Replayed(k).pc # "idle" => Replayed(k).at = k + 1 /\ k + 1 \in Walk
         /\ Replayed(k).pc = "idle" => k = Len(Relays)
  BY WalkType DEF Replayed, Idle, Callings

\* The counters are natural numbers below their bounds.
LEMMA CounterType ==
  ASSUME TypeOK
  PROVE  /\ MaxTime \in Nat /\ MaxFailures \in Nat /\ MaxDelay \in Nat /\ Window \in Nat
         /\ now \in Nat /\ now <= MaxTime
         /\ \A r \in Walk : /\ swept[r] \in Nat /\ swept[r] <= MaxTime
                            /\ failed[r] \in Nat /\ failed[r] <= MaxFailures
<1>1. MaxTime \in Nat /\ MaxFailures \in Nat /\ MaxDelay \in Nat /\ Window \in Nat
  BY TimesAssumption
<1>2. /\ now \in 0..MaxTime
      /\ \A r \in Walk : swept[r] \in 0..MaxTime /\ failed[r] \in 0..MaxFailures
  BY DEF TypeOK
<1>3. QED
  BY <1>1, <1>2

\* What a relay has is an event with the tick it got it in.
LEMMA HeldType ==
  ASSUME TypeOK, NEW r \in Walk, NEW h \in held[r]
  PROVE  h.event \in Events /\ h.since \in Nat /\ h.event.at \in Nat
<1>1. h \in [event : Events, since : 0..MaxTime]
  BY DEF TypeOK
<1>2. MaxTime \in Nat
  BY TimesAssumption
<1>3. QED
  BY <1>1, <1>2 DEF Events

\* One event handled: it or a newer one is cached, and nothing newer is lost.
LEMMA HandleOne ==
  ASSUME TypeOK, NEW e \in Events, cache' = handleEvent(e)
  PROVE  /\ cache' \in Events \cup {None}
         /\ Has(e)'
         /\ \A f \in Events : Has(f) => Has(f)'
         /\ cache # None => cache' # None /\ (cache' = cache \/ cache'.at > cache.at)
<1>1. e.at \in Int /\ e # None /\ (cache # None => cache.at \in Int)
  BY CounterType, NoneAssumption DEF TypeOK, Events
<1>2. \A f \in Events : f.at \in Int
  BY DEF Events
<1>3. CASE cache # None /\ cache.at >= e.at
  <2>1. cache' = cache
    BY <1>3 DEF handleEvent
  <2>2. QED
    BY <1>3, <2>1 DEF Has, TypeOK
<1>4. CASE ~(cache # None /\ cache.at >= e.at)
  <2>1. cache' = e
    BY <1>4 DEF handleEvent
  <2>2. cache # None => e.at > cache.at
    BY <1>1, <1>4
  <2>3. ASSUME NEW f \in Events, Has(f)
        PROVE  Has(f)'
    BY <1>1, <1>2, <2>1, <2>2, <2>3 DEF Has
  <2>4. Has(e)'
    BY <1>1, <2>1 DEF Has
  <2>5. QED
    BY <1>1, <2>1, <2>2, <2>3, <2>4
<1>5. QED
  BY <1>3, <1>4

\* A set of events handled: the same for each of them.
LEMMA HandleSome ==
  ASSUME TypeOK, NEW got \in SUBSET Events, HandleAll(got)
  PROVE  /\ cache' \in Events \cup {None}
         /\ \A e \in got : Has(e)'
         /\ \A f \in Events : Has(f) => Has(f)'
         /\ cache # None => cache' # None /\ (cache' = cache \/ cache'.at > cache.at)
<1>1. \A f \in Events : f.at \in Int /\ f # None
  BY TimesAssumption, NoneAssumption DEF Events
<1>2. cache # None => cache \in Events /\ cache.at \in Int
  BY DEF TypeOK, Events
<1>3. CASE \A e \in got : handleEvent(e) = cache
  <2>1. cache' = cache
    BY <1>3 DEF HandleAll
  <2>2. ASSUME NEW e \in got
        PROVE  Has(e)
    BY <1>1, <1>2, <1>3 DEF handleEvent, Has
  <2>3. QED
    BY <2>1, <2>2 DEF Has, TypeOK
<1>4. CASE ~\A e \in got : handleEvent(e) = cache
  <2>1. PICK e \in got : (\A f \in got : f.at <= e.at) /\ cache' = e
    BY <1>4 DEF HandleAll
  <2>2. PICK f \in got : handleEvent(f) # cache
    BY <1>4
  <2>3. cache # None => cache.at < f.at
    BY <1>1, <1>2, <2>2 DEF handleEvent
  <2>4. cache # None => cache.at < e.at
    BY <1>1, <1>2, <2>1, <2>3
  <2>5. e \in Events /\ e # None /\ e.at \in Int
    BY <1>1
  <2>6. \A g \in got : Has(g)'
    <3>1. cache' # None /\ \A g \in got : g.at <= cache'.at /\ g.at \in Int /\ cache'.at \in Int
      BY <1>1, <2>1, <2>5
    <3>2. QED
      BY <3>1 DEF Has
  <2>7. ASSUME NEW g \in Events, Has(g)
        PROVE  Has(g)'
    BY <1>1, <1>2, <2>1, <2>4, <2>5, <2>7 DEF Has
  <2>8. QED
    BY <2>1, <2>4, <2>5, <2>6, <2>7
<1>5. QED
  BY <1>3, <1>4

-----------------------------------------------------------------------------
(* What steps leave alone.                                                 *)

LEMMA SweepKept ==
  ASSUME SweepInv, UNCHANGED <<now, swept>>, \A r \in Walk : Unreached(r) => Unreached(r)'
  PROVE  SweepInv'
  BY DEF SweepInv

LEMMA UnreachedKept ==
  ASSUME caller'["sweep"] = caller["sweep"], NEW r \in Walk
  PROVE  Unreached(r)' <=> Unreached(r)
  BY DEF Unreached

LEMMA MissedKept ==
  ASSUME TypeOK, MissedInv, UNCHANGED <<held, now, swept, failed>>,
         \A f \in Events : Has(f) => Has(f)'
  PROVE  MissedInv'
<1> SUFFICES ASSUME NEW r \in Walk, NEW h \in held[r]
             PROVE  /\ h.since <= now
                    /\ h.event.at >= h.since - MaxDelay
                    /\ ~Has(h.event)' => swept[r] - h.since <= failed[r]
  BY DEF MissedInv
<1>1. h.event \in Events
  BY DEF TypeOK
<1>2. QED
  BY <1>1 DEF MissedInv

\* A caller moves to k.
LEMMA CallerMoves ==
  ASSUME TypeOK, CallerInv, NEW c \in Callers, NEW k \in Callings,
         caller' = [caller EXCEPT ![c] = k],
         k.pc = "replay" => c = "sweep", k.pc # "idle" => k.at \in Walk
  PROVE  /\ caller' \in [Callers -> Callings] /\ CallerInv'
         /\ caller'[c] = k /\ \A d \in Callers : d # c => caller'[d] = caller[d]
<1>1. /\ caller' \in [Callers -> Callings] /\ caller'[c] = k
      /\ \A d \in Callers : d # c => caller'[d] = caller[d]
  BY DEF TypeOK, Callings
<1>2. CallerInv'
  BY <1>1 DEF CallerInv
<1>3. QED
  BY <1>1, <1>2

\* The relays that are covered stay covered if no entry is lost and the alarm
\* and the calls cover as much as before.
LEMMA CoveredKept ==
  ASSUME ReconnectCovered, known' = known,
         \A r \in Walk : connections'[r] = None => connections[r] = None \/ alarm',
         alarm => alarm',
         \A c \in Callers, r \in Walk :
            connections'[r] = None /\ WillTry(c, r) => alarm' \/ WillTry(c, r)',
         TypeOK
  PROVE  ReconnectCovered'
  BY DEF ReconnectCovered, TypeOK

-----------------------------------------------------------------------------
(* What arrives.                                                           *)

LEMMA RelayReceivesStep ==
  ASSUME IInv, NEW r0 \in Walk, RelayReceives(r0)
  PROVE  IInv'
<1>1. PICK e \in Events :
         /\ e.at <= now /\ e.at >= now - MaxDelay
         /\ held' = [held EXCEPT ![r0] = @ \cup {[event |-> e, since |-> now]}]
         /\ pending' = [pending EXCEPT ![r0] =
               [s \in Sockets |-> IF sockets[r0][s] = "live" THEN @[s] \cup {e} ELSE @[s]]]
  BY DEF RelayReceives
<1>2. UNCHANGED <<connections, sockets, cache, caller, alarm, known, now, swept, failed>>
  BY DEF RelayReceives, replays
<1>3. /\ DOMAIN held' = DOMAIN held
      /\ \A r \in Walk : \A h \in held'[r] :
           h \in held[r] \/ h = [event |-> e, since |-> now]
  BY <1>1
<1> DEFINE new == [event |-> e, since |-> now]
<1>4. new \in [event : Events, since : 0..MaxTime] /\ new.event = e /\ new.since = now
  BY DEF IInv, TypeOK
<1> HIDE DEF new
<1>5. TypeOK'
  <2>1. pending' \in [Walk -> [Sockets -> SUBSET Events]]
    <3>1. PICK p : p = [s \in Sockets |-> IF sockets[r0][s] = "live" THEN pending[r0][s] \cup {e}
                                         ELSE pending[r0][s]]
      OBVIOUS
    <3>2. p \in [Sockets -> SUBSET Events]
      BY <3>1 DEF IInv, TypeOK
    <3>3. pending' = [pending EXCEPT ![r0] = p]
      BY <1>1, <3>1
    <3>4. QED
      BY <3>2, <3>3 DEF IInv, TypeOK
  <2>2. \A r \in Walk : held'[r] \subseteq [event : Events, since : 0..MaxTime]
    BY <1>3, <1>4 DEF IInv, TypeOK, new
  <2>3. QED
    BY <1>2, <2>1, <2>2 DEF IInv, TypeOK
<1>6. CallerInv' /\ MapIsLive' /\ ReconnectCovered'
  BY <1>2 DEF IInv, CallerInv, MapIsLive, ReconnectCovered, WillTry
<1>7. SweepInv'
  BY <1>2, SweepKept, UnreachedKept DEF IInv
<1>8. MissedInv'
  <2> SUFFICES ASSUME NEW r \in Walk, NEW h \in held'[r]
               PROVE  /\ h.since <= now
                      /\ h.event.at >= h.since - MaxDelay
                      /\ ~Has(h.event) => swept[r] - h.since <= failed[r]
    BY <1>2 DEF MissedInv, Has
  <2>1. CASE h \in held[r]
    BY <2>1 DEF IInv, MissedInv
  <2>2. CASE h = new
    <3>1. h.event = e /\ h.since = now
      BY <1>4, <2>2
    <3>2. now \in Nat /\ swept[r] \in Nat /\ failed[r] \in Nat /\ swept[r] <= now
      BY CounterType DEF IInv, SweepInv
    <3>3. QED
      BY <1>1, <3>1, <3>2
  <2>3. QED
    BY <1>3, <2>1, <2>2 DEF new
<1>9. QED
  BY <1>5, <1>6, <1>7, <1>8 DEF IInv

LEMMA DeliverStep ==
  ASSUME IInv, NEW r0 \in Walk, NEW s0 \in Sockets, Deliver(r0, s0)
  PROVE  IInv'
<1>1. PICK e \in pending[r0][s0] :
         cache' = handleEvent(e) /\ pending' = [pending EXCEPT ![r0][s0] = @ \ {e}]
  BY DEF Deliver
<1>2. UNCHANGED <<connections, sockets, held, caller, alarm, known, now, swept, failed>>
  BY DEF Deliver, replays
<1>3. e \in Events /\ TypeOK
  <2>1. TypeOK
    BY DEF IInv
  <2>2. pending[r0][s0] \in SUBSET Events
    BY <2>1 DEF TypeOK
  <2>3. QED
    BY <2>1, <2>2
<1>4. cache' \in Events \cup {None} /\ \A f \in Events : Has(f) => Has(f)'
  BY <1>1, <1>3, HandleOne
<1>5. pending' \in [Walk -> [Sockets -> SUBSET Events]]
  <2>1. pending[r0][s0] \ {e} \in SUBSET Events
    BY <1>3 DEF TypeOK
  <2>2. QED
    BY <1>1, <1>3, <2>1 DEF TypeOK
<1>6. TypeOK'
  BY <1>2, <1>3, <1>4, <1>5 DEF TypeOK
<1>7. CallerInv' /\ MapIsLive' /\ ReconnectCovered'
  BY <1>2 DEF IInv, CallerInv, MapIsLive, ReconnectCovered, WillTry
<1>8. SweepInv'
  BY <1>2, SweepKept, UnreachedKept DEF IInv
<1>9. MissedInv'
  BY <1>2, <1>4, MissedKept DEF IInv
<1>10. QED
  BY <1>6, <1>7, <1>8, <1>9 DEF IInv

\* A socket of one relay changes its state and loses what was on its way.
LEMMA SocketType ==
  ASSUME TypeOK, NEW r0 \in Walk, NEW s0 \in Sockets, NEW state \in {"live", "mute", "closed"},
         NEW got \in SUBSET Events,
         sockets' = [sockets EXCEPT ![r0][s0] = state],
         pending' = [pending EXCEPT ![r0][s0] = got]
  PROVE  /\ sockets' \in [Walk -> [Sockets -> {"live", "mute", "closed"}]]
         /\ pending' \in [Walk -> [Sockets -> SUBSET Events]]
         /\ sockets'[r0][s0] = state
         /\ \A r \in Walk, s \in Sockets : <<r, s>> # <<r0, s0>> => sockets'[r][s] = sockets[r][s]
  BY DEF TypeOK

LEMMA DiesSilentlyStep ==
  ASSUME IInv, NEW r0 \in Walk, NEW s0 \in Sockets, DiesSilently(r0, s0)
  PROVE  IInv'
<1>1. /\ sockets' = [sockets EXCEPT ![r0][s0] = "mute"]
      /\ pending' = [pending EXCEPT ![r0][s0] = {}] /\ {} \in SUBSET Events
      /\ UNCHANGED <<connections, held, cache, caller, alarm, known, now, swept, failed>>
      /\ TypeOK
  BY DEF DiesSilently, replays, IInv
<1>2. /\ sockets' \in [Walk -> [Sockets -> {"live", "mute", "closed"}]]
      /\ pending' \in [Walk -> [Sockets -> SUBSET Events]]
      /\ sockets'[r0][s0] = "mute"
      /\ \A r \in Walk, s \in Sockets : <<r, s>> # <<r0, s0>> => sockets'[r][s] = sockets[r][s]
  BY <1>1, SocketType
<1>3. TypeOK'
  BY <1>1, <1>2 DEF TypeOK
<1>4. CallerInv' /\ ReconnectCovered'
  BY <1>1 DEF IInv, CallerInv, ReconnectCovered, WillTry
<1>5. MapIsLive'
  <2> SUFFICES ASSUME NEW r \in Walk, connections[r] # None
               PROVE  sockets'[r][connections[r]] # "closed"
    BY <1>1 DEF MapIsLive
  <2>1. connections[r] \in Sockets /\ sockets[r][connections[r]] # "closed"
    BY DEF IInv, TypeOK, MapIsLive
  <2>2. QED
    BY <1>2, <2>1
<1>6. SweepInv'
  BY <1>1, SweepKept, UnreachedKept DEF IInv
<1>7. MissedInv'
  BY <1>1, MissedKept DEF IInv, Has
<1>8. QED
  BY <1>3, <1>4, <1>5, <1>6, <1>7 DEF IInv

LEMMA HandleEndStep ==
  ASSUME IInv, NEW r0 \in Walk, NEW s0 \in Sockets, handleEnd(r0, s0)
  PROVE  IInv'
<1>1. /\ sockets' = [sockets EXCEPT ![r0][s0] = "closed"]
      /\ pending' = [pending EXCEPT ![r0][s0] = {}] /\ {} \in SUBSET Events
      /\ connections' = IF connections[r0] = s0 THEN [connections EXCEPT ![r0] = None]
                        ELSE connections
      /\ alarm' = TRUE
      /\ UNCHANGED <<held, cache, caller, known, now, swept, failed>>
      /\ TypeOK
  BY DEF handleEnd, replays, IInv
<1>2. /\ sockets' \in [Walk -> [Sockets -> {"live", "mute", "closed"}]]
      /\ pending' \in [Walk -> [Sockets -> SUBSET Events]]
      /\ sockets'[r0][s0] = "closed"
      /\ \A r \in Walk, s \in Sockets : <<r, s>> # <<r0, s0>> => sockets'[r][s] = sockets[r][s]
  BY <1>1, SocketType
<1>3. /\ connections' \in [Walk -> Sockets \cup {None}]
      /\ connections'[r0] # s0
      /\ \A r \in Walk : connections'[r] # None => connections'[r] = connections[r]
  BY <1>1, NoneAssumption DEF TypeOK
<1>4. TypeOK'
  BY <1>1, <1>2, <1>3 DEF TypeOK
<1>5. CallerInv' /\ ReconnectCovered'
  BY <1>1 DEF IInv, CallerInv, ReconnectCovered
<1>6. MapIsLive'
  <2> SUFFICES ASSUME NEW r \in Walk, connections'[r] # None
               PROVE  sockets'[r][connections'[r]] # "closed"
    BY DEF MapIsLive
  <2>1. /\ connections'[r] = connections[r] /\ connections[r] \in Sockets
        /\ sockets[r][connections[r]] # "closed"
    BY <1>3 DEF IInv, TypeOK, MapIsLive
  <2>2. <<r, connections[r]>> # <<r0, s0>>
    BY <1>3, <2>1
  <2>3. QED
    BY <1>2, <2>1, <2>2
<1>7. SweepInv'
  BY <1>1, SweepKept, UnreachedKept DEF IInv
<1>8. MissedInv'
  BY <1>1, MissedKept DEF IInv, Has
<1>9. QED
  BY <1>4, <1>5, <1>6, <1>7, <1>8 DEF IInv

-----------------------------------------------------------------------------
(* ensureConnected.                                                        *)

\* A call that is at the start covers every relay.
LEMMA FirstCovers ==
  ASSUME NEW c \in Callers, NEW r \in Walk, caller'[c].pc = "check", caller'[c].at = 1
  PROVE  WillTry(c, r)'
  BY WalkType DEF WillTry

LEMMA StartType ==
  [pc |-> "check", at |-> 1] \in Callings /\ 1 \in Walk
  BY WalkType DEF Callings

\* A run of ensureConnected starts while the sweep stands where it is.
LEMMA StartStep ==
  ASSUME IInv, NEW c0 \in Callers, c0 # "sweep", caller[c0] = Idle,
         caller' = [caller EXCEPT ![c0] = [pc |-> "check", at |-> 1]],
         UNCHANGED <<connections, sockets, pending, held, cache, known, now, swept, failed>>,
         alarm' \in BOOLEAN, alarm => alarm' \/ c0 = "alarm"
  PROVE  IInv'
<1>1. /\ caller' \in [Callers -> Callings] /\ CallerInv'
      /\ caller'[c0] = [pc |-> "check", at |-> 1]
      /\ \A d \in Callers : d # c0 => caller'[d] = caller[d]
  BY StartType, CallerMoves DEF IInv
<1>2. TypeOK'
  BY <1>1 DEF IInv, TypeOK, Callings
<1>3. MapIsLive'
  BY DEF IInv, MapIsLive
<1>4. ReconnectCovered'
  BY <1>1, FirstCovers DEF ReconnectCovered, IInv, TypeOK
<1>5. SweepInv'
  BY <1>1, SweepKept, UnreachedKept DEF IInv
<1>6. MissedInv'
  BY MissedKept DEF IInv, Has
<1>7. QED
  BY <1>1, <1>2, <1>3, <1>4, <1>5, <1>6 DEF IInv

LEMMA CallStep ==
  ASSUME IInv, NEW c \in Callers, Call(c)
  PROVE  IInv'
<1>1. alarm' = alarm /\ alarm \in BOOLEAN
  BY DEF Call, IInv, TypeOK
<1>2. /\ c # "sweep" /\ caller[c] = Idle
      /\ caller' = [caller EXCEPT ![c] = [pc |-> "check", at |-> 1]]
      /\ UNCHANGED <<connections, sockets, pending, held, cache, known, now, swept, failed>>
  BY DEF Call, ingest, replays
<1>3. QED
  BY <1>1, <1>2, StartStep, Zenon

LEMMA AlarmFiresStep ==
  ASSUME IInv, AlarmFires
  PROVE  IInv'
<1>1. "alarm" \in Callers
  BY CallersAssumption
<1>2. QED
  BY <1>1, StartStep DEF AlarmFires, ingest, replays

\* Time passes only when every relay was replayed in the current tick.
LEMMA TickStep ==
  ASSUME IInv, Tick
  PROVE  IInv'
<1>1. /\ caller["sweep"] = Idle
      /\ caller' = [caller EXCEPT !["sweep"] = [pc |-> "check", at |-> 1]]
      /\ now' = IF now < MaxTime THEN now + 1 ELSE now
      /\ UNCHANGED <<connections, sockets, pending, held, cache, alarm, known, swept, failed>>
      /\ TypeOK /\ "sweep" \in Callers
  BY CallersAssumption DEF Tick, ingest, IInv
<1>2. /\ caller' \in [Callers -> Callings] /\ CallerInv'
      /\ caller'["sweep"] = [pc |-> "check", at |-> 1]
      /\ \A d \in Callers : d # "sweep" => caller'[d] = caller[d]
  BY <1>1, StartType, CallerMoves DEF IInv
<1>3. now \in Nat /\ MaxTime \in Nat /\ now <= MaxTime
  BY <1>1, CounterType
<1>4. TypeOK'
  BY <1>1, <1>2, <1>3 DEF TypeOK, Callings
<1>5. MapIsLive'
  BY <1>1 DEF IInv, MapIsLive
<1>6. ReconnectCovered'
  BY <1>1, <1>2, FirstCovers DEF ReconnectCovered, TypeOK
<1>7. \A r \in Walk : swept[r] = now
  BY <1>1 DEF IInv, SweepInv, Unreached, Idle
<1>8. SweepInv'
  BY <1>1, <1>2, <1>3, <1>7 DEF SweepInv, Unreached
<1>9. MissedInv'
  <2> SUFFICES ASSUME NEW r \in Walk, NEW h \in held[r]
               PROVE  /\ h.since <= now'
                      /\ h.event.at >= h.since - MaxDelay
                      /\ ~Has(h.event) => swept[r] - h.since <= failed[r]
    BY <1>1 DEF MissedInv, Has
  <2>1. /\ h.since <= now /\ h.event.at >= h.since - MaxDelay
        /\ ~Has(h.event) => swept[r] - h.since <= failed[r]
        /\ h.since \in Nat
    BY <1>1 DEF IInv, MissedInv, TypeOK
  <2>2. QED
    BY <1>1, <1>3, <2>1
<1>10. QED
  BY <1>2, <1>4, <1>5, <1>6, <1>8, <1>9 DEF IInv

\* A relay that is behind a caller keeps its entry or its alarm; the others
\* are still ahead of it.
LEMMA CheckStep ==
  ASSUME IInv, NEW c0 \in Callers, Check(c0)
  PROVE  IInv'
<1> DEFINE r0 == caller[c0].at
           k == IF connections[r0] # None THEN After(c0, r0) ELSE [caller[c0] EXCEPT !.pc = "connect"]
<1>1. /\ caller[c0].pc = "check" /\ r0 \in Walk /\ TypeOK
      /\ known' = known \cup {r0}
      /\ UNCHANGED <<connections, sockets, pending, held, cache, alarm, now, swept, failed>>
  BY DEF Check, ingest, replays, IInv, CallerInv
<1>2. caller' = [caller EXCEPT ![c0] = k]
  <2>1. caller[c0] \in Callings
    BY <1>1 DEF TypeOK, Callings
  <2>2. QED
    BY <1>1 DEF Check, TypeOK
<1>3. /\ k \in Callings /\ k.pc \in {"check", "connect", "replay", "idle"}
      /\ k.pc = "replay" => c0 = "sweep" /\ k.at = 1
      /\ k.pc # "idle" => k.at \in Walk
      /\ c0 = "sweep" => k.pc # "idle"
      /\ \A r \in Walk : r > r0 => k.pc \in {"check", "connect"} /\ k.at <= r
      /\ connections[r0] = None => k.pc \in {"check", "connect"} /\ k.at = r0
  <2>1. CASE connections[r0] # None
    BY <1>1, <2>1, AfterType DEF Callings
  <2>2. CASE connections[r0] = None
    <3>1. caller[c0] \in Callings
      BY <1>1 DEF TypeOK, Callings
    <3>2. k \in Callings /\ k.pc = "connect" /\ k.at = r0
      BY <2>2, <3>1 DEF Callings
    <3>3. QED
      BY <1>1, <2>2, <3>2, WalkType
  <2>3. QED
    BY <2>1, <2>2
<1> HIDE DEF k
<1>4. /\ caller' \in [Callers -> Callings] /\ CallerInv'
      /\ caller'[c0] = k /\ \A d \in Callers : d # c0 => caller'[d] = caller[d]
  BY <1>1, <1>2, <1>3, CallerMoves DEF IInv
<1>5. TypeOK'
  BY <1>1, <1>4 DEF TypeOK, Callings
<1>6. MapIsLive'
  BY <1>1 DEF IInv, MapIsLive
<1>7. ReconnectCovered'
  <2> SUFFICES ASSUME NEW r \in known', connections[r] = None, ~alarm
               PROVE  \E c \in Callers : WillTry(c, r)'
    BY <1>1 DEF ReconnectCovered
  <2>1. r \in Walk /\ (r \in known \/ r = r0)
    BY <1>1, <1>5 DEF TypeOK
  <2>2. CASE r = r0
    BY <1>1, <1>3, <1>4, <2>1, <2>2, WalkType DEF WillTry
  <2>3. CASE r # r0
    <3>1. PICK c \in Callers : WillTry(c, r)
      BY <1>1, <2>1, <2>3 DEF IInv, ReconnectCovered
    <3>2. CASE c # c0
      BY <1>4, <3>1, <3>2 DEF WillTry
    <3>3. CASE c = c0
      <4>1. r > r0
        BY <1>1, <2>1, <2>3, <3>1, <3>3, WalkType DEF WillTry
      <4>2. QED
        BY <1>3, <1>4, <2>1, <4>1 DEF WillTry
    <3>4. QED
      BY <3>2, <3>3
  <2>4. QED
    BY <2>2, <2>3
<1>8. SweepInv'
  <2>1. ASSUME NEW r \in Walk, Unreached(r)
        PROVE  Unreached(r)'
    <3>1. CASE c0 = "sweep"
      BY <1>3, <1>4, <2>1, <3>1, WalkType DEF Unreached
    <3>2. CASE c0 # "sweep"
      BY <1>4, CallersAssumption, <2>1, <3>2 DEF Unreached
    <3>3. QED
      BY <3>1, <3>2
  <2>2. QED
    BY <1>1, <2>1, SweepKept DEF IInv
<1>9. MissedInv'
  BY <1>1, MissedKept DEF IInv, Has
<1>10. QED
  BY <1>4, <1>5, <1>6, <1>7, <1>8, <1>9 DEF IInv

\* A connect attempt is over: the caller goes on to the next relay.
LEMMA GoesOn ==
  ASSUME IInv, NEW c0 \in Callers, caller[c0].pc = "connect",
         caller' = [caller EXCEPT ![c0] = After(c0, caller[c0].at)]
  PROVE  /\ caller[c0].at \in Walk
         /\ caller' \in [Callers -> Callings] /\ CallerInv'
         /\ \A d \in Callers : d # c0 => caller'[d] = caller[d]
         /\ \A c \in Callers, r \in Walk :
              WillTry(c, r) => WillTry(c, r)' \/ (c = c0 /\ r = caller[c0].at)
         /\ \A r \in Walk : Unreached(r) => Unreached(r)'
<1> DEFINE r0 == caller[c0].at
           k == After(c0, r0)
<1>1. r0 \in Walk /\ TypeOK /\ CallerInv
  BY DEF IInv, CallerInv
<1>2. /\ k \in Callings
      /\ k.pc = "replay" => c0 = "sweep"
      /\ k.pc # "idle" => k.at \in Walk
      /\ \A r \in Walk : r > r0 => k.pc = "check" /\ k.at <= r
      /\ c0 = "sweep" => k.pc \in {"check", "replay"}
      /\ c0 = "sweep" /\ k.pc = "replay" => k.at = 1
  BY <1>1, AfterType
<1> HIDE DEF k
<1>3. /\ caller' \in [Callers -> Callings] /\ CallerInv'
      /\ caller'[c0] = k /\ \A d \in Callers : d # c0 => caller'[d] = caller[d]
  BY <1>1, <1>2, CallerMoves DEF k
<1>4. ASSUME NEW c \in Callers, NEW r \in Walk, WillTry(c, r), c # c0 \/ r # r0
      PROVE  WillTry(c, r)'
  <2>1. CASE c # c0
    BY <1>3, <1>4, <2>1 DEF WillTry
  <2>2. CASE c = c0
    <3>1. r > r0
      BY <1>1, <1>4, <2>2, WalkType DEF WillTry
    <3>2. QED
      BY <1>2, <1>3, <2>2, <3>1 DEF WillTry
  <2>3. QED
    BY <2>1, <2>2
<1>5. ASSUME NEW r \in Walk, Unreached(r)
      PROVE  Unreached(r)'
  <2>1. CASE c0 = "sweep"
    BY <1>2, <1>3, <2>1, WalkType DEF Unreached
  <2>2. CASE c0 # "sweep"
    BY <1>3, <1>5, <2>2 DEF Unreached
  <2>3. QED
    BY <2>1, <2>2
<1>6. QED
  BY <1>1, <1>3, <1>4, <1>5

LEMMA OpenRelayStep ==
  ASSUME IInv, NEW c0 \in Callers, openRelay(c0)
  PROVE  IInv'
<1>1. PICK r0 : r0 = caller[c0].at
  OBVIOUS
<1>2. PICK s0 \in Sockets :
         /\ sockets' = [sockets EXCEPT ![r0][s0] = "live"]
         /\ connections' = [connections EXCEPT ![r0] = s0]
         /\ pending' = [pending EXCEPT ![r0][s0] = EventsOf(r0)]
         /\ caller' = [caller EXCEPT ![c0] = After(c0, r0)]
  BY <1>1 DEF openRelay
<1>3. /\ caller[c0].pc = "connect" /\ TypeOK
      /\ UNCHANGED <<held, cache, alarm, known, now, swept, failed>>
  BY DEF openRelay, replays, IInv
<1>4. /\ r0 \in Walk /\ caller' \in [Callers -> Callings] /\ CallerInv'
      /\ \A c \in Callers, r \in Walk :
           WillTry(c, r) => WillTry(c, r)' \/ (c = c0 /\ r = r0)
      /\ \A r \in Walk : Unreached(r) => Unreached(r)'
  BY <1>1, <1>2, <1>3, GoesOn
<1>5. EventsOf(r0) \in SUBSET Events
  BY <1>3, <1>4 DEF TypeOK, EventsOf
<1>6. /\ sockets' \in [Walk -> [Sockets -> {"live", "mute", "closed"}]]
      /\ pending' \in [Walk -> [Sockets -> SUBSET Events]]
      /\ sockets'[r0][s0] = "live"
      /\ \A r \in Walk, s \in Sockets : <<r, s>> # <<r0, s0>> => sockets'[r][s] = sockets[r][s]
  <2>1. PICK got \in SUBSET Events : pending' = [pending EXCEPT ![r0][s0] = got]
    BY <1>2, <1>5
  <2>2. sockets' = [sockets EXCEPT ![r0][s0] = "live"]
    BY <1>2
  <2>3. QED
    BY <1>3, <1>4, <2>1, <2>2, SocketType
<1>7. /\ connections' \in [Walk -> Sockets \cup {None}] /\ connections'[r0] = s0
      /\ \A r \in Walk : r # r0 => connections'[r] = connections[r]
  BY <1>2, <1>3, <1>4 DEF TypeOK
<1>8. TypeOK'
  BY <1>3, <1>4, <1>6, <1>7 DEF TypeOK, Callings
<1>9. MapIsLive'
  <2> SUFFICES ASSUME NEW r \in Walk, connections'[r] # None
               PROVE  sockets'[r][connections'[r]] # "closed"
    BY DEF MapIsLive
  <2>1. CASE r = r0
    BY <1>6, <1>7, <2>1
  <2>2. CASE r # r0
    <3>1. /\ connections'[r] = connections[r] /\ connections[r] \in Sockets
          /\ sockets[r][connections[r]] # "closed"
      BY <1>3, <1>7, <2>2 DEF IInv, TypeOK, MapIsLive
    <3>2. QED
      BY <1>6, <2>2, <3>1
  <2>3. QED
    BY <2>1, <2>2
<1>10. ReconnectCovered'
  <2>1. \A r \in Walk : connections'[r] = None => r # r0 /\ connections[r] = None
    BY <1>7, NoneAssumption
  <2>2. QED
    BY <1>3, <1>4, <2>1, CoveredKept DEF IInv
<1>11. SweepInv'
  BY <1>3, <1>4, SweepKept DEF IInv
<1>12. MissedInv'
  BY <1>3, MissedKept DEF IInv, Has
<1>13. QED
  BY <1>4, <1>8, <1>9, <1>10, <1>11, <1>12 DEF IInv

LEMMA ConnectFailsStep ==
  ASSUME IInv, NEW c0 \in Callers, ConnectFails(c0)
  PROVE  IInv'
<1>1. /\ caller[c0].pc = "connect" /\ TypeOK /\ alarm' = TRUE
      /\ UNCHANGED <<connections, sockets, pending, held, cache, known, now, swept, failed>>
  BY DEF ConnectFails, ingest, replays, IInv
<1>2. caller' = [caller EXCEPT ![c0] = After(c0, caller[c0].at)]
  BY <1>1 DEF ConnectFails, TypeOK
<1>3. /\ caller' \in [Callers -> Callings] /\ CallerInv'
      /\ \A r \in Walk : Unreached(r) => Unreached(r)'
  BY <1>1, <1>2, GoesOn
<1>4. TypeOK'
  BY <1>1, <1>3 DEF TypeOK, Callings
<1>5. MapIsLive' /\ ReconnectCovered'
  BY <1>1 DEF IInv, MapIsLive, ReconnectCovered
<1>6. SweepInv'
  BY <1>1, <1>3, SweepKept DEF IInv
<1>7. MissedInv'
  BY <1>1, MissedKept DEF IInv, Has
<1>8. QED
  BY <1>3, <1>4, <1>5, <1>6, <1>7 DEF IInv

-----------------------------------------------------------------------------
(* The replays.                                                            *)

\* The replay of relay r0 brings `got` of its window: all of it, or the
\* failure is counted.
LEMMA ReplayStep ==
  ASSUME IInv, NEW r0 \in Walk, caller["sweep"].pc = "replay", caller["sweep"].at = r0,
         NEW got \in SUBSET InWindow(r0), HandleAll(got),
         NEW n \in 0..MaxFailures, n = failed[r0] + 1 \/ got = InWindow(r0),
         swept' = [swept EXCEPT ![r0] = now], failed' = [failed EXCEPT ![r0] = n],
         caller' = [caller EXCEPT !["sweep"] = Replayed(r0)],
         UNCHANGED <<connections, sockets, pending, held, alarm, known, now>>
  PROVE  IInv'
<1>1. TypeOK /\ CallerInv /\ "sweep" \in Callers
  BY CallersAssumption DEF IInv
<1>2. InWindow(r0) \in SUBSET Events
  <2>1. \A h \in held[r0] : h.event \in Events
    BY <1>1, HeldType
  <2>2. QED
    BY <2>1 DEF InWindow, EventsOf
<1>3. /\ cache' \in Events \cup {None}
      /\ \A e \in got : Has(e)'
      /\ \A f \in Events : Has(f) => Has(f)'
  <2>1. got \in SUBSET Events
    BY <1>2
  <2>2. QED
    BY <1>1, <2>1, HandleSome
<1>4. PICK k : k = Replayed(r0)
  OBVIOUS
<1>5. /\ k \in Callings /\ k.pc \in {"replay", "idle"}
      /\ k.pc # "idle" => k.at = r0 + 1 /\ k.at \in Walk
      /\ k.pc = "idle" => r0 = Len(Relays)
  BY <1>4, ReplayedType
<1>6. /\ caller' \in [Callers -> Callings] /\ CallerInv'
      /\ caller'["sweep"] = k /\ \A d \in Callers : d # "sweep" => caller'[d] = caller[d]
  BY <1>1, <1>4, <1>5, CallerMoves
<1>7. /\ swept' \in [Walk -> 0..MaxTime] /\ failed' \in [Walk -> 0..MaxFailures]
      /\ swept'[r0] = now /\ failed'[r0] = n
      /\ \A r \in Walk : r # r0 => swept'[r] = swept[r] /\ failed'[r] = failed[r]
  BY <1>1 DEF TypeOK
<1>8. TypeOK'
  BY <1>1, <1>3, <1>6, <1>7 DEF TypeOK, Callings
<1>9. MapIsLive'
  BY DEF IInv, MapIsLive
<1>10. ReconnectCovered'
  <2>1. \A c \in Callers, r \in Walk : WillTry(c, r) => WillTry(c, r)'
    BY <1>6 DEF WillTry
  <2>2. QED
    BY <1>1, <2>1, CoveredKept DEF IInv
<1>11. \A r \in Walk : now \in Nat /\ swept[r] \in Nat /\ swept[r] <= now /\ swept[r] >= now - 1
  BY <1>1 DEF IInv, TypeOK, SweepInv
<1>12. SweepInv'
  <2> SUFFICES ASSUME NEW r \in Walk
               PROVE  /\ swept'[r] <= now /\ swept'[r] >= now - 1
                      /\ ~Unreached(r)' => swept'[r] = now
    BY DEF SweepInv
  <2>1. CASE r = r0
    BY <1>7, <1>11, <2>1
  <2>2. CASE r # r0
    <3>1. ~Unreached(r)' => r < r0
      BY <1>5, <1>6, <2>2, WalkType DEF Unreached
    <3>2. r < r0 => ~Unreached(r)
      BY WalkType DEF Unreached
    <3>3. ~Unreached(r) => swept[r] = now
      BY DEF IInv, SweepInv
    <3>4. QED
      BY <1>7, <1>11, <2>2, <3>1, <3>2, <3>3
  <2>3. QED
    BY <2>1, <2>2
<1>13. MissedInv'
  <2> SUFFICES ASSUME NEW r \in Walk, NEW h \in held[r]
               PROVE  /\ h.since <= now
                      /\ h.event.at >= h.since - MaxDelay
                      /\ ~Has(h.event)' => swept'[r] - h.since <= failed'[r]
    BY DEF MissedInv
  <2>1. /\ h.since <= now /\ h.event.at >= h.since - MaxDelay
        /\ ~Has(h.event) => swept[r] - h.since <= failed[r]
    BY DEF IInv, MissedInv
  <2>2. h.event \in Events /\ h.since \in Nat /\ h.event.at \in Nat
    BY <1>1, HeldType
  <2>3. failed[r] \in Nat /\ failed[r] <= MaxFailures /\ MaxFailures \in Nat /\ Window \in Nat
        /\ MaxDelay \in Nat
    BY <1>1, CounterType
  <2>4. CASE r # r0
    BY <1>3, <1>7, <2>1, <2>2, <2>4
  <2>5. CASE r = r0 /\ n = failed[r0] + 1
    BY <1>3, <1>7, <1>11, <2>1, <2>2, <2>3, <2>5
  <2>6. CASE r = r0 /\ got = InWindow(r0)
    <3> SUFFICES ASSUME ~Has(h.event)'
                 PROVE  FALSE
      BY <2>1
    <3>1. h.event \notin InWindow(r0) /\ ~Has(h.event)
      BY <1>3, <2>2, <2>6
    <3>2. ~(h.event.at >= now - Window)
      BY <2>6, <3>1 DEF InWindow, EventsOf
    <3>3. swept[r] - h.since <= failed[r]
      BY <2>1, <3>1
    <3>4. PICK at \in Nat, since \in Nat, last \in Nat : at = h.event.at /\ since = h.since /\ last = swept[r]
      BY <1>11, <2>2
    <3>5. /\ at >= since - MaxDelay /\ last - since <= MaxFailures /\ last >= now - 1
          /\ at < now - Window /\ now \in Nat
      <4>1. at >= since - MaxDelay
        BY <2>1, <3>4
      <4>2. last - since <= failed[r]
        BY <3>3, <3>4
      <4>3. last >= now - 1 /\ now \in Nat
        BY <1>11, <3>4
      <4>4. at < now - Window
        BY <2>3, <3>2, <3>4, <4>3
      <4>5. QED
        BY <2>3, <4>1, <4>2, <4>3, <4>4
    <3>6. MaxDelay + MaxFailures + 1 <= Window
      BY WindowAssumption
    <3>7. QED
      BY <2>3, <3>5, <3>6
  <2>7. QED
    BY <2>4, <2>5, <2>6
<1>14. QED
  BY <1>6, <1>8, <1>9, <1>10, <1>12, <1>13 DEF IInv

LEMMA ReplayCompleteStep ==
  ASSUME IInv, replayRelay
  PROVE  IInv'
<1>1. PICK r0 \in Walk : caller["sweep"].at = r0
  BY CallersAssumption DEF replayRelay, IInv, CallerInv
<1>2. /\ caller["sweep"].pc = "replay" /\ HandleAll(InWindow(r0))
      /\ swept' = [swept EXCEPT ![r0] = now] /\ failed' = [failed EXCEPT ![r0] = 0]
      /\ caller' = [caller EXCEPT !["sweep"] = Replayed(r0)]
      /\ UNCHANGED <<connections, sockets, pending, held, alarm, known, now>>
  BY <1>1 DEF replayRelay, ingest
<1>3. 0 \in 0..MaxFailures /\ InWindow(r0) \in SUBSET InWindow(r0)
  BY TimesAssumption
<1>4. QED
  BY <1>1, <1>2, <1>3, ReplayStep

LEMMA ReplayCutShortStep ==
  ASSUME IInv, replayRelayCutShort
  PROVE  IInv'
<1>1. PICK r0 \in Walk : caller["sweep"].at = r0
  BY CallersAssumption DEF replayRelayCutShort, IInv, CallerInv
<1>2. /\ caller["sweep"].pc = "replay" /\ failed[r0] < MaxFailures
      /\ \E got \in SUBSET InWindow(r0) : HandleAll(got)
      /\ swept' = [swept EXCEPT ![r0] = now] /\ failed' = [failed EXCEPT ![r0] = @ + 1]
      /\ caller' = [caller EXCEPT !["sweep"] = Replayed(r0)]
      /\ UNCHANGED <<connections, sockets, pending, held, alarm, known, now>>
  BY <1>1 DEF replayRelayCutShort, ingest
<1>3. PICK got \in SUBSET InWindow(r0) : HandleAll(got)
  BY <1>2
<1>4. PICK n : n = failed[r0] + 1
  OBVIOUS
<1>5. failed' = [failed EXCEPT ![r0] = n] /\ n \in 0..MaxFailures
  <2>1. failed[r0] \in Nat /\ MaxFailures \in Nat
    BY CounterType DEF IInv
  <2>2. QED
    BY <1>2, <1>4, <2>1
<1>6. QED
  BY <1>1, <1>2, <1>3, <1>4, <1>5, ReplayStep

\* A lost sweep counts as a failure of the replays it did not come to.
LEMMA EvictStep ==
  ASSUME IInv, Evict
  PROVE  IInv'
<1>1. /\ connections' = [r \in Walk |-> None] /\ sockets' = [r \in Walk |-> Closed]
      /\ pending' = [r \in Walk |-> [s \in Sockets |-> {}]]
      /\ caller' = [c \in Callers |-> Idle]
      /\ alarm' = (alarm \/ caller["alarm"] # Idle)
      /\ known' = {}
      /\ UNCHANGED <<held, cache, now>> /\ TypeOK
  BY DEF Evict, IInv
<1>2. ASSUME NEW r \in Walk
      PROVE  /\ Unreached(r) => swept'[r] = now /\ failed'[r] = failed[r] + 1
                                /\ failed[r] < MaxFailures
             /\ ~Unreached(r) => swept'[r] = swept[r] /\ failed'[r] = failed[r]
             /\ now \in Nat /\ swept[r] \in Nat /\ failed[r] \in Nat /\ MaxFailures \in Nat
             /\ swept[r] <= now /\ swept[r] >= now - 1
             /\ ~Unreached(r) => swept[r] = now
             /\ now <= MaxTime /\ failed[r] <= MaxFailures /\ MaxTime \in Nat
             /\ swept[r] <= MaxTime
  <2>1. /\ Unreached(r) => swept'[r] = now /\ failed'[r] = failed[r] + 1
                            /\ failed[r] < MaxFailures
        /\ ~Unreached(r) => swept'[r] = swept[r] /\ failed'[r] = failed[r]
    BY DEF Evict
  <2>2. /\ swept[r] <= now /\ swept[r] >= now - 1
        /\ ~Unreached(r) => swept[r] = now
    BY DEF IInv, SweepInv
  <2>3. QED
    BY <1>1, <2>1, <2>2, CounterType
<1>3. TypeOK'
  <2>1. DOMAIN swept' = Walk /\ swept' = [r \in Walk |-> swept'[r]]
        /\ DOMAIN failed' = Walk /\ failed' = [r \in Walk |-> failed'[r]]
    BY DEF Evict
  <2>2. \A r \in Walk : swept'[r] \in 0..MaxTime /\ failed'[r] \in 0..MaxFailures
    BY <1>2
  <2>3. swept' \in [Walk -> 0..MaxTime] /\ failed' \in [Walk -> 0..MaxFailures]
    BY <2>1, <2>2
  <2>4. Closed \in [Sockets -> {"live", "mute", "closed"}] /\ Idle \in Callings
    BY WalkType DEF Closed, Idle, Callings
  <2>5. sockets' \in [Walk -> [Sockets -> {"live", "mute", "closed"}]]
        /\ caller' \in [Callers -> Callings] /\ alarm' \in BOOLEAN
    BY <1>1, <2>4
  <2>6. QED
    BY <1>1, <2>3, <2>5 DEF TypeOK, Callings
<1>4. CallerInv' /\ MapIsLive' /\ ReconnectCovered'
  BY <1>1 DEF CallerInv, Idle, MapIsLive, ReconnectCovered
<1>5. \A r \in Walk : swept'[r] = now
  BY <1>2
<1>6. SweepInv'
  BY <1>1, <1>2, <1>5 DEF SweepInv
<1>7. MissedInv'
  <2> SUFFICES ASSUME NEW r \in Walk, NEW h \in held[r]
               PROVE  /\ h.since <= now
                      /\ h.event.at >= h.since - MaxDelay
                      /\ ~Has(h.event) => swept'[r] - h.since <= failed'[r]
    BY <1>1 DEF MissedInv, Has
  <2>1. /\ h.since <= now /\ h.event.at >= h.since - MaxDelay
        /\ ~Has(h.event) => swept[r] - h.since <= failed[r]
    BY DEF IInv, MissedInv
  <2>2. h.since \in Nat
    BY <1>1, HeldType
  <2>3. CASE Unreached(r)
    <3>1. PICK last \in Nat, n \in Nat : last = swept[r] /\ n = failed[r]
      BY <1>2
    <3>2. swept'[r] = now /\ failed'[r] = n + 1 /\ last >= now - 1 /\ now \in Nat
      BY <1>2, <2>3, <3>1
    <3>3. ~Has(h.event) => last - h.since <= n
      BY <2>1, <3>1
    <3>4. PICK since \in Nat : since = h.since
      BY <2>2
    <3>5. ASSUME last - since <= n
          PROVE  now - since <= n + 1
      BY <3>2, <3>5
    <3>6. ~Has(h.event) => now - since <= n + 1
      BY <3>3, <3>4, <3>5
    <3>7. QED
      BY <2>1, <3>2, <3>4, <3>6
  <2>4. CASE ~Unreached(r)
    BY <1>2, <2>1, <2>2, <2>4
  <2>5. QED
    BY <2>3, <2>4
<1>8. QED
  BY <1>3, <1>4, <1>6, <1>7 DEF IInv

-----------------------------------------------------------------------------
(* The invariant holds.                                                    *)

LEMMA InitInv ==
  Init => IInv
<1> SUFFICES ASSUME Init
             PROVE  IInv
  OBVIOUS
<1>1. Closed \in [Sockets -> {"live", "mute", "closed"}] /\ Idle \in Callings
  BY WalkType DEF Closed, Idle, Callings
<1>2. TypeOK
  <2>1. connections \in [Walk -> Sockets \cup {None}] /\ cache \in Events \cup {None}
    BY DEF Init
  <2>2. /\ sockets \in [Walk -> [Sockets -> {"live", "mute", "closed"}]]
        /\ caller \in [Callers -> Callings]
    BY <1>1 DEF Init
  <2>3. pending \in [Walk -> [Sockets -> SUBSET Events]] /\ \A r \in Walk : held[r] = {}
    BY DEF Init
  <2>4. /\ alarm \in BOOLEAN /\ known = {} /\ now \in 0..MaxTime
        /\ swept \in [Walk -> 0..MaxTime] /\ failed \in [Walk -> 0..MaxFailures]
    <3>1. 0 \in 0..MaxTime /\ 0 \in 0..MaxFailures
      BY TimesAssumption
    <3>2. /\ alarm = FALSE /\ known = {} /\ now = 0
          /\ swept = [r \in Walk |-> 0] /\ failed = [r \in Walk |-> 0]
      BY DEF Init
    <3>3. QED
      BY <3>1, <3>2
  <2>5. QED
    BY <2>1, <2>2, <2>3, <2>4 DEF TypeOK, Callings
<1>3. CallerInv /\ MapIsLive /\ ReconnectCovered
  BY DEF Init, CallerInv, Idle, MapIsLive, ReconnectCovered
<1>4. SweepInv /\ MissedInv
  BY DEF Init, SweepInv, MissedInv
<1>5. QED
  BY <1>2, <1>3, <1>4 DEF IInv

LEMMA StutterStep ==
  ASSUME IInv, UNCHANGED vars
  PROVE  IInv'
<1>1. UNCHANGED <<connections, sockets, pending, held, cache, caller, alarm, known, now, swept,
                  failed>>
  BY DEF vars, ingest, replays
<1>2. TypeOK' /\ CallerInv' /\ MapIsLive' /\ ReconnectCovered'
  BY <1>1 DEF IInv, TypeOK, CallerInv, MapIsLive, ReconnectCovered, WillTry
<1>3. SweepInv' /\ MissedInv'
  BY <1>1, SweepKept, UnreachedKept, MissedKept DEF IInv, Has
<1>4. QED
  BY <1>2, <1>3 DEF IInv

LEMMA NextInv ==
  IInv /\ [Next]_vars => IInv'
<1> SUFFICES ASSUME IInv, [Next]_vars
             PROVE  IInv'
  OBVIOUS
<1>1. CASE \E r \in Walk : RelayReceives(r)
  BY <1>1, RelayReceivesStep
<1>2. ASSUME NEW r \in Walk, NEW s \in Sockets,
             Deliver(r, s) \/ DiesSilently(r, s) \/ handleEnd(r, s)
      PROVE  IInv'
  BY <1>2, DeliverStep, DiesSilentlyStep, HandleEndStep
<1>3. ASSUME NEW c \in Callers, Call(c) \/ Check(c) \/ openRelay(c) \/ ConnectFails(c)
      PROVE  IInv'
  BY <1>3, CallStep, CheckStep, OpenRelayStep, ConnectFailsStep
<1>4. CASE AlarmFires \/ Tick
  BY <1>4, AlarmFiresStep, TickStep
<1>5. CASE replayRelay \/ replayRelayCutShort
  BY <1>5, ReplayCompleteStep, ReplayCutShortStep
<1>6. CASE Evict
  BY <1>6, EvictStep
<1>7. CASE UNCHANGED vars
  BY <1>7, StutterStep
<1>8. QED
  BY <1>1, <1>2, <1>3, <1>4, <1>5, <1>6, <1>7 DEF Next

\* The inductive invariant.
THEOREM Invariance ==
  Spec => []IInv
<1>1. QED
  BY InitInv, NextInv, PTL DEF Spec

-----------------------------------------------------------------------------
(* What it gives.                                                          *)

\* Every variable keeps its type; no walk leaves RELAYS.
THEOREM TypeCorrect ==
  Spec => []TypeOK
<1>1. IInv => TypeOK
  BY DEF IInv
<1>2. QED
  BY <1>1, Invariance, PTL

\* However calls of ensureConnected race and whatever order their sockets end
\* in, an entry of the map is a socket that has not ended.
THEOREM EntryIsLive ==
  Spec => []MapIsLive
<1>1. IInv => MapIsLive
  BY DEF IInv
<1>2. QED
  BY <1>1, Invariance, PTL

\* A relay that was tried and has no entry has an alarm, or a call on its way.
THEOREM NoRelayForgotten ==
  Spec => []ReconnectCovered
<1>1. IInv => ReconnectCovered
  BY DEF IInv
<1>2. QED
  BY <1>1, Invariance, PTL

\* What no socket delivered is in the cache, or something newer is, after the
\* sweeps of the replay window, for any window that leaves room for the events
\* that reach a relay late and for the replays that fail in a row.
THEOREM RecoveredBySweep ==
  Spec => []RecoveredInWindow
<1>1. IInv => RecoveredInWindow
  <2> SUFFICES ASSUME IInv, NEW r \in Walk, NEW h \in held[r],
                      swept[r] - h.since > MaxFailures
               PROVE  Has(h.event)
    BY DEF RecoveredInWindow
  <2>1. failed[r] <= MaxFailures /\ failed[r] \in Nat /\ swept[r] \in Nat /\ h.since \in Nat
        /\ MaxFailures \in Nat
    BY CounterType, HeldType DEF IInv
  <2>2. ~Has(h.event) => swept[r] - h.since <= failed[r]
    BY DEF IInv, MissedInv
  <2>3. QED
    BY <2>1, <2>2
<1>2. QED
  BY <1>1, Invariance, PTL

\* No step replaces a cached event by an older one or by another of its second.
THEOREM NewestStays ==
  Spec => CacheNeverRegresses
<1> DEFINE Newer == cache # None => cache' # None /\ (cache' = cache \/ cache'.at > cache.at)
<1>1. IInv /\ [Next]_vars => [Newer]_vars
  <2> SUFFICES ASSUME IInv, [Next]_vars
               PROVE  Newer
    OBVIOUS
  <2>1. TypeOK
    BY DEF IInv
  <2>2. ASSUME NEW r \in Walk, NEW s \in Sockets, Deliver(r, s)
        PROVE  Newer
    <3>1. PICK e \in pending[r][s] : cache' = handleEvent(e)
      BY <2>2 DEF Deliver
    <3>2. pending[r][s] \in SUBSET Events
      BY <2>1 DEF TypeOK
    <3>3. QED
      BY <2>1, <3>1, <3>2, HandleOne
  <2>3. CASE replayRelay \/ replayRelayCutShort
    <3>1. PICK r \in Walk : caller["sweep"].at = r
      BY <2>3, CallersAssumption DEF replayRelay, replayRelayCutShort, IInv, CallerInv
    <3>2. PICK got \in SUBSET InWindow(r) : HandleAll(got)
      BY <2>3, <3>1 DEF replayRelay, replayRelayCutShort
    <3>3. got \in SUBSET Events
      BY <2>1, <3>2 DEF InWindow, EventsOf, TypeOK
    <3>4. QED
      BY <2>1, <3>2, <3>3, HandleSome
  <2>4. CASE cache' = cache
    BY <2>4
  <2>5. \/ \E r \in Walk, s \in Sockets : Deliver(r, s)
        \/ replayRelay \/ replayRelayCutShort
        \/ cache' = cache
    BY DEF Next, vars, RelayReceives, DiesSilently, handleEnd, Call, Check, openRelay,
           ConnectFails, AlarmFires, Tick, Evict
  <2>6. QED
    BY <2>2, <2>3, <2>4, <2>5
<1>2. QED
  BY <1>1, Invariance, PTL DEF Spec, CacheNeverRegresses

=============================================================================
