---------------------------- MODULE Connections -----------------------------
(***************************************************************************)
(* The RelayPool's subscriptions (relay-pool.ts): one socket per relay     *)
(* opened by ensureConnected, what arrives on it, the alarm that reopens   *)
(* it, and the sweep that a cron trigger runs every five minutes to fetch  *)
(* what a socket that died silently did not deliver.                       *)
(*                                                                         *)
(* A step runs from one wait for a relay to the next; waits for the        *)
(* object's own storage are inside a step, for the input gate lets nothing *)
(* else in. Time passes in ticks of the cron trigger. How long a back-off  *)
(* lasts is left out: an alarm that is set may fire at any moment.         *)
(***************************************************************************)
EXTENDS Integers, FiniteSets, Sequences

CONSTANTS
    Relays,         \* RELAYS, in the order they are walked
    Callers,        \* "alarm", "sweep" and requests, each a run of ensureConnected
    Sockets,        \* sockets of one relay that are open at a time
    None,           \* absent value
    Versions,       \* events of one address, apart from their created_at
    Window,         \* REPLAY_WINDOW_S in ticks
    MaxTime,        \* the last tick that is counted; the cron goes on after it
    MaxDelay,       \* how old in ticks an event may be when a relay gets it
    MaxFailures,    \* how many replays of a relay may fail in a row
    Published,      \* bound: the relays, by place, that authors publish to
    MaxEvents,      \* bound: how many events each of these gets
    MaxEvictions    \* bound: how often the object may be evicted

ASSUME RelaysAssumption == Relays \in Seq(STRING) /\ Relays # <<>>
ASSUME CallersAssumption == {"alarm", "sweep"} \subseteq Callers
ASSUME TimesAssumption == {Window, MaxTime, MaxDelay, MaxFailures, MaxEvents, MaxEvictions} \subseteq Nat

\* Three ticks of five minutes are the replay window; an event that reaches a
\* relay late, or whose replays fail, has that much less of it.
ASSUME WindowAssumption == MaxDelay + MaxFailures + 1 <= Window

Walk == DOMAIN Relays       \* relays are named by their place in RELAYS
Events == [at : 0..MaxTime, v : Versions]

ASSUME NoneAssumption == None \notin Sockets /\ None \notin Events

VARIABLES
    connections,    \* the map: the socket each relay's entry holds, or None
    sockets,        \* which sockets are open, and which of these still deliver
    pending,        \* what an open socket will still deliver
    held,           \* what each relay has, with the tick it got it
    cache,          \* the address's event: key, or None
    caller,         \* where each run of ensureConnected or of the sweep is
    alarm,          \* whether the object's alarm is set
    known,          \* history: the relays ensureConnected has tried since start-up
    now,            \* the current tick
    swept,          \* history: the last tick in which each relay was replayed
    failed,         \* how many of its replays failed since one was complete
    evictions       \* how often the object was evicted

ingest == <<connections, sockets, pending>>
replays == <<now, swept, failed>>
vars == <<ingest, held, cache, caller, alarm, known, replays, evictions>>

-----------------------------------------------------------------------------
Closed == [s \in Sockets |-> "closed"]
Idle == [pc |-> "idle", at |-> 0]

Init ==
    /\ connections = [r \in Walk |-> None]
    /\ sockets = [r \in Walk |-> Closed]
    /\ pending = [r \in Walk |-> [s \in Sockets |-> {}]]
    /\ held = [r \in Walk |-> {}]
    /\ cache = None
    /\ caller = [c \in Callers |-> Idle]
    /\ alarm = FALSE
    /\ known = {}
    /\ now = 0
    /\ swept = [r \in Walk |-> 0]
    /\ failed = [r \in Walk |-> 0]
    /\ evictions = 0

EventsOf(r) == {h.event : h \in held[r]}

\* handleEvent: a newer event of the address replaces the cached one, one of
\* the same second does not. Mutant: the last to arrive stays.
handleEvent_LastWins(e) == e

handleEvent(e) == IF cache # None /\ cache.at >= e.at THEN cache ELSE e

\* handleEvent for each event of a set, in some order: the newest stays, and
\* of several it is the cached one or else the first to arrive.
HandleAll(got) ==
    IF \A e \in got : handleEvent(e) = cache
    THEN cache' = cache
    ELSE \E e \in got : (\A f \in got : f.at <= e.at) /\ cache' = e

-----------------------------------------------------------------------------
(* The environment: authors and relays.                                    *)

\* An author's event of at most MaxDelay ticks ago reaches a relay, which
\* passes it to the subscriptions that are alive.
RelayReceives(r) ==
    /\ r \in Published /\ Cardinality(held[r]) < MaxEvents
    /\ \E e \in Events :
         /\ e.at <= now /\ e.at >= now - MaxDelay
         /\ e \notin EventsOf(r)
         /\ held' = [held EXCEPT ![r] = @ \cup {[event |-> e, since |-> now]}]
         /\ pending' = [pending EXCEPT ![r] =
               [s \in Sockets |-> IF sockets[r][s] = "live" THEN @[s] \cup {e} ELSE @[s]]]
    /\ UNCHANGED <<connections, sockets, cache, caller, alarm, known, replays, evictions>>

\* handleRelayMessage for an EVENT of the subscription.
Deliver(r, s) ==
    /\ sockets[r][s] = "live"
    /\ \E e \in pending[r][s] :
         /\ cache' = handleEvent(e)
         /\ pending' = [pending EXCEPT ![r][s] = @ \ {e}]
    /\ UNCHANGED <<connections, sockets, held, caller, alarm, known, replays, evictions>>

\* The relay stops delivering without a word, or ends the subscription with a
\* CLOSED that handleRelayMessage does not look at.
DiesSilently(r, s) ==
    /\ sockets[r][s] = "live"
    /\ sockets' = [sockets EXCEPT ![r][s] = "mute"]
    /\ pending' = [pending EXCEPT ![r][s] = {}]
    /\ UNCHANGED <<connections, held, cache, caller, alarm, known, replays, evictions>>

\* handleEnd: the entry goes only if it is this socket; a reconnect is
\* scheduled in any case. Mutant: the entry of an ended socket stays.
handleEnd_KeepsEntry(r, s) ==
    /\ sockets[r][s] # "closed"
    /\ sockets' = [sockets EXCEPT ![r][s] = "closed"]
    /\ pending' = [pending EXCEPT ![r][s] = {}]
    /\ alarm' = TRUE
    /\ UNCHANGED <<connections, held, cache, caller, known, replays, evictions>>

\* Mutant: a reconnect is scheduled only for a superseded socket.
handleEnd_NoAlarm(r, s) ==
    /\ sockets[r][s] # "closed"
    /\ connections' = IF connections[r] = s THEN [connections EXCEPT ![r] = None] ELSE connections
    /\ sockets' = [sockets EXCEPT ![r][s] = "closed"]
    /\ pending' = [pending EXCEPT ![r][s] = {}]
    /\ alarm' = (alarm \/ connections[r] # s)
    /\ UNCHANGED <<held, cache, caller, known, replays, evictions>>

handleEnd(r, s) ==
    /\ sockets[r][s] # "closed"
    /\ connections' = IF connections[r] = s THEN [connections EXCEPT ![r] = None] ELSE connections
    /\ sockets' = [sockets EXCEPT ![r][s] = "closed"]
    /\ pending' = [pending EXCEPT ![r][s] = {}]
    /\ alarm' = TRUE
    /\ UNCHANGED <<held, cache, caller, known, replays, evictions>>

-----------------------------------------------------------------------------
(* ensureConnected: relay after relay, the map is looked at, and the       *)
(* upgrade awaited while other calls look at the same map.                 *)

Call(c) ==
    /\ c \notin {"alarm", "sweep"}
    /\ caller[c] = Idle
    /\ caller' = [caller EXCEPT ![c] = [pc |-> "check", at |-> 1]]
    /\ UNCHANGED <<ingest, held, cache, alarm, known, replays, evictions>>

\* alarm(): the retry queue first (RetryQueue), then the connections.
AlarmFires ==
    /\ alarm
    /\ caller["alarm"] = Idle
    /\ alarm' = FALSE
    /\ caller' = [caller EXCEPT !["alarm"] = [pc |-> "check", at |-> 1]]
    /\ UNCHANGED <<ingest, held, cache, known, replays, evictions>>

\* The cron trigger: sweepFromRelays starts, the last one is over.
Tick ==
    /\ caller["sweep"] = Idle
    /\ caller' = [caller EXCEPT !["sweep"] = [pc |-> "check", at |-> 1]]
    /\ now' = IF now < MaxTime THEN now + 1 ELSE now
    /\ UNCHANGED <<ingest, held, cache, alarm, known, swept, failed, evictions>>

\* After the last relay a sweep goes on to the replays. Mutant: the walk goes
\* one step past the last relay.
After_TooFar(c, k) ==
    IF k <= Len(Relays) THEN [pc |-> "check", at |-> k + 1]
    ELSE IF c = "sweep" THEN [pc |-> "replay", at |-> 1]
    ELSE Idle

After(c, k) ==
    IF k < Len(Relays) THEN [pc |-> "check", at |-> k + 1]
    ELSE IF c = "sweep" THEN [pc |-> "replay", at |-> 1]
    ELSE Idle

Check(c) ==
    /\ caller[c].pc = "check"
    /\ LET r == caller[c].at
       IN  /\ caller' = [caller EXCEPT ![c] =
                 IF connections[r] # None THEN After(c, r) ELSE [@ EXCEPT !.pc = "connect"]]
           /\ known' = known \cup {r}
    /\ UNCHANGED <<ingest, held, cache, alarm, replays, evictions>>

\* openRelay: the socket takes the relay's entry, whoever holds it; the REQ
\* has no `since`, so the relay sends everything it has. Mutant: the socket is
\* not entered in the map.
openRelay_NoEntry(c) ==
    /\ caller[c].pc = "connect"
    /\ \E s \in Sockets :
         LET r == caller[c].at
         IN  /\ sockets[r][s] = "closed"
             /\ sockets' = [sockets EXCEPT ![r][s] = "live"]
             /\ pending' = [pending EXCEPT ![r][s] = EventsOf(r)]
             /\ caller' = [caller EXCEPT ![c] = After(c, r)]
    /\ UNCHANGED <<connections, held, cache, alarm, known, replays, evictions>>

openRelay(c) ==
    /\ caller[c].pc = "connect"
    /\ \E s \in Sockets :
         LET r == caller[c].at
         IN  /\ sockets[r][s] = "closed"
             /\ sockets' = [sockets EXCEPT ![r][s] = "live"]
             /\ connections' = [connections EXCEPT ![r] = s]
             /\ pending' = [pending EXCEPT ![r][s] = EventsOf(r)]
             /\ caller' = [caller EXCEPT ![c] = After(c, r)]
    /\ UNCHANGED <<held, cache, alarm, known, replays, evictions>>

\* scheduleReconnect. Mutant: a failed upgrade is left to the next call.
ConnectFails_NoAlarm(c) ==
    /\ caller[c].pc = "connect"
    /\ caller' = [caller EXCEPT ![c] = After(c, @.at)]
    /\ UNCHANGED <<ingest, held, cache, alarm, known, replays, evictions>>

ConnectFails(c) ==
    /\ caller[c].pc = "connect"
    /\ alarm' = TRUE
    /\ caller' = [caller EXCEPT ![c] = After(c, @.at)]
    /\ UNCHANGED <<ingest, held, cache, known, replays, evictions>>

-----------------------------------------------------------------------------
(* The sweep's replays, one relay after the other, each over a socket of   *)
(* its own: what the relay has from the last Window ticks arrives until    *)
(* EOSE, an end of the socket, or a time-out.                              *)

Replayed(k) == IF k < Len(Relays) THEN [pc |-> "replay", at |-> k + 1] ELSE Idle

\* Mutant: the window is one sweep short.
InWindow_Short(r) == {e \in EventsOf(r) : e.at > now - Window}

InWindow(r) == {e \in EventsOf(r) : e.at >= now - Window}

replayRelay ==
    /\ caller["sweep"].pc = "replay"
    /\ LET r == caller["sweep"].at
       IN  /\ HandleAll(InWindow(r))
           /\ swept' = [swept EXCEPT ![r] = now]
           /\ failed' = [failed EXCEPT ![r] = 0]
           /\ caller' = [caller EXCEPT !["sweep"] = Replayed(r)]
    /\ UNCHANGED <<ingest, held, alarm, known, now, evictions>>

\* A replay that is cut short keeps what arrived.
replayRelayCutShort ==
    /\ caller["sweep"].pc = "replay"
    /\ LET r == caller["sweep"].at
       IN  /\ failed[r] < MaxFailures
           /\ \E got \in SUBSET InWindow(r) : HandleAll(got)
           /\ swept' = [swept EXCEPT ![r] = now]
           /\ failed' = [failed EXCEPT ![r] = @ + 1]
           /\ caller' = [caller EXCEPT !["sweep"] = Replayed(r)]
    /\ UNCHANGED <<ingest, held, alarm, known, now, evictions>>

\* The object is evicted: the map, the sockets and the running calls are gone,
\* and an alarm that was running is delivered again. The relays a lost sweep
\* had not reached were not replayed in this tick.
Unreached(r) ==
    \/ caller["sweep"].pc \in {"check", "connect"}
    \/ caller["sweep"].pc = "replay" /\ caller["sweep"].at <= r

Evict ==
    /\ evictions < MaxEvictions
    /\ \A r \in Walk : Unreached(r) => failed[r] < MaxFailures
    /\ connections' = [r \in Walk |-> None]
    /\ sockets' = [r \in Walk |-> Closed]
    /\ pending' = [r \in Walk |-> [s \in Sockets |-> {}]]
    /\ caller' = [c \in Callers |-> Idle]
    /\ alarm' = (alarm \/ caller["alarm"] # Idle)
    /\ known' = {}
    /\ swept' = [r \in Walk |-> IF Unreached(r) THEN now ELSE swept[r]]
    /\ failed' = [r \in Walk |-> IF Unreached(r) THEN failed[r] + 1 ELSE failed[r]]
    /\ evictions' = evictions + 1
    /\ UNCHANGED <<held, cache, now>>

-----------------------------------------------------------------------------
Next ==
    \/ \E r \in Walk : RelayReceives(r)
    \/ \E r \in Walk, s \in Sockets : Deliver(r, s) \/ DiesSilently(r, s) \/ handleEnd(r, s)
    \/ \E c \in Callers : Call(c) \/ Check(c) \/ openRelay(c) \/ ConnectFails(c)
    \/ AlarmFires \/ Tick
    \/ replayRelay \/ replayRelayCutShort
    \/ Evict

\* The runtime fires alarms and cron triggers and runs what is ready; a
\* connect attempt ends, by its time-out if need be; a relay that is asked
\* again and again answers at last.
Fairness ==
    /\ WF_vars(AlarmFires)
    /\ WF_vars(Tick)
    /\ WF_vars(replayRelay \/ replayRelayCutShort)
    /\ \A c \in Callers :
         /\ WF_vars(Check(c))
         /\ WF_vars(openRelay(c) \/ ConnectFails(c))
         /\ SF_vars(openRelay(c))

Spec == Init /\ [][Next]_vars /\ Fairness

-----------------------------------------------------------------------------
(* Properties.                                                             *)

\* Types of the variables.
TypeOK ==
    /\ connections \in [Walk -> Sockets \cup {None}]
    /\ sockets \in [Walk -> [Sockets -> {"live", "mute", "closed"}]]
    /\ pending \in [Walk -> [Sockets -> SUBSET Events]]
    /\ \A r \in Walk : held[r] \subseteq [event : Events, since : 0..MaxTime]
    /\ cache \in Events \cup {None}
    /\ caller \in [Callers -> [pc : {"idle", "check", "connect", "replay"}, at : 0..Len(Relays)]]
    /\ alarm \in BOOLEAN /\ known \subseteq Walk
    /\ now \in 0..MaxTime /\ swept \in [Walk -> 0..MaxTime]
    /\ failed \in [Walk -> 0..MaxFailures]

\* An entry of the map is a socket that has not ended, however many sockets of
\* its relay the racing calls opened and in whatever order these end: a relay
\* with an entry is never one nobody would reopen.
MapIsLive ==
    \A r \in Walk : connections[r] # None => sockets[r][connections[r]] # "closed"

\* A call of ensureConnected is on its way to the relay.
WillTry(c, r) == caller[c].pc \in {"check", "connect"} /\ caller[c].at <= r

\* A relay that was tried and has no entry is not forgotten: the alarm is set,
\* or a call has still to try it.
ReconnectCovered ==
    \A r \in known : connections[r] = None => alarm \/ \E c \in Callers : WillTry(c, r)

\* relay-pool.ts:17: what no live socket delivered is in the cache, or a newer
\* event is, once the sweeps that cover it are over. An event of the replay
\* window survives MaxFailures failed replays and an arrival MaxDelay late.
Has(e) == cache # None /\ cache.at >= e.at
RecoveredInWindow ==
    \A r \in Walk : \A h \in held[r] : swept[r] - h.since > MaxFailures => Has(h.event)

\* An older event never replaces a newer one, in whatever order live sockets,
\* reopened ones and replays deliver.
CacheNeverRegresses ==
    [][cache # None => cache' # None /\ (cache' = cache \/ cache'.at > cache.at)]_vars

\* A relay without an entry gets one again, after an eviction too.
RelayReconnected == \A r \in Walk : connections[r] = None ~> connections[r] # None
=============================================================================
