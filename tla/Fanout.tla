------------------------------- MODULE Fanout -------------------------------
(***************************************************************************)
(* Publishing to the relays, one worker isolate at a time: the routes of   *)
(* publish.ts, score.ts and comment.ts and the batches of the audience     *)
(* routes, each of which signs events, fans them out over one socket per   *)
(* relay (publishBatchToRelay), hands what was not settled to the retry    *)
(* queue of the RelayPool (enqueueRelayRetries) and answers.               *)
(*                                                                         *)
(* Relays are the environment: they take, refuse, throttle or ignore what  *)
(* they are sent, in any order, and their answers may come after the       *)
(* request stopped listening. Time is left out: the connect timeout and    *)
(* the batch window may end at any moment, a pump timer may find that the  *)
(* 50 ms gap has passed or not, a cool-down may end at any moment.         *)
(***************************************************************************)
EXTENDS Integers, FiniteSets, Sequences

CONSTANTS
    Relays,         \* RELAYS
    Requests,       \* requests of one identity
    Plans,          \* what the requests may be: functions from Requests to plans
    Messages,       \* the kinds of answer relays give
    MaxUnacked,     \* RELAY_MAX_UNACKED
    RateLimit,      \* RATE_LIMIT_PER_HOUR
    MaxEvictions    \* bound: how often the isolate is lost

\* A plan is the size of each batch in turn, and whether the first must be
\* taken by some relay: <<1>> for /v0/publish and /v0/comment, <<1, 1>> for
\* /v0/score, <<n>> ungated for the wraps of deliverMemberWraps.
ASSUME PlansAssumption ==
    \A plan \in Plans : \A q \in Requests :
        /\ plan[q].batches \in Seq(Nat \ {0}) /\ plan[q].batches # <<>>
        /\ plan[q].gated \in BOOLEAN
ASSUME MessagesAssumption ==
    Messages \subseteq {"ok", "duplicate", "auth-required", "rate-limited", "banned", "invalid"}
ASSUME BoundsAssumption == MaxUnacked \in Nat \ {0} /\ RateLimit \in Nat /\ MaxEvictions \in Nat

VARIABLES
    plan,           \* which plan each request follows
    req,            \* where each request is
    sock,           \* per request and relay: publishBatchToRelay's locals
    fate,           \* what became of each event at each relay
    relayCooldowns, \* the relays this isolate skips
    recent,         \* how many stamps rateLimitWindow holds for the identity
    took,           \* history: the deliveries whose OK came while it was awaited
    refused,        \* history: the deliveries a relay refused for good meanwhile
    poolCooldowns,  \* history: the relays the RelayPool was told to cool
    evictions       \* how often the isolate was lost (bound)

history == <<took, refused>>
vars == <<plan, req, sock, fate, relayCooldowns, recent, history, poolCooldowns, evictions>>

-----------------------------------------------------------------------------
(* Answers. An OK that is true, or refused as a duplicate, is an accept.   *)

classifyRejection(message) ==
    CASE message = "duplicate" -> "accepted"
      [] message \in {"auth-required", "rate-limited"} -> "rate-limited-retrying"
      [] message \in {"banned", "invalid"} -> "failed-permanent"

Status(message) == IF message = "ok" THEN "accepted" ELSE classifyRejection(message)

isRelayThrottle(message) == message \in {"rate-limited", "banned"}

\* A result is a status and whether its message reads as a throttle.
Result(message) == [status |-> Status(message), throttle |-> isRelayThrottle(message)]
Retrying(throttle) == [status |-> "rate-limited-retrying", throttle |-> throttle]
Statuses == {"accepted", "rate-limited-retrying", "failed-permanent"}
Results == [status : Statuses, throttle : BOOLEAN]
NoResult == [status |-> "none", throttle |-> FALSE]

\* Why a socket stopped, as far as a result tells it: only the reason given
\* to what a throttle left unsent quotes the relay's own words.
Reasons == {"", "cool-down", "connect", "silence", "not sent: rate-limited"}

-----------------------------------------------------------------------------
Size(q) == plan[q].batches[req[q].batch]
Events(q) == 1..Size(q)
At(q, pc) == req[q].pc = pc
Alive(q) == req[q].pc \notin {"idle", "answered", "evicted"}

NoSock == [pc |-> "done", next |-> 0, inFlight |-> {}, answered |-> <<>>,
           throttled |-> FALSE, timer |-> FALSE, reason |-> ""]
Fresh(q) == [NoSock EXCEPT !.answered = [i \in Events(q) |-> NoResult]]

Init ==
    /\ plan \in Plans
    /\ req = [q \in Requests |-> [pc |-> "idle", batch |-> 1, answer |-> "none"]]
    /\ sock = [q \in Requests |-> [r \in Relays |-> NoSock]]
    /\ fate = [q \in Requests |-> [r \in Relays |->
                 [n \in DOMAIN plan[q].batches |-> [i \in 1..plan[q].batches[n] |-> "none"]]]]
    /\ relayCooldowns \in SUBSET Relays     \* isolates are reused across requests
    /\ recent \in 0..RateLimit
    /\ took = {}
    /\ refused = {}
    /\ poolCooldowns = {}
    /\ evictions = 0

Goto(q, pc) == req' = [req EXCEPT ![q].pc = pc]
Answer(q, answer) == req' = [req EXCEPT ![q].pc = "answered", ![q].answer = answer]
Close(q) == sock' = [sock EXCEPT ![q] = [r \in Relays |-> NoSock]]
Set(q, r, s) == sock' = [sock EXCEPT ![q][r] = s]

-----------------------------------------------------------------------------
(* A request up to its fan-out.                                            *)

\* Mutant: one stamp too many.
rateLimitCheck_OffByOne(q) ==
    /\ At(q, "idle")
    /\ IF recent > RateLimit
       THEN Answer(q, "429") /\ UNCHANGED recent
       ELSE Goto(q, "build") /\ recent' = recent + 1
    /\ UNCHANGED <<plan, sock, fate, relayCooldowns, history, poolCooldowns, evictions>>

rateLimitCheck(q) ==
    /\ At(q, "idle")
    /\ IF recent >= RateLimit
       THEN Answer(q, "429") /\ UNCHANGED recent
       ELSE Goto(q, "build") /\ recent' = recent + 1
    /\ UNCHANGED <<plan, sock, fate, relayCooldowns, history, poolCooldowns, evictions>>

\* The oldest stamp leaves the window of an hour.
WindowSlides ==
    /\ recent > 0
    /\ recent' = recent - 1
    /\ UNCHANGED <<plan, req, sock, fate, relayCooldowns, history, poolCooldowns, evictions>>

\* Deriving the key, building the event, its size or its own check may fail.
BuildFails(q) ==
    /\ At(q, "build")
    /\ Answer(q, "error")
    /\ UNCHANGED <<plan, sock, fate, relayCooldowns, recent, history, poolCooldowns, evictions>>

\* The events are signed and publishBatchToRelay runs for every relay up to
\* its first await: a relay in cool-down is skipped without a socket.
FanOut(q) ==
    /\ At(q, "build")
    /\ Goto(q, "fanout")
    /\ sock' = [sock EXCEPT ![q] = [r \in Relays |->
                  IF r \in relayCooldowns
                  THEN [Fresh(q) EXCEPT !.reason = "cool-down"]
                  ELSE [Fresh(q) EXCEPT !.pc = "connect"]]]
    /\ UNCHANGED <<plan, fate, relayCooldowns, recent, history, poolCooldowns, evictions>>

-----------------------------------------------------------------------------
(* One socket. pump sends while it may: after a send the gap has not       *)
(* passed, so one call sends at most one event and, if more could go, sets *)
(* a timer. It may leave an older timer set as well, which calls pump again *)
(* with nothing to add: `timer` says that at least one is set.             *)

MaySend(q, s) == ~s.throttled /\ s.next < Size(q) /\ Cardinality(s.inFlight) < MaxUnacked

Finished(s, reason) == [s EXCEPT !.pc = "done", !.timer = FALSE, !.reason = reason]

\* Nothing is awaited and nothing may be sent any more.
Settled(q, s) == s.inFlight = {} /\ (s.throttled \/ s.next >= Size(q))

\* Mutant: a pump that finds the gap not over does not set a timer.
Pump_OneShot(q, s, rested) ==
    LET sent == IF MaySend(q, s) /\ rested
                THEN [s EXCEPT !.next = @ + 1, !.inFlight = @ \cup {s.next + 1}]
                ELSE s
    IN  IF Settled(q, sent)
        THEN Finished(sent, IF sent.throttled THEN "not sent: rate-limited" ELSE "")
        ELSE sent

Pump(q, s, rested) ==
    LET sent == IF MaySend(q, s) /\ rested
                THEN [s EXCEPT !.next = @ + 1, !.inFlight = @ \cup {s.next + 1}]
                ELSE s
    IN  IF MaySend(q, sent)
        THEN [sent EXCEPT !.timer = TRUE]
        ELSE IF Settled(q, sent)
        THEN Finished(sent, IF sent.throttled THEN "not sent: rate-limited" ELSE "")
        ELSE sent

\* The upgrade is refused, fails, or takes longer than RELAY_CONNECT_TIMEOUT_MS.
ConnectFails(q, r) ==
    /\ sock[q][r].pc = "connect" /\ Alive(q)
    /\ Set(q, r, [sock[q][r] EXCEPT !.pc = "done", !.reason = "connect"])
    /\ UNCHANGED <<plan, req, fate, relayCooldowns, recent, history, poolCooldowns, evictions>>

Connects(q, r) ==
    /\ sock[q][r].pc = "connect" /\ Alive(q)
    /\ Set(q, r, Pump(q, [sock[q][r] EXCEPT !.pc = "open"], TRUE))
    /\ UNCHANGED <<plan, req, fate, relayCooldowns, recent, history, poolCooldowns, evictions>>

\* A pump timer finds the gap over or not.
TimerFires(q, r) ==
    /\ sock[q][r].pc = "open" /\ Alive(q)
    /\ sock[q][r].timer
    /\ \E rested \in BOOLEAN :
         Set(q, r, Pump(q, [sock[q][r] EXCEPT !.timer = FALSE], rested))
    /\ UNCHANGED <<plan, req, fate, relayCooldowns, recent, history, poolCooldowns, evictions>>

-----------------------------------------------------------------------------
(* The relays. An OK reaches the message listener while the request waits  *)
(* or, if the isolate is still there, after it stopped waiting.            *)

Throttles(message) == Status(message) = "rate-limited-retrying" /\ isRelayThrottle(message)

CoolDown(r, message, throttled) ==
    IF Status(message) = "accepted" THEN relayCooldowns \ {r}
    ELSE IF Throttles(message) /\ ~throttled THEN relayCooldowns \cup {r}
    ELSE relayCooldowns

Said(q, r, i, message) ==
    LET d == {<<q, req[q].batch, i, r>>}
    IN  /\ took' = IF Status(message) = "accepted" THEN took \cup d ELSE took
        /\ refused' = IF Status(message) = "failed-permanent" THEN refused \cup d ELSE refused

Answered(q, r, i, message, rested) ==
    LET s == sock[q][r]
    IN  /\ s.pc = "open" /\ Alive(q)
        /\ i \in s.inFlight
        /\ Set(q, r, Pump(q, [s EXCEPT !.inFlight = @ \ {i},
                                       !.answered[i] = Result(message),
                                       !.throttled = @ \/ Throttles(message)], rested))
        /\ relayCooldowns' = CoolDown(r, message, s.throttled)
        /\ Said(q, r, i, message)
        /\ UNCHANGED <<plan, req, fate, recent, poolCooldowns, evictions>>

\* The listener is never removed: an OK that comes after the end of the batch
\* changes no result, but starts or ends the isolate's cool-down.
AnsweredLate(q, r, i, message) ==
    LET s == sock[q][r]
    IN  /\ s.pc = "done" /\ Alive(q)
        /\ i \in s.inFlight
        /\ Set(q, r, [s EXCEPT !.inFlight = @ \ {i}, !.throttled = @ \/ Throttles(message)])
        /\ relayCooldowns' = CoolDown(r, message, s.throttled)
        /\ UNCHANGED <<plan, req, fate, recent, history, poolCooldowns, evictions>>

\* Mutant: the window is only watched while there is something to send.
SocketEnds_WhileSending(q, r) ==
    /\ sock[q][r].pc = "open" /\ Alive(q)
    /\ sock[q][r].next < Size(q)
    /\ Set(q, r, Finished(sock[q][r], "silence"))
    /\ UNCHANGED <<plan, req, fate, relayCooldowns, recent, history, poolCooldowns, evictions>>

\* The batch window ends, or the relay closes the socket.
SocketEnds(q, r) ==
    /\ sock[q][r].pc = "open" /\ Alive(q)
    /\ Set(q, r, Finished(sock[q][r], "silence"))
    /\ UNCHANGED <<plan, req, fate, relayCooldowns, recent, history, poolCooldowns, evictions>>

\* An isolate-level cool-down runs out.
CooldownEnds(r) ==
    /\ r \in relayCooldowns
    /\ relayCooldowns' = relayCooldowns \ {r}
    /\ UNCHANGED <<plan, req, sock, fate, recent, history, poolCooldowns, evictions>>

-----------------------------------------------------------------------------
(* From the results to the answer.                                         *)

\* What a relay did not answer for gets the reason its socket stopped.
\* Mutant: what a relay did not answer for is taken for refused.
Outcome_SilenceIsFinal(s, i) ==
    IF s.answered[i] # NoResult THEN s.answered[i]
    ELSE IF s.reason = "silence" THEN [status |-> "failed-permanent", throttle |-> FALSE]
    ELSE Retrying(s.reason = "not sent: rate-limited")

Outcome(s, i) ==
    IF s.answered[i] # NoResult THEN s.answered[i]
    ELSE Retrying(s.reason = "not sent: rate-limited")

Fate(status) ==
    CASE status = "accepted" -> "accepted"
      [] status = "failed-permanent" -> "refused"
      [] status = "rate-limited-retrying" -> "retry"

\* Promise.all over the relays resolves.
Gather(q) ==
    /\ At(q, "fanout")
    /\ \A r \in Relays : sock[q][r].pc = "done"
    /\ Goto(q, "handoff")
    /\ fate' = [fate EXCEPT ![q] = [r \in Relays |-> [fate[q][r] EXCEPT ![req[q].batch] =
                  [i \in Events(q) |-> Fate(Outcome(sock[q][r], i).status)]]]]
    /\ UNCHANGED <<plan, sock, relayCooldowns, recent, history, poolCooldowns, evictions>>

Now(q, r, i) == fate[q][r][req[q].batch][i]
ToRetry(q, i) == {r \in Relays : Now(q, r, i) = "retry"}

Handed(q, i, to) ==
    fate' = [fate EXCEPT ![q] = [r \in Relays |->
               IF r \in ToRetry(q, i) THEN [fate[q][r] EXCEPT ![req[q].batch][i] = to]
               ELSE fate[q][r]]]

\* enqueueRelayRetries for one event: one call for all its relays, whose
\* failure is logged and forgotten.
\* Mutant: only what was left unsent is reported as throttled.
HandOff_UnsentOnly(q, i) ==
    /\ At(q, "handoff")
    /\ ToRetry(q, i) # {}
    /\ \/ /\ Handed(q, i, "queued")
          /\ poolCooldowns' = poolCooldowns \cup
                {r \in ToRetry(q, i) : sock[q][r].answered[i] = NoResult /\
                                       Outcome(sock[q][r], i).throttle}
       \/ Handed(q, i, "dropped") /\ UNCHANGED poolCooldowns
    /\ UNCHANGED <<plan, req, sock, relayCooldowns, recent, history, evictions>>

HandOff(q, i) ==
    /\ At(q, "handoff")
    /\ ToRetry(q, i) # {}
    /\ \/ /\ Handed(q, i, "queued")
          /\ poolCooldowns' = poolCooldowns \cup
                {r \in ToRetry(q, i) : Outcome(sock[q][r], i).throttle}
       \/ Handed(q, i, "dropped") /\ UNCHANGED poolCooldowns
    /\ UNCHANGED <<plan, req, sock, relayCooldowns, recent, history, evictions>>

\* Mutant: an event that waits for a retry counts as taken.
Taken_OrWaiting(q) ==
    \E i \in Events(q), r \in Relays : Now(q, r, i) \in {"accepted", "queued"}

Taken(q) == \E i \in Events(q), r \in Relays : Now(q, r, i) = "accepted"

\* All retries are handed off: 502 if no relay took the first event of a
\* gated plan, then the next batch, then the answer. A comment that no relay
\* took is not an error of /v0/score. Mutant: the next batch is not gated.
Conclude_Ungated(q) ==
    /\ At(q, "handoff")
    /\ \A i \in Events(q) : ToRetry(q, i) = {}
    /\ IF req[q].batch < Len(plan[q].batches)
       THEN req' = [req EXCEPT ![q].pc = "build", ![q].batch = @ + 1]
       ELSE Answer(q, "ok")
    /\ Close(q)
    /\ UNCHANGED <<plan, fate, relayCooldowns, recent, history, poolCooldowns, evictions>>

Conclude(q) ==
    /\ At(q, "handoff")
    /\ \A i \in Events(q) : ToRetry(q, i) = {}
    /\ IF plan[q].gated /\ req[q].batch = 1 /\ ~Taken(q) THEN Answer(q, "502")
       ELSE IF req[q].batch < Len(plan[q].batches)
       THEN req' = [req EXCEPT ![q].pc = "build", ![q].batch = @ + 1]
       ELSE Answer(q, "ok")
    /\ UNCHANGED <<plan, sock, fate, relayCooldowns, recent, history, poolCooldowns, evictions>>

\* The isolate is lost with its requests, its cool-downs and its rate window.
Evict ==
    /\ evictions < MaxEvictions
    /\ \E q \in Requests : Alive(q)
    /\ req' = [q \in Requests |-> IF Alive(q) THEN [req[q] EXCEPT !.pc = "evicted"] ELSE req[q]]
    /\ relayCooldowns' = {}
    /\ recent' = 0
    /\ sock' = [q \in Requests |-> [r \in Relays |-> NoSock]]
    /\ evictions' = evictions + 1
    /\ UNCHANGED <<plan, fate, history, poolCooldowns>>

-----------------------------------------------------------------------------
Publish(q) ==
    \/ rateLimitCheck(q) \/ BuildFails(q) \/ FanOut(q) \/ Gather(q) \/ Conclude(q)
    \/ \E i \in Events(q) : HandOff(q, i)

Socket(q, r) ==
    \/ ConnectFails(q, r) \/ Connects(q, r) \/ TimerFires(q, r) \/ SocketEnds(q, r)
    \/ \E i \in Events(q), message \in Messages :
         \/ \E rested \in BOOLEAN : Answered(q, r, i, message, rested)
         \/ AnsweredLate(q, r, i, message)

Next ==
    \/ \E q \in Requests : Publish(q) \/ \E r \in Relays : Socket(q, r)
    \/ \E r \in Relays : CooldownEnds(r)
    \/ WindowSlides
    \/ Evict

\* The connect timeout and the batch window end what waits for a relay; the
\* worker runs what is ready; KMS and the RelayPool answer or fail.
Fairness ==
    \A q \in Requests :
        /\ WF_vars(FanOut(q) \/ BuildFails(q))
        /\ WF_vars(Gather(q))
        /\ WF_vars(Conclude(q))
        /\ WF_vars(\E i \in Events(q) : HandOff(q, i))
        /\ \A r \in Relays :
             /\ WF_vars(ConnectFails(q, r) \/ Connects(q, r))
             /\ WF_vars(SocketEnds(q, r))

Spec == Init /\ [][Next]_vars /\ Fairness

-----------------------------------------------------------------------------
(* Properties.                                                             *)

Fates == {"none", "accepted", "refused", "retry", "queued", "dropped"}

SockOK(q, s) ==
    /\ s.pc \in {"connect", "open", "done"}
    /\ s.next \in 0..Size(q)
    /\ s.inFlight \subseteq 1..s.next /\ Cardinality(s.inFlight) <= MaxUnacked
    /\ \A i \in DOMAIN s.answered : s.answered[i] \in Results \cup {NoResult}
    /\ s.throttled \in BOOLEAN /\ s.timer \in BOOLEAN /\ s.reason \in Reasons

\* Types; a socket never has more than MaxUnacked events unanswered.
TypeOK ==
    /\ plan \in Plans
    /\ \A q \in Requests :
         /\ req[q].pc \in {"idle", "build", "fanout", "handoff", "answered", "evicted"}
         /\ req[q].batch \in 1..Len(plan[q].batches)
         /\ req[q].answer \in {"none", "429", "502", "error", "ok"}
         /\ \A r \in Relays : At(q, "fanout") => SockOK(q, sock[q][r])
    /\ \A q \in Requests, r \in Relays : \A n \in DOMAIN plan[q].batches :
         fate[q][r][n] \in [1..plan[q].batches[n] -> Fates]
    /\ relayCooldowns \subseteq Relays /\ poolCooldowns \subseteq Relays
    /\ recent \in 0..RateLimit

\* A socket never sleeps with work to do: if an event may be sent a timer is
\* set, and when nothing is left to send or to wait for it is finished. The
\* batch window is not what a healthy batch runs on.
NoStall ==
    \A q \in Requests, r \in Relays :
        LET s == sock[q][r]
        IN  (s.pc = "open" /\ Alive(q)) => /\ MaySend(q, s) => s.timer
                                           /\ ~Settled(q, s)

\* What the answer reports is true of the relays, and nothing is left out:
\* reported as taken, a relay has the event; reported as refused, it said so;
\* and for the rest a retry was queued, or asked for in vain.
EveryDeliveryAccounted ==
    \A q \in Requests, r \in Relays : \A n \in DOMAIN plan[q].batches :
        \A i \in 1..plan[q].batches[n] :
            LET f == fate[q][r][n][i]
            IN  /\ f = "accepted" => <<q, n, i, r>> \in took
                /\ f = "refused" => <<q, n, i, r>> \in refused
                /\ (req[q].answer \in {"ok", "502"} /\ n <= req[q].batch)
                     => f \in {"accepted", "refused", "queued", "dropped"}

\* score.ts: no rationale is on its way to any relay, whether its OK will come
\* or not, unless some relay took the score it is about; and an answer 502
\* says that none ever was.
CommentFollowsScore ==
    \A q \in Requests :
        plan[q].gated =>
            /\ (req[q].batch = 2 /\ \E r \in Relays : sock[q][r].next > 0)
                 => \E d \in took : d[1] = q /\ d[2] = 1
            /\ req[q].answer = "502" => \A d \in took : d[1] # q

\* An answer ok to a gated request means a relay took the first event.
OkMeansTaken ==
    \A q \in Requests :
        (plan[q].gated /\ req[q].answer = "ok") => \E d \in took : d[1] = q /\ d[2] = 1

\* When a batch's retries are handed off, a relay that throttled one of its
\* events in time is cooling in the RelayPool too, unless the hand-off failed.
ThrottleReachesPool ==
    \A q \in Requests : \A r \in Relays :
        (At(q, "handoff") /\ \A i \in Events(q) : ToRetry(q, i) = {})
          => \A i \in Events(q) :
               LET result == sock[q][r].answered[i]
               IN  (result.status = "rate-limited-retrying" /\ result.throttle)
                     => r \in poolCooldowns \/ Now(q, r, i) = "dropped"

\* Every request is answered unless its isolate is lost, whatever relays do.
EveryRequestAnswered ==
    \A q \in Requests : Alive(q) ~> req[q].pc \in {"answered", "evicted"}

=============================================================================
