---------------------------- MODULE FanoutProofs ----------------------------
(***************************************************************************)
(* Theorems about Fanout, for any relays, requests and plans, any limit on *)
(* unacknowledged events and any number of lost isolates:                  *)
(*   TypeCorrect, NeverStalls, DeliveriesAccounted, CommentAfterScore,     *)
(*   OkIsTaken, ThrottleHandedOn.                                          *)
(* IInv is the inductive invariant. It ties a socket's answers to what the *)
(* relays said while it listened, and the fates of a batch to the answers  *)
(* they were gathered from.                                                *)
(***************************************************************************)
EXTENDS Fanout, FiniteSetTheorems, TLAPS

USE PlansAssumption, MessagesAssumption, BoundsAssumption

-----------------------------------------------------------------------------
(* The inductive invariant.                                                *)

Pcs == {"idle", "build", "fanout", "handoff", "answered", "evicted"}
Answers == {"none", "429", "502", "error", "ok"}
Replies == Results \cup {NoResult}
AnswerMaps == UNION {[1..n -> Replies] : n \in Nat}
Sock == [pc : {"connect", "open", "done"}, next : Nat, inFlight : SUBSET Nat,
         answered : AnswerMaps,
         throttled : BOOLEAN, timer : BOOLEAN, reason : Reasons]

RequestsType ==
    /\ plan \in Plans
    /\ req \in [Requests -> [pc : Pcs, batch : Nat, answer : Answers]]
    /\ \A q \in Requests : req[q].batch \in 1..Len(plan[q].batches)

FateType ==
    /\ DOMAIN fate = Requests
    /\ \A q \in Requests : DOMAIN fate[q] = Relays
    /\ \A q \in Requests, r \in Relays :
         /\ DOMAIN fate[q][r] = DOMAIN plan[q].batches
         /\ \A n \in DOMAIN plan[q].batches : fate[q][r][n] \in [1..plan[q].batches[n] -> Fates]

Types ==
    /\ RequestsType
    /\ FateType
    /\ sock \in [Requests -> [Relays -> Sock]]
    /\ relayCooldowns \subseteq Relays /\ poolCooldowns \subseteq Relays
    /\ recent \in 0..RateLimit

\* A socket of the batch that is out: what it sent, awaits and was answered.
Sent(q, s) ==
    /\ s.next <= Size(q)
    /\ s.inFlight \subseteq 1..s.next /\ Cardinality(s.inFlight) <= MaxUnacked
    /\ s.answered \in [Events(q) -> Replies]
    /\ \A i \in Events(q) : s.answered[i] # NoResult => i <= s.next /\ i \notin s.inFlight

Driven(q, s) == s.pc = "open" => (MaySend(q, s) => s.timer) /\ ~Settled(q, s)

\* Its answers are what the relay said.
Heard(q, r, s) ==
    \A i \in Events(q) :
        /\ s.answered[i].status = "accepted" <=> <<q, req[q].batch, i, r>> \in took
        /\ s.answered[i].status = "failed-permanent" => <<q, req[q].batch, i, r>> \in refused

SocketsInv ==
    \A q \in Requests, r \in Relays :
        /\ At(q, "fanout") => /\ Sent(q, sock[q][r])
                              /\ Driven(q, sock[q][r])
                              /\ Heard(q, r, sock[q][r])
        /\ ~At(q, "fanout") => sock[q][r].pc = "done"

\* History is about batches that went out.
HistoryInv ==
    \A d \in took :
        /\ d \in Requests \X Nat \X Nat \X Relays
        /\ d[2] \in 1..req[d[1]].batch
        /\ d[3] \in 1..plan[d[1]].batches[d[2]]
        /\ req[d[1]].pc \in {"idle", "build"} => d[2] < req[d[1]].batch

Done == {"accepted", "refused", "queued", "dropped"}

\* The fate of an event at a relay, by where its request is.
FateInv(q) ==
    \A r \in Relays : \A n \in DOMAIN plan[q].batches : \A i \in 1..plan[q].batches[n] :
        LET f == fate[q][r][n][i]
        IN  /\ f = "accepted" => <<q, n, i, r>> \in took
            /\ f = "refused" => <<q, n, i, r>> \in refused
            /\ n < req[q].batch => f \in Done
            /\ n = req[q].batch /\ At(q, "handoff") =>
                  /\ f \in Done \cup {"retry"}
                  /\ <<q, n, i, r>> \in took => f = "accepted"
            /\ n = req[q].batch /\ req[q].answer \in {"ok", "502"} => f \in Done

\* What the hand-off of a batch knows of its throttled events.
ThrottleInv(q) ==
    At(q, "handoff") =>
        \A r \in Relays : \A i \in Events(q) :
            LET result == sock[q][r].answered[i]
            IN  (result.status = "rate-limited-retrying" /\ result.throttle)
                  => \/ Now(q, r, i) \in {"retry", "dropped"}
                     \/ Now(q, r, i) = "queued" /\ r \in poolCooldowns

TookFirst(q) == \E d \in took : d[1] = q /\ d[2] = 1

\* Where the answers come from, and the gate of a gated plan.
GateInv(q) ==
    /\ req[q].answer # "none" => req[q].pc = "answered"
    /\ plan[q].gated => /\ req[q].batch > 1 => TookFirst(q)
                        /\ req[q].answer = "ok" => TookFirst(q)
                        /\ req[q].answer = "502" => \A d \in took : d[1] # q

RequestInv(q) == FateInv(q) /\ ThrottleInv(q) /\ GateInv(q)

IInv ==
    /\ Types
    /\ SocketsInv
    /\ HistoryInv
    /\ \A q \in Requests : RequestInv(q)

-----------------------------------------------------------------------------
(* Facts about the operators.                                              *)

LEMMA SizeType ==
  ASSUME RequestsType, NEW q \in Requests
  PROVE  /\ plan[q].batches \in Seq(Nat \ {0})
         /\ DOMAIN plan[q].batches = 1..Len(plan[q].batches)
         /\ Len(plan[q].batches) \in Nat \ {0}
         /\ \A n \in DOMAIN plan[q].batches : plan[q].batches[n] \in Nat \ {0}
         /\ req[q].batch \in DOMAIN plan[q].batches
         /\ Size(q) \in Nat \ {0} /\ Size(q) = plan[q].batches[req[q].batch]
<1>1. plan[q].batches \in Seq(Nat \ {0}) /\ plan[q].batches # <<>>
  BY DEF RequestsType
<1>2. QED
  BY <1>1 DEF RequestsType, Size

LEMMA ResultType ==
  ASSUME NEW message \in Messages
  PROVE  /\ Status(message) \in Statuses
         /\ Result(message) \in Results
         /\ Result(message).status = Status(message)
         /\ Result(message) # NoResult
  BY DEF Status, classifyRejection, Result, Results, Statuses, isRelayThrottle, NoResult

LEMMA OutcomeType ==
  ASSUME NEW s \in Sock, NEW i, s.answered[i] \in Replies
  PROVE  /\ Outcome(s, i) \in Results
         /\ Fate(Outcome(s, i).status) \in {"accepted", "refused", "retry"}
         /\ Fate(Outcome(s, i).status) = "accepted" <=> s.answered[i].status = "accepted"
         /\ Fate(Outcome(s, i).status) = "refused" <=> s.answered[i].status = "failed-permanent"
<1>1. CASE s.answered[i] = NoResult
  <2>1. Outcome(s, i) = Retrying(s.reason = "not sent: rate-limited")
    BY <1>1 DEF Outcome
  <2>2. Outcome(s, i) \in Results /\ Outcome(s, i).status = "rate-limited-retrying"
    <3>1. (s.reason = "not sent: rate-limited") \in BOOLEAN
      OBVIOUS
    <3> DEFINE unsent == s.reason = "not sent: rate-limited"
    <3> HIDE DEF unsent
    <3>2. unsent \in BOOLEAN
      BY <3>1 DEF unsent
    <3>3. Retrying(unsent) \in Results /\ Retrying(unsent).status = "rate-limited-retrying"
      BY <3>2 DEF Retrying, Results, Statuses
    <3>4. QED
      BY <2>1, <3>3 DEF unsent
  <2>3. QED
    BY <1>1, <2>2 DEF Fate, NoResult
<1>2. CASE s.answered[i] # NoResult
  <2>1. Outcome(s, i) = s.answered[i] /\ s.answered[i] \in Results
    BY <1>2 DEF Outcome, Replies
  <2>2. Outcome(s, i).status \in Statuses
    BY <2>1 DEF Results
  <2>3. QED
    BY <2>1, <2>2 DEF Fate, Statuses
<1>3. QED
  BY <1>1, <1>2

\* One call of pump: a socket that stays open has a timer if it may send.
LEMMA PumpType ==
  ASSUME RequestsType, NEW q \in Requests, NEW s \in Sock, NEW rested \in BOOLEAN,
         Sent(q, s), s.pc = "open"
  PROVE  LET t == Pump(q, s, rested)
         IN  t \in Sock /\ Sent(q, t) /\ Driven(q, t) /\ t.answered = s.answered
<1> DEFINE sent == IF MaySend(q, s) /\ rested
                   THEN [s EXCEPT !.next = @ + 1, !.inFlight = @ \cup {s.next + 1}]
                   ELSE s
           t == Pump(q, s, rested)
<1>1. Size(q) \in Nat \ {0}
  BY SizeType
<1>2. /\ sent \in Sock /\ Sent(q, sent) /\ sent.answered = s.answered /\ sent.pc = "open"
  <2>1. CASE ~(MaySend(q, s) /\ rested)
    BY <2>1
  <2>2. CASE MaySend(q, s) /\ rested
    <3>1. /\ sent = [s EXCEPT !.next = @ + 1, !.inFlight = @ \cup {s.next + 1}]
          /\ s.next \in Nat /\ s.inFlight \subseteq 1..s.next /\ s.next < Size(q)
      BY <2>2 DEF MaySend, Sent, Sock
    <3>2. sent \in Sock
      <4>1. s.next + 1 \in Nat /\ s.inFlight \cup {s.next + 1} \in SUBSET Nat
        BY <3>1
      <4>2. QED
        BY <3>1, <4>1 DEF Sock
    <3>3. /\ sent.next = s.next + 1 /\ sent.inFlight = s.inFlight \cup {s.next + 1}
          /\ sent.answered = s.answered /\ sent.pc = "open"
      BY <3>1 DEF Sock
    <3>4. IsFiniteSet(s.inFlight)
      <4>1. 1 \in Int /\ s.next \in Int
        BY <3>1
      <4>2. IsFiniteSet(1..s.next)
        BY <4>1, FS_Interval
      <4>3. QED
        BY <3>1, <4>2, FS_Subset
    <3>5. Cardinality(sent.inFlight) <= MaxUnacked
      <4>1. Cardinality(s.inFlight) \in Nat /\ Cardinality(s.inFlight) < MaxUnacked
        BY <2>2, <3>4, FS_CardinalityType DEF MaySend
      <4>2. s.next + 1 \notin s.inFlight
        BY <3>1
      <4>3. Cardinality(sent.inFlight) = Cardinality(s.inFlight) + 1
        <5>1. Cardinality(s.inFlight \cup {s.next + 1}) = Cardinality(s.inFlight) + 1
          BY <3>4, <4>2, FS_AddElement
        <5>2. QED
          BY <3>3, <5>1
      <4>4. QED
        BY <4>1, <4>3
    <3> HIDE DEF sent
    <3>6. Sent(q, sent)
      BY <1>1, <3>1, <3>3, <3>5 DEF Sent, Events
    <3>7. QED
      BY <3>2, <3>3, <3>6
  <2>3. QED
    BY <2>1, <2>2
<1>3. t = IF MaySend(q, sent) THEN [sent EXCEPT !.timer = TRUE]
          ELSE IF Settled(q, sent)
          THEN Finished(sent, IF sent.throttled THEN "not sent: rate-limited" ELSE "")
          ELSE sent
  BY DEF Pump
<1> HIDE DEF sent, t
<1>4. CASE MaySend(q, sent)
  <2>1. t = [sent EXCEPT !.timer = TRUE]
    BY <1>3, <1>4
  <2>2. /\ t \in Sock /\ t.pc = "open" /\ t.timer /\ t.next = sent.next
        /\ t.inFlight = sent.inFlight /\ t.throttled = sent.throttled
        /\ t.answered = sent.answered
    BY <1>2, <2>1 DEF Sock
  <2>3. Sent(q, t) /\ MaySend(q, t)
    BY <1>2, <1>4, <2>2 DEF Sent, MaySend
  <2>4. ~Settled(q, t)
    BY <1>1, <2>2, <2>3 DEF Settled, MaySend, Sock
  <2>5. QED
    BY <1>2, <2>2, <2>3, <2>4 DEF Driven, t
<1>5. CASE ~MaySend(q, sent) /\ Settled(q, sent)
  <2>1. t = Finished(sent, IF sent.throttled THEN "not sent: rate-limited" ELSE "")
    BY <1>3, <1>5
  <2>2. /\ t \in Sock /\ t.pc = "done" /\ t.next = sent.next
        /\ t.inFlight = sent.inFlight /\ t.answered = sent.answered
    BY <1>2, <2>1 DEF Sock, Finished, Reasons
  <2>3. QED
    BY <1>2, <2>2 DEF Sent, Driven, t
<1>6. CASE ~MaySend(q, sent) /\ ~Settled(q, sent)
  BY <1>2, <1>3, <1>6 DEF Driven, t
<1>7. QED
  BY <1>4, <1>5, <1>6

-----------------------------------------------------------------------------
(* What steps leave alone.                                                 *)

\* What holds of a socket holds as long as its batch and its relay say no more.
LEMMA SocketKept ==
  ASSUME NEW q \in Requests, NEW r \in Relays,
         plan' = plan, req'[q] = req[q], sock'[q][r] = sock[q][r], UNCHANGED history,
         At(q, "fanout") => Sent(q, sock[q][r]) /\ Driven(q, sock[q][r]) /\ Heard(q, r, sock[q][r]),
         ~At(q, "fanout") => sock[q][r].pc = "done"
  PROVE  /\ At(q, "fanout")' => Sent(q, sock[q][r])' /\ Driven(q, sock[q][r])'
                                  /\ Heard(q, r, sock[q][r])'
         /\ ~At(q, "fanout")' => sock'[q][r].pc = "done"
<1>1. At(q, "fanout")' <=> At(q, "fanout")
  BY DEF At
<1>2. Size(q)' = Size(q)
  BY DEF Size
<1>3. Sent(q, sock[q][r]) => Sent(q, sock[q][r])'
  BY <1>2 DEF Sent, Events
<1>4. Driven(q, sock[q][r]) => Driven(q, sock[q][r])'
  BY <1>2 DEF Driven, MaySend, Settled
<1>5. Heard(q, r, sock[q][r]) => Heard(q, r, sock[q][r])'
  BY <1>2 DEF Heard, Events, history
<1>6. QED
  BY <1>1, <1>3, <1>4, <1>5

\* A batch is taken up after the ones that went out.
LEMMA HistoryKept ==
  ASSUME HistoryInv, UNCHANGED <<plan, history>>,
         \A q \in Requests : /\ req[q].batch \in Nat /\ req'[q].batch \in Nat
                             /\ req'[q].batch >= req[q].batch,
         \A q \in Requests : req'[q].pc \in {"idle", "build"} =>
            req[q].pc \in {"idle", "build"} \/ req'[q].batch > req[q].batch
  PROVE  HistoryInv'
<1>1. took' = took /\ plan' = plan
  BY DEF history
<1>2. SUFFICES ASSUME NEW d \in took
               PROVE  /\ d \in Requests \X Nat \X Nat \X Relays
                      /\ d[2] \in 1..req'[d[1]].batch
                      /\ d[3] \in 1..plan[d[1]].batches[d[2]]
                      /\ req'[d[1]].pc \in {"idle", "build"} => d[2] < req'[d[1]].batch
  BY <1>1 DEF HistoryInv
<1>3. /\ d \in Requests \X Nat \X Nat \X Relays /\ d[1] \in Requests /\ d[2] \in Nat
      /\ d[2] \in 1..req[d[1]].batch
      /\ d[3] \in 1..plan[d[1]].batches[d[2]]
      /\ req[d[1]].pc \in {"idle", "build"} => d[2] < req[d[1]].batch
  BY DEF HistoryInv
<1>4. QED
  BY <1>3

\* What holds of a request holds as long as nothing of its own changes.
LEMMA RequestKept ==
  ASSUME NEW q \in Requests, RequestInv(q), UNCHANGED <<plan, history>>,
         req'[q] = req[q], fate'[q] = fate[q], sock'[q] = sock[q],
         poolCooldowns \subseteq poolCooldowns'
  PROVE  RequestInv(q)'
<1>1. FateInv(q)'
  BY DEF RequestInv, FateInv, At, history
<1>2. ThrottleInv(q)'
  BY DEF RequestInv, ThrottleInv, At, Events, Size, Now
<1>3. GateInv(q)'
  BY DEF RequestInv, GateInv, TookFirst, history
<1>4. QED
  BY <1>1, <1>2, <1>3 DEF RequestInv

-----------------------------------------------------------------------------
(* Steps of one socket.                                                    *)

\* A socket of a batch that is out moves, and may add deliveries of its own
\* event and relay to the history.
LEMMA SocketStep ==
  ASSUME IInv, NEW q0 \in Requests, NEW r0 \in Relays, At(q0, "fanout"),
         NEW s \in Sock, Sent(q0, s), Driven(q0, s), Set(q0, r0, s),
         UNCHANGED <<plan, req, fate, recent, poolCooldowns>>,
         relayCooldowns' \subseteq Relays,
         took \subseteq took', refused \subseteq refused',
         \A d \in took' : d \in took \/ \E i \in Events(q0) : d = <<q0, req[q0].batch, i, r0>>,
         \A i \in Events(q0) :
            /\ s.answered[i].status = "accepted" <=> <<q0, req[q0].batch, i, r0>> \in took'
            /\ s.answered[i].status = "failed-permanent"
                 => <<q0, req[q0].batch, i, r0>> \in refused'
  PROVE  IInv'
<1>1. /\ sock' \in [Requests -> [Relays -> Sock]] /\ sock'[q0][r0] = s
      /\ \A q \in Requests, r \in Relays : <<q, r>> # <<q0, r0>> => sock'[q][r] = sock[q][r]
  BY DEF IInv, Types, Set
<1>2. Types'
  BY <1>1 DEF IInv, Types, RequestsType, FateType
<1>3. SocketsInv'
  <2> SUFFICES ASSUME NEW q \in Requests, NEW r \in Relays
               PROVE  /\ At(q, "fanout") => /\ Sent(q, sock[q][r])'
                                            /\ Driven(q, sock[q][r])'
                                            /\ Heard(q, r, sock[q][r])'
                      /\ ~At(q, "fanout") => sock'[q][r].pc = "done"
    BY DEF SocketsInv, At
  <2>1. CASE q = q0 /\ r = r0
    <3>1. sock'[q][r] = s
      BY <1>1, <2>1
    <3>2. Sent(q, sock[q][r])'
      BY <2>1, <3>1 DEF Sent, Events, Size
    <3>3. Driven(q, sock[q][r])'
      BY <2>1, <3>1 DEF Driven, MaySend, Settled, Size
    <3>4. Heard(q, r, sock[q][r])'
      BY <2>1, <3>1 DEF Heard, Events, Size
    <3>5. QED
      BY <2>1, <3>2, <3>3, <3>4
  <2>2. CASE <<q, r>> # <<q0, r0>>
    <3>1. sock'[q][r] = sock[q][r]
      BY <1>1, <2>2
    <3>2. CASE At(q, "fanout")
      <4>1. Sent(q, sock[q][r]) /\ Driven(q, sock[q][r]) /\ Heard(q, r, sock[q][r])
        BY <3>2 DEF IInv, SocketsInv
      <4>2. Sent(q, sock[q][r])'
        BY <3>1, <4>1 DEF Sent, Events, Size
      <4>3. Driven(q, sock[q][r])'
        BY <3>1, <4>1 DEF Driven, MaySend, Settled, Size
      <4>4. \A i : <<q, req[q].batch, i, r>> \in took' <=> <<q, req[q].batch, i, r>> \in took
        BY <2>2
      <4>5. Heard(q, r, sock[q][r])'
        BY <3>1, <4>1, <4>4 DEF Heard, Events, Size
      <4>6. QED
        BY <3>2, <4>2, <4>3, <4>5
    <3>3. CASE ~At(q, "fanout")
      BY <3>1, <3>3 DEF IInv, SocketsInv
    <3>4. QED
      BY <3>2, <3>3
  <2>3. QED
    BY <2>1, <2>2
<1>4. HistoryInv'
  <2> SUFFICES ASSUME NEW d \in took'
               PROVE  /\ d \in Requests \X Nat \X Nat \X Relays
                      /\ d[2] \in 1..req[d[1]].batch
                      /\ d[3] \in 1..plan[d[1]].batches[d[2]]
                      /\ req[d[1]].pc \in {"idle", "build"} => d[2] < req[d[1]].batch
    BY DEF HistoryInv
  <2>1. CASE d \in took
    BY <2>1 DEF IInv, HistoryInv
  <2>2. ASSUME NEW i \in Events(q0), d = <<q0, req[q0].batch, i, r0>>
        PROVE  /\ d \in Requests \X Nat \X Nat \X Relays
               /\ d[2] \in 1..req[d[1]].batch
               /\ d[3] \in 1..plan[d[1]].batches[d[2]]
               /\ req[d[1]].pc \in {"idle", "build"} => d[2] < req[d[1]].batch
    <3>1. RequestsType
      BY DEF IInv, Types
    <3>2. /\ req[q0].batch \in Nat /\ req[q0].batch >= 1 /\ Size(q0) \in Nat
          /\ Size(q0) = plan[q0].batches[req[q0].batch] /\ i \in Nat
      <4>1. /\ req[q0].batch \in DOMAIN plan[q0].batches
            /\ DOMAIN plan[q0].batches = 1..Len(plan[q0].batches)
            /\ Size(q0) \in Nat \ {0} /\ Size(q0) = plan[q0].batches[req[q0].batch]
        BY <3>1, SizeType
      <4>2. i \in 1..Size(q0)
        BY DEF Events
      <4>3. QED
        BY <4>1, <4>2
    <3>3. QED
      BY <2>2, <3>2 DEF Events, At
  <2>3. QED
    BY <2>1, <2>2
<1>5. ASSUME NEW q \in Requests
      PROVE  RequestInv(q)'
  <2>1. RequestInv(q)
    BY DEF IInv
  <2>2. q = q0 => ~At(q, "handoff") /\ req[q].answer = "none"
    BY <2>1 DEF At, RequestInv, GateInv, IInv, Types, RequestsType
  <2>3. \A n, i, r : q # q0 => (<<q, n, i, r>> \in took' <=> <<q, n, i, r>> \in took)
    OBVIOUS
  <2>4. FateInv(q)'
    BY <2>1, <2>2, <2>3 DEF RequestInv, FateInv, At
  <2>5. ThrottleInv(q)'
    <3>1. CASE q = q0
      BY <2>2, <3>1 DEF ThrottleInv, At
    <3>2. CASE q # q0
      <4>1. \A r \in Relays : sock'[q][r] = sock[q][r]
        BY <1>1, <3>2
      <4>2. Events(q)' = Events(q) /\ \A r, i : Now(q, r, i)' = Now(q, r, i)
        BY DEF Events, Size, Now
      <4>3. QED
        BY <2>1, <4>1, <4>2 DEF RequestInv, ThrottleInv, At
    <3>3. QED
      BY <3>1, <3>2
  <2>6. TookFirst(q) => TookFirst(q)'
    BY DEF TookFirst
  <2>7. req[q].answer = "502" => \A d \in took' : d[1] = q => d \in took
    BY <2>2
  <2>8. GateInv(q)'
    BY <2>1, <2>6, <2>7 DEF RequestInv, GateInv
  <2>9. QED
    BY <2>4, <2>5, <2>8 DEF RequestInv
<1>6. QED
  BY <1>2, <1>3, <1>4, <1>5 DEF IInv

\* The same when the answers stay as they are.
LEMMA SocketMoves ==
  ASSUME IInv, NEW q0 \in Requests, NEW r0 \in Relays, At(q0, "fanout"),
         NEW s \in Sock, Sent(q0, s), Driven(q0, s), Set(q0, r0, s),
         s.answered = sock[q0][r0].answered,
         UNCHANGED <<plan, req, fate, recent, poolCooldowns, history>>,
         relayCooldowns' \subseteq Relays
  PROVE  IInv'
<1>1. Heard(q0, r0, sock[q0][r0])
  BY DEF IInv, SocketsInv
<1>2. \A i \in Events(q0) :
        /\ s.answered[i].status = "accepted" <=> <<q0, req[q0].batch, i, r0>> \in took'
        /\ s.answered[i].status = "failed-permanent" => <<q0, req[q0].batch, i, r0>> \in refused'
  BY <1>1 DEF Heard, history
<1>3. QED
  BY <1>2, SocketStep DEF history

\* A socket that is not done belongs to a batch that is out.
LEMMA LiveSocket ==
  ASSUME IInv, NEW q \in Requests, NEW r \in Relays
  PROVE  /\ sock[q][r] \in Sock /\ RequestsType
         /\ sock[q][r].pc # "done" => At(q, "fanout")
         /\ At(q, "fanout") => Sent(q, sock[q][r])
  BY DEF IInv, Types, SocketsInv

LEMMA ConnectFailsStep ==
  ASSUME IInv, NEW q \in Requests, NEW r \in Relays, ConnectFails(q, r)
  PROVE  IInv'
<1> DEFINE s == sock[q][r]
           t == [s EXCEPT !.pc = "done", !.reason = "connect"]
<1>1. /\ s \in Sock /\ At(q, "fanout") /\ Sent(q, s) /\ Set(q, r, t)
  BY LiveSocket DEF ConnectFails
<1>2. t \in Sock /\ t.pc = "done" /\ t.answered = s.answered /\ Sent(q, t)
  BY <1>1 DEF Sock, Reasons, Sent
<1> HIDE DEF t
<1>3. QED
  BY <1>1, <1>2, SocketMoves DEF ConnectFails, Driven, IInv, Types, history

LEMMA SocketEndsStep ==
  ASSUME IInv, NEW q \in Requests, NEW r \in Relays, SocketEnds(q, r)
  PROVE  IInv'
<1> DEFINE s == sock[q][r]
           t == Finished(s, "silence")
<1>1. /\ s \in Sock /\ At(q, "fanout") /\ Sent(q, s) /\ Set(q, r, t)
  BY LiveSocket DEF SocketEnds
<1>2. t \in Sock /\ t.pc = "done" /\ t.answered = s.answered /\ Sent(q, t)
  BY <1>1 DEF Sock, Reasons, Sent, Finished
<1> HIDE DEF t
<1>3. QED
  BY <1>1, <1>2, SocketMoves DEF SocketEnds, Driven, IInv, Types, history

LEMMA ConnectsStep ==
  ASSUME IInv, NEW q \in Requests, NEW r \in Relays, Connects(q, r)
  PROVE  IInv'
<1>1. PICK s : s = [sock[q][r] EXCEPT !.pc = "open"]
  OBVIOUS
<1>2. PICK t : t = Pump(q, s, TRUE)
  OBVIOUS
<1>3. /\ sock[q][r] \in Sock /\ RequestsType /\ At(q, "fanout") /\ Sent(q, sock[q][r])
      /\ Set(q, r, t)
  BY <1>1, <1>2, LiveSocket DEF Connects
<1>4. s \in Sock /\ s.pc = "open" /\ s.answered = sock[q][r].answered /\ Sent(q, s)
  BY <1>1, <1>3 DEF Sock, Sent
<1>5. t \in Sock /\ Sent(q, t) /\ Driven(q, t) /\ t.answered = sock[q][r].answered
  BY <1>2, <1>3, <1>4, PumpType
<1>6. QED
  BY <1>3, <1>5, SocketMoves DEF Connects, IInv, Types, history

LEMMA TimerFiresStep ==
  ASSUME IInv, NEW q \in Requests, NEW r \in Relays, TimerFires(q, r)
  PROVE  IInv'
<1>1. PICK s : s = [sock[q][r] EXCEPT !.timer = FALSE]
  OBVIOUS
<1>2. PICK rested \in BOOLEAN : Set(q, r, Pump(q, s, rested))
  BY <1>1 DEF TimerFires
<1>3. PICK t : t = Pump(q, s, rested)
  OBVIOUS
<1>4. /\ sock[q][r] \in Sock /\ sock[q][r].pc = "open" /\ RequestsType
      /\ At(q, "fanout") /\ Sent(q, sock[q][r]) /\ Set(q, r, t)
  BY <1>2, <1>3, LiveSocket DEF TimerFires
<1>5. s \in Sock /\ s.pc = "open" /\ s.answered = sock[q][r].answered /\ Sent(q, s)
  BY <1>1, <1>4 DEF Sock, Sent
<1>6. t \in Sock /\ Sent(q, t) /\ Driven(q, t) /\ t.answered = sock[q][r].answered
  BY <1>3, <1>4, <1>5, PumpType
<1>7. QED
  BY <1>4, <1>6, SocketMoves DEF TimerFires, IInv, Types, history

\* An answer that is awaited is the first for its event.
LEMMA AnsweredStep ==
  ASSUME IInv, NEW q \in Requests, NEW r \in Relays, NEW i \in Events(q),
         NEW message \in Messages, NEW rested \in BOOLEAN, Answered(q, r, i, message, rested)
  PROVE  IInv'
<1>1. PICK old : old = sock[q][r]
  OBVIOUS
<1>2. PICK s : s = [old EXCEPT !.inFlight = @ \ {i}, !.answered[i] = Result(message),
                               !.throttled = @ \/ Throttles(message)]
  OBVIOUS
<1>3. PICK t : t = Pump(q, s, rested)
  OBVIOUS
<1>4. /\ old \in Sock /\ old.pc = "open" /\ RequestsType /\ At(q, "fanout")
      /\ Sent(q, old) /\ Heard(q, r, old) /\ i \in old.inFlight /\ Set(q, r, t)
  BY <1>1, <1>2, <1>3, LiveSocket DEF Answered, IInv, SocketsInv
<1>5. /\ Size(q) \in Nat /\ Result(message) \in Replies /\ Status(message) \in Statuses
      /\ Result(message).status = Status(message)
  BY <1>4, SizeType, ResultType DEF Replies
<1>6. /\ s \in Sock /\ s.pc = "open" /\ s.next = old.next /\ s.inFlight = old.inFlight \ {i}
      /\ s.answered = [old.answered EXCEPT ![i] = Result(message)]
  <2> DEFINE answered == [old.answered EXCEPT ![i] = Result(message)]
             throttled == old.throttled \/ Throttles(message)
  <2>1. s = [old EXCEPT !.inFlight = old.inFlight \ {i}, !.answered = answered,
                        !.throttled = throttled]
    BY <1>2, <1>4 DEF Sock
  <2>2. answered \in [Events(q) -> Replies]
    BY <1>4, <1>5 DEF Sent
  <2>3. answered \in AnswerMaps
    BY <1>5, <2>2 DEF AnswerMaps, Events
  <2>4. throttled \in BOOLEAN
    OBVIOUS
  <2>5. old.inFlight \ {i} \in SUBSET Nat
    BY <1>4 DEF Sock
  <2> HIDE DEF answered, throttled
  <2>6. s \in Sock
    BY <1>4, <2>1, <2>3, <2>4, <2>5 DEF Sock
  <2>7. /\ s.pc = "open" /\ s.next = old.next /\ s.inFlight = old.inFlight \ {i}
        /\ s.answered = answered
    BY <1>4, <2>1 DEF Sock
  <2>8. QED
    BY <2>6, <2>7 DEF answered
<1>7. /\ s.answered \in [Events(q) -> Replies] /\ s.answered[i] = Result(message)
      /\ \A j \in Events(q) : j # i => s.answered[j] = old.answered[j]
  BY <1>4, <1>5, <1>6 DEF Sent
<1>8. Cardinality(s.inFlight) <= MaxUnacked
  <2>1. 1 \in Int /\ old.next \in Int
    BY <1>4 DEF Sock
  <2>2. IsFiniteSet(old.inFlight)
    <3>1. IsFiniteSet(1..old.next)
      BY <2>1, FS_Interval
    <3>2. QED
      BY <1>4, <3>1, FS_Subset DEF Sent
  <2>3. Cardinality(old.inFlight \ {i}) = Cardinality(old.inFlight) - 1
    BY <1>4, <2>2, FS_RemoveElement
  <2>4. Cardinality(old.inFlight) \in Nat
    BY <2>2, FS_CardinalityType
  <2>5. QED
    BY <1>4, <1>6, <2>3, <2>4 DEF Sent
<1>9. Sent(q, s)
  BY <1>4, <1>6, <1>7, <1>8 DEF Sent
<1>10. t \in Sock /\ Sent(q, t) /\ Driven(q, t) /\ t.answered = s.answered
  BY <1>3, <1>4, <1>6, <1>9, PumpType
<1>11. old.answered[i] = NoResult /\ i \in Events(q)
  BY <1>4 DEF Sent, NoResult
<1> DEFINE d == <<q, req[q].batch, i, r>>
<1>12. /\ took' = IF Status(message) = "accepted" THEN took \cup {d} ELSE took
       /\ refused' = IF Status(message) = "failed-permanent" THEN refused \cup {d} ELSE refused
  BY DEF Answered, Said
<1>13. ASSUME NEW j \in Events(q)
       PROVE  /\ t.answered[j].status = "accepted" <=> <<q, req[q].batch, j, r>> \in took'
              /\ t.answered[j].status = "failed-permanent"
                   => <<q, req[q].batch, j, r>> \in refused'
  <2>1. CASE j = i
    BY <1>4, <1>5, <1>7, <1>10, <1>11, <1>12, <2>1 DEF Heard, NoResult
  <2>2. CASE j # i
    BY <1>4, <1>7, <1>10, <1>12, <2>2 DEF Heard
  <2>3. QED
    BY <2>1, <2>2
<1>14. /\ UNCHANGED <<plan, req, fate, recent, poolCooldowns>>
       /\ relayCooldowns' \subseteq Relays
  BY DEF Answered, CoolDown, IInv, Types
<1>15. /\ took \subseteq took' /\ refused \subseteq refused'
       /\ \A e \in took' : e \in took \/ \E j \in Events(q) : e = <<q, req[q].batch, j, r>>
  BY <1>12
<1>16. QED
  BY <1>4, <1>10, <1>13, <1>14, <1>15, SocketStep

\* A step that leaves requests, fates and answers alone, and no batch's socket
\* less driven than it was.
LEMMA QuietStep ==
  ASSUME IInv, Types', SocketsInv', UNCHANGED <<plan, req, fate, poolCooldowns, history>>,
         \A q \in Requests, r \in Relays :
            At(q, "handoff") => sock'[q][r].answered = sock[q][r].answered
  PROVE  IInv'
<1>1. HistoryInv'
  BY DEF IInv, HistoryInv, history
<1>2. ASSUME NEW q \in Requests
      PROVE  RequestInv(q)'
  <2>1. FateInv(q)'
    BY DEF IInv, RequestInv, FateInv, At, history
  <2>2. ThrottleInv(q)'
    BY DEF IInv, RequestInv, ThrottleInv, At, Events, Size, Now
  <2>3. GateInv(q)'
    BY DEF IInv, RequestInv, GateInv, TookFirst, history
  <2>4. QED
    BY <2>1, <2>2, <2>3 DEF RequestInv
<1>3. QED
  BY <1>1, <1>2 DEF IInv

LEMMA AnsweredLateStep ==
  ASSUME IInv, NEW q \in Requests, NEW r \in Relays, NEW i \in Events(q),
         NEW message \in Messages, AnsweredLate(q, r, i, message)
  PROVE  IInv'
<1>1. PICK old : old = sock[q][r]
  OBVIOUS
<1>2. PICK s : s = [old EXCEPT !.inFlight = @ \ {i}, !.throttled = @ \/ Throttles(message)]
  OBVIOUS
<1>3. old \in Sock /\ old.pc = "done" /\ i \in old.inFlight /\ Set(q, r, s)
  BY <1>1, <1>2, LiveSocket DEF AnsweredLate
<1>4. /\ s \in Sock /\ s.pc = "done" /\ s.answered = old.answered
      /\ s.next = old.next /\ s.inFlight = old.inFlight \ {i}
  <2> DEFINE throttled == old.throttled \/ Throttles(message)
  <2>1. throttled \in BOOLEAN
    OBVIOUS
  <2>2. s = [old EXCEPT !.inFlight = old.inFlight \ {i}, !.throttled = throttled]
    BY <1>2
  <2> HIDE DEF throttled
  <2>3. QED
    BY <1>3, <2>1, <2>2 DEF Sock
<1>5. /\ UNCHANGED <<plan, req, fate, recent, poolCooldowns, history>>
      /\ relayCooldowns' \subseteq Relays
  BY DEF AnsweredLate, CoolDown, IInv, Types, history
<1>6. CASE At(q, "fanout")
  <2>1. Sent(q, old)
    BY <1>1, <1>6, LiveSocket
  <2>2. Cardinality(old.inFlight \ {i}) <= MaxUnacked
    <3>1. 1 \in Int /\ old.next \in Int
      BY <1>3 DEF Sock
    <3>2. IsFiniteSet(old.inFlight)
      <4>1. IsFiniteSet(1..old.next)
        BY <3>1, FS_Interval
      <4>2. QED
        BY <2>1, <4>1, FS_Subset DEF Sent
    <3>3. Cardinality(old.inFlight \ {i}) = Cardinality(old.inFlight) - 1
      BY <1>3, <3>2, FS_RemoveElement
    <3>4. Cardinality(old.inFlight) \in Nat
      BY <3>2, FS_CardinalityType
    <3>5. QED
      BY <2>1, <3>3, <3>4 DEF Sent
  <2>3. Sent(q, s)
    BY <1>4, <2>1, <2>2 DEF Sent
  <2>4. Driven(q, s)
    BY <1>4 DEF Driven
  <2>5. QED
    BY <1>1, <1>3, <1>4, <1>5, <1>6, <2>3, <2>4, SocketMoves
<1>7. CASE ~At(q, "fanout")
  <2>1. /\ sock' \in [Requests -> [Relays -> Sock]] /\ sock'[q][r] = s
        /\ \A p \in Requests, o \in Relays : <<p, o>> # <<q, r>> => sock'[p][o] = sock[p][o]
    BY <1>3, <1>4 DEF IInv, Types, Set
  <2>2. Types'
    BY <1>5, <2>1 DEF IInv, Types, RequestsType, FateType
  <2>3. SocketsInv'
    <3> SUFFICES ASSUME NEW p \in Requests, NEW o \in Relays
                 PROVE  /\ At(p, "fanout")' => /\ Sent(p, sock[p][o])'
                                               /\ Driven(p, sock[p][o])'
                                               /\ Heard(p, o, sock[p][o])'
                        /\ ~At(p, "fanout")' => sock'[p][o].pc = "done"
      BY DEF SocketsInv
    <3>1. CASE p = q
      <4>1. sock'[p][o].pc = "done"
        BY <1>4, <1>7, <2>1, <3>1 DEF IInv, SocketsInv
      <4>2. QED
        BY <1>5, <1>7, <3>1, <4>1 DEF At
    <3>2. CASE p # q
      BY <1>5, <2>1, <3>2, SocketKept DEF IInv, SocketsInv
    <3>3. QED
      BY <3>1, <3>2
  <2>4. \A p \in Requests, o \in Relays : sock'[p][o].answered = sock[p][o].answered
    BY <1>1, <1>4, <2>1
  <2>5. QED
    BY <1>5, <2>2, <2>3, <2>4, QuietStep
<1>8. QED
  BY <1>6, <1>7

-----------------------------------------------------------------------------
(* Steps of a request.                                                     *)

\* A request's record changes, its batch does not.
LEMMA RequestFrame ==
  ASSUME IInv, NEW q0 \in Requests, NEW pc \in Pcs, NEW answer \in Answers,
         req' = [req EXCEPT ![q0].pc = pc, ![q0].answer = answer]
  PROVE  /\ req' \in [Requests -> [pc : Pcs, batch : Nat, answer : Answers]]
         /\ \A q \in Requests : req'[q].batch = req[q].batch
         /\ req'[q0].pc = pc /\ req'[q0].answer = answer
         /\ \A q \in Requests : q # q0 => req'[q] = req[q]
<1> DEFINE R == [pc : Pcs, batch : Nat, answer : Answers]
<1>1. req \in [Requests -> R]
  BY DEF IInv, Types, RequestsType
<1>2. PICK new : new = [req[q0] EXCEPT !.pc = pc, !.answer = answer]
  OBVIOUS
<1>3. new \in R /\ new.pc = pc /\ new.answer = answer /\ new.batch = req[q0].batch
  BY <1>1, <1>2
<1>4. req' = [req EXCEPT ![q0] = new]
  BY <1>1, <1>2
<1>5. req' \in [Requests -> R]
  BY <1>1, <1>3, <1>4
<1>6. req'[q0] = new /\ \A q \in Requests : q # q0 => req'[q] = req[q]
  BY <1>1, <1>4
<1>7. QED
  BY <1>3, <1>5, <1>6

\* The answer to a request that is not answered is still "none".
LEMMA NotAnswered ==
  ASSUME IInv, NEW q \in Requests, req[q].pc # "answered"
  PROVE  req[q].answer = "none"
  BY DEF IInv, RequestInv, GateInv

\* A request goes on, or is turned away, before anything is sent.
LEMMA EarlyStep ==
  ASSUME IInv, NEW q0 \in Requests, req[q0].pc \in {"idle", "build"},
         NEW pc \in {"build", "answered"}, NEW answer \in {"none", "429", "error"},
         answer # "none" => pc = "answered",
         req' = [req EXCEPT ![q0].pc = pc, ![q0].answer = answer],
         UNCHANGED <<plan, sock, fate, relayCooldowns, history, poolCooldowns>>,
         recent' \in 0..RateLimit
  PROVE  IInv'
<1>1. /\ req' \in [Requests -> [pc : Pcs, batch : Nat, answer : Answers]]
      /\ \A q \in Requests : req'[q].batch = req[q].batch
      /\ req'[q0].pc = pc /\ req'[q0].answer = answer
      /\ \A q \in Requests : q # q0 => req'[q] = req[q]
  <2>1. pc \in Pcs /\ answer \in Answers
    BY DEF Pcs, Answers
  <2>2. QED
    BY <2>1, RequestFrame
<1>2. Types'
  BY <1>1 DEF IInv, Types, RequestsType, FateType
<1>3. SocketsInv'
  <2> SUFFICES ASSUME NEW q \in Requests, NEW r \in Relays
               PROVE  /\ At(q, "fanout")' => /\ Sent(q, sock[q][r])'
                                             /\ Driven(q, sock[q][r])'
                                             /\ Heard(q, r, sock[q][r])'
                      /\ ~At(q, "fanout")' => sock'[q][r].pc = "done"
    BY DEF SocketsInv
  <2>1. CASE q = q0
    BY <1>1, <2>1 DEF IInv, SocketsInv, At
  <2>2. CASE q # q0
    BY <1>1, <2>2, SocketKept DEF IInv, SocketsInv
  <2>3. QED
    BY <2>1, <2>2
<1>4. HistoryInv'
  <2> SUFFICES ASSUME NEW d \in took
               PROVE  /\ d \in Requests \X Nat \X Nat \X Relays
                      /\ d[2] \in 1..req'[d[1]].batch
                      /\ d[3] \in 1..plan[d[1]].batches[d[2]]
                      /\ req'[d[1]].pc \in {"idle", "build"} => d[2] < req'[d[1]].batch
    <3>1. took' = took /\ plan' = plan
      BY DEF history
    <3>2. QED
      BY <3>1 DEF HistoryInv
  <2>1. /\ d \in Requests \X Nat \X Nat \X Relays /\ d[1] \in Requests
        /\ d[2] \in 1..req[d[1]].batch
        /\ d[3] \in 1..plan[d[1]].batches[d[2]]
        /\ req[d[1]].pc \in {"idle", "build"} => d[2] < req[d[1]].batch
    BY DEF IInv, HistoryInv
  <2>2. CASE d[1] = q0
    BY <1>1, <2>1, <2>2
  <2>3. CASE d[1] # q0
    BY <1>1, <2>1, <2>3
  <2>4. QED
    BY <2>2, <2>3
<1>5. ASSUME NEW q \in Requests
      PROVE  RequestInv(q)'
  <2>1. RequestInv(q)
    BY DEF IInv
  <2>2. CASE q = q0
    <3>1. FateInv(q)'
      BY <1>1, <2>1, <2>2 DEF RequestInv, FateInv, At, history
    <3>2. ThrottleInv(q)'
      BY <1>1, <2>2 DEF ThrottleInv, At
    <3>3. GateInv(q)'
      BY <1>1, <2>1, <2>2 DEF RequestInv, GateInv, TookFirst, history
    <3>4. QED
      BY <3>1, <3>2, <3>3 DEF RequestInv
  <2>3. CASE q # q0
    BY <1>1, <2>1, <2>3, RequestKept
  <2>4. QED
    BY <2>2, <2>3
<1>6. QED
  BY <1>2, <1>3, <1>4, <1>5 DEF IInv

LEMMA RateLimitStep ==
  ASSUME IInv, NEW q \in Requests, rateLimitCheck(q)
  PROVE  IInv'
<1>1. req[q].answer = "none" /\ req[q].pc = "idle" /\ recent \in 0..RateLimit
      /\ req \in [Requests -> [pc : Pcs, batch : Nat, answer : Answers]]
  BY NotAnswered DEF rateLimitCheck, At, IInv, Types, RequestsType
<1>2. CASE recent >= RateLimit
  BY <1>1, <1>2, EarlyStep DEF rateLimitCheck, Answer
<1>3. CASE ~(recent >= RateLimit)
  <2>1. req' = [req EXCEPT ![q].pc = "build"] /\ recent' \in 0..RateLimit
    BY <1>1, <1>3 DEF rateLimitCheck, Goto
  <2>2. req' = [req EXCEPT ![q].pc = "build", ![q].answer = "none"]
    BY <1>1, <2>1
  <2>3. QED
    BY <1>1, <2>1, <2>2, EarlyStep DEF rateLimitCheck
<1>4. QED
  BY <1>2, <1>3

LEMMA BuildFailsStep ==
  ASSUME IInv, NEW q \in Requests, BuildFails(q)
  PROVE  IInv'
<1>1. recent' \in 0..RateLimit /\ req[q].pc = "build"
  BY DEF BuildFails, At, IInv, Types
<1>2. QED
  BY <1>1, EarlyStep DEF BuildFails, Answer

LEMMA IsolateStep ==
  ASSUME IInv, UNCHANGED <<plan, req, sock, fate, history, poolCooldowns>>,
         relayCooldowns' \subseteq Relays, recent' \in 0..RateLimit
  PROVE  IInv'
<1>1. Types'
  BY DEF IInv, Types, RequestsType, FateType
<1>2. SocketsInv'
  BY SocketKept DEF IInv, SocketsInv
<1>3. QED
  BY <1>1, <1>2, QuietStep

LEMMA WindowSlidesStep ==
  ASSUME IInv, WindowSlides
  PROVE  IInv'
<1>1. recent' \in 0..RateLimit /\ relayCooldowns' \subseteq Relays
  BY DEF WindowSlides, IInv, Types
<1>2. QED
  BY <1>1, IsolateStep DEF WindowSlides

LEMMA CooldownEndsStep ==
  ASSUME IInv, NEW r \in Relays, CooldownEnds(r)
  PROVE  IInv'
<1>1. recent' \in 0..RateLimit /\ relayCooldowns' \subseteq Relays
  BY DEF CooldownEnds, IInv, Types
<1>2. QED
  BY <1>1, IsolateStep DEF CooldownEnds

LEMMA FanOutStep ==
  ASSUME IInv, NEW q0 \in Requests, FanOut(q0)
  PROVE  IInv'
<1>1. /\ plan' = plan /\ fate' = fate /\ relayCooldowns' = relayCooldowns /\ recent' = recent
      /\ UNCHANGED history /\ poolCooldowns' = poolCooldowns
      /\ req[q0].pc = "build" /\ req' = [req EXCEPT ![q0].pc = "fanout"]
      /\ RequestsType /\ FateType
  BY DEF FanOut, At, Goto, IInv, Types
<1>2. /\ req' \in [Requests -> [pc : Pcs, batch : Nat, answer : Answers]]
      /\ \A q \in Requests : req'[q].batch = req[q].batch
      /\ req'[q0].pc = "fanout" /\ req'[q0].answer = "none"
      /\ \A q \in Requests : q # q0 => req'[q] = req[q]
  <2>1. req' = [req EXCEPT ![q0].pc = "fanout", ![q0].answer = "none"]
    BY <1>1, NotAnswered DEF RequestsType
  <2>2. "fanout" \in Pcs /\ "none" \in Answers
    BY DEF Pcs, Answers
  <2>3. QED
    BY <2>1, <2>2, RequestFrame
<1>3. Size(q0) \in Nat /\ Size(q0)' = Size(q0)
  BY <1>1, <1>2, SizeType DEF Size
<1> DEFINE Start(r) == IF r \in relayCooldowns
                       THEN [Fresh(q0) EXCEPT !.reason = "cool-down"]
                       ELSE [Fresh(q0) EXCEPT !.pc = "connect"]
<1>4. ASSUME NEW r \in Relays
      PROVE  /\ Start(r) \in Sock /\ Start(r).pc # "open" /\ Start(r).next = 0
             /\ Start(r).inFlight = {} /\ Start(r).answered = [i \in Events(q0) |-> NoResult]
  <2>1. [i \in Events(q0) |-> NoResult] \in AnswerMaps
    BY <1>3 DEF Events, AnswerMaps, Replies
  <2> DEFINE none == [i \in Events(q0) |-> NoResult]
  <2>2. Fresh(q0) = [NoSock EXCEPT !.answered = none]
    BY DEF Fresh
  <2>3. none \in AnswerMaps
    BY <2>1
  <2> HIDE DEF none
  <2>4. NoSock \in [pc : {"done"}, next : {0}, inFlight : {{}}, answered : {<<>>},
                    throttled : BOOLEAN, timer : BOOLEAN, reason : Reasons]
    BY DEF NoSock, Reasons
  <2>5. Fresh(q0) \in [pc : {"done"}, next : {0}, inFlight : {{}}, answered : {none},
                       throttled : BOOLEAN, timer : BOOLEAN, reason : Reasons]
    BY <2>2, <2>4
  <2>6. Fresh(q0) \in Sock /\ Fresh(q0).next = 0 /\ Fresh(q0).inFlight = {}
        /\ Fresh(q0).answered = none /\ Fresh(q0).pc = "done"
    BY <2>3, <2>5 DEF Sock
  <2>7. /\ Start(r) \in Sock /\ Start(r).pc # "open" /\ Start(r).next = 0
        /\ Start(r).inFlight = {} /\ Start(r).answered = none
    BY <2>6 DEF Sock, Reasons
  <2>8. QED
    BY <2>7 DEF none
<1>5. sock' = [sock EXCEPT ![q0] = [r \in Relays |-> Start(r)]]
  BY DEF FanOut
<1> HIDE DEF Start
<1>6. /\ sock' \in [Requests -> [Relays -> Sock]]
      /\ \A r \in Relays : sock'[q0][r] = Start(r)
      /\ \A q \in Requests : q # q0 => sock'[q] = sock[q]
  <2>1. [r \in Relays |-> Start(r)] \in [Relays -> Sock]
    BY <1>4
  <2>2. sock \in [Requests -> [Relays -> Sock]]
    BY DEF IInv, Types
  <2>3. QED
    BY <1>5, <2>1, <2>2
<1>7. Types'
  BY <1>1, <1>2, <1>6 DEF IInv, Types, RequestsType, FateType
<1>8. ASSUME NEW r \in Relays
      PROVE  Sent(q0, sock[q0][r])' /\ Driven(q0, sock[q0][r])' /\ Heard(q0, r, sock[q0][r])'
  <2>1. PICK s : s = sock'[q0][r]
    OBVIOUS
  <2>2. /\ s.pc # "open" /\ s.next = 0 /\ s.inFlight = {}
        /\ s.answered = [i \in Events(q0) |-> NoResult]
    BY <1>4, <1>6, <2>1
  <2>3. Sent(q0, s)'
    <3>1. Cardinality({}) = 0
      BY FS_EmptySet
    <3>2. QED
      BY <1>3, <2>2, <3>1 DEF Sent, Events, Replies
  <2>4. Driven(q0, s)'
    BY <2>2 DEF Driven
  <2>5. \A i : <<q0, req[q0].batch, i, r>> \notin took
    <3>1. ASSUME NEW i, <<q0, req[q0].batch, i, r>> \in took
          PROVE  FALSE
      <4>1. PICK d : d = <<q0, req[q0].batch, i, r>>
        OBVIOUS
      <4>2. d \in took /\ d[1] = q0 /\ d[2] = req[q0].batch
        BY <3>1, <4>1
      <4>3. d[2] < req[d[1]].batch
        BY <1>1, <4>2 DEF IInv, HistoryInv
      <4>4. QED
        BY <1>1, <4>2, <4>3 DEF RequestsType
    <3>2. QED
      BY <3>1
  <2>6. Heard(q0, r, s)'
    BY <1>1, <1>2, <1>3, <2>2, <2>5 DEF Heard, Events, NoResult, history
  <2>7. Sent(q0, sock[q0][r])' /\ Driven(q0, sock[q0][r])'
    BY <2>1, <2>3, <2>4 DEF Sent, Driven
  <2>8. Heard(q0, r, sock[q0][r])'
    BY <2>1, <2>6 DEF Heard
  <2>9. QED
    BY <2>7, <2>8
<1>9. SocketsInv'
  <2> SUFFICES ASSUME NEW q \in Requests, NEW r \in Relays
               PROVE  /\ At(q, "fanout")' => /\ Sent(q, sock[q][r])'
                                             /\ Driven(q, sock[q][r])'
                                             /\ Heard(q, r, sock[q][r])'
                      /\ ~At(q, "fanout")' => sock'[q][r].pc = "done"
    BY DEF SocketsInv
  <2>1. CASE q = q0
    BY <1>2, <1>8, <2>1 DEF At
  <2>2. CASE q # q0
    BY <1>1, <1>2, <1>6, <2>2, SocketKept DEF IInv, SocketsInv
  <2>3. QED
    BY <2>1, <2>2
<1>10. HistoryInv'
  BY <1>1, <1>2, HistoryKept DEF IInv, RequestsType
<1>11. ASSUME NEW q \in Requests
       PROVE  RequestInv(q)'
  <2>1. RequestInv(q)
    BY DEF IInv
  <2>2. CASE q = q0
    <3>1. FateInv(q)'
      BY <1>1, <1>2, <2>1, <2>2 DEF RequestInv, FateInv, At, history
    <3>2. ThrottleInv(q)'
      BY <1>2, <2>2 DEF ThrottleInv, At
    <3>3. GateInv(q)'
      BY <1>1, <1>2, <2>1, <2>2 DEF RequestInv, GateInv, TookFirst, history
    <3>4. QED
      BY <3>1, <3>2, <3>3 DEF RequestInv
  <2>3. CASE q # q0
    BY <1>1, <1>2, <1>6, <2>1, <2>3, RequestKept
  <2>4. QED
    BY <2>2, <2>3
<1>12. QED
  BY <1>7, <1>9, <1>10, <1>11 DEF IInv

-----------------------------------------------------------------------------
(* From the results to the answer.                                         *)

LEMMA GatherStep ==
  ASSUME IInv, NEW q0 \in Requests, Gather(q0)
  PROVE  IInv'
<1>1. /\ plan' = plan /\ sock' = sock /\ relayCooldowns' = relayCooldowns /\ recent' = recent
      /\ UNCHANGED history /\ poolCooldowns' = poolCooldowns
      /\ req[q0].pc = "fanout" /\ req' = [req EXCEPT ![q0].pc = "handoff"]
      /\ \A r \in Relays : sock[q0][r].pc = "done"
      /\ RequestsType /\ FateType /\ sock \in [Requests -> [Relays -> Sock]]
  BY DEF Gather, At, Goto, IInv, Types
<1>2. /\ req' \in [Requests -> [pc : Pcs, batch : Nat, answer : Answers]]
      /\ \A q \in Requests : req'[q].batch = req[q].batch
      /\ req'[q0].pc = "handoff" /\ req'[q0].answer = "none"
      /\ \A q \in Requests : q # q0 => req'[q] = req[q]
  <2>1. req' = [req EXCEPT ![q0].pc = "handoff", ![q0].answer = "none"]
    BY <1>1, NotAnswered DEF RequestsType
  <2>2. "handoff" \in Pcs /\ "none" \in Answers
    BY DEF Pcs, Answers
  <2>3. QED
    BY <2>1, <2>2, RequestFrame
<1> DEFINE b == req[q0].batch
           F(r, i) == Fate(Outcome(sock[q0][r], i).status)
<1>3. /\ b \in DOMAIN plan[q0].batches /\ Size(q0) = plan[q0].batches[b] /\ b \in Nat
      /\ Size(q0)' = Size(q0)
  BY <1>1, <1>2, SizeType DEF Size, RequestsType
<1>4. ASSUME NEW r \in Relays, NEW i \in Events(q0)
      PROVE  /\ F(r, i) \in {"accepted", "refused", "retry"}
             /\ F(r, i) = "accepted" <=> <<q0, b, i, r>> \in took
             /\ F(r, i) = "refused" => <<q0, b, i, r>> \in refused
             /\ sock[q0][r].answered[i].status = "rate-limited-retrying" => F(r, i) = "retry"
  <2>1. Sent(q0, sock[q0][r]) /\ Heard(q0, r, sock[q0][r]) /\ sock[q0][r] \in Sock
    BY <1>1 DEF IInv, SocketsInv, At
  <2>2. sock[q0][r].answered[i] \in Replies
    BY <2>1 DEF Sent
  <2>3. /\ F(r, i) \in {"accepted", "refused", "retry"}
        /\ F(r, i) = "accepted" <=> sock[q0][r].answered[i].status = "accepted"
        /\ F(r, i) = "refused" <=> sock[q0][r].answered[i].status = "failed-permanent"
    BY <2>1, <2>2, OutcomeType
  <2>4. QED
    BY <2>1, <2>3 DEF Heard
<1>5. /\ DOMAIN fate' = Requests
      /\ \A q \in Requests : q # q0 => fate'[q] = fate[q]
      /\ fate'[q0] = [r \in Relays |->
                       [fate[q0][r] EXCEPT ![b] = [i \in Events(q0) |-> F(r, i)]]]
  BY <1>1 DEF Gather, FateType
<1> HIDE DEF F
<1>6. ASSUME NEW r \in Relays
      PROVE  /\ fate'[q0][r] = [fate[q0][r] EXCEPT ![b] = [i \in Events(q0) |-> F(r, i)]]
             /\ DOMAIN fate'[q0][r] = DOMAIN plan[q0].batches
             /\ fate'[q0][r][b] = [i \in Events(q0) |-> F(r, i)]
             /\ \A n \in DOMAIN plan[q0].batches : n # b => fate'[q0][r][n] = fate[q0][r][n]
  BY <1>1, <1>3, <1>5 DEF FateType
<1> HIDE DEF b
<1>6a. ASSUME NEW r \in Relays
       PROVE  /\ DOMAIN fate'[q0][r] = DOMAIN plan[q0].batches
              /\ fate'[q0][r][b] \in [1..plan[q0].batches[b] -> Fates]
              /\ \A i \in Events(q0) : fate'[q0][r][b][i] = F(r, i)
              /\ \A n \in DOMAIN plan[q0].batches : n # b => fate'[q0][r][n] = fate[q0][r][n]
  <2>1. [i \in Events(q0) |-> F(r, i)] \in [1..plan[q0].batches[b] -> Fates]
    BY <1>3, <1>4 DEF Events, Fates
  <2>2. /\ DOMAIN fate'[q0][r] = DOMAIN plan[q0].batches
        /\ \A n \in DOMAIN plan[q0].batches : n # b => fate'[q0][r][n] = fate[q0][r][n]
    BY <1>6, Zenon
  <2>3. fate'[q0][r][b] = [i \in Events(q0) |-> F(r, i)]
    BY <1>6, Zenon
  <2>4. \A i \in Events(q0) : fate'[q0][r][b][i] = F(r, i)
    BY <2>3, Zenon
  <2>5. QED
    BY <2>1, <2>2, <2>3, <2>4, Zenon
<1>7. FateType'
  <2>1. ASSUME NEW q \in Requests, NEW r \in Relays
        PROVE  /\ DOMAIN fate'[q][r] = DOMAIN plan[q].batches
               /\ \A n \in DOMAIN plan[q].batches :
                    fate'[q][r][n] \in [1..plan[q].batches[n] -> Fates]
    <3>1. CASE q = q0
      <4>1. \A n \in DOMAIN plan[q0].batches :
              fate[q0][r][n] \in [1..plan[q0].batches[n] -> Fates]
        BY <1>1 DEF FateType
      <4>2. QED
        BY <1>6a, <3>1, <4>1
    <3>2. CASE q # q0
      BY <1>1, <1>5, <3>2 DEF FateType
    <3>3. QED
      BY <3>1, <3>2
  <2>2. \A q \in Requests : DOMAIN fate'[q] = Relays
    <3>1. DOMAIN fate'[q0] = Relays
      BY <1>5
    <3>2. \A q \in Requests : q # q0 => DOMAIN fate'[q] = Relays
      BY <1>1, <1>5 DEF FateType
    <3>3. QED
      BY <3>1, <3>2
  <2>3. QED
    BY <1>1, <1>5, <2>1, <2>2 DEF FateType
<1>8. Types'
  BY <1>1, <1>2, <1>7 DEF IInv, Types, RequestsType
<1>9. SocketsInv'
  <2> SUFFICES ASSUME NEW q \in Requests, NEW r \in Relays
               PROVE  /\ At(q, "fanout")' => /\ Sent(q, sock[q][r])'
                                             /\ Driven(q, sock[q][r])'
                                             /\ Heard(q, r, sock[q][r])'
                      /\ ~At(q, "fanout")' => sock'[q][r].pc = "done"
    BY DEF SocketsInv
  <2>1. CASE q = q0
    BY <1>1, <1>2, <2>1 DEF At
  <2>2. CASE q # q0
    BY <1>1, <1>2, <2>2, SocketKept DEF IInv, SocketsInv
  <2>3. QED
    BY <2>1, <2>2
<1>10. HistoryInv'
  BY <1>1, <1>2, HistoryKept DEF IInv, RequestsType
<1>11. RequestInv(q0)'
  <2>1. RequestInv(q0) /\ took' = took /\ refused' = refused
    BY <1>1 DEF IInv, history
  <2>2. FateInv(q0)'
    <3> SUFFICES ASSUME NEW r \in Relays, NEW n \in DOMAIN plan[q0].batches,
                        NEW i \in 1..plan[q0].batches[n]
                 PROVE  LET f == fate'[q0][r][n][i]
                        IN  /\ f = "accepted" => <<q0, n, i, r>> \in took
                            /\ f = "refused" => <<q0, n, i, r>> \in refused
                            /\ n < b => f \in Done
                            /\ n = b => /\ f \in Done \cup {"retry"}
                                        /\ <<q0, n, i, r>> \in took => f = "accepted"
      BY <1>1, <1>2, <2>1 DEF FateInv, At, b
    <3>1. CASE n = b
      <4>1. i \in Events(q0) /\ fate'[q0][r][n][i] = F(r, i)
        BY <1>3, <1>6a, <3>1 DEF Events
      <4>2. QED
        BY <1>3, <1>4, <3>1, <4>1 DEF Done
    <3>2. CASE n # b
      <4>1. fate'[q0][r][n] = fate[q0][r][n]
        BY <1>6a, <3>2
      <4>2. QED
        BY <2>1, <3>2, <4>1 DEF RequestInv, FateInv, b
    <3>3. QED
      BY <3>1, <3>2
  <2>3. ThrottleInv(q0)'
    <3> SUFFICES ASSUME NEW r \in Relays, NEW i \in Events(q0)',
                        sock[q0][r].answered[i].status = "rate-limited-retrying"
                 PROVE  Now(q0, r, i)' \in {"retry", "dropped"}
      BY <1>1 DEF ThrottleInv
    <3>1. i \in Events(q0)
      BY <1>3 DEF Events
    <3>2. Now(q0, r, i)' = F(r, i)
      <4>1. Now(q0, r, i)' = fate'[q0][r][b][i]
        BY <1>2 DEF Now, b
      <4>2. QED
        BY <1>6a, <3>1, <4>1
    <3>3. QED
      BY <1>4, <3>1, <3>2
  <2>4. GateInv(q0)'
    BY <1>1, <1>2, <2>1 DEF RequestInv, GateInv, TookFirst
  <2>5. QED
    BY <2>2, <2>3, <2>4 DEF RequestInv
<1>12. ASSUME NEW q \in Requests, q # q0
       PROVE  RequestInv(q)'
  BY <1>1, <1>2, <1>5, <1>12, RequestKept DEF IInv
<1>13. QED
  BY <1>8, <1>9, <1>10, <1>11, <1>12 DEF IInv

\* The retries of one event are handed off, or lost.
LEMMA HandOffStep ==
  ASSUME IInv, NEW q0 \in Requests, NEW i0 \in Events(q0), HandOff(q0, i0)
  PROVE  IInv'
<1>1. /\ plan' = plan /\ req' = req /\ sock' = sock /\ relayCooldowns' = relayCooldowns
      /\ recent' = recent /\ UNCHANGED history /\ req[q0].pc = "handoff"
      /\ RequestsType /\ FateType
  BY DEF HandOff, At, IInv, Types
<1>2. PICK to : /\ to \in {"queued", "dropped"} /\ Handed(q0, i0, to)
                /\ to = "queued" =>
                     poolCooldowns' = poolCooldowns \cup
                       {r \in ToRetry(q0, i0) : Outcome(sock[q0][r], i0).throttle}
                /\ to = "dropped" => poolCooldowns' = poolCooldowns
  BY DEF HandOff
<1> DEFINE b == req[q0].batch
<1>3. /\ b \in DOMAIN plan[q0].batches /\ Size(q0) = plan[q0].batches[b]
      /\ Events(q0) = 1..plan[q0].batches[b]
  BY <1>1, SizeType DEF Events
<1>4. /\ DOMAIN fate' = Requests
      /\ \A q \in Requests : q # q0 => fate'[q] = fate[q]
      /\ fate'[q0] = [r \in Relays |-> IF r \in ToRetry(q0, i0)
                                       THEN [fate[q0][r] EXCEPT ![b][i0] = to]
                                       ELSE fate[q0][r]]
  BY <1>1, <1>2 DEF Handed, FateType
<1>5. ASSUME NEW r \in Relays, NEW n \in DOMAIN plan[q0].batches
      PROVE  /\ fate'[q0][r][n] \in [1..plan[q0].batches[n] -> Fates]
             /\ DOMAIN fate'[q0][r] = DOMAIN plan[q0].batches
             /\ \A i \in 1..plan[q0].batches[n] :
                  fate'[q0][r][n][i] = IF n = b /\ i = i0 /\ fate[q0][r][b][i0] = "retry"
                                       THEN to ELSE fate[q0][r][n][i]
  <2>1. /\ fate[q0][r][n] \in [1..plan[q0].batches[n] -> Fates]
        /\ DOMAIN fate[q0][r] = DOMAIN plan[q0].batches
        /\ to \in Fates
    BY <1>1, <1>2 DEF FateType, Fates
  <2>2. r \in ToRetry(q0, i0) <=> fate[q0][r][b][i0] = "retry"
    BY DEF ToRetry, Now
  <2>3. CASE r \in ToRetry(q0, i0)
    <3>1. fate'[q0][r] = [fate[q0][r] EXCEPT ![b] = [fate[q0][r][b] EXCEPT ![i0] = to]]
      BY <1>4, <2>3
    <3>2. CASE n = b
      <4>1. fate'[q0][r][n] = [fate[q0][r][n] EXCEPT ![i0] = to]
        BY <1>3, <2>1, <3>1, <3>2
      <4>2. PICK g : g = fate[q0][r][n]
        OBVIOUS
      <4>3. PICK h : h = fate'[q0][r][n]
        OBVIOUS
      <4>4. /\ h \in [1..plan[q0].batches[n] -> Fates]
            /\ \A i \in 1..plan[q0].batches[n] : h[i] = IF i = i0 THEN to ELSE g[i]
        BY <2>1, <4>1, <4>2, <4>3
      <4>5. DOMAIN fate'[q0][r] = DOMAIN plan[q0].batches
        BY <2>1, <3>1
      <4>6. fate[q0][r][b][i0] = "retry"
        BY <2>2, <2>3
      <4>7. QED
        BY <3>2, <4>2, <4>3, <4>4, <4>5, <4>6
    <3>3. CASE n # b
      BY <2>1, <3>1, <3>3
    <3>4. QED
      BY <3>2, <3>3
  <2>4. CASE r \notin ToRetry(q0, i0)
    BY <1>4, <2>1, <2>2, <2>4
  <2>5. QED
    BY <2>3, <2>4
<1> HIDE DEF b
<1>6. FateType'
  <2>1. ASSUME NEW q \in Requests, NEW r \in Relays
        PROVE  /\ DOMAIN fate'[q][r] = DOMAIN plan[q].batches
               /\ \A n \in DOMAIN plan[q].batches :
                    fate'[q][r][n] \in [1..plan[q].batches[n] -> Fates]
    <3>1. CASE q = q0
      BY <1>3, <1>5, <3>1
    <3>2. CASE q # q0
      BY <1>1, <1>4, <3>2 DEF FateType
    <3>3. QED
      BY <3>1, <3>2
  <2>2. \A q \in Requests : DOMAIN fate'[q] = Relays
    BY <1>1, <1>4 DEF FateType
  <2>3. QED
    BY <1>1, <1>4, <2>1, <2>2 DEF FateType
<1>7. poolCooldowns \subseteq poolCooldowns' /\ poolCooldowns' \subseteq Relays
  BY <1>2 DEF IInv, Types, ToRetry
<1>8. Types'
  BY <1>1, <1>6, <1>7 DEF IInv, Types, RequestsType
<1>9. SocketsInv'
  <2> SUFFICES ASSUME NEW q \in Requests, NEW r \in Relays
               PROVE  /\ At(q, "fanout")' => /\ Sent(q, sock[q][r])'
                                             /\ Driven(q, sock[q][r])'
                                             /\ Heard(q, r, sock[q][r])'
                      /\ ~At(q, "fanout")' => sock'[q][r].pc = "done"
    BY DEF SocketsInv
  <2>1. QED
    BY <1>1, SocketKept DEF IInv, SocketsInv
<1>10. HistoryInv'
  BY <1>1, HistoryKept DEF IInv, RequestsType
<1>11. RequestInv(q0)'
  <2>1. RequestInv(q0) /\ took' = took /\ refused' = refused
    BY <1>1 DEF IInv, history
  <2>2. FateInv(q0)'
    <3> SUFFICES ASSUME NEW r \in Relays, NEW n \in DOMAIN plan[q0].batches,
                        NEW i \in 1..plan[q0].batches[n]
                 PROVE  LET f == fate'[q0][r][n][i]
                        IN  /\ f = "accepted" => <<q0, n, i, r>> \in took
                            /\ f = "refused" => <<q0, n, i, r>> \in refused
                            /\ n < b => f \in Done
                            /\ n = b => /\ f \in Done \cup {"retry"}
                                        /\ <<q0, n, i, r>> \in took => f = "accepted"
                            /\ n = b /\ req[q0].answer \in {"ok", "502"} => f \in Done
      BY <1>1, <2>1 DEF FateInv, At, b
    <3> DEFINE f == fate[q0][r][n][i]
    <3>1. /\ f = "accepted" => <<q0, n, i, r>> \in took
          /\ f = "refused" => <<q0, n, i, r>> \in refused
          /\ n < b => f \in Done
          /\ n = b => /\ f \in Done \cup {"retry"}
                      /\ <<q0, n, i, r>> \in took => f = "accepted"
          /\ n = b /\ req[q0].answer \in {"ok", "502"} => f \in Done
      BY <1>1, <2>1 DEF RequestInv, FateInv, At, b
    <3>2. \/ fate'[q0][r][n][i] = f
          \/ fate'[q0][r][n][i] = to /\ n = b /\ f = "retry"
      BY <1>5
    <3> HIDE DEF f
    <3>3. CASE fate'[q0][r][n][i] = f
      BY <3>1, <3>3
    <3>4. CASE fate'[q0][r][n][i] = to /\ n = b /\ f = "retry"
      BY <1>2, <3>1, <3>4 DEF Done
    <3>5. QED
      BY <3>2, <3>3, <3>4
  <2>3. ThrottleInv(q0)'
    <3> SUFFICES ASSUME NEW r \in Relays, NEW i \in Events(q0),
                        sock[q0][r].answered[i].status = "rate-limited-retrying",
                        sock[q0][r].answered[i].throttle
                 PROVE  \/ Now(q0, r, i)' \in {"retry", "dropped"}
                        \/ Now(q0, r, i)' = "queued" /\ r \in poolCooldowns'
      BY <1>1 DEF ThrottleInv, Events, Size
    <3>1. \/ Now(q0, r, i) \in {"retry", "dropped"}
          \/ Now(q0, r, i) = "queued" /\ r \in poolCooldowns
      BY <1>1, <2>1 DEF RequestInv, ThrottleInv, At
    <3>2. Now(q0, r, i)' = IF i = i0 /\ Now(q0, r, i0) = "retry" THEN to ELSE Now(q0, r, i)
      <4>1. Now(q0, r, i)' = fate'[q0][r][b][i] /\ Now(q0, r, i) = fate[q0][r][b][i]
            /\ Now(q0, r, i0) = fate[q0][r][b][i0]
        BY <1>1 DEF Now, b
      <4>2. b \in DOMAIN plan[q0].batches /\ i \in 1..plan[q0].batches[b]
        BY <1>3
      <4>3. QED
        BY <1>5, <4>1, <4>2
    <3>3. CASE i = i0 /\ Now(q0, r, i0) = "retry" /\ to = "queued"
      <4>1. r \in ToRetry(q0, i0)
        BY <3>3 DEF ToRetry
      <4>2. Outcome(sock[q0][r], i0).throttle
        <5>1. sock[q0][r].answered[i0] # NoResult
          BY <3>3 DEF NoResult
        <5>2. Outcome(sock[q0][r], i0) = sock[q0][r].answered[i0]
          BY <5>1 DEF Outcome
        <5>3. QED
          BY <3>3, <5>2
      <4>3. r \in poolCooldowns'
        BY <1>2, <3>3, <4>1, <4>2
      <4>4. QED
        BY <3>2, <3>3, <4>3
    <3>4. CASE i = i0 /\ Now(q0, r, i0) = "retry" /\ to = "dropped"
      BY <3>2, <3>4
    <3>5. CASE ~(i = i0 /\ Now(q0, r, i0) = "retry")
      BY <1>7, <3>1, <3>2, <3>5
    <3>6. QED
      BY <1>2, <3>3, <3>4, <3>5
  <2>4. GateInv(q0)'
    BY <1>1, <2>1 DEF RequestInv, GateInv, TookFirst
  <2>5. QED
    BY <2>2, <2>3, <2>4 DEF RequestInv
<1>12. ASSUME NEW q \in Requests, q # q0
       PROVE  RequestInv(q)'
  BY <1>1, <1>4, <1>7, <1>12, RequestKept DEF IInv
<1>13. QED
  BY <1>8, <1>9, <1>10, <1>11, <1>12 DEF IInv

\* What is known of a batch whose retries are all handed off.
LEMMA BatchSettled ==
  ASSUME IInv, NEW q \in Requests, At(q, "handoff"), \A i \in Events(q) : ToRetry(q, i) = {}
  PROVE  /\ \A r \in Relays, i \in Events(q) : Now(q, r, i) \in Done
         /\ Taken(q) /\ req[q].batch = 1 => TookFirst(q)
         /\ ~Taken(q) /\ req[q].batch = 1 => \A d \in took : d[1] # q
<1> DEFINE b == req[q].batch
<1>1. /\ b \in DOMAIN plan[q].batches /\ Events(q) = 1..plan[q].batches[b]
  BY SizeType DEF Events, IInv, Types
<1>2. ASSUME NEW r \in Relays, NEW i \in Events(q)
      PROVE  /\ Now(q, r, i) \in Done
             /\ Now(q, r, i) = "accepted" => <<q, b, i, r>> \in took
             /\ <<q, b, i, r>> \in took => Now(q, r, i) = "accepted"
  <2>1. /\ Now(q, r, i) \in Done \cup {"retry"}
        /\ Now(q, r, i) = "accepted" => <<q, b, i, r>> \in took
        /\ <<q, b, i, r>> \in took => Now(q, r, i) = "accepted"
    <3>1. FateInv(q) /\ Now(q, r, i) = fate[q][r][b][i]
      BY DEF IInv, RequestInv, Now
    <3>2. i \in 1..plan[q].batches[b]
      BY <1>1
    <3>3. PICK n \in DOMAIN plan[q].batches : n = b
      BY <1>1
    <3>4. /\ fate[q][r][n][i] \in Done \cup {"retry"}
          /\ fate[q][r][n][i] = "accepted" => <<q, n, i, r>> \in took
          /\ <<q, n, i, r>> \in took => fate[q][r][n][i] = "accepted"
      BY <3>1, <3>2, <3>3 DEF FateInv
    <3>5. QED
      BY <3>1, <3>3, <3>4
  <2>2. Now(q, r, i) # "retry"
    BY DEF ToRetry
  <2>3. QED
    BY <2>1, <2>2
<1>3. Taken(q) /\ b = 1 => TookFirst(q)
  <2> SUFFICES ASSUME b = 1, NEW i \in Events(q), NEW r \in Relays, Now(q, r, i) = "accepted"
               PROVE  TookFirst(q)
    BY DEF Taken
  <2>1. PICK d \in took : d = <<q, 1, i, r>>
    BY <1>2
  <2>2. QED
    BY <2>1 DEF TookFirst
<1>4. ASSUME ~Taken(q), b = 1, NEW d \in took, d[1] = q
      PROVE  FALSE
  <2>1. /\ d \in Requests \X Nat \X Nat \X Relays
        /\ d[2] \in 1..req[d[1]].batch
        /\ d[3] \in 1..plan[d[1]].batches[d[2]]
    BY DEF IInv, HistoryInv
  <2>2. d[2] = 1 /\ d[3] \in Events(q) /\ d[4] \in Relays
    BY <1>1, <1>4, <2>1
  <2>3. d = <<q, b, d[3], d[4]>>
    BY <1>4, <2>1, <2>2
  <2>4. Now(q, d[4], d[3]) = "accepted"
    BY <1>2, <2>2, <2>3
  <2>5. QED
    BY <1>4, <2>2, <2>4 DEF Taken
<1>5. QED
  BY <1>2, <1>3, <1>4

\* Frame of Conclude: only the request's record changes, after its sockets.
LEMMA ConcludeFrame ==
  ASSUME IInv, NEW q0 \in Requests, Conclude(q0),
         \A q \in Requests : q # q0 => req'[q] = req[q],
         RequestsType', req'[q0].pc # "fanout", req'[q0].batch >= req[q0].batch,
         req'[q0].pc \in {"idle", "build"} => req'[q0].batch > req[q0].batch,
         RequestInv(q0)'
  PROVE  IInv'
<1>1. /\ plan' = plan /\ fate' = fate /\ sock' = sock /\ relayCooldowns' = relayCooldowns
      /\ recent' = recent /\ UNCHANGED history /\ poolCooldowns' = poolCooldowns
      /\ req[q0].pc = "handoff" /\ RequestsType
  BY DEF Conclude, At, IInv, Types
<1>2. Types'
  BY <1>1 DEF IInv, Types, FateType
<1>3. SocketsInv'
  <2> SUFFICES ASSUME NEW q \in Requests, NEW r \in Relays
               PROVE  /\ At(q, "fanout")' => /\ Sent(q, sock[q][r])'
                                             /\ Driven(q, sock[q][r])'
                                             /\ Heard(q, r, sock[q][r])'
                      /\ ~At(q, "fanout")' => sock'[q][r].pc = "done"
    BY DEF SocketsInv
  <2>1. CASE q = q0
    BY <1>1, <2>1 DEF At, IInv, SocketsInv
  <2>2. CASE q # q0
    BY <1>1, <2>2, SocketKept DEF IInv, SocketsInv
  <2>3. QED
    BY <2>1, <2>2
<1>4. \A q \in Requests : /\ req[q].batch \in Nat /\ req'[q].batch \in Nat
                          /\ req'[q].batch >= req[q].batch
  <2> SUFFICES ASSUME NEW q \in Requests
               PROVE  /\ req[q].batch \in Nat /\ req'[q].batch \in Nat
                      /\ req'[q].batch >= req[q].batch
    OBVIOUS
  <2>1. req[q].batch \in Nat /\ req'[q].batch \in Nat
    BY <1>1 DEF RequestsType
  <2>2. CASE q = q0
    BY <2>1, <2>2
  <2>3. CASE q # q0
    BY <2>1, <2>3
  <2>4. QED
    BY <2>2, <2>3
<1>5. HistoryInv'
  BY <1>1, <1>4, HistoryKept DEF IInv
<1>6. ASSUME NEW q \in Requests, q # q0
      PROVE  RequestInv(q)'
  BY <1>1, <1>6, RequestKept DEF IInv
<1>7. QED
  BY <1>2, <1>3, <1>5, <1>6 DEF IInv

LEMMA ConcludeStep ==
  ASSUME IInv, NEW q0 \in Requests, Conclude(q0)
  PROVE  IInv'
<1>1. /\ plan' = plan /\ fate' = fate /\ sock' = sock /\ poolCooldowns' = poolCooldowns
      /\ UNCHANGED history /\ took' = took /\ refused' = refused
      /\ req[q0].pc = "handoff" /\ At(q0, "handoff") /\ RequestsType /\ RequestInv(q0)
      /\ \A i \in Events(q0) : ToRetry(q0, i) = {}
  BY DEF Conclude, At, IInv, Types, history
<1>2. /\ \A r \in Relays, i \in Events(q0) : Now(q0, r, i) \in Done
      /\ Taken(q0) /\ req[q0].batch = 1 => TookFirst(q0)
      /\ ~Taken(q0) /\ req[q0].batch = 1 => \A d \in took : d[1] # q0
  BY <1>1, BatchSettled
<1>3. /\ req[q0].batch \in DOMAIN plan[q0].batches /\ req[q0].batch \in Nat
      /\ DOMAIN plan[q0].batches = 1..Len(plan[q0].batches)
      /\ Events(q0) = 1..plan[q0].batches[req[q0].batch] /\ req[q0].batch >= 1
  BY <1>1, SizeType DEF Events, RequestsType
<1>4. \A r \in Relays : \A n \in DOMAIN plan[q0].batches : \A i \in 1..plan[q0].batches[n] :
        /\ fate[q0][r][n][i] = "accepted" => <<q0, n, i, r>> \in took
        /\ fate[q0][r][n][i] = "refused" => <<q0, n, i, r>> \in refused
        /\ n <= req[q0].batch => fate[q0][r][n][i] \in Done
  <2> SUFFICES ASSUME NEW r \in Relays, NEW n \in DOMAIN plan[q0].batches,
                      NEW i \in 1..plan[q0].batches[n]
               PROVE  /\ fate[q0][r][n][i] = "accepted" => <<q0, n, i, r>> \in took
                      /\ fate[q0][r][n][i] = "refused" => <<q0, n, i, r>> \in refused
                      /\ n <= req[q0].batch => fate[q0][r][n][i] \in Done
    OBVIOUS
  <2>1. /\ fate[q0][r][n][i] = "accepted" => <<q0, n, i, r>> \in took
        /\ fate[q0][r][n][i] = "refused" => <<q0, n, i, r>> \in refused
        /\ n < req[q0].batch => fate[q0][r][n][i] \in Done
    BY <1>1 DEF RequestInv, FateInv
  <2>2. n = req[q0].batch => fate[q0][r][n][i] \in Done
    BY <1>2, <1>3 DEF Now
  <2>3. QED
    BY <1>3, <2>1, <2>2
<1>5. ASSUME NEW answer \in {"502", "ok"}, Answer(q0, answer),
             plan[q0].gated => /\ answer = "ok" => TookFirst(q0)
                               /\ answer = "502" => \A d \in took : d[1] # q0
      PROVE  IInv'
  <2>1. /\ req' \in [Requests -> [pc : Pcs, batch : Nat, answer : Answers]]
        /\ \A q \in Requests : req'[q].batch = req[q].batch
        /\ req'[q0].pc = "answered" /\ req'[q0].answer = answer
        /\ \A q \in Requests : q # q0 => req'[q] = req[q]
    <3>1. "answered" \in Pcs /\ answer \in Answers
      BY DEF Pcs, Answers
    <3>2. QED
      BY <1>5, <3>1, RequestFrame DEF Answer
  <2>2. RequestsType'
    BY <1>1, <2>1 DEF RequestsType
  <2>3. FateInv(q0)'
    BY <1>1, <1>3, <1>4, <2>1 DEF FateInv, At
  <2>4. ThrottleInv(q0)'
    BY <2>1 DEF ThrottleInv, At
  <2>5. GateInv(q0)'
    BY <1>1, <1>5, <2>1 DEF RequestInv, GateInv, TookFirst
  <2>6. QED
    BY <1>3, <2>1, <2>2, <2>3, <2>4, <2>5, ConcludeFrame DEF RequestInv
<1>6. CASE plan[q0].gated /\ req[q0].batch = 1 /\ ~Taken(q0)
  <2>1. Answer(q0, "502")
    BY <1>6 DEF Conclude
  <2>2. QED
    BY <1>2, <1>5, <1>6, <2>1
<1>7. plan[q0].gated /\ ~(plan[q0].gated /\ req[q0].batch = 1 /\ ~Taken(q0)) => TookFirst(q0)
  BY <1>1, <1>2, <1>3 DEF RequestInv, GateInv
<1>8. CASE /\ ~(plan[q0].gated /\ req[q0].batch = 1 /\ ~Taken(q0))
           /\ req[q0].batch < Len(plan[q0].batches)
  <2>1. req' = [req EXCEPT ![q0].pc = "build", ![q0].batch = @ + 1]
    BY <1>8 DEF Conclude
  <2>2. PICK new : new = [req[q0] EXCEPT !.pc = "build", !.batch = req[q0].batch + 1]
    OBVIOUS
  <2>3. /\ new \in [pc : Pcs, batch : Nat, answer : Answers] /\ new.pc = "build"
        /\ new.batch = req[q0].batch + 1 /\ new.answer = req[q0].answer
    <3>1. /\ req[q0] \in [pc : Pcs, batch : Nat, answer : Answers]
          /\ req[q0].batch + 1 \in Nat /\ "build" \in Pcs
      BY <1>1, <1>3 DEF RequestsType, Pcs
    <3>2. QED
      BY <2>2, <3>1
  <2>4. req' = [req EXCEPT ![q0] = new]
    BY <1>1, <2>1, <2>2 DEF RequestsType
  <2>5. /\ req' \in [Requests -> [pc : Pcs, batch : Nat, answer : Answers]]
        /\ req'[q0] = new
        /\ \A q \in Requests : q # q0 => req'[q] = req[q]
    BY <1>1, <2>3, <2>4 DEF RequestsType
  <2>6. RequestsType'
    <3>1. plan' \in Plans
      BY <1>1 DEF RequestsType
    <3>2. Len(plan[q0].batches) \in Nat
      BY <1>1, SizeType
    <3>3. ASSUME NEW q \in Requests
          PROVE  req'[q].batch \in 1..Len(plan[q].batches)
      <4>1. CASE q = q0
        BY <1>3, <1>8, <2>3, <2>5, <3>2, <4>1
      <4>2. CASE q # q0
        BY <1>1, <2>5, <4>2 DEF RequestsType
      <4>3. QED
        BY <4>1, <4>2
    <3>4. QED
      BY <1>1, <2>5, <3>1, <3>3 DEF RequestsType
  <2>7. req'[q0].answer = "none"
    BY <1>1, <2>3, <2>5, NotAnswered
  <2>8. FateInv(q0)'
    BY <1>1, <1>3, <1>4, <2>3, <2>5, <2>7 DEF FateInv, At
  <2>9. ThrottleInv(q0)'
    BY <2>3, <2>5 DEF ThrottleInv, At
  <2>10. GateInv(q0)'
    BY <1>1, <1>7, <1>8, <2>7 DEF GateInv, TookFirst
  <2>11. QED
    BY <1>3, <2>3, <2>5, <2>6, <2>8, <2>9, <2>10, ConcludeFrame DEF RequestInv
<1>9. CASE /\ ~(plan[q0].gated /\ req[q0].batch = 1 /\ ~Taken(q0))
           /\ ~(req[q0].batch < Len(plan[q0].batches))
  <2>1. Answer(q0, "ok")
    BY <1>9 DEF Conclude
  <2>2. QED
    BY <1>5, <1>7, <1>9, <2>1
<1>10. QED
  BY <1>6, <1>8, <1>9

\* The isolate is lost: what it knew of its requests is gone, what is out stays.
LEMMA EvictStep ==
  ASSUME IInv, Evict
  PROVE  IInv'
<1>1. /\ plan' = plan /\ fate' = fate /\ UNCHANGED history /\ took' = took /\ refused' = refused
      /\ poolCooldowns' = poolCooldowns /\ relayCooldowns' = {} /\ recent' = 0
      /\ RequestsType
  BY DEF Evict, IInv, Types, history
<1>2. ASSUME NEW q \in Requests
      PROVE  /\ req'[q] \in [pc : Pcs, batch : Nat, answer : Answers]
             /\ req'[q].batch = req[q].batch /\ req'[q].answer = req[q].answer
             /\ \/ req'[q] = req[q] /\ req[q].pc \in {"idle", "answered", "evicted"}
                \/ req'[q].pc = "evicted" /\ req[q].answer = "none"
  <2>1. req'[q] = IF Alive(q) THEN [req[q] EXCEPT !.pc = "evicted"] ELSE req[q]
    BY DEF Evict
  <2>2. req[q] \in [pc : Pcs, batch : Nat, answer : Answers]
    BY <1>1 DEF RequestsType
  <2>3. CASE Alive(q)
    <3>1. req[q].answer = "none"
      BY <2>3, NotAnswered DEF Alive
    <3>2. QED
      BY <2>1, <2>2, <2>3, <3>1 DEF Pcs
  <2>4. CASE ~Alive(q)
    BY <2>1, <2>2, <2>4 DEF Alive
  <2>5. QED
    BY <2>3, <2>4
<1>3. sock' \in [Requests -> [Relays -> Sock]]
      /\ \A q \in Requests, r \in Relays : sock'[q][r].pc = "done"
  <2>1. NoSock \in Sock /\ NoSock.pc = "done"
    <3>1. <<>> \in AnswerMaps
      <4>1. <<>> \in [1..0 -> Replies]
        OBVIOUS
      <4>2. QED
        BY <4>1 DEF AnswerMaps
    <3>2. NoSock \in [pc : {"done"}, next : {0}, inFlight : {{}}, answered : {<<>>},
                      throttled : BOOLEAN, timer : BOOLEAN, reason : Reasons]
      BY DEF NoSock, Reasons
    <3>3. QED
      BY <3>1, <3>2 DEF Sock
  <2>2. sock' = [q \in Requests |-> [r \in Relays |-> NoSock]]
    BY DEF Evict
  <2>3. QED
    BY <2>1, <2>2
<1>4. Types'
  <2>1. req' \in [Requests -> [pc : Pcs, batch : Nat, answer : Answers]]
    <3>1. DOMAIN req' = Requests /\ req' = [q \in Requests |-> req'[q]]
      BY DEF Evict
    <3>2. QED
      BY <1>2, <3>1
  <2>2. QED
    BY <1>1, <1>2, <1>3, <2>1 DEF IInv, Types, RequestsType, FateType
<1>5. SocketsInv'
  BY <1>2, <1>3 DEF SocketsInv, At
<1>6. HistoryInv'
  <2>1. \A q \in Requests : /\ req[q].batch \in Nat /\ req'[q].batch \in Nat
                            /\ req'[q].batch >= req[q].batch
    BY <1>1, <1>2 DEF RequestsType
  <2>2. \A q \in Requests : req'[q].pc \in {"idle", "build"} => req[q].pc \in {"idle", "build"}
    BY <1>2
  <2>3. QED
    BY <1>1, <2>1, <2>2, HistoryKept DEF IInv
<1>7. ASSUME NEW q \in Requests
      PROVE  RequestInv(q)'
  <2>1. RequestInv(q) /\ ~At(q, "handoff")'
    BY <1>2 DEF IInv, At
  <2>2. FateInv(q)'
    BY <1>1, <1>2, <2>1 DEF RequestInv, FateInv
  <2>3. ThrottleInv(q)'
    BY <2>1 DEF ThrottleInv
  <2>4. GateInv(q)'
    BY <1>1, <1>2, <2>1 DEF RequestInv, GateInv, TookFirst
  <2>5. QED
    BY <2>2, <2>3, <2>4 DEF RequestInv
<1>8. QED
  BY <1>4, <1>5, <1>6, <1>7 DEF IInv

-----------------------------------------------------------------------------
(* The invariant holds.                                                    *)

LEMMA InitInv ==
  Init => IInv
<1> SUFFICES ASSUME Init
             PROVE  IInv
  OBVIOUS
<1>1. /\ plan \in Plans /\ recent \in 0..RateLimit /\ relayCooldowns \subseteq Relays
      /\ took = {} /\ refused = {} /\ poolCooldowns = {}
      /\ req = [q \in Requests |-> [pc |-> "idle", batch |-> 1, answer |-> "none"]]
      /\ sock = [q \in Requests |-> [r \in Relays |-> NoSock]]
  BY DEF Init
<1>2. \A q \in Requests : req[q].pc = "idle" /\ req[q].batch = 1 /\ req[q].answer = "none"
  BY <1>1
<1>3. RequestsType
  <2>1. req \in [Requests -> [pc : Pcs, batch : Nat, answer : Answers]]
    BY <1>1 DEF Pcs, Answers
  <2>2. ASSUME NEW q \in Requests
        PROVE  req[q].batch \in 1..Len(plan[q].batches)
    <3>1. plan[q].batches \in Seq(Nat \ {0}) /\ plan[q].batches # <<>>
      BY <1>1
    <3>2. QED
      BY <1>2, <3>1
  <2>3. QED
    BY <1>1, <2>1, <2>2 DEF RequestsType
<1> DEFINE None(q, n) == [i \in 1..plan[q].batches[n] |-> "none"]
<1>4. /\ DOMAIN fate = Requests
      /\ \A q \in Requests : DOMAIN fate[q] = Relays
      /\ \A q \in Requests, r \in Relays :
           fate[q][r] = [n \in DOMAIN plan[q].batches |-> None(q, n)]
  BY DEF Init
<1>5. ASSUME NEW q \in Requests, NEW r \in Relays
      PROVE  /\ DOMAIN fate[q][r] = DOMAIN plan[q].batches
             /\ \A n \in DOMAIN plan[q].batches :
                  /\ fate[q][r][n] \in [1..plan[q].batches[n] -> Fates]
                  /\ \A i \in 1..plan[q].batches[n] : fate[q][r][n][i] = "none"
  <2>1. ASSUME NEW n \in DOMAIN plan[q].batches
        PROVE  /\ None(q, n) \in [1..plan[q].batches[n] -> Fates]
               /\ \A i \in 1..plan[q].batches[n] : None(q, n)[i] = "none"
    BY DEF Fates
  <2> HIDE DEF None
  <2>2. fate[q][r] = [n \in DOMAIN plan[q].batches |-> None(q, n)]
    BY <1>4
  <2>3. DOMAIN fate[q][r] = DOMAIN plan[q].batches
    BY <2>2, Zenon
  <2>4. \A n \in DOMAIN plan[q].batches : fate[q][r][n] = None(q, n)
    BY <2>2, Zenon
  <2>5. QED
    BY <2>1, <2>3, <2>4
<1> HIDE DEF None
<1>6. Types
  <2>1. FateType
    BY <1>4, <1>5 DEF FateType
  <2>2. sock \in [Requests -> [Relays -> Sock]]
    <3>1. <<>> \in AnswerMaps
      <4>1. <<>> \in [1..0 -> Replies]
        OBVIOUS
      <4>2. QED
        BY <4>1 DEF AnswerMaps
    <3>2. NoSock \in [pc : {"done"}, next : {0}, inFlight : {{}}, answered : {<<>>},
                      throttled : BOOLEAN, timer : BOOLEAN, reason : Reasons]
      BY DEF NoSock, Reasons
    <3>3. NoSock \in Sock
      BY <3>1, <3>2 DEF Sock
    <3>4. QED
      BY <1>1, <3>3
  <2>3. QED
    BY <1>1, <1>3, <2>1, <2>2 DEF Types
<1>7. SocketsInv
  <2>1. \A q \in Requests, r \in Relays : sock[q][r].pc = "done"
    BY <1>1 DEF NoSock
  <2>2. QED
    BY <1>2, <2>1 DEF SocketsInv, At
<1>8. HistoryInv
  BY <1>1 DEF HistoryInv
<1>9. ASSUME NEW q \in Requests
      PROVE  RequestInv(q)
  <2>1. FateInv(q)
    <3>1. \A n \in DOMAIN plan[q].batches : ~(n < 1)
      <4>1. plan[q].batches \in Seq(Nat \ {0})
        BY <1>1
      <4>2. QED
        BY <4>1
    <3>2. QED
      BY <1>2, <1>5, <3>1 DEF FateInv, At
  <2>2. ThrottleInv(q)
    BY <1>2 DEF ThrottleInv, At
  <2>3. GateInv(q)
    BY <1>2 DEF GateInv
  <2>4. QED
    BY <2>1, <2>2, <2>3 DEF RequestInv
<1>10. QED
  BY <1>6, <1>7, <1>8, <1>9 DEF IInv

LEMMA StutterStep ==
  ASSUME IInv, UNCHANGED vars
  PROVE  IInv'
<1>1. recent' \in 0..RateLimit /\ relayCooldowns' \subseteq Relays
  BY DEF vars, IInv, Types
<1>2. QED
  BY <1>1, IsolateStep DEF vars

LEMMA NextInv ==
  IInv /\ [Next]_vars => IInv'
<1> SUFFICES ASSUME IInv, [Next]_vars
             PROVE  IInv'
  OBVIOUS
<1>1. ASSUME NEW q \in Requests, Publish(q)
      PROVE  IInv'
  <2>1. CASE rateLimitCheck(q)
    BY <2>1, RateLimitStep
  <2>2. CASE BuildFails(q)
    BY <2>2, BuildFailsStep
  <2>3. CASE FanOut(q)
    BY <2>3, FanOutStep
  <2>4. CASE Gather(q)
    BY <2>4, GatherStep
  <2>5. CASE Conclude(q)
    BY <2>5, ConcludeStep
  <2>6. CASE \E i \in Events(q) : HandOff(q, i)
    BY <2>6, HandOffStep
  <2>7. QED
    BY <1>1, <2>1, <2>2, <2>3, <2>4, <2>5, <2>6 DEF Publish
<1>2. ASSUME NEW q \in Requests, NEW r \in Relays, Socket(q, r)
      PROVE  IInv'
  <2>1. CASE ConnectFails(q, r)
    BY <2>1, ConnectFailsStep
  <2>2. CASE Connects(q, r)
    BY <2>2, ConnectsStep
  <2>3. CASE TimerFires(q, r)
    BY <2>3, TimerFiresStep
  <2>4. CASE SocketEnds(q, r)
    BY <2>4, SocketEndsStep
  <2>5. ASSUME NEW i \in Events(q), NEW message \in Messages,
               \E rested \in BOOLEAN : Answered(q, r, i, message, rested)
        PROVE  IInv'
    BY <2>5, AnsweredStep
  <2>6. ASSUME NEW i \in Events(q), NEW message \in Messages, AnsweredLate(q, r, i, message)
        PROVE  IInv'
    BY <2>6, AnsweredLateStep
  <2>7. QED
    BY <1>2, <2>1, <2>2, <2>3, <2>4, <2>5, <2>6 DEF Socket
<1>3. CASE \E r \in Relays : CooldownEnds(r)
  BY <1>3, CooldownEndsStep
<1>4. CASE WindowSlides
  BY <1>4, WindowSlidesStep
<1>5. CASE Evict
  BY <1>5, EvictStep
<1>6. CASE UNCHANGED vars
  BY <1>6, StutterStep
<1>7. QED
  BY <1>1, <1>2, <1>3, <1>4, <1>5, <1>6 DEF Next

\* The inductive invariant: what each socket was answered, what became of each
\* event and what the history says agree at every step.
THEOREM Invariance ==
  Spec => []IInv
<1>1. QED
  BY InitInv, NextInv, PTL DEF Spec

-----------------------------------------------------------------------------
(* What it gives.                                                          *)

\* Every variable keeps its type and no socket has more than MaxUnacked events
\* unanswered, for any batch size and any limit.
THEOREM TypeCorrect ==
  Spec => []TypeOK
<1>1. IInv => TypeOK
  <2> SUFFICES ASSUME IInv
               PROVE  TypeOK
    OBVIOUS
  <2>1. RequestsType /\ FateType /\ recent \in 0..RateLimit
        /\ relayCooldowns \subseteq Relays /\ poolCooldowns \subseteq Relays
    BY DEF IInv, Types
  <2>2. ASSUME NEW q \in Requests
        PROVE  /\ req[q].pc \in Pcs
               /\ req[q].batch \in 1..Len(plan[q].batches)
               /\ req[q].answer \in Answers
    BY <2>1 DEF RequestsType
  <2>3. ASSUME NEW q \in Requests, NEW r \in Relays, At(q, "fanout")
        PROVE  SockOK(q, sock[q][r])
    <3>1. sock[q][r] \in Sock /\ Sent(q, sock[q][r]) /\ Size(q) \in Nat
      BY <2>1, <2>3, SizeType DEF IInv, Types, SocketsInv
    <3>2. sock[q][r].next \in 0..Size(q)
      BY <3>1 DEF Sock, Sent
    <3>3. \A i \in DOMAIN sock[q][r].answered : sock[q][r].answered[i] \in Replies
      BY <3>1 DEF Sent
    <3>4. QED
      BY <3>1, <3>2, <3>3 DEF Sock, Sent, SockOK, Replies
  <2>4. QED
    BY <2>1, <2>2, <2>3 DEF TypeOK, RequestsType, FateType, Pcs, Answers
<1>2. QED
  BY <1>1, Invariance, PTL

\* A socket that is open always has a timer, an answer or the window to wake
\* it, and never more to send than a timer is set for (pump).
THEOREM NeverStalls ==
  Spec => []NoStall
<1>1. IInv => NoStall
  <2> SUFFICES ASSUME IInv, NEW q \in Requests, NEW r \in Relays,
                      sock[q][r].pc = "open", Alive(q)
               PROVE  (MaySend(q, sock[q][r]) => sock[q][r].timer) /\ ~Settled(q, sock[q][r])
    BY DEF NoStall
  <2>1. At(q, "fanout")
    BY LiveSocket
  <2>2. QED
    BY <2>1 DEF IInv, SocketsInv, Driven
<1>2. QED
  BY <1>1, Invariance, PTL

\* The answer to a request tells the truth about every event and every relay.
THEOREM DeliveriesAccounted ==
  Spec => []EveryDeliveryAccounted
<1>1. IInv => EveryDeliveryAccounted
  <2> SUFFICES ASSUME IInv, NEW q \in Requests, NEW r \in Relays,
                      NEW n \in DOMAIN plan[q].batches, NEW i \in 1..plan[q].batches[n]
               PROVE  LET f == fate[q][r][n][i]
                      IN  /\ f = "accepted" => <<q, n, i, r>> \in took
                          /\ f = "refused" => <<q, n, i, r>> \in refused
                          /\ (req[q].answer \in {"ok", "502"} /\ n <= req[q].batch) => f \in Done
    BY DEF EveryDeliveryAccounted, Done
  <2>1. n \in Nat /\ req[q].batch \in Nat
    <3>1. RequestsType
      BY DEF IInv, Types
    <3>2. DOMAIN plan[q].batches = 1..Len(plan[q].batches) /\ req[q].batch \in DOMAIN plan[q].batches
      BY <3>1, SizeType
    <3>3. QED
      BY <3>2
  <2>2. n <= req[q].batch => n < req[q].batch \/ n = req[q].batch
    BY <2>1
  <2>3. FateInv(q)
    BY DEF IInv, RequestInv
  <2>4. QED
    BY <2>2, <2>3 DEF FateInv
<1>2. QED
  BY <1>1, Invariance, PTL

\* A rationale goes out only after some relay took its score (score.ts), and a
\* 502 means that no relay acknowledged anything while it was awaited.
THEOREM CommentAfterScore ==
  Spec => []CommentFollowsScore
<1>1. IInv => CommentFollowsScore
  <2> SUFFICES ASSUME IInv, NEW q \in Requests, plan[q].gated
               PROVE  /\ req[q].batch = 2 => TookFirst(q)
                      /\ req[q].answer = "502" => \A d \in took : d[1] # q
    BY DEF CommentFollowsScore, TookFirst
  <2>1. QED
    BY DEF IInv, RequestInv, GateInv
<1>2. QED
  BY <1>1, Invariance, PTL

\* A gated request answered ok had its first event taken by some relay.
THEOREM OkIsTaken ==
  Spec => []OkMeansTaken
<1>1. IInv => OkMeansTaken
  BY DEF IInv, RequestInv, GateInv, TookFirst, OkMeansTaken
<1>2. QED
  BY <1>1, Invariance, PTL

\* A throttle a relay expressed in time reaches the RelayPool with the hand-off.
THEOREM ThrottleHandedOn ==
  Spec => []ThrottleReachesPool
<1>1. IInv => ThrottleReachesPool
  <2> SUFFICES ASSUME IInv, NEW q \in Requests, NEW r \in Relays, At(q, "handoff"),
                      \A i \in Events(q) : ToRetry(q, i) = {}, NEW i \in Events(q),
                      sock[q][r].answered[i].status = "rate-limited-retrying",
                      sock[q][r].answered[i].throttle
               PROVE  r \in poolCooldowns \/ Now(q, r, i) = "dropped"
    BY DEF ThrottleReachesPool
  <2>1. Now(q, r, i) # "retry"
    BY DEF ToRetry
  <2>2. QED
    BY <2>1 DEF IInv, RequestInv, ThrottleInv
<1>2. QED
  BY <1>1, Invariance, PTL

=============================================================================
