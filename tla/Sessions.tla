------------------------------ MODULE Sessions ------------------------------
(***************************************************************************)
(* From sign-in to the last answer of an MCP session.  The authorization   *)
(* server (gateway/src/auth.ts) keeps nothing: client ids, states, codes   *)
(* and access tokens are signed records that expire, and every check reads *)
(* the record it is given.  The McpHub object (gateway/src/mcp.ts) keeps   *)
(* the open sessions in memory: a GET /sse opens one, POST /messages runs  *)
(* its requests and answers them on the session's stream.                  *)
(*                                                                         *)
(* A signed token cannot be made up: the tokens there are, are those the   *)
(* gateway minted.                                                         *)
(***************************************************************************)
EXTENDS Worker, Integers, Sequences, FiniteSets

CONSTANTS
    Users,              \* upstream identities, <<provider, account>>
    Providers,
    StaticClient,       \* OAUTH_CLIENT_ID
    DcrClients,         \* clients that may register (RFC 7591)
    Uris, Allowlist,    \* redirect URIs, and those of the allowlist
    Challenges,         \* PKCE challenges; a verifier is known by its challenge
    SessionIds, Posts,
    Bodies,             \* what a POST may carry: a sequence of messages
    BadMacs,            \* <<user, attempt>> whose MAC is no key of the curve
    MaxDeriveRetries,   \* MAX_DERIVE_RETRIES
    StateTtl, CodeTtl, JwtTtl,
    MaxStates, MaxCodes, MaxJwts, MaxEvictions \* bounds on the tokens and evictions

ASSUME AllowlistAssumption == Allowlist \subseteq Uris
ASSUME ClientsAssumption == StaticClient \notin DcrClients /\ None \notin DcrClients \cup {StaticClient}
ASSUME NatAssumption ==
    {MaxDeriveRetries, StateTtl, CodeTtl, JwtTtl, MaxNow, MaxStates, MaxCodes, MaxJwts, MaxEvictions}
        \subseteq Nat
ASSUME NoneAssumption == None \notin Uris \cup Challenges \cup Users \cup SessionIds

VARIABLES
    registered,     \* the redirect URIs each client's id carries, or None
    states, codes, jwts,    \* the tokens minted so far
    consents,       \* history: sign-ins completed at a provider
    session,        \* each session: its entry, its claims, its stream
    post,           \* each POST /messages: the locals of handleMessage
    presented,      \* history: the token each session accepted last
    acts,           \* history: what was published, through which session, under
                    \* which token
    evictions

tokens == <<registered, states, codes, jwts, consents>>
hub == <<session, post, presented, acts, evictions>>
vars == <<now, tokens, hub>>

Clients == DcrClients \cup {StaticClient}

Valid(token) == now < token.exp

Message == [what: {"act", "auth", "read", "malformed"}, id: BOOLEAN]

ASSUME BodiesAssumption == Bodies \subseteq Seq(Message)

NoSession == [listed |-> FALSE, claims |-> None, wire |-> "none"]
NoPost == [pc |-> "none", session |-> None, todo |-> <<>>, asked |-> 0, answered |-> 0]

Init ==
    /\ now = 0
    /\ registered = [c \in DcrClients |-> None]
    /\ states = {} /\ codes = {} /\ jwts = {} /\ consents = {}
    /\ session = [s \in SessionIds |-> NoSession]
    /\ post = [p \in Posts |-> NoPost]
    /\ presented = [s \in SessionIds |-> None]
    /\ acts = {}
    /\ evictions = 0

Tick == now < MaxNow /\ now' = now + 1 /\ UNCHANGED <<tokens, hub>>

-----------------------------------------------------------------------------
(* The authorization server.                                               *)

\* registerEndpoint: every URI must be on the allowlist; the URIs travel in
\* the client id itself.
Register(c, uris) ==
    /\ registered[c] = None
    /\ uris # {} /\ uris \subseteq Allowlist
    /\ registered' = [registered EXCEPT ![c] = uris]
    /\ UNCHANGED <<now, states, codes, jwts, consents, hub>>

\* validateClient: the configured client, or an id this gateway signed.  A
\* secret is checked when one is sent.
KnownClient(c, secret) ==
    /\ c = StaticClient \/ (c \in DcrClients /\ registered[c] # None)
    /\ secret # "wrong"

UrisOf(c) == IF c = StaticClient THEN Allowlist ELSE registered[c]

\* startProvider for a client: the state token carries its request.
StartFor(provider, c, uri, challenge) ==
    /\ KnownClient(c, "none")
    /\ uri \in UrisOf(c)
    /\ Cardinality(states) < MaxStates
    /\ states' = states \cup {[provider |-> provider, client |-> c, uri |-> uri,
                               challenge |-> challenge, exp |-> now + StateTtl]}
    /\ UNCHANGED <<now, registered, codes, jwts, consents, hub>>

\* startProvider without a client: the direct flow.
StartDirect(provider) ==
    /\ Cardinality(states) < MaxStates
    /\ states' = states \cup {[provider |-> provider, client |-> None, uri |-> None,
                               challenge |-> None, exp |-> now + StateTtl]}
    /\ UNCHANGED <<now, registered, codes, jwts, consents, hub>>

\* An access token carries the user alone; the client, the URI and the PKCE
\* verifier it was asked with are history.
Jwt(user, client, uri, verifier) ==
    [user |-> user, client |-> client, uri |-> uri, verifier |-> verifier,
     exp |-> now + JwtTtl]

\* callbackProvider: a valid state of this provider; the provider says who
\* the user is.  A client's flow ends in a code sent to its URI, the direct
\* one in a token.
Callback(st, provider, user) ==
    /\ Valid(st) /\ st.provider = provider
    /\ user[1] = provider
    /\ consents' = consents \cup {[user |-> user, client |-> st.client, uri |-> st.uri,
                                   challenge |-> st.challenge, at |-> now]}
    /\ IF st.client # None
       THEN /\ Cardinality(codes) < MaxCodes
            /\ codes' = codes \cup {[user |-> user, client |-> st.client, uri |-> st.uri,
                                     challenge |-> st.challenge, exp |-> now + CodeTtl]}
            /\ UNCHANGED jwts
       ELSE /\ Cardinality(jwts) < MaxJwts
            /\ jwts' = jwts \cup {Jwt(user, None, None, None)}
            /\ UNCHANGED codes
    /\ UNCHANGED <<now, registered, states, hub>>

\* Mutant: the verifier is checked only when the client sends one.
Exchange_OptionalVerifier(code, c, secret, uri, verifier) ==
    /\ KnownClient(c, secret)
    /\ Valid(code)
    /\ code.uri = uri /\ code.client = c
    /\ code.challenge # None /\ verifier # None => verifier = code.challenge
    /\ Cardinality(jwts) < MaxJwts
    /\ jwts' = jwts \cup {Jwt(code.user, c, uri, verifier)}
    /\ UNCHANGED <<now, registered, states, codes, consents, hub>>

\* tokenEndpoint: the client, then the code, its URI, its client and its
\* PKCE challenge.  Nothing records that the code has been used.
Exchange(code, c, secret, uri, verifier) ==
    /\ KnownClient(c, secret)
    /\ Valid(code)
    /\ code.uri = uri /\ code.client = c
    /\ code.challenge # None => verifier = code.challenge
    /\ Cardinality(jwts) < MaxJwts
    /\ jwts' = jwts \cup {Jwt(code.user, c, uri, verifier)}
    /\ UNCHANGED <<now, registered, states, codes, consents, hub>>

-----------------------------------------------------------------------------
(* The hub.                                                                *)

\* handleOpen: a valid bearer token, or 401.
Open(s, jwt) ==
    /\ session[s] = NoSession
    /\ Valid(jwt)
    /\ session' = [session EXCEPT ![s] = [listed |-> TRUE, claims |-> jwt.user, wire |-> "up"]]
    /\ presented' = [presented EXCEPT ![s] = jwt]
    /\ UNCHANGED <<now, tokens, post, acts, evictions>>

\* closeSession: the entry and the heartbeat go, the writer is closed.
Closed(entry) == [entry EXCEPT !.listed = FALSE, !.wire = "closed"]

\* The runtime cancels the stream of a client that has gone, or does not
\* notice: writes to it then neither fail nor finish.
Hangup(s, wire) ==
    /\ session[s].wire = "up"
    /\ session' = [session EXCEPT ![s].wire = wire]
    /\ UNCHANGED <<now, tokens, post, presented, acts, evictions>>

\* The abort listener, when the runtime fires it.
Abort(s) ==
    /\ session[s].listed /\ session[s].wire = "cut"
    /\ session' = [session EXCEPT ![s] = Closed(@)]
    /\ UNCHANGED <<now, tokens, post, presented, acts, evictions>>

\* Mutant: the failed heartbeat is swallowed like a failed answer.
Heartbeat_Swallowed(s) ==
    /\ session[s].listed /\ session[s].wire = "cut"
    /\ UNCHANGED vars

\* The heartbeat's write fails on a cancelled stream.
Heartbeat(s) ==
    /\ session[s].listed /\ session[s].wire = "cut"
    /\ session' = [session EXCEPT ![s] = Closed(@)]
    /\ UNCHANGED <<now, tokens, post, presented, acts, evictions>>

\* A message without an id gets no answer; a malformed one always does.
Answered(m) == m.id \/ m.what = "malformed"

Asked(body) == Cardinality({i \in DOMAIN body : Answered(body[i])})

\* handleMessage: 404 without a session; its messages are run one by one, and
\* a batch may be empty.
Post(p, s, body) ==
    /\ post[p] = NoPost
    /\ session[s] # NoSession
    /\ post' = [post EXCEPT ![p] =
          IF session[s].listed
          THEN [pc |-> IF body = <<>> THEN "done" ELSE "run", session |-> s,
                todo |-> body, asked |-> Asked(body), answered |-> 0]
          ELSE [NoPost EXCEPT !.pc = "refused"]]
    /\ UNCHANGED <<now, tokens, session, presented, acts, evictions>>

Next1(q) == [q EXCEPT !.todo = Tail(@), !.pc = IF Len(q.todo) = 1 THEN "done" ELSE "run"]

Ran(p) ==
    LET q == post[p]
    IN  post' = [post EXCEPT ![p] = IF Answered(Head(q.todo)) THEN [q EXCEPT !.pc = "emit"] ELSE Next1(q)]

Runs(p, what) == post[p].pc = "run" /\ Head(post[p].todo).what = what

\* deriveNostrKey: the first attempt whose MAC is a key, one key per identity.
DerivedKey(user) ==
    LET good == {a \in 0..MaxDeriveRetries : <<user, a>> \notin BadMacs}
    IN  IF good = {} THEN None ELSE <<user, CHOOSE a \in good : \A b \in good : a <= b>>

\* A publishing tool signs as the session's user, or fails without a key.
Act(p) ==
    LET s == post[p].session
        key == DerivedKey(session[s].claims)
    IN  /\ Runs(p, "act")
        /\ acts' = IF key = None THEN acts ELSE acts \cup {[session |-> s, key |-> key, token |-> presented[s]]}
        /\ Ran(p)
        /\ UNCHANGED <<now, tokens, session, presented, evictions>>

\* Mutant: a session keeps the user it was opened for.
Reauth_KeepsUser(p, jwt) ==
    LET s == post[p].session
    IN  /\ Runs(p, "auth")
        /\ presented' = IF Valid(jwt) THEN [presented EXCEPT ![s] = jwt] ELSE presented
        /\ Ran(p)
        /\ UNCHANGED <<now, tokens, session, acts, evictions>>

\* auth_4a: a valid token replaces the session's user.
Reauth(p, jwt) ==
    LET s == post[p].session
    IN  /\ Runs(p, "auth")
        /\ session' = IF Valid(jwt) THEN [session EXCEPT ![s].claims = jwt.user] ELSE session
        /\ presented' = IF Valid(jwt) THEN [presented EXCEPT ![s] = jwt] ELSE presented
        /\ Ran(p)
        /\ UNCHANGED <<now, tokens, acts, evictions>>

\* A reading tool, a listing, a ping, or an envelope that is refused.
Serve(p) ==
    /\ Runs(p, "read") \/ Runs(p, "malformed")
    /\ Ran(p)
    /\ UNCHANGED <<now, tokens, session, presented, acts, evictions>>

\* Mutant: the first answer ends the request.
Emit_Last(p) ==
    LET wire == session[post[p].session].wire
    IN  /\ post[p].pc = "emit"
        /\ wire # "silent"
        /\ post' = [post EXCEPT ![p] =
              [Next1(post[p]) EXCEPT !.answered = IF wire = "up" THEN @ + 1 ELSE @, !.pc = "done"]]
        /\ UNCHANGED <<now, tokens, session, presented, acts, evictions>>

\* emit: written to the session that asked; a closed stream loses it, and a
\* client that does not read holds it up.
Emit(p) ==
    LET wire == session[post[p].session].wire
    IN  /\ post[p].pc = "emit"
        /\ wire # "silent"
        /\ post' = [post EXCEPT ![p] =
              [Next1(post[p]) EXCEPT !.answered = IF wire = "up" THEN @ + 1 ELSE @]]
        /\ UNCHANGED <<now, tokens, session, presented, acts, evictions>>

\* Eviction of the hub ends every session and every request.
Evict ==
    /\ evictions < MaxEvictions
    /\ \E s \in SessionIds : session[s].listed
    /\ evictions' = evictions + 1
    /\ session' = [s \in SessionIds |-> IF session[s] = NoSession THEN NoSession ELSE Closed(session[s])]
    /\ post' = [p \in Posts |-> IF post[p].pc \in {"run", "emit"} THEN [NoPost EXCEPT !.pc = "lost"]
                                ELSE post[p]]
    /\ UNCHANGED <<now, tokens, presented, acts>>

Work(p) == Act(p) \/ (\E jwt \in jwts : Reauth(p, jwt)) \/ Serve(p) \/ Emit(p)

Next ==
    \/ Tick
    \/ \E c \in DcrClients, uris \in SUBSET Uris : Register(c, uris)
    \/ \E provider \in Providers :
          \/ StartDirect(provider)
          \/ \E c \in Clients, uri \in Uris, challenge \in Challenges \cup {None} :
                StartFor(provider, c, uri, challenge)
          \/ \E st \in states, user \in Users : Callback(st, provider, user)
    \/ \E code \in codes, c \in Clients, secret \in {"none", "right", "wrong"},
          uri \in Uris, verifier \in Challenges \cup {None} :
             Exchange(code, c, secret, uri, verifier)
    \/ \E s \in SessionIds :
          \/ \E jwt \in jwts : Open(s, jwt)
          \/ \E wire \in {"cut", "silent"} : Hangup(s, wire)
          \/ Abort(s) \/ Heartbeat(s)
          \/ \E p \in Posts, body \in Bodies : Post(p, s, body)
    \/ \E p \in Posts : Work(p)
    \/ Evict

Spec == Init /\ [][Next]_vars

\* Tools answer (their calls have time limits), timers fire.
FairSpec ==
    /\ Spec
    /\ \A p \in Posts : WF_vars(Work(p))
    /\ \A s \in SessionIds : WF_vars(Heartbeat(s))

-----------------------------------------------------------------------------
(* Correctness.                                                            *)

TypeOK ==
    /\ now \in Nat /\ evictions \in Nat
    /\ registered \in [DcrClients -> (SUBSET Uris) \cup {None}]
    /\ states \subseteq [provider: Providers, client: Clients \cup {None}, uri: Uris \cup {None},
                         challenge: Challenges \cup {None}, exp: Nat]
    /\ codes \subseteq [user: Users, client: Clients \cup {None}, uri: Uris \cup {None},
                        challenge: Challenges \cup {None}, exp: Nat]
    /\ jwts \subseteq [user: Users, client: Clients \cup {None}, uri: Uris \cup {None},
                       verifier: Challenges \cup {None}, exp: Nat]
    /\ consents \subseteq [user: Users, client: Clients \cup {None}, uri: Uris \cup {None},
                           challenge: Challenges \cup {None}, at: Nat]
    /\ session \in [SessionIds -> [listed: BOOLEAN, claims: Users \cup {None},
                                   wire: {"none", "up", "cut", "silent", "closed"}]]
    /\ post \in [Posts -> [pc: {"none", "refused", "run", "emit", "done", "lost"},
                           session: SessionIds \cup {None}, todo: Seq(Message),
                           asked: Nat, answered: Nat]]
    /\ presented \in [SessionIds -> jwts \cup {None}]
    /\ acts \subseteq [session: SessionIds, key: Users \X (0..MaxDeriveRetries), token: jwts]

\* A token given to a client is for a user who signed in for that client,
\* through a URI of the client's, less than the life of a code before, and was
\* asked with the verifier of the challenge of that sign-in; what a session
\* publishes is signed with the key of the user of the token it accepted last.
PublishedByConsent ==
    /\ \A j \in jwts : \E k \in consents :
          /\ k.user = j.user /\ k.client = j.client /\ k.uri = j.uri
          /\ k.challenge # None => j.verifier = k.challenge
          /\ j.client # None => j.uri \in UrisOf(j.client) /\ j.uri \in Allowlist
          /\ j.exp <= k.at + CodeTtl + JwtTtl
    /\ \A a \in acts : a.token \in jwts /\ a.key[1] = a.token.user

\* "emit ... writer closed; reaped on next heartbeat": a session whose stream
\* was cancelled leaves the map.
CutSessionsReaped ==
    \A s \in SessionIds : session[s].wire = "cut" ~> ~session[s].listed

\* Every message a POST asked an answer for is answered on the stream of its
\* session, unless the stream or the hub goes first.
EveryMessageAnswered ==
    \A p \in Posts, s \in SessionIds : post[p].pc = "run" /\ post[p].session = s ~>
        \/ post[p].answered = post[p].asked /\ post[p].pc = "done"
        \/ post[p].pc = "lost"
        \/ session[s].wire # "up"

=============================================================================
