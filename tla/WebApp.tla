------------------------------- MODULE WebApp -------------------------------
(***************************************************************************)
(* The browser-facing back end, pkg/webapp/handler.go: OIDC login with     *)
(* state, nonce and PKCE, opaque server-side sessions, logout and the      *)
(* authenticated operations.  net/http runs every request on a goroutine   *)
(* of its own; the two maps are shared under one mutex.  A critical        *)
(* section is one action; between two critical sections, and across the    *)
(* calls to the identity provider, the agent and the collector, any other  *)
(* request may run.  Each request keeps what it read in its entry of req.  *)
(*                                                                         *)
(* time.Now keeps its monotonic reading here, so the clock never goes back.*)
(***************************************************************************)
EXTENDS Naturals, FiniteSets

CONSTANTS
    Handlers,          \* goroutines serving requests
    Logins,            \* values randomID can return for "state"; each also
                       \* names the nonce and the PKCE verifier drawn with it
    SessionIDs,        \* values randomID can return for a session
    Users,             \* people who can sign in at the identity provider
    None,              \* no value
    MaximumSessions,   \* Config.MaximumSessions
    PreAuthTTL,        \* Config.PreAuthTTL, in clock ticks
    SessionTTL,        \* Config.SessionTTL, in clock ticks
    MaxClock           \* bound: last instant considered

ASSUME ConfigAssumption ==
    /\ MaximumSessions \in Nat \ {0}
    /\ PreAuthTTL \in Nat \ {0}
    /\ SessionTTL \in Nat \ {0}
    /\ MaxClock \in Nat
    /\ IsFiniteSet(Logins)
    /\ IsFiniteSet(SessionIDs)
    /\ None \notin Logins \cup SessionIDs \cup Users

VARIABLES
    preAuth,           \* Handler.preAuth: login -> when it expires
    sessions,          \* Handler.sessions: session ID -> session
    req,               \* the request each goroutine is serving
    clock,             \* what config.Now() returns
    drawn,             \* logins and session IDs randomID has returned
    authorised,        \* at the provider: who consented to which login
    redeemed           \* at the provider: authorization codes already used

vars == <<preAuth, sessions, req, clock, drawn, authorised, redeemed>>

\* An authorization code is named by the login it was issued for; the access
\* token and the ID token it buys carry that name too.  "login" is which state
\* parameter the session was created under (the code does not store it).
Session == [subject : Users, accessToken : Logins, expires : Nat, login : Logins]

Steps == {"idle", "login", "consume", "exchange", "verify", "create",
          "logout", "invoke", "query"}

\* The last answer: 2xx or 3xx, or 4xx or 5xx.
Status == {"none", "done", "error"}

Request ==
    [pc : Steps, now : Nat,
     login : Logins \cup {None}, code : Logins \cup {None},
     id : SessionIDs \cup {None}, subject : Users \cup {None},
     status : Status]

Done(status) ==
    [pc |-> "idle", now |-> 0, login |-> None, code |-> None, id |-> None,
     subject |-> None, status |-> status]

TypeOK ==
    /\ DOMAIN preAuth \subseteq Logins
    /\ \A l \in DOMAIN preAuth : preAuth[l] \in Nat
    /\ DOMAIN sessions \subseteq SessionIDs
    /\ \A s \in DOMAIN sessions : sessions[s] \in Session
    /\ req \in [Handlers -> Request]
    /\ clock \in 0..MaxClock
    /\ drawn \subseteq Logins \cup SessionIDs
    /\ authorised \in [Logins -> Users \cup {None}]
    /\ redeemed \subseteq Logins

Empty == [x \in {} |-> 0]

Init ==
    /\ preAuth = Empty
    /\ sessions = Empty
    /\ req = [h \in Handlers |-> Done("none")]
    /\ clock = 0
    /\ drawn = {}
    /\ authorised = [l \in Logins |-> None]
    /\ redeemed = {}

-----------------------------------------------------------------------------
(* The maps *)

Put(map, key, value) ==
    [k \in DOMAIN map \cup {key} |-> IF k = key THEN value ELSE map[k]]

Remove(map, keys) == [k \in DOMAIN map \ keys |-> map[k]]

\* purgeLocked(now), one operator per map: what it leaves.
LivePreAuth(now) == Remove(preAuth, {l \in DOMAIN preAuth : ~(now < preAuth[l])})

\* Mutant: sessions are purged a tick before they expire.
LiveSessionsEarly(now) ==
    Remove(sessions, {s \in DOMAIN sessions : ~(now + 1 < sessions[s].expires)})

LiveSessions(now) ==
    Remove(sessions, {s \in DOMAIN sessions : ~(now < sessions[s].expires)})

Finish(h, status) == req' = [req EXCEPT ![h] = Done(status)]

At(h, step) == req[h].pc = step

provider == <<authorised, redeemed>>

-----------------------------------------------------------------------------
(* GET /login *)

\* randomID fails: no entropy.
LoginFails(h) ==
    /\ At(h, "idle")
    /\ Finish(h, "error")
    /\ UNCHANGED <<preAuth, sessions, clock, drawn, provider>>

\* State, nonce and verifier are drawn and the clock is read before the lock.
LoginBegin(h) ==
    /\ At(h, "idle")
    /\ \E l \in Logins \ drawn :
          /\ req' = [req EXCEPT ![h] = [Done("none") EXCEPT !.pc = "login",
                                                       !.now = clock, !.login = l]]
          /\ drawn' = drawn \cup {l}
    /\ UNCHANGED <<preAuth, sessions, clock, provider>>

LoginRoom(h) == Cardinality(DOMAIN LivePreAuth(req[h].now)) < MaximumSessions

LoginAccepted(h) ==
    /\ At(h, "login")
    /\ LoginRoom(h)
    /\ preAuth' = Put(LivePreAuth(req[h].now), req[h].login, req[h].now + PreAuthTTL)
    /\ sessions' = LiveSessions(req[h].now)
    /\ Finish(h, "done")
    /\ UNCHANGED <<clock, drawn, provider>>

LoginRefused(h) ==
    /\ At(h, "login")
    /\ ~LoginRoom(h)
    /\ preAuth' = LivePreAuth(req[h].now)
    /\ sessions' = LiveSessions(req[h].now)
    /\ Finish(h, "error")
    /\ UNCHANGED <<clock, drawn, provider>>

\* At the provider, a person signs in for a login that was sent there.
Authorize(l, user) ==
    /\ l \in drawn
    /\ authorised[l] = None
    /\ authorised' = [authorised EXCEPT ![l] = user]
    /\ UNCHANGED <<preAuth, sessions, req, clock, drawn, redeemed>>

-----------------------------------------------------------------------------
(* GET /oauth/callback *)

\* Not exactly one state and one code, or an error parameter; on the other
\* routes, no session cookie.  Neither takes the lock.
RejectedEarly(h) ==
    /\ At(h, "idle")
    /\ Finish(h, "error")
    /\ UNCHANGED <<preAuth, sessions, clock, drawn, provider>>

\* The browser may present any state with any code.  The clock is read here,
\* once, and used in both critical sections.
CallbackBegin(h, state, code) ==
    /\ At(h, "idle")
    /\ req' = [req EXCEPT ![h] = [Done("none") EXCEPT !.pc = "consume", !.now = clock,
                                                 !.login = state, !.code = code]]
    /\ UNCHANGED <<preAuth, sessions, clock, drawn, provider>>

\* Mutant: the state is looked up and left in place.
CallbackConsumeKeeps(h) ==
    LET live == LivePreAuth(req[h].now) IN
    /\ At(h, "consume")
    /\ preAuth' = live
    /\ sessions' = LiveSessions(req[h].now)
    /\ \/ /\ req[h].login \in DOMAIN live
          /\ req' = [req EXCEPT ![h].pc = "exchange"]
       \/ /\ req[h].login \notin DOMAIN live
          /\ Finish(h, "error")
    /\ UNCHANGED <<clock, drawn, provider>>

\* The state is looked up and deleted in one critical section.
CallbackConsume(h) ==
    LET live == LivePreAuth(req[h].now) IN
    /\ At(h, "consume")
    /\ preAuth' = Remove(live, {req[h].login})
    /\ sessions' = LiveSessions(req[h].now)
    /\ \/ /\ req[h].login \in DOMAIN live
          /\ req' = [req EXCEPT ![h].pc = "exchange"]
       \/ /\ req[h].login \notin DOMAIN live
          /\ Finish(h, "error")
    /\ UNCHANGED <<clock, drawn, provider>>

\* The token endpoint answers with tokens.  It redeems a code once; whether it
\* also compares the PKCE verifier is not relied on.
ExchangeSucceeds(h) ==
    /\ At(h, "exchange")
    /\ authorised[req[h].code] # None
    /\ req[h].code \notin redeemed
    /\ redeemed' = redeemed \cup {req[h].code}
    /\ req' = [req EXCEPT ![h].pc = "verify"]
    /\ UNCHANGED <<preAuth, sessions, clock, drawn, authorised>>

\* Mutant: a failed exchange is tried again for ever.
ExchangeRetries(h) ==
    /\ At(h, "exchange")
    /\ redeemed' \in {redeemed, redeemed \cup {req[h].code}}
    /\ UNCHANGED <<preAuth, sessions, req, clock, drawn, authorised>>

\* No answer, a refusal, an unusable answer or a refresh token in it.  The
\* provider may have redeemed the code all the same.
ExchangeFails(h) ==
    /\ At(h, "exchange")
    /\ redeemed' \in {redeemed, redeemed \cup {req[h].code}}
    /\ Finish(h, "error")
    /\ UNCHANGED <<preAuth, sessions, clock, drawn, authorised>>

\* Mutant: the nonce is not compared.
NonceUnchecked(h) == TRUE

\* VerifyIDToken: the nonce in the ID token is the one of the code's login and
\* must be the one stored with the state.
NonceMatches(h) == req[h].code = req[h].login

\* Mutant: the verified subject is not kept.
VerifySucceedsAnonymous(h) ==
    /\ At(h, "verify")
    /\ NonceMatches(h)
    /\ req' = [req EXCEPT ![h].pc = "create"]
    /\ UNCHANGED <<preAuth, sessions, clock, drawn, provider>>

VerifySucceeds(h) ==
    /\ At(h, "verify")
    /\ NonceMatches(h)
    /\ req' = [req EXCEPT ![h] = [@ EXCEPT !.pc = "create",
                                           !.subject = authorised[req[h].code]]]
    /\ UNCHANGED <<preAuth, sessions, clock, drawn, provider>>

\* The nonce differs, or keys, signature, issuer, audience or time are wrong.
VerifyFails(h) ==
    /\ At(h, "verify")
    /\ Finish(h, "error")
    /\ UNCHANGED <<preAuth, sessions, clock, drawn, provider>>

\* Mutant: off by one at capacity.
SessionRoomInclusive(h) ==
    Cardinality(DOMAIN LiveSessions(req[h].now)) <= MaximumSessions

SessionRoom(h) == Cardinality(DOMAIN LiveSessions(req[h].now)) < MaximumSessions

\* The second critical section purges and stamps with the clock read at the
\* start of the request.
CallbackCreate(h) ==
    /\ At(h, "create")
    /\ SessionRoom(h)
    /\ \E id \in SessionIDs \ drawn :
          /\ drawn' = drawn \cup {id}
          /\ sessions' = Put(LiveSessions(req[h].now), id,
                             [subject |-> req[h].subject,
                              accessToken |-> req[h].code,
                              expires |-> req[h].now + SessionTTL,
                              login |-> req[h].login])
    /\ preAuth' = LivePreAuth(req[h].now)
    /\ Finish(h, "done")
    /\ UNCHANGED <<clock, provider>>

CallbackRefused(h) ==
    /\ At(h, "create")
    /\ ~SessionRoom(h)
    /\ preAuth' = LivePreAuth(req[h].now)
    /\ sessions' = LiveSessions(req[h].now)
    /\ Finish(h, "error")
    /\ UNCHANGED <<clock, drawn, provider>>

\* randomID fails for the session ID or the CSRF token.
CallbackNoEntropy(h) ==
    /\ At(h, "create")
    /\ Finish(h, "error")
    /\ UNCHANGED <<preAuth, sessions, clock, drawn, provider>>

-----------------------------------------------------------------------------
(* Authenticated operations *)

\* authenticate: the clock is read inside the critical section.
authenticate(id, ok) ==
    /\ ok = (id \in DOMAIN LiveSessions(clock))
    /\ preAuth' = LivePreAuth(clock)
    /\ sessions' = LiveSessions(clock)

\* Any authenticated operation without a live session, or with a wrong Origin
\* or CSRF token where one is required.
Unauthorized(h, id) ==
    /\ At(h, "idle")
    /\ \E ok \in BOOLEAN : authenticate(id, ok)
    /\ Finish(h, "error")
    /\ UNCHANGED <<clock, drawn, provider>>

\* GET /api/session, and a POST whose body or tool/purpose pair is rejected.
AnsweredAtOnce(h, id) ==
    /\ At(h, "idle")
    /\ authenticate(id, TRUE)
    /\ \E status \in {"done", "error"} : Finish(h, status)
    /\ UNCHANGED <<clock, drawn, provider>>

\* POST /logout, POST /api/interactions and GET /api/interactions: after
\* authentication the request goes on with a copy of what it needs.
AuthenticatedBegin(h, id, step) ==
    /\ At(h, "idle")
    /\ authenticate(id, TRUE)
    /\ req' = [req EXCEPT ![h] = [Done("none") EXCEPT !.pc = step, !.id = id,
                                     !.subject = sessions[id].subject,
                                     !.code = sessions[id].accessToken]]
    /\ UNCHANGED <<clock, drawn, provider>>

LogoutDelete(h) ==
    /\ At(h, "logout")
    /\ sessions' = Remove(sessions, {req[h].id})
    /\ Finish(h, "done")
    /\ UNCHANGED <<preAuth, clock, drawn, provider>>

\* The agent's Invoke answers or does not.
InvokeReturn(h) ==
    /\ At(h, "invoke")
    /\ \E status \in {"done", "error"} : Finish(h, status)
    /\ UNCHANGED <<preAuth, sessions, clock, drawn, provider>>

\* The audit reader's query to the collector: the records, none for this user,
\* or no usable answer.
QueryStatus == {"done", "error"}

QueryReturn(h) ==
    /\ At(h, "query")
    /\ \E status \in QueryStatus : Finish(h, status)
    /\ UNCHANGED <<preAuth, sessions, clock, drawn, provider>>

Tick ==
    /\ clock < MaxClock
    /\ clock' = clock + 1
    /\ UNCHANGED <<preAuth, sessions, req, drawn, provider>>

-----------------------------------------------------------------------------
\* A request that has begun goes on by itself.
Continue(h) ==
    \/ LoginAccepted(h) \/ LoginRefused(h)
    \/ CallbackConsume(h)
    \/ ExchangeSucceeds(h) \/ ExchangeFails(h)
    \/ VerifySucceeds(h) \/ VerifyFails(h)
    \/ CallbackCreate(h) \/ CallbackRefused(h) \/ CallbackNoEntropy(h)
    \/ LogoutDelete(h) \/ InvokeReturn(h) \/ QueryReturn(h)

Begin(h) ==
    \/ LoginFails(h)
    \/ LoginBegin(h)
    \/ RejectedEarly(h)
    \/ \E state, code \in Logins : CallbackBegin(h, state, code)
    \/ \E id \in SessionIDs : Unauthorized(h, id)
    \/ \E id \in SessionIDs : AnsweredAtOnce(h, id)
    \/ \E id \in SessionIDs, step \in {"logout", "invoke", "query"} :
          AuthenticatedBegin(h, id, step)

Next ==
    \/ \E h \in Handlers : Begin(h)
    \/ \E h \in Handlers : Continue(h)
    \/ \E l \in Logins, user \in Users : Authorize(l, user)
    \/ Tick

Spec == Init /\ [][Next]_vars

\* Goroutines are scheduled, the mutex is not starved and every outgoing call
\* has a client timeout (New requires one).
FairSpec == Spec /\ \A h \in Handlers : WF_vars(Continue(h))

-----------------------------------------------------------------------------
(* Properties *)

Drawing(h, l) == req[h].login = l /\ req[h].pc = "login"

Redeeming(h, l) == req[h].login = l /\ req[h].pc \in {"exchange", "verify", "create"}

SessionsOf(l) == {s \in DOMAIN sessions : sessions[s].login = l}

\* A state is consumed once: while a callback is redeeming a login no other
\* callback is, the state is gone from preAuth and no session exists for it;
\* and one login never owns two sessions ("consume once, including failed
\* exchanges", callback).
LoginExclusive ==
    \A l \in Logins :
        /\ \A g, h \in Handlers : Redeeming(g, l) /\ Redeeming(h, l) => g = h
        /\ (\E h \in Handlers : Redeeming(h, l)) =>
              l \notin DOMAIN preAuth /\ SessionsOf(l) = {}
        /\ \A s, t \in SessionsOf(l) : s = t
        /\ l \in DOMAIN preAuth => SessionsOf(l) = {}

\* "Capacity exhaustion fails the request rather than evicting an active
\* identity": a session changes or leaves the map only when it has expired or
\* when a logout that authenticated as it deletes it; a waiting login leaves
\* only when it has expired or its own callback consumes it.
NoLiveEviction ==
    [][/\ \A s \in DOMAIN sessions :
             \/ s \in DOMAIN sessions' /\ sessions'[s] = sessions[s]
             \/ sessions[s].expires <= clock
             \/ \E h \in Handlers : At(h, "logout") /\ req[h].id = s /\ At(h, "idle")'
       /\ \A l \in DOMAIN preAuth :
             \/ l \in DOMAIN preAuth' /\ preAuth'[l] = preAuth[l]
             \/ preAuth[l] <= clock
             \/ \E h \in Handlers : At(h, "consume") /\ req[h].login = l /\ ~At(h, "consume")'
      ]_vars

\* Where a login is in its life, as the abstract specification sees it.
PhaseOf(l) ==
    IF l \in DOMAIN preAuth THEN "pending"
    ELSE IF \E h \in Handlers : Redeeming(h, l) THEN "redeeming"
    ELSE IF SessionsOf(l) # {} THEN "session"
    ELSE IF l \notin drawn \/ \E h \in Handlers : Drawing(h, l) THEN "unused"
    ELSE "closed"

Lifecycle == INSTANCE LoginLifecycle WITH
                Capacity <- MaximumSessions,
                phase    <- [l \in Logins |-> PhaseOf(l)]

\* Whoever consented to a login at the provider is the subject of the session
\* created under its state, and the session holds the access token of that
\* same login, even when callbacks mix states and codes.  An operation goes on
\* with the copy it took of its session, also when the session is meanwhile
\* logged out, expired or purged: it still acts for that person, and the login
\* has been redeemed for good, so that no other callback is under way with it
\* or can start (callback, invokeInteraction, listInteractions).
ActsForItsUser ==
    /\ \A s \in DOMAIN sessions :
          /\ sessions[s].accessToken = sessions[s].login
          /\ sessions[s].subject = authorised[sessions[s].login]
    /\ \A h \in Handlers : req[h].pc \in {"logout", "invoke", "query"} =>
          /\ req[h].subject = authorised[req[h].code]
          /\ req[h].code \in redeemed
          /\ PhaseOf(req[h].code) \in {"session", "closed"}

\* Every login only moves forward through its life, whatever the interleaving
\* of callbacks, logouts and expiries: nothing consumed, refused, expired or
\* logged out comes back, and requests that judge the capacity with a clock they
\* read earlier never exceed it (login, callback, logout).
ImplementsLifecycle == Lifecycle!Spec

\* Every request is answered.
RequestsAnswered == \A h \in Handlers : ~At(h, "idle") ~> At(h, "idle")

=============================================================================
