----------------------------- MODULE WebAppProofs -----------------------------
(***************************************************************************)
(* Proofs about WebApp, for any number of concurrent requests and any sets *)
(* of logins, sessions and users: its invariants, that capacity never      *)
(* evicts, and that it implements LoginLifecycle.                          *)
(***************************************************************************)
EXTENDS WebApp, FiniteSetTheorems, TLAPS

-----------------------------------------------------------------------------
(* The inductive invariant *)

\* A request that has drawn or is redeeming a login has it to itself.
Holds(h, l) == Drawing(h, l) \/ Redeeming(h, l)

Operating(h) == req[h].pc \in {"logout", "invoke", "query"}

\* What a request has established by the step it is at.
HandlerOK(h) ==
    LET r == req[h] IN
    /\ r.now <= clock
    /\ r.pc \in {"login", "consume", "exchange", "verify", "create"} => r.login \in Logins
    /\ r.pc \in {"login", "exchange", "verify", "create"} => r.login \in drawn
    /\ r.pc \in {"consume", "exchange", "verify", "create"} => r.code \in Logins
    /\ r.pc \in {"verify", "create"} => r.code \in redeemed /\ authorised[r.code] # None
    /\ r.pc = "create" => r.code = r.login /\ r.subject = authorised[r.code]
    /\ Operating(h) =>
          /\ r.code \in Logins \cap drawn \cap redeemed
          /\ authorised[r.code] # None /\ r.subject = authorised[r.code]
          /\ r.code \notin DOMAIN preAuth

\* A login is in one place: being drawn, waiting, being redeemed by one
\* callback, or in one session.
LoginOK(l) ==
    /\ \A g, h \in Handlers : Holds(g, l) /\ Holds(h, l) => g = h
    /\ (\E h \in Handlers : Holds(h, l)) =>
          l \in drawn /\ l \notin DOMAIN preAuth /\ SessionsOf(l) = {}
    /\ l \in DOMAIN preAuth => l \in drawn /\ SessionsOf(l) = {}
    /\ \A s, t \in SessionsOf(l) : s = t

SessionOK(s) ==
    /\ s \in drawn
    /\ sessions[s].login \in drawn \cap redeemed
    /\ sessions[s].accessToken = sessions[s].login
    /\ sessions[s].subject = authorised[sessions[s].login]

\* Nobody redeems again what an authenticated operation acts for.
Over ==
    \A g, h \in Handlers : Operating(h) => ~Holds(g, req[h].code)

WithinCapacity ==
    /\ Cardinality(DOMAIN preAuth) <= MaximumSessions
    /\ Cardinality(DOMAIN sessions) <= MaximumSessions

IInv ==
    /\ TypeOK
    /\ \A h \in Handlers : HandlerOK(h)
    /\ \A l \in Logins : LoginOK(l)
    /\ \A s \in DOMAIN sessions : SessionOK(s)
    /\ Over
    /\ WithinCapacity

-----------------------------------------------------------------------------
(* The maps *)

\* What Remove leaves of a map.
LEMMA RemoveFacts ==
    ASSUME NEW map, NEW keys
    PROVE  /\ DOMAIN Remove(map, keys) = DOMAIN map \ keys
           /\ \A k \in DOMAIN map \ keys : Remove(map, keys)[k] = map[k]
  BY DEF Remove

\* What purgeLocked leaves and what it takes.
LEMMA LiveFacts ==
    ASSUME NEW now
    PROVE  /\ DOMAIN LivePreAuth(now) \subseteq DOMAIN preAuth
           /\ \A l \in DOMAIN LivePreAuth(now) : LivePreAuth(now)[l] = preAuth[l]
           /\ \A l \in DOMAIN preAuth : l \notin DOMAIN LivePreAuth(now) => ~(now < preAuth[l])
           /\ DOMAIN LiveSessions(now) \subseteq DOMAIN sessions
           /\ \A s \in DOMAIN LiveSessions(now) : LiveSessions(now)[s] = sessions[s]
           /\ \A s \in DOMAIN sessions :
                 s \notin DOMAIN LiveSessions(now) => ~(now < sessions[s].expires)
  BY DEF LivePreAuth, LiveSessions, Remove

\* The two maps are finite.
LEMMA Finite ==
    ASSUME TypeOK
    PROVE  IsFiniteSet(DOMAIN preAuth) /\ IsFiniteSet(DOMAIN sessions)
  BY ConfigAssumption, FS_Subset DEF TypeOK

\* Taking entries away keeps within capacity.
LEMMA Fewer ==
    ASSUME IInv, NEW S, S \subseteq DOMAIN preAuth \/ S \subseteq DOMAIN sessions
    PROVE  Cardinality(S) <= MaximumSessions
  <1>1. \A T : IsFiniteSet(T) /\ S \subseteq T /\ Cardinality(T) <= MaximumSessions
               => Cardinality(S) <= MaximumSessions
    <2> SUFFICES ASSUME NEW T, IsFiniteSet(T), S \subseteq T, Cardinality(T) <= MaximumSessions
                 PROVE  Cardinality(S) <= MaximumSessions
      OBVIOUS
    <2>1. IsFiniteSet(S) /\ Cardinality(S) <= Cardinality(T)
      BY FS_Subset
    <2>2. Cardinality(S) \in Nat /\ Cardinality(T) \in Nat
      BY <2>1, FS_CardinalityType
    <2>3. QED
      BY <2>1, <2>2, ConfigAssumption
  <1>2. QED
    BY <1>1, Finite DEF IInv, WithinCapacity

\* One more than fewer than the capacity is still within it.
LEMMA OneMore ==
    ASSUME NEW S, IsFiniteSet(S), NEW x, Cardinality(S) < MaximumSessions
    PROVE  Cardinality(S \cup {x}) <= MaximumSessions
  <1>1. /\ Cardinality(S \cup {x}) = IF x \in S THEN Cardinality(S) ELSE Cardinality(S) + 1
        /\ Cardinality(S) \in Nat
    BY FS_AddElement, FS_CardinalityType
  <1>2. QED
    BY <1>1, ConfigAssumption

-----------------------------------------------------------------------------
(* A step of one request *)

\* What the request of handler h may do to the rest in one step.
Moves(h) ==
    /\ TypeOK'
    /\ UNCHANGED <<clock, authorised>>
    /\ drawn \subseteq drawn' /\ redeemed \subseteq redeemed'
    /\ \A g \in Handlers \ {h} : req'[g] = req[g]
    /\ HandlerOK(h)'
    /\ \A l \in Logins :
          /\ Drawing(h, l)' => Drawing(h, l) \/ l \notin drawn
          /\ Redeeming(h, l)' =>
                \/ Redeeming(h, l)
                \/ /\ At(h, "consume") /\ req[h].login = l
                   /\ l \in DOMAIN preAuth \ DOMAIN preAuth'
          /\ l \in DOMAIN preAuth' =>
                l \in DOMAIN preAuth \/ (Drawing(h, l) /\ req'[h].pc = "idle")
    /\ \A l \in DOMAIN preAuth :
          \/ l \in DOMAIN preAuth' /\ preAuth'[l] = preAuth[l]
          \/ preAuth[l] <= clock
          \/ At(h, "consume") /\ req[h].login = l /\ ~At(h, "consume")'
    /\ \A s \in DOMAIN sessions :
          \/ s \in DOMAIN sessions' /\ sessions'[s] = sessions[s]
          \/ sessions[s].expires <= clock
          \/ At(h, "logout") /\ req[h].id = s /\ At(h, "idle")'
    /\ \A s \in DOMAIN sessions' :
          \/ s \in DOMAIN sessions /\ sessions'[s] = sessions[s]
          \/ /\ s \notin drawn /\ SessionOK(s)'
             /\ Redeeming(h, sessions'[s].login) /\ req'[h].pc = "idle"
    /\ \A s, t \in DOMAIN sessions' : s \notin DOMAIN sessions /\ t \notin DOMAIN sessions => s = t
    /\ Operating(h)' => \A g \in Handlers : ~Holds(g, req'[h].code)
    /\ WithinCapacity'

\* A step of one request that moves as Moves says keeps the invariant.
LEMMA MovesSafe ==
    ASSUME IInv, NEW h \in Handlers, Moves(h)
    PROVE  IInv'
  <1>1. ASSUME NEW l \in Logins, NEW g \in Handlers, Holds(g, l)'
        PROVE  /\ l \in drawn' /\ l \notin DOMAIN preAuth'
               /\ \A s \in DOMAIN sessions' : sessions'[s].login # l
               /\ \A k \in Handlers : Holds(k, l)' => k = g
    <2>1. LoginOK(l)
      BY DEF IInv
    <2>2. CASE g # h
      <3>1. Holds(g, l)
        BY <1>1, <2>2 DEF Moves, Holds, Drawing, Redeeming
      <3>2. l \in drawn /\ l \notin DOMAIN preAuth /\ SessionsOf(l) = {}
            /\ \A k \in Handlers : Holds(k, l) => k = g
        BY <2>1, <3>1 DEF LoginOK
      <3>3. ~Holds(h, l) /\ ~Holds(h, l)'
        BY <2>2, <3>2 DEF Moves, Holds
      <3>4. l \in drawn' /\ l \notin DOMAIN preAuth'
        BY <3>2, <3>3 DEF Moves, Holds
      <3>5. \A s \in DOMAIN sessions' : sessions'[s].login # l
        BY <3>2, <3>3 DEF Moves, Holds, SessionsOf
      <3>6. \A k \in Handlers : Holds(k, l)' => k = g
        BY <3>2, <3>3 DEF Moves, Holds, Drawing, Redeeming
      <3>7. QED
        BY <3>4, <3>5, <3>6
    <2>3. CASE g = h
      <3>0. req'[h].pc # "idle"
        BY <1>1, <2>3 DEF Holds, Drawing, Redeeming
      <3>1. Holds(h, l) \/ l \notin drawn \/ l \in DOMAIN preAuth \ DOMAIN preAuth'
        BY <1>1, <2>3 DEF Moves, Holds
      <3>2. l \notin DOMAIN preAuth' /\ SessionsOf(l) = {}
        BY <2>1, <3>0, <3>1 DEF LoginOK, Moves, SessionsOf, IInv, SessionOK
      <3>3. \A k \in Handlers \ {h} : ~Holds(k, l)
        BY <2>1, <3>1 DEF LoginOK
      <3>4. \A k \in Handlers : Holds(k, l)' => k = g
        BY <2>3, <3>3 DEF Moves, Holds, Drawing, Redeeming
      <3>5. \A s \in DOMAIN sessions' : sessions'[s].login # l
        BY <3>0, <3>2 DEF Moves, SessionsOf
      <3>6. l \in drawn'
        BY <1>1, <2>3 DEF Moves, HandlerOK, Holds, Drawing, Redeeming
      <3>7. QED
        BY <3>2, <3>4, <3>5, <3>6
    <2>4. QED
      BY <2>2, <2>3

  <1>2. ASSUME NEW l \in Logins PROVE LoginOK(l)'
    <2>1. LoginOK(l)
      BY DEF IInv
    <2>2. ASSUME l \in DOMAIN preAuth'
          PROVE  l \in drawn' /\ \A s \in DOMAIN sessions' : sessions'[s].login # l
      <3>1. l \in drawn /\ SessionsOf(l) = {}
        BY <2>1, <2>2 DEF LoginOK, Moves, Holds
      <3>2. ~Redeeming(h, l)
        BY <2>1, <2>2 DEF LoginOK, Moves, Holds, Drawing, Redeeming
      <3>3. QED
        BY <3>1, <3>2 DEF Moves, SessionsOf
    <2>3. ASSUME NEW s \in DOMAIN sessions', NEW t \in DOMAIN sessions',
                 sessions'[s].login = l, sessions'[t].login = l
          PROVE  s = t
      <3>1. CASE s \in DOMAIN sessions /\ sessions'[s] = sessions[s]
        <4>1. s \in SessionsOf(l) /\ ~Redeeming(h, l)
          BY <2>1, <2>3, <3>1 DEF LoginOK, SessionsOf, Holds
        <4>2. t \in SessionsOf(l)
          BY <2>3, <4>1 DEF Moves, SessionsOf
        <4>3. QED
          BY <2>1, <4>1, <4>2 DEF LoginOK
      <3>2. CASE Redeeming(h, l) /\ s \notin drawn
        <4>1. SessionsOf(l) = {}
          BY <2>1, <3>2 DEF LoginOK, Holds
        <4>2. t \notin drawn
          BY <2>3, <4>1 DEF Moves, SessionsOf
        <4>3. s \notin DOMAIN sessions /\ t \notin DOMAIN sessions
          BY <3>2, <4>2 DEF IInv, SessionOK
        <4>4. QED
          BY <4>3 DEF Moves
      <3>3. QED
        BY <2>3, <3>1, <3>2 DEF Moves
    <2>4. QED
      BY <1>1, <2>2, <2>3 DEF LoginOK, SessionsOf
  <1>3. ASSUME NEW s \in DOMAIN sessions' PROVE SessionOK(s)'
    BY <1>3 DEF Moves, IInv, SessionOK
  <1>4. ASSUME NEW g \in Handlers PROVE HandlerOK(g)'
    <2>1. CASE g = h
      BY <2>1 DEF Moves
    <2>2. CASE g # h
      <3>1. /\ req'[g] = req[g] /\ clock' = clock /\ authorised' = authorised
            /\ drawn \subseteq drawn' /\ redeemed \subseteq redeemed' /\ HandlerOK(g)
        BY <2>2 DEF Moves, IInv
      <3>2. Operating(g) => req[g].code \notin DOMAIN preAuth'
        <4>1. Operating(g) => /\ req[g].code \in Logins /\ req[g].code \notin DOMAIN preAuth
                              /\ ~Holds(h, req[g].code)
          BY <3>1 DEF HandlerOK, IInv, Over
        <4>2. QED
          BY <4>1 DEF Moves, Holds
      <3>3. QED
        BY <3>1, <3>2 DEF HandlerOK, Operating
    <2>3. QED
      BY <2>1, <2>2
  <1>5. Over'
    <2> SUFFICES ASSUME NEW g \in Handlers, NEW k \in Handlers, Operating(k)', Holds(g, req[k].code)'
                 PROVE  FALSE
      BY DEF Over
    <2>1. /\ req'[k].code \in Logins /\ req'[k].code \in drawn'
          /\ req'[k].code \notin DOMAIN preAuth'
      BY <1>4 DEF HandlerOK
    <2>2. CASE k # h
      <3>1. /\ Operating(k) /\ req'[k].code = req[k].code
            /\ req[k].code \in drawn /\ req[k].code \notin DOMAIN preAuth
            /\ ~Holds(g, req[k].code)
        BY <2>2 DEF Moves, Operating, IInv, HandlerOK, Over
      <3>2. Holds(g, req[k].code)'
        BY <3>1 DEF Holds, Drawing, Redeeming
      <3>3. g # h => Holds(g, req[k].code)
        BY <3>1, <3>2 DEF Moves, Holds, Drawing, Redeeming
      <3>4. g = h => Holds(g, req[k].code)
        BY <2>1, <3>1, <3>2 DEF Moves, Holds, Drawing, Redeeming
      <3>5. QED
        BY <3>1, <3>3, <3>4
    <2>3. CASE k = h
      <3>1. g # h
        BY <2>3 DEF Operating, Holds, Drawing, Redeeming
      <3>2. QED
        BY <2>3, <3>1 DEF Moves, Holds, Drawing, Redeeming
    <2>4. QED
      BY <2>2, <2>3
  <1>6. QED
    BY <1>2, <1>3, <1>4, <1>5 DEF IInv, Moves

-----------------------------------------------------------------------------
(* The steps of a request *)

\* The maps lose nothing that is still alive, and gain nothing.
Shrunk ==
    /\ DOMAIN preAuth' \subseteq DOMAIN preAuth
    /\ \A l \in DOMAIN preAuth' : preAuth'[l] = preAuth[l]
    /\ \A l \in DOMAIN preAuth : l \in DOMAIN preAuth' \/ preAuth[l] <= clock
    /\ DOMAIN sessions' \subseteq DOMAIN sessions
    /\ \A s \in DOMAIN sessions' : sessions'[s] = sessions[s]
    /\ \A s \in DOMAIN sessions : s \in DOMAIN sessions' \/ sessions[s].expires <= clock

\* Maps that do not change have only lost what they may lose.
LEMMA StayShrunk ==
    ASSUME UNCHANGED <<preAuth, sessions>>
    PROVE  Shrunk
  BY DEF Shrunk

\* Purging with a clock read earlier, or now, takes only what has expired.
LEMMA PurgeShrunk ==
    ASSUME IInv, NEW now \in Nat, now <= clock,
           preAuth' = LivePreAuth(now), sessions' = LiveSessions(now)
    PROVE  Shrunk
  <1>1. clock \in Nat /\ (\A l \in DOMAIN preAuth : preAuth[l] \in Nat)
        /\ \A s \in DOMAIN sessions : sessions[s].expires \in Nat
    BY ConfigAssumption DEF IInv, TypeOK, Session
  <1>2. QED
    BY <1>1, LiveFacts DEF Shrunk

\* One goroutine's request is replaced: the others stay.
LEMMA ReqUpdate ==
    ASSUME TypeOK, NEW h \in Handlers, NEW r \in Request, req' = [req EXCEPT ![h] = r]
    PROVE  /\ req' \in [Handlers -> Request]
           /\ req'[h] = r
           /\ \A g \in Handlers \ {h} : req'[g] = req[g]
  BY DEF TypeOK

\* A step that adds nothing to the maps moves, if its request takes no login
\* that it did not have.
LEMMA ShrunkMoves ==
    ASSUME IInv, NEW h \in Handlers, Shrunk, UNCHANGED <<clock, authorised>>,
           drawn \subseteq drawn', drawn' \subseteq Logins \cup SessionIDs,
           redeemed \subseteq redeemed', redeemed' \subseteq Logins,
           NEW r \in Request, req' = [req EXCEPT ![h] = r], HandlerOK(h)',
           \A l \in Logins : Drawing(h, l)' => l \notin drawn,
           \A l \in Logins : Redeeming(h, l)' => Redeeming(h, l),
           r.pc \in {"logout", "invoke", "query"} => \A g \in Handlers : ~Holds(g, r.code)
    PROVE  Moves(h)
  <1>1. /\ req' \in [Handlers -> Request] /\ req'[h] = r
        /\ \A g \in Handlers \ {h} : req'[g] = req[g]
    BY ReqUpdate DEF IInv
  <1>2. TypeOK'
    BY <1>1 DEF IInv, TypeOK, Shrunk
  <1>3. WithinCapacity'
    BY Fewer DEF Shrunk, WithinCapacity
  <1>4. Operating(h)' => \A g \in Handlers : ~Holds(g, req'[h].code)
    BY <1>1 DEF Operating
  <1>5. QED
    BY <1>1, <1>2, <1>3, <1>4 DEF Moves, Shrunk

\* A goroutine that has answered is idle.
LEMMA DoneRecord ==
    ASSUME NEW status \in Status
    PROVE  /\ Done(status) \in Request /\ Done(status).pc = "idle"
           /\ Done(status).now = 0
  BY DEF Done, Request, Steps

\* A request that is answered while the maps lose nothing alive.
LEMMA DoneMoves ==
    ASSUME IInv, NEW h \in Handlers, Shrunk, UNCHANGED <<clock, authorised, drawn>>,
           redeemed \subseteq redeemed', redeemed' \subseteq Logins,
           NEW status \in Status, Finish(h, status)
    PROVE  Moves(h)
  <1> DEFINE r == Done(status)
  <1>1. r \in Request /\ r.pc = "idle" /\ r.now = 0
    BY DoneRecord
  <1>2. req' = [req EXCEPT ![h] = r]
    BY DEF Finish
  <1> HIDE DEF r
  <1>3. req'[h] = r
    BY <1>1, <1>2, ReqUpdate DEF IInv
  <1>4. HandlerOK(h)' /\ \A l \in Logins : ~Drawing(h, l)' /\ ~Redeeming(h, l)'
    BY <1>1, <1>3, ConfigAssumption
       DEF HandlerOK, Operating, Drawing, Redeeming, IInv, TypeOK
  <1>5. drawn' \subseteq Logins \cup SessionIDs
    BY DEF IInv, TypeOK
  <1>6. QED
    BY <1>1, <1>2, <1>4, <1>5, ShrunkMoves

\* Every step that ends a request with an answer moves (all the error paths,
\* invokeInteraction, listInteractions).
LEMMA FinishMoves ==
    ASSUME IInv, NEW h \in Handlers,
           \/ LoginFails(h) \/ RejectedEarly(h) \/ ExchangeFails(h) \/ VerifyFails(h)
           \/ CallbackNoEntropy(h) \/ InvokeReturn(h) \/ QueryReturn(h)
           \/ LoginRefused(h) \/ CallbackRefused(h)
           \/ \E id \in SessionIDs : Unauthorized(h, id) \/ AnsweredAtOnce(h, id)
    PROVE  Moves(h)
  <1>1. {"none", "done", "error"} \subseteq Status
    BY DEF Status
  <1>2. /\ req[h].now \in Nat /\ req[h].now <= clock /\ clock \in Nat /\ clock <= clock
        /\ redeemed \subseteq Logins
    BY ConfigAssumption DEF IInv, TypeOK, Request, HandlerOK
  <1>3. CASE \/ LoginFails(h) \/ RejectedEarly(h) \/ VerifyFails(h)
             \/ CallbackNoEntropy(h) \/ InvokeReturn(h) \/ QueryReturn(h)
    <2>1. \E status \in {"done", "error"} : Finish(h, status)
      BY <1>3 DEF LoginFails, RejectedEarly, VerifyFails, CallbackNoEntropy, InvokeReturn,
                  QueryReturn, QueryStatus
    <2>2. UNCHANGED <<preAuth, sessions, clock, authorised, drawn, redeemed>>
      BY <1>3 DEF LoginFails, RejectedEarly, VerifyFails, CallbackNoEntropy, InvokeReturn,
                  QueryReturn, provider
    <2>3. QED
      BY <1>1, <1>2, <2>1, <2>2, StayShrunk, DoneMoves
  <1>4. CASE ExchangeFails(h)
    <2>1. req[h].code \in Logins
      BY <1>4 DEF IInv, HandlerOK, ExchangeFails, At
    <2>2. /\ redeemed \subseteq redeemed' /\ redeemed' \subseteq Logins
          /\ UNCHANGED <<preAuth, sessions, clock, authorised, drawn>> /\ Finish(h, "error")
      BY <1>2, <1>4, <2>1 DEF ExchangeFails
    <2>3. QED
      BY <1>1, <2>2, StayShrunk, DoneMoves
  <1>5. CASE LoginRefused(h) \/ CallbackRefused(h)
    <2>1. /\ preAuth' = LivePreAuth(req[h].now) /\ sessions' = LiveSessions(req[h].now)
          /\ UNCHANGED <<clock, authorised, drawn, redeemed>> /\ Finish(h, "error")
      BY <1>5 DEF LoginRefused, CallbackRefused, provider
    <2>2. Shrunk
      BY <1>2, <2>1, PurgeShrunk
    <2>3. QED
      BY <1>1, <1>2, <2>1, <2>2, DoneMoves
  <1>6. ASSUME NEW id \in SessionIDs, Unauthorized(h, id) \/ AnsweredAtOnce(h, id)
        PROVE  Moves(h)
    <2>1. /\ preAuth' = LivePreAuth(clock) /\ sessions' = LiveSessions(clock)
          /\ UNCHANGED <<clock, authorised, drawn, redeemed>>
          /\ \E status \in {"done", "error"} : Finish(h, status)
      BY <1>6 DEF Unauthorized, AnsweredAtOnce, authenticate, provider
    <2>2. Shrunk
      BY <1>2, <2>1, PurgeShrunk
    <2>3. QED
      BY <1>1, <1>2, <2>1, <2>2, DoneMoves
  <1>7. QED
    BY <1>3, <1>4, <1>5, <1>6

\* The steps of a request by name.
LEMMA StepNames ==
    /\ {"idle", "login", "consume", "exchange", "verify", "create", "logout", "invoke",
        "query"} \subseteq Steps
    /\ "none" \in Status
  BY DEF Steps, Status

\* login reads the clock and draws a state before the lock.
LEMMA LoginBeginMoves ==
    ASSUME IInv, NEW h \in Handlers, LoginBegin(h)
    PROVE  Moves(h)
  <1>1. PICK l \in Logins \ drawn :
           /\ req' = [req EXCEPT ![h] = [Done("none") EXCEPT !.pc = "login",
                                                       !.now = clock, !.login = l]]
           /\ drawn' = drawn \cup {l}
    BY DEF LoginBegin
  <1> DEFINE r == [Done("none") EXCEPT !.pc = "login", !.now = clock, !.login = l]
  <1>2. /\ clock \in Nat /\ clock <= clock /\ drawn \subseteq Logins \cup SessionIDs
        /\ redeemed \subseteq Logins
    BY ConfigAssumption DEF IInv, TypeOK
  <1>3. r \in Request /\ r.pc = "login" /\ r.now = clock /\ r.login = l
    BY <1>2, StepNames DEF Done, Request
  <1>4. req' = [req EXCEPT ![h] = r]
    BY <1>1
  <1> HIDE DEF r
  <1>5. req'[h] = r
    BY <1>3, <1>4, ReqUpdate DEF IInv
  <1>6. UNCHANGED <<preAuth, sessions, clock, authorised, redeemed>>
    BY DEF LoginBegin, provider
  <1>7. HandlerOK(h)'
    BY <1>1, <1>2, <1>3, <1>5, <1>6 DEF HandlerOK, Operating
  <1>8. \A k \in Logins : (Drawing(h, k)' => k \notin drawn) /\ ~Redeeming(h, k)'
    BY <1>3, <1>5 DEF Drawing, Redeeming
  <1>9. Shrunk /\ drawn \subseteq drawn' /\ drawn' \subseteq Logins \cup SessionIDs
    BY <1>1, <1>2, <1>6, StayShrunk
  <1>10. QED
    BY <1>2, <1>3, <1>4, <1>6, <1>7, <1>8, <1>9, ShrunkMoves

\* callback reads the clock and its parameters before the lock.
LEMMA CallbackBeginMoves ==
    ASSUME IInv, NEW h \in Handlers, NEW state \in Logins, NEW code \in Logins,
           CallbackBegin(h, state, code)
    PROVE  Moves(h)
  <1> DEFINE r == [Done("none") EXCEPT !.pc = "consume", !.now = clock,
                                       !.login = state, !.code = code]
  <1>1. /\ clock \in Nat /\ clock <= clock /\ drawn \subseteq Logins \cup SessionIDs
        /\ redeemed \subseteq Logins
    BY ConfigAssumption DEF IInv, TypeOK
  <1>2. /\ r \in Request /\ r.pc = "consume" /\ r.now = clock
        /\ r.login = state /\ r.code = code
    BY <1>1, StepNames DEF Done, Request
  <1>3. req' = [req EXCEPT ![h] = r]
    BY DEF CallbackBegin
  <1> HIDE DEF r
  <1>4. req'[h] = r
    BY <1>2, <1>3, ReqUpdate DEF IInv
  <1>5. UNCHANGED <<preAuth, sessions, clock, drawn, authorised, redeemed>>
    BY DEF CallbackBegin, provider
  <1>6. HandlerOK(h)'
    BY <1>1, <1>2, <1>4, <1>5 DEF HandlerOK, Operating
  <1>7. \A k \in Logins : ~Drawing(h, k)' /\ ~Redeeming(h, k)'
    BY <1>2, <1>4 DEF Drawing, Redeeming
  <1>8. Shrunk
    BY <1>5, StayShrunk
  <1>9. QED
    BY <1>1, <1>2, <1>3, <1>5, <1>6, <1>7, <1>8, ShrunkMoves

\* The provider redeems the code; the nonce is not compared yet.
LEMMA ExchangeSucceedsMoves ==
    ASSUME IInv, NEW h \in Handlers, ExchangeSucceeds(h)
    PROVE  Moves(h)
  <1> DEFINE r == [req[h] EXCEPT !.pc = "verify"]
  <1>1. /\ req[h] \in Request /\ HandlerOK(h) /\ redeemed \subseteq Logins
        /\ drawn \subseteq Logins \cup SessionIDs
    BY DEF IInv, TypeOK
  <1>2. /\ r \in Request /\ r.pc = "verify" /\ r.now = req[h].now
        /\ r.login = req[h].login /\ r.code = req[h].code
    BY <1>1, StepNames DEF Request
  <1>3. req' = [req EXCEPT ![h] = r]
    BY DEF ExchangeSucceeds
  <1> HIDE DEF r
  <1>4. req'[h] = r
    BY <1>2, <1>3, ReqUpdate DEF IInv
  <1>5. /\ UNCHANGED <<preAuth, sessions, clock, drawn, authorised>>
        /\ redeemed' = redeemed \cup {req[h].code} /\ req[h].pc = "exchange"
        /\ authorised[req[h].code] # None
    BY DEF ExchangeSucceeds, At
  <1>6. HandlerOK(h)'
    BY <1>1, <1>2, <1>4, <1>5 DEF HandlerOK, Operating
  <1>7. \A k \in Logins : ~Drawing(h, k)' /\ (Redeeming(h, k)' => Redeeming(h, k))
    BY <1>2, <1>4, <1>5 DEF Drawing, Redeeming
  <1>8. Shrunk /\ redeemed \subseteq redeemed' /\ redeemed' \subseteq Logins
    BY <1>1, <1>5, StayShrunk DEF HandlerOK
  <1>9. QED
    BY <1>1, <1>2, <1>3, <1>5, <1>6, <1>7, <1>8, ShrunkMoves

\* The ID token's nonce ties the code to the login it was issued for.
LEMMA VerifySucceedsMoves ==
    ASSUME IInv, NEW h \in Handlers, VerifySucceeds(h)
    PROVE  Moves(h)
  <1> DEFINE subject == authorised[req[h].code]
             r == [req[h] EXCEPT !.pc = "create", !.subject = subject]
  <1>1. /\ req[h] \in Request /\ HandlerOK(h) /\ redeemed \subseteq Logins
        /\ drawn \subseteq Logins \cup SessionIDs
    BY DEF IInv, TypeOK
  <1>2. /\ UNCHANGED <<preAuth, sessions, clock, drawn, authorised, redeemed>>
        /\ req[h].pc = "verify" /\ req[h].code = req[h].login
    BY DEF VerifySucceeds, At, NonceMatches, provider
  <1>3. subject \in Users
    BY <1>1, <1>2 DEF IInv, TypeOK, HandlerOK
  <1>4. /\ r \in Request /\ r.pc = "create" /\ r.now = req[h].now
        /\ r.login = req[h].login /\ r.code = req[h].code
        /\ r.subject = authorised[req[h].code]
    BY <1>1, <1>3, StepNames DEF Request
  <1>5. req' = [req EXCEPT ![h] = r]
    BY DEF VerifySucceeds
  <1> HIDE DEF r, subject
  <1>6. req'[h] = r
    BY <1>4, <1>5, ReqUpdate DEF IInv
  <1>7. HandlerOK(h)'
    BY <1>1, <1>2, <1>4, <1>6 DEF HandlerOK, Operating
  <1>8. \A k \in Logins : ~Drawing(h, k)' /\ (Redeeming(h, k)' => Redeeming(h, k))
    BY <1>2, <1>4, <1>6 DEF Drawing, Redeeming
  <1>9. Shrunk
    BY <1>2, StayShrunk
  <1>10. QED
    BY <1>1, <1>2, <1>4, <1>5, <1>7, <1>8, <1>9, ShrunkMoves

\* The operation goes on with a copy of a session whose login nobody holds.
LEMMA AuthenticatedBeginMoves ==
    ASSUME IInv, NEW h \in Handlers, NEW id \in SessionIDs,
           NEW step \in {"logout", "invoke", "query"}, AuthenticatedBegin(h, id, step)
    PROVE  Moves(h)
  <1> DEFINE s == sessions[id]
             r == [Done("none") EXCEPT !.pc = step, !.id = id, !.subject = s.subject,
                                       !.code = s.accessToken]
  <1>1. /\ clock \in Nat /\ clock <= clock /\ redeemed \subseteq Logins
        /\ drawn \subseteq Logins \cup SessionIDs
    BY ConfigAssumption DEF IInv, TypeOK
  <1>2. /\ preAuth' = LivePreAuth(clock) /\ sessions' = LiveSessions(clock)
        /\ id \in DOMAIN LiveSessions(clock)
        /\ UNCHANGED <<clock, drawn, authorised, redeemed>>
    BY DEF AuthenticatedBegin, authenticate, provider
  <1>3. id \in DOMAIN sessions
    BY <1>2, LiveFacts
  <1>4. s \in Session /\ SessionOK(id)
    BY <1>3 DEF IInv, TypeOK
  <1>5. s.subject \in Users /\ s.accessToken \in Logins
    BY <1>4 DEF Session
  <1>6. /\ r \in Request /\ r.pc = step /\ r.id = id /\ r.subject = s.subject
        /\ r.code = s.accessToken /\ r.now = 0
    BY <1>5, StepNames DEF Done, Request
  <1>7. req' = [req EXCEPT ![h] = r]
    BY DEF AuthenticatedBegin
  <1> HIDE DEF r
  <1>8. req'[h] = r
    BY <1>6, <1>7, ReqUpdate DEF IInv
  <1>9. /\ s.accessToken = s.login /\ s.login \in Logins \cap drawn \cap redeemed
        /\ s.subject = authorised[s.login]
    BY <1>4, <1>5 DEF SessionOK
  <1>10. id \in SessionsOf(s.login)
    BY <1>3 DEF SessionsOf
  <1>11. s.login \notin DOMAIN preAuth /\ \A g \in Handlers : ~Holds(g, s.login)
    BY <1>9, <1>10 DEF IInv, LoginOK
  <1>12. Shrunk
    BY <1>1, <1>2, PurgeShrunk
  <1>13. HandlerOK(h)'
    BY <1>1, <1>2, <1>5, <1>6, <1>8, <1>9, <1>11, <1>12, ConfigAssumption
       DEF HandlerOK, Operating, Shrunk
  <1>14. \A k \in Logins : ~Drawing(h, k)' /\ ~Redeeming(h, k)'
    BY <1>6, <1>8 DEF Drawing, Redeeming
  <1>15. \A g \in Handlers : ~Holds(g, r.code)
    BY <1>6, <1>9, <1>11
  <1>16. QED
    BY <1>1, <1>2, <1>6, <1>7, <1>12, <1>13, <1>14, <1>15, ShrunkMoves

\* What every answered request looks like.
LEMMA FinishFacts ==
    ASSUME IInv, NEW h \in Handlers, NEW status \in Status, Finish(h, status), clock' = clock
    PROVE  /\ req' \in [Handlers -> Request]
           /\ req'[h].pc = "idle"
           /\ \A g \in Handlers \ {h} : req'[g] = req[g]
           /\ HandlerOK(h)' /\ ~Operating(h)'
           /\ \A l \in Logins : ~Drawing(h, l)' /\ ~Redeeming(h, l)'
  <1> DEFINE r == Done(status)
  <1>1. r \in Request /\ r.pc = "idle" /\ r.now = 0
    BY DoneRecord
  <1>2. req' = [req EXCEPT ![h] = r]
    BY DEF Finish
  <1> HIDE DEF r
  <1>3. /\ req' \in [Handlers -> Request] /\ req'[h] = r
        /\ \A g \in Handlers \ {h} : req'[g] = req[g]
    BY <1>1, <1>2, ReqUpdate DEF IInv
  <1>4. clock \in Nat
    BY ConfigAssumption DEF IInv, TypeOK
  <1>5. QED
    BY <1>1, <1>3, <1>4 DEF HandlerOK, Operating, Drawing, Redeeming

\* login purges and stores the state, within the capacity.
LEMMA LoginAcceptedMoves ==
    ASSUME IInv, NEW h \in Handlers, LoginAccepted(h)
    PROVE  Moves(h)
  <1> DEFINE now == req[h].now
             login == req[h].login
             live == LivePreAuth(now)
  <1>1. /\ now \in Nat /\ now <= clock /\ login \in Logins /\ Drawing(h, login)
    BY DEF IInv, TypeOK, Request, HandlerOK, LoginAccepted, At, Drawing
  <1>2. login \in drawn /\ login \notin DOMAIN preAuth
    BY <1>1 DEF IInv, LoginOK, Holds
  <1>3. /\ preAuth' = Put(live, login, now + PreAuthTTL) /\ sessions' = LiveSessions(now)
        /\ Cardinality(DOMAIN live) < MaximumSessions /\ Finish(h, "done")
        /\ UNCHANGED <<clock, drawn, authorised, redeemed>>
    BY DEF LoginAccepted, LoginRoom, provider
  <1> HIDE DEF now, login
  <1>4. /\ req' \in [Handlers -> Request] /\ req'[h].pc = "idle"
        /\ \A g \in Handlers \ {h} : req'[g] = req[g]
        /\ HandlerOK(h)' /\ ~Operating(h)'
        /\ \A l \in Logins : ~Drawing(h, l)' /\ ~Redeeming(h, l)'
    BY <1>3, FinishFacts DEF Status
  <1>5. /\ DOMAIN live \subseteq DOMAIN preAuth
        /\ \A l \in DOMAIN live : live[l] = preAuth[l]
        /\ \A l \in DOMAIN preAuth : l \notin DOMAIN live => ~(now < preAuth[l])
        /\ DOMAIN LiveSessions(now) \subseteq DOMAIN sessions
        /\ \A s \in DOMAIN LiveSessions(now) : LiveSessions(now)[s] = sessions[s]
        /\ \A s \in DOMAIN sessions :
              s \notin DOMAIN LiveSessions(now) => ~(now < sessions[s].expires)
    BY LiveFacts
  <1>6. /\ DOMAIN preAuth' = DOMAIN live \cup {login}
        /\ preAuth'[login] = now + PreAuthTTL
        /\ \A l \in DOMAIN live : l # login => preAuth'[l] = live[l]
    <2> DEFINE expires == now + PreAuthTTL
    <2> HIDE DEF live, expires
    <2>1. /\ DOMAIN Put(live, login, expires) = DOMAIN live \cup {login}
          /\ Put(live, login, expires)[login] = expires
          /\ \A l \in DOMAIN live :
                l # login => Put(live, login, expires)[l] = live[l]
      BY DEF Put
    <2>2. QED
      BY <1>3, <2>1 DEF live, expires
  <1>7. /\ IsFiniteSet(DOMAIN live)
    BY <1>5, Finite, FS_Subset DEF IInv
  <1>8. WithinCapacity'
    BY <1>3, <1>5, <1>6, <1>7, OneMore, Fewer DEF WithinCapacity
  <1> HIDE DEF live
  <1>9. clock \in Nat /\ (\A l \in DOMAIN preAuth : preAuth[l] \in Nat)
        /\ \A s \in DOMAIN sessions : sessions[s] \in Session /\ sessions[s].expires \in Nat
    BY ConfigAssumption DEF IInv, TypeOK, Session
  <1>10. TypeOK'
    <2>1. DOMAIN preAuth' \subseteq Logins /\ \A l \in DOMAIN preAuth' : preAuth'[l] \in Nat
      BY <1>1, <1>5, <1>6, <1>9, ConfigAssumption DEF IInv, TypeOK
    <2>2. DOMAIN sessions' \subseteq SessionIDs /\ \A s \in DOMAIN sessions' : sessions'[s] \in Session
      BY <1>3, <1>5, <1>9 DEF IInv, TypeOK
    <2>3. QED
      BY <1>3, <1>4, <2>1, <2>2 DEF IInv, TypeOK
  <1>11. \A l \in DOMAIN preAuth :
           (l \in DOMAIN preAuth' /\ preAuth'[l] = preAuth[l]) \/ preAuth[l] <= clock
    BY <1>1, <1>2, <1>5, <1>6, <1>9
  <1>12. \A s \in DOMAIN sessions :
           (s \in DOMAIN sessions' /\ sessions'[s] = sessions[s]) \/ sessions[s].expires <= clock
    BY <1>1, <1>3, <1>5, <1>9
  <1>13. \A s \in DOMAIN sessions' : s \in DOMAIN sessions /\ sessions'[s] = sessions[s]
    BY <1>3, <1>5
  <1>14. \A l \in DOMAIN preAuth' : l \in DOMAIN preAuth \/ (Drawing(h, l) /\ req'[h].pc = "idle")
    BY <1>1, <1>4, <1>5, <1>6
  <1>15. QED
    BY <1>3, <1>4, <1>8, <1>10, <1>11, <1>12, <1>13, <1>14 DEF Moves

\* logout deletes the session it authenticated.
LEMMA LogoutDeleteMoves ==
    ASSUME IInv, NEW h \in Handlers, LogoutDelete(h)
    PROVE  Moves(h)
  <1>1. /\ At(h, "logout") /\ sessions' = Remove(sessions, {req[h].id}) /\ Finish(h, "done")
        /\ UNCHANGED <<preAuth, clock, drawn, authorised, redeemed>>
    BY DEF LogoutDelete, provider
  <1>2. /\ req' \in [Handlers -> Request] /\ req'[h].pc = "idle"
        /\ \A g \in Handlers \ {h} : req'[g] = req[g]
        /\ HandlerOK(h)' /\ ~Operating(h)'
        /\ \A l \in Logins : ~Drawing(h, l)' /\ ~Redeeming(h, l)'
    BY <1>1, FinishFacts DEF Status
  <1>3. /\ DOMAIN sessions' = DOMAIN sessions \ {req[h].id}
        /\ \A s \in DOMAIN sessions' : sessions'[s] = sessions[s]
    <2>1. /\ DOMAIN Remove(sessions, {req[h].id}) = DOMAIN sessions \ {req[h].id}
          /\ \A s \in DOMAIN sessions \ {req[h].id} :
                Remove(sessions, {req[h].id})[s] = sessions[s]
      BY RemoveFacts
    <2>2. QED
      BY <1>1, <2>1
  <1>4. WithinCapacity'
    BY <1>1, <1>3, Fewer DEF WithinCapacity
  <1>5. TypeOK'
    BY <1>1, <1>2, <1>3 DEF IInv, TypeOK
  <1>6. \A s \in DOMAIN sessions :
           (s \in DOMAIN sessions' /\ sessions'[s] = sessions[s]) \/ req[h].id = s
    BY <1>3
  <1>7. At(h, "idle")'
    BY <1>2 DEF At
  <1>8. QED
    BY <1>1, <1>2, <1>3, <1>4, <1>5, <1>6, <1>7 DEF Moves

\* callback takes the state out of the map under the lock: from here on it has
\* it to itself.
LEMMA CallbackConsumeMoves ==
    ASSUME IInv, NEW h \in Handlers, CallbackConsume(h)
    PROVE  Moves(h)
  <1> DEFINE now == req[h].now
             login == req[h].login
             live == LivePreAuth(now)
             r == [req[h] EXCEPT !.pc = "exchange"]
  <1>1. /\ now \in Nat /\ now <= clock /\ login \in Logins /\ req[h].code \in Logins
        /\ req[h] \in Request /\ At(h, "consume")
    BY DEF IInv, TypeOK, Request, HandlerOK, CallbackConsume, At
  <1>2. /\ preAuth' = Remove(live, {login}) /\ sessions' = LiveSessions(now)
        /\ UNCHANGED <<clock, drawn, authorised, redeemed>>
        /\ \/ login \in DOMAIN live /\ req' = [req EXCEPT ![h] = r]
           \/ login \notin DOMAIN live /\ Finish(h, "error")
    BY DEF CallbackConsume, provider
  <1>3. r \in Request /\ r.pc = "exchange" /\ r.now = now /\ r.login = login
        /\ r.code = req[h].code
    BY <1>1, StepNames DEF Request
  <1> HIDE DEF r
  <1>4. /\ DOMAIN live \subseteq DOMAIN preAuth
        /\ \A l \in DOMAIN live : live[l] = preAuth[l]
        /\ \A l \in DOMAIN preAuth : l \notin DOMAIN live => ~(now < preAuth[l])
        /\ DOMAIN LiveSessions(now) \subseteq DOMAIN sessions
        /\ \A s \in DOMAIN LiveSessions(now) : LiveSessions(now)[s] = sessions[s]
        /\ \A s \in DOMAIN sessions :
              s \notin DOMAIN LiveSessions(now) => ~(now < sessions[s].expires)
    BY LiveFacts
  <1>5. /\ DOMAIN preAuth' = DOMAIN live \ {login}
        /\ \A l \in DOMAIN preAuth' : preAuth'[l] = live[l]
    <2> HIDE DEF live, login
    <2>1. QED
      BY <1>2 DEF Remove
  <1>6. clock \in Nat /\ (\A l \in DOMAIN preAuth : preAuth[l] \in Nat)
        /\ \A s \in DOMAIN sessions : sessions[s] \in Session /\ sessions[s].expires \in Nat
    BY ConfigAssumption DEF IInv, TypeOK, Session
  <1> HIDE DEF now, login, live
  <1>7. /\ DOMAIN sessions' \subseteq DOMAIN sessions
        /\ \A s \in DOMAIN sessions' : sessions'[s] = sessions[s]
        /\ \A s \in DOMAIN sessions : s \in DOMAIN sessions' \/ sessions[s].expires <= clock
        /\ DOMAIN preAuth' \subseteq DOMAIN preAuth
        /\ \A l \in DOMAIN preAuth' : preAuth'[l] = preAuth[l]
        /\ \A l \in DOMAIN preAuth :
              l \in DOMAIN preAuth' \/ preAuth[l] <= clock \/ (l = login /\ l \in DOMAIN live)
    <2>1. /\ DOMAIN sessions' \subseteq DOMAIN sessions
          /\ \A s \in DOMAIN sessions' : sessions'[s] = sessions[s]
      BY <1>2, <1>4
    <2>2. \A s \in DOMAIN sessions : s \in DOMAIN sessions' \/ sessions[s].expires <= clock
      BY <1>1, <1>2, <1>4, <1>6
    <2>3. /\ DOMAIN preAuth' \subseteq DOMAIN preAuth
          /\ \A l \in DOMAIN preAuth' : preAuth'[l] = preAuth[l]
      BY <1>4, <1>5
    <2>4. \A l \in DOMAIN preAuth :
             l \in DOMAIN preAuth' \/ preAuth[l] <= clock \/ (l = login /\ l \in DOMAIN live)
      BY <1>1, <1>4, <1>5, <1>6
    <2>5. QED
      BY <2>1, <2>2, <2>3, <2>4
  <1>8. CASE login \notin DOMAIN live
    <2>1. Shrunk
      BY <1>7, <1>8 DEF Shrunk
    <2>2. Finish(h, "error") /\ redeemed' \subseteq Logins
      BY <1>2, <1>8 DEF IInv, TypeOK
    <2>3. QED
      BY <1>2, <2>1, <2>2, DoneMoves DEF Status
  <1>9. CASE login \in DOMAIN live
    <2>1. /\ req' \in [Handlers -> Request] /\ req'[h] = r
          /\ \A g \in Handlers \ {h} : req'[g] = req[g]
      BY <1>2, <1>3, <1>9, ReqUpdate DEF IInv
    <2>2. login \in DOMAIN preAuth /\ login \notin DOMAIN preAuth'
      BY <1>4, <1>5, <1>9
    <2>3. login \in drawn
      BY <1>1, <2>2 DEF IInv, LoginOK
    <2>4. HandlerOK(h)' /\ ~Operating(h)'
      BY <1>1, <1>2, <1>3, <2>1, <2>3 DEF HandlerOK, Operating
    <2>5. \A l \in Logins : ~Drawing(h, l)' /\ (Redeeming(h, l)' => l = login)
      BY <1>3, <2>1 DEF Drawing, Redeeming
    <2>6. ~At(h, "consume")' /\ req[h].login = login
      BY <1>3, <2>1 DEF At, login
    <2>7. TypeOK'
      BY <1>2, <1>6, <1>7, <2>1 DEF IInv, TypeOK
    <2>8. WithinCapacity'
      BY <1>7, Fewer DEF WithinCapacity
    <2>9. \A l \in DOMAIN preAuth :
             \/ l \in DOMAIN preAuth' /\ preAuth'[l] = preAuth[l]
             \/ preAuth[l] <= clock
             \/ l = login
      BY <1>7
    <2>10. \A s \in DOMAIN sessions :
             (s \in DOMAIN sessions' /\ sessions'[s] = sessions[s]) \/ sessions[s].expires <= clock
      BY <1>7
    <2>11. QED
      BY <1>1, <1>2, <1>7, <2>1, <2>2, <2>4, <2>5, <2>6, <2>7, <2>8, <2>9, <2>10 DEF Moves
  <1>10. QED
    BY <1>8, <1>9

\* callback purges and stores the session, within the capacity.
LEMMA CallbackCreateMoves ==
    ASSUME IInv, NEW h \in Handlers, CallbackCreate(h)
    PROVE  Moves(h)
  <1> DEFINE r == req[h]
             live == LiveSessions(r.now)
             session == [subject |-> r.subject, accessToken |-> r.code,
                         expires |-> r.now + SessionTTL, login |-> r.login]
  <1>1. PICK id \in SessionIDs \ drawn :
           drawn' = drawn \cup {id} /\ sessions' = Put(live, id, session)
    BY DEF CallbackCreate
  <1>2. /\ r \in Request /\ HandlerOK(h) /\ r.pc = "create"
        /\ Cardinality(DOMAIN live) < MaximumSessions
        /\ preAuth' = LivePreAuth(r.now) /\ Finish(h, "done")
        /\ UNCHANGED <<clock, authorised, redeemed>>
    BY DEF IInv, TypeOK, CallbackCreate, At, SessionRoom, provider
  <1>3. /\ r.now \in Nat /\ r.now <= clock /\ r.login \in Logins /\ r.login \in drawn
        /\ r.code = r.login /\ r.code \in redeemed /\ authorised[r.code] # None
        /\ r.subject = authorised[r.code]
    BY <1>2 DEF Request, HandlerOK
  <1>4. r.subject \in Users
    BY <1>3 DEF IInv, TypeOK
  <1>5. /\ session \in Session /\ session.login = r.login
        /\ session.accessToken = r.login /\ session.subject = authorised[r.login]
    BY <1>3, <1>4, ConfigAssumption DEF Session
  <1>6. Redeeming(h, r.login)
    BY <1>2 DEF Redeeming
  <1> HIDE DEF session
  <1>7. /\ req' \in [Handlers -> Request] /\ req'[h].pc = "idle"
        /\ \A g \in Handlers \ {h} : req'[g] = req[g]
        /\ HandlerOK(h)' /\ ~Operating(h)'
        /\ \A l \in Logins : ~Drawing(h, l)' /\ ~Redeeming(h, l)'
    BY <1>2, FinishFacts DEF Status
  <1>8. /\ DOMAIN LivePreAuth(r.now) \subseteq DOMAIN preAuth
        /\ \A l \in DOMAIN LivePreAuth(r.now) : LivePreAuth(r.now)[l] = preAuth[l]
        /\ \A l \in DOMAIN preAuth : l \notin DOMAIN LivePreAuth(r.now) => ~(r.now < preAuth[l])
        /\ DOMAIN live \subseteq DOMAIN sessions
        /\ \A s \in DOMAIN live : live[s] = sessions[s]
        /\ \A s \in DOMAIN sessions :
              s \notin DOMAIN live => ~(r.now < sessions[s].expires)
    BY LiveFacts
  <1>9. IsFiniteSet(DOMAIN live)
    BY <1>8, Finite, FS_Subset DEF IInv
  <1>10. /\ DOMAIN sessions' = DOMAIN live \cup {id}
         /\ sessions'[id] = session
         /\ \A s \in DOMAIN live : s # id => sessions'[s] = live[s]
    <2> HIDE DEF live
    <2>1. QED
      BY <1>1 DEF Put
  <1>11. id \notin DOMAIN sessions
    BY <1>1 DEF IInv, SessionOK
  <1>12. WithinCapacity'
    BY <1>2, <1>8, <1>9, <1>10, OneMore, Fewer DEF WithinCapacity
  <1>13. clock \in Nat /\ (\A l \in DOMAIN preAuth : preAuth[l] \in Nat)
        /\ \A s \in DOMAIN sessions : sessions[s] \in Session /\ sessions[s].expires \in Nat
    BY ConfigAssumption DEF IInv, TypeOK, Session
  <1>14. \A l \in DOMAIN preAuth :
           (l \in DOMAIN preAuth' /\ preAuth'[l] = preAuth[l]) \/ preAuth[l] <= clock
    BY <1>2, <1>3, <1>8, <1>13
  <1>15. DOMAIN preAuth' \subseteq DOMAIN preAuth
         /\ \A l \in DOMAIN preAuth' : preAuth'[l] \in Nat
    BY <1>2, <1>8, <1>13
  <1> HIDE DEF live, r
  <1>16. \A s \in DOMAIN sessions :
           (s \in DOMAIN sessions' /\ sessions'[s] = sessions[s]) \/ sessions[s].expires <= clock
    BY <1>3, <1>8, <1>10, <1>11, <1>13
  <1>17. SessionOK(id)'
    BY <1>1, <1>2, <1>3, <1>5, <1>10 DEF SessionOK
  <1>18. \A s \in DOMAIN sessions' :
           (s \in DOMAIN sessions /\ sessions'[s] = sessions[s]) \/ s = id
    BY <1>8, <1>10
  <1>19. \A s \in DOMAIN sessions' : s \in SessionIDs /\ sessions'[s] \in Session
    BY <1>1, <1>5, <1>10, <1>13, <1>18 DEF IInv, TypeOK
  <1>20. TypeOK'
    BY <1>1, <1>2, <1>7, <1>15, <1>19 DEF IInv, TypeOK
  <1>21. Redeeming(h, sessions'[id].login)
    BY <1>5, <1>6, <1>10
  <1>22. \A s \in DOMAIN sessions' :
          \/ s \in DOMAIN sessions /\ sessions'[s] = sessions[s]
          \/ /\ s \notin drawn /\ SessionOK(s)'
             /\ Redeeming(h, sessions'[s].login) /\ req'[h].pc = "idle"
    BY <1>1, <1>7, <1>17, <1>18, <1>21
  <1>23. \A s, t \in DOMAIN sessions' : s \notin DOMAIN sessions /\ t \notin DOMAIN sessions => s = t
    BY <1>18
  <1>24. drawn \subseteq drawn'
    BY <1>1
  <1>25. QED
    BY <1>2, <1>7, <1>12, <1>14, <1>15, <1>16, <1>20, <1>22, <1>23, <1>24 DEF Moves

\* Every step of a request, whichever handler runs it.
LEMMA HandlerMoves ==
    ASSUME IInv, NEW h \in Handlers, Begin(h) \/ Continue(h)
    PROVE  Moves(h)
  <1>1. CASE Begin(h)
    <2>1. CASE LoginFails(h) \/ RejectedEarly(h)
      BY <2>1, FinishMoves
    <2>2. CASE LoginBegin(h)
      BY <2>2, LoginBeginMoves
    <2>3. ASSUME NEW state \in Logins, NEW code \in Logins, CallbackBegin(h, state, code)
          PROVE  Moves(h)
      BY <2>3, CallbackBeginMoves
    <2>4. CASE \E id \in SessionIDs : Unauthorized(h, id) \/ AnsweredAtOnce(h, id)
      BY <2>4, FinishMoves
    <2>5. ASSUME NEW id \in SessionIDs, NEW step \in {"logout", "invoke", "query"},
                 AuthenticatedBegin(h, id, step)
          PROVE  Moves(h)
      BY <2>5, AuthenticatedBeginMoves
    <2>6. QED
      BY <1>1, <2>1, <2>2, <2>3, <2>4, <2>5 DEF Begin
  <1>2. CASE Continue(h)
    <2>1. CASE LoginAccepted(h)
      BY <2>1, LoginAcceptedMoves
    <2>2. CASE CallbackConsume(h)
      BY <2>2, CallbackConsumeMoves
    <2>3. CASE ExchangeSucceeds(h)
      BY <2>3, ExchangeSucceedsMoves
    <2>4. CASE VerifySucceeds(h)
      BY <2>4, VerifySucceedsMoves
    <2>5. CASE CallbackCreate(h)
      BY <2>5, CallbackCreateMoves
    <2>6. CASE LogoutDelete(h)
      BY <2>6, LogoutDeleteMoves
    <2>7. CASE \/ LoginRefused(h) \/ ExchangeFails(h) \/ VerifyFails(h) \/ CallbackRefused(h)
               \/ CallbackNoEntropy(h) \/ InvokeReturn(h) \/ QueryReturn(h)
      BY <2>7, FinishMoves
    <2>8. QED
      BY <1>2, <2>1, <2>2, <2>3, <2>4, <2>5, <2>6, <2>7 DEF Continue
  <1>3. QED
    BY <1>1, <1>2

-----------------------------------------------------------------------------
(* The steps that are not a request's *)

\* Somebody consents to a login that nobody had consented to, so no session
\* and no operation is of that login yet.
LEMMA AuthorizeSafe ==
    ASSUME IInv, NEW l \in Logins, NEW user \in Users, Authorize(l, user)
    PROVE  IInv'
  <1>1. /\ authorised[l] = None /\ authorised' = [authorised EXCEPT ![l] = user]
        /\ UNCHANGED <<preAuth, sessions, req, clock, drawn, redeemed>>
    BY DEF Authorize
  <1>2. authorised \in [Logins -> Users \cup {None}] /\ user # None
    BY ConfigAssumption DEF IInv, TypeOK
  <1>3. /\ authorised' \in [Logins -> Users \cup {None}]
        /\ \A k \in Logins : k # l => authorised'[k] = authorised[k]
        /\ authorised'[l] # None
    BY <1>1, <1>2
  <1>4. TypeOK'
    BY <1>1, <1>3 DEF IInv, TypeOK
  <1>5. ASSUME NEW h \in Handlers PROVE HandlerOK(h)'
    <2>1. HandlerOK(h)
      BY DEF IInv
    <2>2. QED
      BY <2>1, <1>1, <1>3 DEF HandlerOK, Operating
  <1>6. ASSUME NEW s \in DOMAIN sessions' PROVE SessionOK(s)'
    <2>1. SessionOK(s) /\ sessions[s].subject \in Users /\ sessions[s].login \in Logins
      BY <1>1 DEF IInv, TypeOK, Session
    <2>2. sessions[s].login # l
      BY <2>1, <1>1, ConfigAssumption DEF SessionOK
    <2>3. QED
      BY <2>1, <2>2, <1>1, <1>3 DEF SessionOK
  <1>7. \A k \in Logins : LoginOK(k)'
    BY <1>1 DEF IInv, LoginOK, Holds, Drawing, Redeeming, SessionsOf
  <1>8. Over' /\ WithinCapacity'
    BY <1>1 DEF IInv, Over, WithinCapacity, Operating, Holds, Drawing, Redeeming
  <1>9. QED
    BY <1>4, <1>5, <1>6, <1>7, <1>8 DEF IInv

\* The clock moves, or nothing happens.
LEMMA TickSafe ==
    ASSUME IInv, Tick \/ UNCHANGED vars
    PROVE  IInv'
  <1>1. /\ UNCHANGED <<preAuth, sessions, req, drawn, authorised, redeemed>>
        /\ clock' = clock \/ (clock < MaxClock /\ clock' = clock + 1)
    BY DEF Tick, vars, provider
  <1>2. clock \in 0..MaxClock /\ MaxClock \in Nat
    BY ConfigAssumption DEF IInv, TypeOK
  <1>3. clock' \in 0..MaxClock /\ clock <= clock'
    BY <1>1, <1>2
  <1>4. TypeOK'
    BY <1>1, <1>3 DEF IInv, TypeOK
  <1>5. ASSUME NEW h \in Handlers PROVE HandlerOK(h)'
    <2>1. HandlerOK(h) /\ req[h].now \in Nat
      BY DEF IInv, TypeOK, Request
    <2>2. req[h].now <= clock'
      BY <1>2, <1>3, <2>1 DEF HandlerOK
    <2>3. QED
      BY <2>1, <2>2, <1>1 DEF HandlerOK, Operating
  <1>6. /\ \A s \in DOMAIN sessions' : SessionOK(s)'
        /\ \A k \in Logins : LoginOK(k)'
    BY <1>1 DEF IInv, SessionOK, LoginOK, Holds, Drawing, Redeeming, SessionsOf
  <1>7. Over' /\ WithinCapacity'
    BY <1>1 DEF IInv, Over, WithinCapacity, Operating, Holds, Drawing, Redeeming
  <1>8. QED
    BY <1>4, <1>5, <1>6, <1>7 DEF IInv

\* There is no login and no session at first.
LEMMA Start ==
    ASSUME Init
    PROVE  IInv
  <1>1. /\ preAuth = Empty /\ sessions = Empty /\ DOMAIN Empty = {}
        /\ clock = 0 /\ drawn = {} /\ redeemed = {}
        /\ req = [h \in Handlers |-> Done("none")]
        /\ authorised = [l \in Logins |-> None]
    BY DEF Init, Empty
  <1>2. Done("none") \in Request /\ Done("none").pc = "idle" /\ Done("none").now = 0
    BY DoneRecord, StepNames
  <1>3. \A h \in Handlers : req[h].pc = "idle" /\ req[h].now = 0
    BY <1>1, <1>2
  <1>4. TypeOK
    BY <1>1, <1>2, ConfigAssumption DEF TypeOK
  <1>5. \A h \in Handlers : ~Operating(h) /\ HandlerOK(h) /\ \A l \in Logins : ~Holds(h, l)
    BY <1>1, <1>3 DEF Operating, HandlerOK, Holds, Drawing, Redeeming
  <1>6. \A l \in Logins : LoginOK(l)
    BY <1>1, <1>5 DEF LoginOK, SessionsOf
  <1>7. WithinCapacity
    BY <1>1, FS_EmptySet, ConfigAssumption DEF WithinCapacity
  <1>8. QED
    BY <1>1, <1>4, <1>5, <1>6, <1>7 DEF IInv, Over

-----------------------------------------------------------------------------
(* The invariants *)

\* What the other results rest on.
THEOREM WebInvariance == Spec => []IInv
  <1>1. Init => IInv
    BY Start
  <1>2. ASSUME IInv, [Next]_vars PROVE IInv'
    <2>1. ASSUME NEW h \in Handlers, Begin(h) \/ Continue(h) PROVE IInv'
      BY <1>2, <2>1, HandlerMoves, MovesSafe
    <2>2. ASSUME NEW l \in Logins, NEW user \in Users, Authorize(l, user) PROVE IInv'
      BY <1>2, <2>2, AuthorizeSafe
    <2>3. CASE Tick \/ UNCHANGED vars
      BY <1>2, <2>3, TickSafe
    <2>4. QED
      BY <1>2, <2>1, <2>2, <2>3 DEF Next
  <1>3. QED
    BY <1>1, <1>2, PTL DEF Spec

\* The two maps, the requests and the provider's record keep their types.
THEOREM WebTypes == Spec => []TypeOK
  <1>1. IInv => TypeOK
    BY DEF IInv
  <1>2. QED
    BY <1>1, WebInvariance, PTL

\* However many callbacks race, a state is consumed once: one callback redeems
\* it, nothing else holds it, and it yields at most one session (callback).
THEOREM WebLoginExclusive == Spec => []LoginExclusive
  <1>1. IInv => LoginExclusive
    <2> SUFFICES ASSUME IInv, NEW l \in Logins
                 PROVE  /\ \A g, h \in Handlers : Redeeming(g, l) /\ Redeeming(h, l) => g = h
                        /\ (\E h \in Handlers : Redeeming(h, l)) =>
                              l \notin DOMAIN preAuth /\ SessionsOf(l) = {}
                        /\ \A s, t \in SessionsOf(l) : s = t
                        /\ l \in DOMAIN preAuth => SessionsOf(l) = {}
      BY DEF LoginExclusive
    <2>1. LoginOK(l)
      BY DEF IInv
    <2>2. QED
      BY <2>1 DEF LoginOK, Holds
  <1>2. QED
    BY <1>1, WebInvariance, PTL

\* Every session and every operation under way is of the person who consented
\* to the login it came from, for good (callback, invokeInteraction).
THEOREM WebActsForItsUser == Spec => []ActsForItsUser
  <1>1. IInv => ActsForItsUser
    <2>1. ASSUME IInv, NEW s \in DOMAIN sessions
          PROVE  /\ sessions[s].accessToken = sessions[s].login
                 /\ sessions[s].subject = authorised[sessions[s].login]
      BY <2>1 DEF IInv, SessionOK
    <2>2. ASSUME IInv, NEW h \in Handlers, Operating(h)
          PROVE  /\ req[h].subject = authorised[req[h].code]
                 /\ req[h].code \in redeemed
                 /\ PhaseOf(req[h].code) \in {"session", "closed"}
      <3>1. HandlerOK(h)
        BY <2>2 DEF IInv
      <3>2. /\ req[h].code \in drawn \cap redeemed /\ req[h].code \notin DOMAIN preAuth
            /\ req[h].subject = authorised[req[h].code]
        BY <2>2, <3>1 DEF HandlerOK
      <3>3. \A g \in Handlers : ~Drawing(g, req[h].code) /\ ~Redeeming(g, req[h].code)
        BY <2>2 DEF IInv, Over, Holds
      <3>4. PhaseOf(req[h].code) \in {"session", "closed"}
        BY <3>2, <3>3 DEF PhaseOf
      <3>5. QED
        BY <3>2, <3>4
    <2>3. QED
      BY <2>1, <2>2 DEF ActsForItsUser, Operating
  <1>2. QED
    BY <1>1, WebInvariance, PTL

-----------------------------------------------------------------------------
(* Capacity never evicts *)

\* No interleaving of purges, callbacks and logouts takes a live session or a
\* waiting login from its owner (purgeLocked, login, callback, logout).
THEOREM WebNoEviction == Spec => NoLiveEviction
  <1> DEFINE Kept ==
        /\ \A s \in DOMAIN sessions :
             \/ s \in DOMAIN sessions' /\ sessions'[s] = sessions[s]
             \/ sessions[s].expires <= clock
             \/ \E h \in Handlers : At(h, "logout") /\ req[h].id = s /\ At(h, "idle")'
        /\ \A l \in DOMAIN preAuth :
             \/ l \in DOMAIN preAuth' /\ preAuth'[l] = preAuth[l]
             \/ preAuth[l] <= clock
             \/ \E h \in Handlers : At(h, "consume") /\ req[h].login = l /\ ~At(h, "consume")'
  <1>1. ASSUME IInv, [Next]_vars PROVE [Kept]_vars
    <2>1. ASSUME NEW h \in Handlers, Begin(h) \/ Continue(h) PROVE Kept
      <3>1. Moves(h)
        BY <1>1, <2>1, HandlerMoves
      <3>2. QED
        BY <3>1 DEF Moves
    <2>2. CASE Tick \/ \E l \in Logins, user \in Users : Authorize(l, user)
      BY <2>2 DEF Tick, Authorize
    <2>3. QED
      BY <1>1, <2>1, <2>2 DEF Next
  <1>2. QED
    BY <1>1, WebInvariance, PTL DEF Spec, NoLiveEviction

-----------------------------------------------------------------------------
(* The life of a login *)

Fresh(l) == l \notin drawn \/ \E h \in Handlers : Drawing(h, l)

BeingRedeemed(l) == \E h \in Handlers : Redeeming(h, l)

HasSession(l) == SessionsOf(l) # {}

\* A login is in one place at a time.
LEMMA Places ==
    ASSUME IInv, NEW l \in Logins
    PROVE  /\ l \in DOMAIN preAuth => ~BeingRedeemed(l) /\ ~HasSession(l) /\ ~Fresh(l)
           /\ BeingRedeemed(l) => ~HasSession(l) /\ ~Fresh(l)
           /\ HasSession(l) => ~Fresh(l)
  <1>1. LoginOK(l)
    BY DEF IInv
  <1>2. l \in DOMAIN preAuth => ~BeingRedeemed(l) /\ ~HasSession(l) /\ ~Fresh(l)
    BY <1>1 DEF LoginOK, Holds, BeingRedeemed, HasSession, Fresh
  <1>3. ASSUME NEW g \in Handlers, Redeeming(g, l)
        PROVE  ~HasSession(l) /\ ~Fresh(l)
    <2>1. \A h \in Handlers : Drawing(h, l) => h = g
      BY <1>1, <1>3 DEF LoginOK, Holds
    <2>2. ~Drawing(g, l)
      BY <1>3 DEF Drawing, Redeeming
    <2>3. QED
      BY <1>1, <1>3, <2>1, <2>2 DEF LoginOK, Holds, HasSession, Fresh
  <1>4. HasSession(l) => ~Fresh(l)
    <2>1. HasSession(l) => l \in drawn
      BY DEF HasSession, SessionsOf, IInv, SessionOK
    <2>2. QED
      BY <1>1, <2>1 DEF LoginOK, Holds, HasSession, Fresh
  <1>5. QED
    BY <1>2, <1>3, <1>4 DEF BeingRedeemed

\* A step of a request leaves every login where it is or closes it, except
\* that it may move its own one step ahead.
Ahead == {<<"unused", "pending">>, <<"pending", "redeeming">>, <<"redeeming", "session">>}

\* A step moves a login forward by one phase at most, and only its own.
LEMMA PhaseMoves ==
    ASSUME IInv, NEW h \in Handlers, Moves(h), NEW l \in Logins
    PROVE  \/ PhaseOf(l)' = PhaseOf(l)
           \/ PhaseOf(l) # "closed" /\ PhaseOf(l)' = "closed"
           \/ <<PhaseOf(l), PhaseOf(l)'>> \in Ahead /\ l = req[h].login
  <1>1. /\ l \in DOMAIN preAuth => ~BeingRedeemed(l) /\ ~HasSession(l) /\ ~Fresh(l)
        /\ BeingRedeemed(l) => ~HasSession(l) /\ ~Fresh(l)
        /\ HasSession(l) => ~Fresh(l)
    BY Places
  <1>2. l \in DOMAIN preAuth' => l \in DOMAIN preAuth \/ (Fresh(l) /\ l = req[h].login)
    BY DEF Moves, Fresh, Drawing
  <1>3. BeingRedeemed(l)' =>
           \/ BeingRedeemed(l)
           \/ l \in DOMAIN preAuth \ DOMAIN preAuth' /\ l = req[h].login
    BY DEF Moves, BeingRedeemed, Redeeming
  <1>4. HasSession(l)' => HasSession(l) \/ (BeingRedeemed(l) /\ l = req[h].login)
    BY DEF Moves, HasSession, SessionsOf, BeingRedeemed, Redeeming
  <1>5. Fresh(l)' => Fresh(l)
    BY DEF Moves, Fresh, Drawing
  <1>6. /\ PhaseOf(l) = IF l \in DOMAIN preAuth THEN "pending"
                        ELSE IF BeingRedeemed(l) THEN "redeeming"
                        ELSE IF HasSession(l) THEN "session"
                        ELSE IF Fresh(l) THEN "unused" ELSE "closed"
        /\ PhaseOf(l)' = IF l \in DOMAIN preAuth' THEN "pending"
                         ELSE IF BeingRedeemed(l)' THEN "redeeming"
                         ELSE IF HasSession(l)' THEN "session"
                         ELSE IF Fresh(l)' THEN "unused" ELSE "closed"
    BY DEF PhaseOf, BeingRedeemed, HasSession, Fresh
  <1>7. QED
    BY <1>1, <1>2, <1>3, <1>4, <1>5, <1>6 DEF Ahead

\* What LoginLifecycle asks of every state.
Bounded ==
    /\ Cardinality({l \in Logins : PhaseOf(l) = "pending"}) <= MaximumSessions
    /\ Cardinality({l \in Logins : PhaseOf(l) = "session"}) <= MaximumSessions

\* No more logins wait, and no more are signed in, than the maps hold.
LEMMA PhasesBounded ==
    ASSUME IInv
    PROVE  Bounded
  <1>1. Cardinality({l \in Logins : PhaseOf(l) = "pending"}) <= MaximumSessions
    <2>1. {l \in Logins : PhaseOf(l) = "pending"} \subseteq DOMAIN preAuth
      BY DEF PhaseOf
    <2>2. QED
      BY <2>1, Fewer
  <1>2. Cardinality({l \in Logins : PhaseOf(l) = "session"}) <= MaximumSessions
    <2> DEFINE S == {l \in Logins : PhaseOf(l) = "session"}
               T == DOMAIN sessions
               one == [l \in S |-> CHOOSE s \in T : sessions[s].login = l]
    <2>1. \A l \in S : \E s \in T : sessions[s].login = l
      BY DEF PhaseOf, SessionsOf
    <2>2. \A l \in S : one[l] \in T /\ sessions[one[l]].login = l
      BY <2>1
    <2>3. one \in Injection(S, T)
      BY <2>2 DEF Injection, IsInjective
    <2> HIDE DEF one, S, T
    <2>4. IsFiniteSet(T) /\ Cardinality(T) <= MaximumSessions
      BY Finite DEF IInv, WithinCapacity, T
    <2>5. IsFiniteSet(S) /\ Cardinality(S) <= Cardinality(T)
      BY <2>3, <2>4, FS_Injection
    <2>6. Cardinality(S) \in Nat /\ Cardinality(T) \in Nat
      BY <2>4, <2>5, FS_CardinalityType
    <2>7. Cardinality(S) <= MaximumSessions
      BY <2>4, <2>5, <2>6, ConfigAssumption
    <2>8. QED
      BY <2>7 DEF S
  <1>3. QED
    BY <1>1, <1>2 DEF Bounded

\* The instance has a name of its own for the size of a set.
LEMMA SameCardinality ==
    ASSUME NEW S
    PROVE  Lifecycle!Cardinality(S) = Cardinality(S)
  BY DEF Cardinality, Lifecycle!Cardinality

\* A step that moves at most one login ahead and closes others is a step of
\* the abstract specification.
LEMMA HandlerLifecycle ==
    ASSUME IInv, Bounded', NEW h \in Handlers, Moves(h)
    PROVE  Lifecycle!Next
  <1> DEFINE ahead == {l \in Logins : PhaseOf(l)' \notin {PhaseOf(l), "closed"}}
  <1>1. \A l \in Logins :
          /\ PhaseOf(l)' \in Lifecycle!Phases
          /\ PhaseOf(l) \in Lifecycle!Phases
    BY DEF PhaseOf, Lifecycle!Phases
  <1>2. \A l \in Logins :
          PhaseOf(l)' = PhaseOf(l) \/ <<PhaseOf(l), PhaseOf(l)'>> \in Lifecycle!Forward
    BY <1>1, PhaseMoves DEF Ahead, Lifecycle!Forward, Lifecycle!Phases
  <1>3. Cardinality(ahead) <= 1
    <2>1. ahead \subseteq {req[h].login}
      BY PhaseMoves
    <2> HIDE DEF ahead
    <2>2. /\ IsFiniteSet({req[h].login}) /\ Cardinality({req[h].login}) = 1
      BY FS_Singleton
    <2>3. IsFiniteSet(ahead) /\ Cardinality(ahead) <= Cardinality({req[h].login})
      BY <2>1, <2>2, FS_Subset
    <2>4. QED
      BY <2>2, <2>3
  <1>4. [l \in Logins |-> PhaseOf(l)]' \in [Logins -> Lifecycle!Phases]
    BY <1>1
  <1>5. \A l \in Logins :
          LET before == [k \in Logins |-> PhaseOf(k)]
              after == [k \in Logins |-> PhaseOf(k)']
          IN  after[l] = before[l] \/ <<before[l], after[l]>> \in Lifecycle!Forward
    BY <1>2
  <1>6. Lifecycle!Cardinality({l \in Logins : [k \in Logins |-> PhaseOf(k)'][l]
                        \notin {[k \in Logins |-> PhaseOf(k)][l], "closed"}}) <= 1
    <2>1. {l \in Logins : [k \in Logins |-> PhaseOf(k)'][l]
              \notin {[k \in Logins |-> PhaseOf(k)][l], "closed"}} = ahead
      OBVIOUS
    <2>2. QED
      BY <1>3, <2>1, SameCardinality
  <1>7. /\ Lifecycle!Cardinality(Lifecycle!In("pending")') <= MaximumSessions
        /\ Lifecycle!Cardinality(Lifecycle!In("session")') <= MaximumSessions
    <2>1. /\ Lifecycle!In("pending")' = {l \in Logins : PhaseOf(l)' = "pending"}
          /\ Lifecycle!In("session")' = {l \in Logins : PhaseOf(l)' = "session"}
      BY DEF Lifecycle!In
    <2>2. QED
      BY <2>1, SameCardinality DEF Bounded
  <1>8. QED
    BY <1>4, <1>5, <1>6, <1>7 DEF Lifecycle!Next

\* The detailed handler implements the life of a login: nothing consumed,
\* refused, expired or logged out comes back, and capacity is never exceeded
\* (login, callback, logout).
THEOREM WebImplementsLifecycle == Spec => ImplementsLifecycle
  <1>1. Init => Lifecycle!Init
    <2> SUFFICES ASSUME Init, NEW l \in Logins PROVE PhaseOf(l) = "unused"
      BY DEF Lifecycle!Init
    <2>1. DOMAIN preAuth = {} /\ DOMAIN sessions = {} /\ drawn = {}
      BY DEF Init, Empty
    <2>2. \A h \in Handlers : req[h].pc = "idle"
      BY DoneRecord, StepNames DEF Init
    <2>3. QED
      BY <2>1, <2>2 DEF PhaseOf, Redeeming, SessionsOf
  <1>2. ASSUME IInv, Bounded', [Next]_vars
        PROVE  [Lifecycle!Next]_([l \in Logins |-> PhaseOf(l)])
    <2>1. ASSUME NEW h \in Handlers, Begin(h) \/ Continue(h) PROVE Lifecycle!Next
      <3>1. Moves(h)
        BY <1>2, <2>1, HandlerMoves
      <3>2. QED
        BY <1>2, <3>1, HandlerLifecycle
    <2>2. CASE \/ Tick \/ UNCHANGED vars
               \/ \E l \in Logins, user \in Users : Authorize(l, user)
      <3>1. UNCHANGED <<preAuth, sessions, req, drawn>>
        BY <2>2 DEF Tick, vars, Authorize
      <3>2. ASSUME NEW l \in Logins PROVE PhaseOf(l)' = PhaseOf(l)
        <4>1. \A h \in Handlers : Redeeming(h, l)' = Redeeming(h, l) /\ Drawing(h, l)' = Drawing(h, l)
          BY <3>1 DEF Redeeming, Drawing
        <4>2. SessionsOf(l)' = SessionsOf(l)
          BY <3>1 DEF SessionsOf
        <4>3. QED
          BY <3>1, <4>1, <4>2 DEF PhaseOf
      <3>3. QED
        BY <3>2
    <2>3. QED
      BY <1>2, <2>1, <2>2 DEF Next
  <1>3. IInv => Bounded
    BY PhasesBounded
  <1>4. QED
    BY <1>1, <1>2, <1>3, WebInvariance, PTL DEF Spec, ImplementsLifecycle, Lifecycle!Spec

=============================================================================
