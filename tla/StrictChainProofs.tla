-------------------------- MODULE StrictChainProofs --------------------------
(***************************************************************************)
(* Proofs about StrictChain, for every set of workloads, targets, tools    *)
(* and concurrent calls, and every clock skew, drift and lifetime.         *)
(***************************************************************************)
EXTENDS StrictChain, TLAPS

-----------------------------------------------------------------------------
(* The inductive invariant *)

\* The gateway has allowed the route that the token t names.
RouteAllowed(t, tr) ==
    /\ t.target = "demo"
    /\ Event("gateway", "allowed", t, t.tool) \in tr

\* The server has let the token t through.
ServerSaw(t, tr) == Event("server", "verify", t, t.tool) \in tr

\* What holds of a call r at each stage, given the trail tr.
Carried(r) ==
    /\ r.stage \in Downstream \cup {"issued"} => r.token \in TxnTokenClaims
    /\ r.stage \in Downstream => r.name \in Tools
    /\ r.stage \in {"idle", "adapter", "issued"} => r.result = "none"
    /\ r.stage \in {"admitted gateway", "allowed"} => r.token.workload = r.caller
    /\ \/ r.stage \in {"allowed", "admitted server", "admitted api"}
       \/ r.stage = "server" /\ r.caller = "gateway"
       \/ r.stage = "api" /\ r.caller = "server"
       => r.allowed = r.token.tool
    /\ r.runner /\ r.stage \in Downstream =>
          r.token.workload = Requester /\ r.token.tool = "system.whoami"

Staged(r, tr) ==
    /\ r.stage = "allowed" => RouteAllowed(r.token, tr)
    /\ r.stage = "server" /\ r.caller = "gateway" => RouteAllowed(r.token, tr)
    /\ r.stage = "admitted server" => RouteAllowed(r.token, tr) /\ ServerSaw(r.token, tr)
    /\ r.stage = "api" /\ (r.caller = "server" \/ r.runner) =>
          RouteAllowed(r.token, tr) /\ ServerSaw(r.token, tr)
    /\ r.stage = "admitted api" =>
          /\ RouteAllowed(r.token, tr) /\ ServerSaw(r.token, tr)
          /\ Event("api", "verify", r.token, r.token.tool) \in tr
    /\ r.result = "ok" =>
          /\ r.token.workload = Requester /\ r.token.tool = "system.whoami"
          /\ RouteAllowed(r.token, tr) /\ ServerSaw(r.token, tr)

\* A token is accepted only inside its own window, widened by skew and drift.
Window ==
    \A t \in DOMAIN known :
        /\ t.exp - t.iat <= MaximumLifetime
        /\ known[t].first >= t.iat - ClockSkew - Drift
        /\ known[t].last <= t.exp + ClockSkew + Drift

IInv ==
    /\ TypeOK
    /\ \A c \in Calls : Carried(call[c]) /\ Staged(call[c], trail)
    /\ SignedRouteOnly
    /\ Window

-----------------------------------------------------------------------------
(* What the steps have in common *)

\* What holds of a call goes on holding when the trail grows: no audit record is
\* ever taken back.
LEMMA TrailGrows ==
    ASSUME NEW r, NEW tr, NEW tr2, tr \subseteq tr2, Staged(r, tr)
    PROVE  Staged(r, tr2)
  BY DEF Staged, RouteAllowed, ServerSaw

\* A step that gives one call the value r, right for its stage, and only adds
\* to the trail keeps the invariant of every call.
LEMMA CallStep ==
    ASSUME TypeOK, \A d \in Calls : Carried(call[d]) /\ Staged(call[d], trail),
           NEW c \in Calls, NEW r \in Call,
           call' = [call EXCEPT ![c] = r], trail \subseteq trail',
           Carried(r), Staged(r, trail')
    PROVE  /\ call' \in [Calls -> Call]
           /\ \A d \in Calls : (Carried(call[d]) /\ Staged(call[d], trail))'
  <1>1. call \in [Calls -> Call]
    BY DEF TypeOK
  <1>2. call' \in [Calls -> Call]
    BY <1>1
  <1>3. ASSUME NEW d \in Calls
        PROVE  Carried(call'[d]) /\ Staged(call'[d], trail')
    <2>1. CASE d = c
      BY <1>1, <2>1
    <2>2. CASE d # c
      <3>1. call'[d] = call[d]
        BY <1>1, <2>2
      <3>2. QED
        BY <3>1, TrailGrows
    <2>3. QED
      BY <2>1, <2>2
  <1>4. QED
    BY <1>2, <1>3

\* Accepting a token records a time inside its widened window.
LEMMA NotedInWindow ==
    ASSUME TypeOK, Window, NEW token \in TxnTokenClaims, Verifies(token),
           known' = Noted(token), clock' = clock
    PROVE  /\ DOMAIN known' \subseteq TxnTokenClaims
           /\ \A t \in DOMAIN known' : known'[t] \in [first : 0..MaxClock, last : 0..MaxClock]
           /\ Window'
  <1>1. PICK now \in (clock - Drift)..(clock + Drift) : Accepted(token, now)
    BY DEF Verifies
  <1>2. /\ clock \in Int /\ Drift \in Int /\ ClockSkew \in Int /\ MaximumLifetime \in Int
        /\ MaxClock \in Int /\ token.iat \in Int /\ token.exp \in Int /\ now \in Int
    BY <1>1, VerifierAssumption, StrictAssumption DEF TypeOK, TxnTokenClaims
  <1>3. /\ token.exp - token.iat <= MaximumLifetime
        /\ clock >= token.iat - ClockSkew - Drift
        /\ clock <= token.exp + ClockSkew + Drift
    BY <1>1, <1>2 DEF Accepted, validTimeWindow
  <1>4. clock \in 0..MaxClock
    BY DEF TypeOK
  <1>5. DOMAIN known' = DOMAIN known \cup {token}
    BY DEF Noted
  <1>6. ASSUME NEW t \in DOMAIN known'
        PROVE  /\ known'[t] \in [first : 0..MaxClock, last : 0..MaxClock]
               /\ t.exp - t.iat <= MaximumLifetime
               /\ known'[t].first >= t.iat - ClockSkew - Drift
               /\ known'[t].last <= t.exp + ClockSkew + Drift
    <2>1. CASE t # token
      <3>1. t \in DOMAIN known /\ known'[t] = known[t]
        BY <1>5, <2>1 DEF Noted
      <3>2. QED
        BY <3>1 DEF TypeOK, Window
    <2>2. CASE t = token /\ t \in DOMAIN known
      <3>1. known'[t] = [known[t] EXCEPT !.last = clock]
        BY <2>2 DEF Noted
      <3>2. known[t] \in [first : 0..MaxClock, last : 0..MaxClock]
        BY <2>2 DEF TypeOK
      <3>3. /\ known'[t] \in [first : 0..MaxClock, last : 0..MaxClock]
            /\ known'[t].first = known[t].first /\ known'[t].last = clock
        BY <3>1, <3>2, <1>4
      <3>4. QED
        BY <3>3, <2>2, <1>3 DEF Window
    <2>3. CASE t = token /\ t \notin DOMAIN known
      <3>1. known'[t] = [first |-> clock, last |-> clock]
        BY <2>3, <1>5 DEF Noted
      <3>2. QED
        BY <3>1, <2>3, <1>3, <1>4
    <2>4. QED
      BY <2>1, <2>2, <2>3
  <1>7. QED
    BY <1>5, <1>6 DEF Window, TypeOK

\* Without a new effect, a growing trail keeps SignedRouteOnly.
LEMMA RoutesKept ==
    ASSUME SignedRouteOnly, trail \subseteq trail', effects' = effects
    PROVE  SignedRouteOnly'
  BY DEF SignedRouteOnly

\* A call at rest, with no token under way, satisfies the invariant.
LEMMA NoCallRight ==
    /\ NoCall \in Call
    /\ Carried(NoCall)
    /\ \A tr : Staged(NoCall, tr)
  BY DEF NoCall, Call, Carried, Staged, Downstream

\* An answer keeps the invariant of every call, provided that a 2xx to the
\* runner stands on the gateway's and the server's records.
LEMMA FinishStep ==
    ASSUME TypeOK, \A d \in Calls : Carried(call[d]) /\ Staged(call[d], trail),
           NEW c \in Calls, NEW ok \in BOOLEAN, Finish(c, ok), trail' = trail,
           ok /\ call[c].runner =>
              /\ call[c].token.workload = Requester
              /\ call[c].token.tool = "system.whoami"
              /\ RouteAllowed(call[c].token, trail) /\ ServerSaw(call[c].token, trail)
    PROVE  /\ call' \in [Calls -> Call]
           /\ \A d \in Calls : (Carried(call[d]) /\ Staged(call[d], trail))'
  <1> DEFINE res == IF ~Waiting(c) THEN call[c].result ELSE IF ok THEN "ok" ELSE "failed"
             r == [NoCall EXCEPT !.stage = "done", !.runner = call[c].runner,
                                 !.token = call[c].token, !.result = res]
  <1>1. call[c] \in Call
    BY DEF TypeOK
  <1>2. /\ call[c].runner \in BOOLEAN /\ call[c].token \in TxnTokenClaims \cup {None}
        /\ call[c].result \in {"none", "ok", "failed"}
    BY <1>1 DEF Call
  <1>3. /\ res \in {"none", "ok", "failed"}
        /\ res = "ok" => (call[c].runner /\ ok) \/ call[c].result = "ok"
    BY <1>2 DEF Waiting
  <1> HIDE DEF res
  <1>4. r \in Call
    BY <1>2, <1>3, NoCallRight DEF Call, Downstream
  <1>5. r.stage = "done" /\ r.token = call[c].token /\ r.result = res
    BY NoCallRight DEF Call
  <1>6. Carried(r)
    BY <1>5 DEF Carried, Downstream
  <1>7. Staged(r, trail')
    <2>1. CASE res = "ok"
      BY <1>3, <1>5, <2>1 DEF Staged
    <2>2. CASE res # "ok"
      BY <1>5, <2>2 DEF Staged
    <2>3. QED
      BY <2>1, <2>2
  <1>8. call' = [call EXCEPT ![c] = r]
    BY DEF Finish, res
  <1> HIDE DEF r
  <1>9. QED
    BY <1>4, <1>6, <1>7, <1>8, CallStep

\* A call that a service sends on is a call.
LEMMA SentOn ==
    ASSUME NEW q \in Call, NEW s \in {"idle", "adapter", "issued", "done"} \cup Downstream,
           NEW p \in Peers \cup {None}, NEW n \in 0..2, NEW a \in BOOLEAN
    PROVE  [q EXCEPT !.stage = s, !.caller = p, !.copies = n, !.auth = a] \in Call
  BY DEF Call

\* A call that the runner sends is a call.
LEMMA Sent ==
    ASSUME NEW q \in Call, NEW s \in {"idle", "adapter", "issued", "done"} \cup Downstream,
           NEW n \in 0..2, NEW m \in {"tools/call", "other"}, NEW tool \in Tools
    PROVE  [q EXCEPT !.stage = s, !.copies = n, !.method = m, !.name = tool,
                     !.tool = tool] \in Call
  BY DEF Call

\* A step that changes a call and nothing else keeps the rest of the invariant.
LEMMA QuietStep ==
    ASSUME IInv, UNCHANGED <<clock, known, trail, effects>>,
           call' \in [Calls -> Call],
           \A d \in Calls : (Carried(call[d]) /\ Staged(call[d], trail))'
    PROVE  IInv'
  BY DEF IInv, TypeOK, SignedRouteOnly, Window

-----------------------------------------------------------------------------
(* Steps that change a call and nothing else *)

\* The refusals of adapter, runner, middleware, gateway and server.
LEMMA RefusalSteps ==
    ASSUME IInv, NEW c \in Calls,
           \/ AdapterRefuses(c) \/ RunnerRefuses(c) \/ GatewayRefuses(c)
           \/ ServerAnswersError(c)
           \/ \E w \in Services : MiddlewareRefuses(c, w)
    PROVE  IInv'
  <1>1. PICK ok \in BOOLEAN :
           /\ Finish(c, ok)
           /\ ok => call[c].stage \in {"admitted server", "api"}
    <2>1. CASE AdapterRefuses(c) \/ RunnerRefuses(c) \/ GatewayRefuses(c)
      BY <2>1 DEF AdapterRefuses, RunnerRefuses, GatewayRefuses
    <2>2. CASE ServerAnswersError(c)
      BY <2>2 DEF ServerAnswersError, At
    <2>3. CASE \E w \in Services : MiddlewareRefuses(c, w)
      BY <2>3 DEF MiddlewareRefuses, At
    <2>4. QED
      BY <2>1, <2>2, <2>3
  <1>2. UNCHANGED <<clock, known, trail, effects>>
    BY DEF AdapterRefuses, RunnerRefuses, GatewayRefuses, ServerAnswersError, MiddlewareRefuses
  <1>3. ok /\ call[c].runner =>
           /\ call[c].token.workload = Requester
           /\ call[c].token.tool = "system.whoami"
           /\ RouteAllowed(call[c].token, trail) /\ ServerSaw(call[c].token, trail)
    BY <1>1 DEF IInv, Carried, Staged, Downstream
  <1>4. /\ call' \in [Calls -> Call]
        /\ \A d \in Calls : (Carried(call[d]) /\ Staged(call[d], trail))'
    BY <1>1, <1>2, <1>3, FinishStep DEF IInv
  <1>5. QED
    BY <1>2, <1>4, QuietStep

\* A connection becomes free, and a new request begins.
LEMMA RequestSteps ==
    ASSUME IInv, NEW c \in Calls,
           \/ Forget(c) \/ AskAdapter(c)
           \/ \E service \in Services, peer \in Workloads, token \in DOMAIN known :
                 AnyoneCalls(c, service, peer, token)
    PROVE  IInv'
  <1>1. UNCHANGED <<clock, known, trail, effects>>
    BY DEF Forget, AskAdapter, AnyoneCalls
  <1>2. \E r \in Call : /\ call' = [call EXCEPT ![c] = r]
                        /\ Carried(r) /\ Staged(r, trail)
    <2>1. CASE Forget(c)
      BY <2>1, NoCallRight DEF Forget
    <2>2. CASE AskAdapter(c)
      <3>1. PICK peer \in Workloads, runner \in BOOLEAN :
               call' = [call EXCEPT ![c] = [NoCall EXCEPT !.stage = "adapter",
                                               !.runner = runner, !.caller = peer]]
        BY <2>2 DEF AskAdapter
      <3> DEFINE r == [NoCall EXCEPT !.stage = "adapter", !.runner = runner, !.caller = peer]
      <3>2. r \in Call
        BY NoCallRight DEF Call, Peers
      <3>3. r.stage = "adapter" /\ r.result = "none"
        BY NoCallRight DEF Call, NoCall
      <3>4. Carried(r) /\ Staged(r, trail)
        BY <3>3 DEF Carried, Staged, Downstream
      <3>5. QED
        BY <3>1, <3>2, <3>4
    <2>3. CASE \E service \in Services, peer \in Workloads, token \in DOMAIN known :
                  AnyoneCalls(c, service, peer, token)
      <3>1. PICK service \in Services, peer \in Workloads, token \in DOMAIN known :
                  AnyoneCalls(c, service, peer, token)
        BY <2>3
      <3>2. PICK copies \in 0..2, auth \in BOOLEAN, method \in {"tools/call", "other"},
                 name \in Tools, tool \in Tools :
               call' = [call EXCEPT ![c] = [NoCall EXCEPT !.stage = service, !.caller = peer,
                           !.token = token, !.copies = copies, !.auth = auth,
                           !.method = method, !.name = name, !.tool = tool]]
        BY <3>1 DEF AnyoneCalls
      <3> DEFINE r == [NoCall EXCEPT !.stage = service, !.caller = peer,
                           !.token = token, !.copies = copies, !.auth = auth,
                           !.method = method, !.name = name, !.tool = tool]
      <3>3. token \in TxnTokenClaims
        BY DEF IInv, TypeOK
      <3>4. r \in Call
        BY <3>3, NoCallRight DEF Call, Peers, Services, Downstream
      <3>5. /\ r.stage = service /\ r.token = token /\ r.name = name /\ r.caller = peer
            /\ r.result = "none" /\ r.runner = FALSE
        BY NoCallRight DEF Call, NoCall
      <3>6. r.caller # "gateway" /\ r.caller # "server"
        BY <3>5, StrictAssumption
      <3> HIDE DEF r
      <3>7. Carried(r)
        BY <3>3, <3>5, <3>6 DEF Carried, Services
      <3>8. Staged(r, trail)
        BY <3>5, <3>6 DEF Staged, Services
      <3>9. QED
        BY <3>2, <3>4, <3>7, <3>8 DEF r
    <2>4. QED
      BY <2>1, <2>2, <2>3
  <1>3. /\ call' \in [Calls -> Call]
        /\ \A d \in Calls : (Carried(call[d]) /\ Staged(call[d], trail))'
    BY <1>1, <1>2, CallStep DEF IInv
  <1>4. QED
    BY <1>1, <1>3, QuietStep

\* Somebody gives up waiting.
LEMMA GivingUpSteps ==
    ASSUME IInv, NEW c \in Calls, GivesUp(c) \/ ServerGivesUp(c)
    PROVE  IInv'
  <1>1. UNCHANGED <<clock, known, trail, effects>>
    BY DEF GivesUp, ServerGivesUp
  <1>2. /\ Waiting(c) /\ call[c].stage \in Downstream
        /\ \E res \in {"failed", "ok"} :
              /\ call' = [call EXCEPT ![c] = [call[c] EXCEPT !.result = res]]
              /\ res = "ok" => call[c].stage \in {"api", "admitted api"}
    BY DEF GivesUp, ServerGivesUp, Downstream
  <1>3. PICK res \in {"failed", "ok"} :
              /\ call' = [call EXCEPT ![c] = [call[c] EXCEPT !.result = res]]
              /\ res = "ok" => call[c].stage \in {"api", "admitted api"}
    BY <1>2
  <1> DEFINE r == [call[c] EXCEPT !.result = res]
  <1>4. call[c] \in Call /\ Carried(call[c]) /\ Staged(call[c], trail)
    BY DEF IInv, TypeOK
  <1>5. r \in Call
    BY <1>4 DEF Call
  <1>6. /\ r.stage = call[c].stage /\ r.token = call[c].token /\ r.runner = call[c].runner
        /\ r.caller = call[c].caller /\ r.name = call[c].name /\ r.result = res
        /\ r.allowed = call[c].allowed
    BY <1>4 DEF Call
  <1> HIDE DEF r
  <1>7. Carried(r)
    BY <1>2, <1>4, <1>6 DEF Carried, Downstream
  <1>8. Staged(r, trail)
    BY <1>2, <1>3, <1>4, <1>6 DEF Staged, Carried, Waiting, Downstream
  <1>9. /\ call' \in [Calls -> Call]
        /\ \A d \in Calls : (Carried(call[d]) /\ Staged(call[d], trail))'
    BY <1>1, <1>3, <1>5, <1>7, <1>8, CallStep DEF IInv, r
  <1>10. QED
    BY <1>1, <1>9, QuietStep

\* The gateway sends the call on to the server.
LEMMA GatewayForwardsStep ==
    ASSUME IInv, NEW c \in Calls, GatewayForwards(c)
    PROVE  IInv'
  <1>1. UNCHANGED <<clock, known, trail, effects>>
    BY DEF GatewayForwards
  <1> DEFINE r == [call[c] EXCEPT !.stage = "server", !.caller = "gateway",
                                  !.copies = 1, !.auth = FALSE]
  <1>2. call' = [call EXCEPT ![c] = r] /\ call[c].stage = "allowed"
    BY DEF GatewayForwards, At
  <1>3. call[c] \in Call /\ Carried(call[c]) /\ Staged(call[c], trail)
    BY DEF IInv, TypeOK
  <1>4. r \in Call
    <2>1. /\ "server" \in {"idle", "adapter", "issued", "done"} \cup Downstream
          /\ "gateway" \in Peers \cup {None} /\ 1 \in 0..2 /\ FALSE \in BOOLEAN
      BY DEF Downstream, Peers
    <2>2. QED
      BY <1>3, <2>1, SentOn
  <1>5. /\ r.stage = "server" /\ r.token = call[c].token /\ r.runner = call[c].runner
        /\ r.caller = "gateway" /\ r.name = call[c].name /\ r.result = call[c].result
        /\ r.allowed = call[c].allowed
    BY <1>3 DEF Call
  <1> HIDE DEF r
  <1>6. Carried(r)
    BY <1>2, <1>3, <1>5 DEF Carried, Downstream
  <1>7. Staged(r, trail)
    BY <1>2, <1>3, <1>5 DEF Staged
  <1>8. /\ call' \in [Calls -> Call]
        /\ \A d \in Calls : (Carried(call[d]) /\ Staged(call[d], trail))'
    BY <1>1, <1>2, <1>4, <1>6, <1>7, CallStep DEF IInv
  <1>9. QED
    BY <1>1, <1>8, QuietStep

-----------------------------------------------------------------------------
(* Steps that accept a token *)

\* The adapter accepts the token that was signed.
LEMMA AdapterIssuesStep ==
    ASSUME IInv, NEW c \in Calls, NEW token \in TxnTokenClaims, AdapterIssues(c, token)
    PROVE  IInv'
  <1>1. UNCHANGED <<clock, trail, effects>>
    BY DEF AdapterIssues
  <1> DEFINE r == [call[c] EXCEPT !.token = token,
                      !.stage = IF call[c].runner THEN "issued" ELSE "done"]
  <1>2. call' = [call EXCEPT ![c] = r] /\ call[c].stage = "adapter"
    BY DEF AdapterIssues, At
  <1>3. call[c] \in Call /\ Carried(call[c]) /\ Staged(call[c], trail)
    BY DEF IInv, TypeOK
  <1>4. r \in Call
    BY <1>3 DEF Call
  <1>5. /\ r.stage \in {"issued", "done"} /\ r.token = token /\ r.runner = call[c].runner
        /\ r.result = call[c].result
    BY <1>3 DEF Call
  <1> HIDE DEF r
  <1>6. Carried(r)
    BY <1>2, <1>3, <1>5 DEF Carried, Downstream
  <1>7. Staged(r, trail')
    BY <1>2, <1>3, <1>5 DEF Staged, Carried
  <1>8. /\ call' \in [Calls -> Call]
        /\ \A d \in Calls : (Carried(call[d]) /\ Staged(call[d], trail))'
    BY <1>1, <1>2, <1>4, <1>6, <1>7, CallStep DEF IInv
  <1>9. /\ DOMAIN known' \subseteq TxnTokenClaims
        /\ \A t \in DOMAIN known' : known'[t] \in [first : 0..MaxClock, last : 0..MaxClock]
        /\ Window'
    BY <1>1, NotedInWindow DEF AdapterIssues, IInv
  <1>10. SignedRouteOnly'
    BY <1>1, RoutesKept DEF IInv
  <1>11. QED
    BY <1>1, <1>8, <1>9, <1>10 DEF IInv, TypeOK

\* The runner accepts the token it was given.
LEMMA RunnerCallsStep ==
    ASSUME IInv, NEW c \in Calls, RunnerCalls(c)
    PROVE  IInv'
  <1>1. UNCHANGED <<clock, trail, effects>>
    BY DEF RunnerCalls
  <1> DEFINE r == [call[c] EXCEPT !.stage = "gateway", !.copies = 1,
                      !.method = "tools/call", !.name = "system.whoami",
                      !.tool = "system.whoami"]
  <1>2. call' = [call EXCEPT ![c] = r] /\ call[c].stage = "issued"
    BY DEF RunnerCalls, At
  <1>3. call[c] \in Call /\ Carried(call[c]) /\ Staged(call[c], trail)
    BY DEF IInv, TypeOK
  <1>4. call[c].token \in TxnTokenClaims /\ call[c].result = "none"
    BY <1>2, <1>3 DEF Carried
  <1>5. r \in Call
    <2>1. /\ "gateway" \in {"idle", "adapter", "issued", "done"} \cup Downstream
          /\ 1 \in 0..2 /\ "tools/call" \in {"tools/call", "other"}
          /\ "system.whoami" \in Tools
      BY StrictAssumption DEF Downstream
    <2>2. QED
      BY <1>3, <2>1, Sent
  <1>6. /\ r.stage = "gateway" /\ r.token = call[c].token /\ r.runner = call[c].runner
        /\ r.name = "system.whoami" /\ r.result = "none" /\ r.caller = call[c].caller
    BY <1>3, <1>4 DEF Call
  <1>7. call[c].token.workload = Requester /\ call[c].token.tool = "system.whoami"
    BY DEF RunnerCalls
  <1> HIDE DEF r
  <1>8. Carried(r)
    BY <1>3, <1>4, <1>6, <1>7, StrictAssumption DEF Carried, Downstream
  <1>9. Staged(r, trail')
    BY <1>6 DEF Staged
  <1>10. /\ call' \in [Calls -> Call]
         /\ \A d \in Calls : (Carried(call[d]) /\ Staged(call[d], trail))'
    BY <1>1, <1>2, <1>5, <1>8, <1>9, CallStep DEF IInv
  <1>11. /\ DOMAIN known' \subseteq TxnTokenClaims
         /\ \A t \in DOMAIN known' : known'[t] \in [first : 0..MaxClock, last : 0..MaxClock]
         /\ Window'
    BY <1>1, <1>4, NotedInWindow DEF RunnerCalls, IInv
  <1>12. SignedRouteOnly'
    BY <1>1, RoutesKept DEF IInv
  <1>13. QED
    BY <1>1, <1>10, <1>11, <1>12 DEF IInv, TypeOK

\* The middleware of a service accepts the token and records it.
LEMMA MiddlewareAdmitsStep ==
    ASSUME IInv, NEW c \in Calls, NEW w \in Services, MiddlewareAdmits(c, w)
    PROVE  IInv'
  <1> DEFINE t == call[c].token
             next == CASE w = "gateway" -> "admitted gateway"
                       [] w = "server"  -> "admitted server"
                       [] w = "api"     -> "admitted api"
             r == [call[c] EXCEPT !.stage = next]
  <1>1. /\ UNCHANGED <<clock, effects>>
        /\ call[c].stage = w
        /\ Verifies(t) /\ call[c].caller \in AllowedCallers(w)
        /\ known' = Noted(t)
        /\ trail' = trail \cup {Event(w, "verify", t, t.tool)}
    BY DEF MiddlewareAdmits, At
  <1>2. call' = [call EXCEPT ![c] = r]
    BY DEF MiddlewareAdmits, Goto
  <1>3. call[c] \in Call /\ Carried(call[c]) /\ Staged(call[c], trail)
    BY DEF IInv, TypeOK
  <1>4. t \in TxnTokenClaims /\ w \in Downstream /\ call[c].name \in Tools
    BY <1>1, <1>3 DEF Carried, Services, Downstream
  <1>5. t.workload = Requester
    BY <1>1 DEF Verifies, Accepted, boundAgent
  <1>6. /\ next \in {"admitted gateway", "admitted server", "admitted api"}
        /\ w = "gateway" <=> next = "admitted gateway"
        /\ w = "server" <=> next = "admitted server"
        /\ w = "api" <=> next = "admitted api"
    <2>1. CASE w = "gateway"
      BY <2>1
    <2>2. CASE w = "server"
      BY <2>2
    <2>3. CASE w = "api"
      BY <2>3
    <2>4. QED
      BY <2>1, <2>2, <2>3 DEF Services
  <1>7. /\ w = "gateway" => call[c].caller = Requester
        /\ w = "server" => call[c].caller = "gateway"
        /\ w = "api" => call[c].caller = "server"
    <2>1. CASE w = "gateway"
      BY <1>1, <2>1 DEF AllowedCallers
    <2>2. CASE w = "server"
      BY <1>1, <2>2 DEF AllowedCallers
    <2>3. CASE w = "api"
      BY <1>1, <2>3 DEF AllowedCallers
    <2>4. QED
      BY <2>1, <2>2, <2>3 DEF Services
  <1> HIDE DEF next
  <1>8. r \in Call
    <2>1. next \in {"idle", "adapter", "issued", "done"} \cup Downstream
      BY <1>6 DEF Downstream
    <2>2. QED
      BY <1>3, <2>1 DEF Call
  <1>9. /\ r.stage = next /\ r.token = t /\ r.runner = call[c].runner
        /\ r.caller = call[c].caller /\ r.name = call[c].name /\ r.result = call[c].result
        /\ r.allowed = call[c].allowed
    BY <1>3 DEF Call
  <1> HIDE DEF r
  <1>10. Carried(r)
    BY <1>1, <1>3, <1>4, <1>5, <1>6, <1>7, <1>9 DEF Carried
  <1>11. Staged(call[c], trail')
    BY <1>1, <1>3, TrailGrows
  <1>12. Staged(r, trail')
    <2>1. Event(w, "verify", t, t.tool) \in trail'
      BY <1>1
    <2>2. CASE w = "gateway"
      BY <1>6, <1>9, <1>11, <2>2 DEF Staged
    <2>3. CASE w = "server"
      BY <1>1, <1>6, <1>7, <1>9, <1>11, <2>1, <2>3 DEF Staged, ServerSaw
    <2>4. CASE w = "api"
      BY <1>1, <1>6, <1>7, <1>9, <1>11, <2>1, <2>4 DEF Staged
    <2>5. QED
      BY <2>2, <2>3, <2>4 DEF Services
  <1>13. /\ call' \in [Calls -> Call]
         /\ \A d \in Calls : (Carried(call[d]) /\ Staged(call[d], trail))'
    BY <1>1, <1>2, <1>8, <1>10, <1>12, CallStep DEF IInv
  <1>14. /\ DOMAIN known' \subseteq TxnTokenClaims
         /\ \A u \in DOMAIN known' : known'[u] \in [first : 0..MaxClock, last : 0..MaxClock]
         /\ Window'
    BY <1>1, <1>4, NotedInWindow DEF IInv
  <1>15. SignedRouteOnly'
    BY <1>1, RoutesKept DEF IInv
  <1>16. trail' \subseteq Record
    <2>1. Event(w, "verify", t, t.tool) \in Record
      BY <1>4 DEF Event, Record, TxnTokenClaims
    <2>2. QED
      BY <1>1, <2>1 DEF IInv, TypeOK
  <1>17. QED
    BY <1>1, <1>13, <1>14, <1>15, <1>16 DEF IInv, TypeOK

-----------------------------------------------------------------------------
(* Steps that decide and act *)

\* The gateway allows a call whose signed route is the one asked for.
LEMMA GatewayAllowsStep ==
    ASSUME IInv, NEW c \in Calls, GatewayAllows(c)
    PROVE  IInv'
  <1> DEFINE t == call[c].token
             r == [call[c] EXCEPT !.stage = "allowed", !.allowed = call[c].name]
  <1>1. /\ UNCHANGED <<clock, known, effects>>
        /\ call[c].stage = "admitted gateway"
        /\ t.target = "demo" /\ t.tool = call[c].name
        /\ trail' = trail \cup {Event("gateway", "allowed", t, t.tool)}
    BY DEF GatewayAllows, At, SignedRoute
  <1>2. call' = [call EXCEPT ![c] = r]
    BY DEF GatewayAllows
  <1>3. call[c] \in Call /\ Carried(call[c]) /\ Staged(call[c], trail)
    BY DEF IInv, TypeOK
  <1>4. t \in TxnTokenClaims /\ call[c].name \in Tools
    BY <1>1, <1>3 DEF Carried, Downstream
  <1>5. r \in Call
    BY <1>3, <1>4 DEF Call, Downstream
  <1>6. /\ r.stage = "allowed" /\ r.token = t /\ r.runner = call[c].runner
        /\ r.caller = call[c].caller /\ r.name = call[c].name /\ r.result = call[c].result
        /\ r.allowed = call[c].name
    BY <1>3 DEF Call
  <1> HIDE DEF r
  <1>7. Carried(r)
    BY <1>1, <1>3, <1>6 DEF Carried, Downstream
  <1>8. Staged(r, trail')
    <2>1. trail \subseteq trail'
      BY <1>1
    <2>2. Staged(call[c], trail')
      BY <1>3, <2>1, TrailGrows
    <2>3. RouteAllowed(t, trail')
      BY <1>1 DEF RouteAllowed
    <2>4. QED
      BY <1>6, <2>2, <2>3 DEF Staged
  <1>9. /\ call' \in [Calls -> Call]
        /\ \A d \in Calls : (Carried(call[d]) /\ Staged(call[d], trail))'
    BY <1>1, <1>2, <1>5, <1>7, <1>8, CallStep DEF IInv
  <1>10. SignedRouteOnly'
    BY <1>1, RoutesKept DEF IInv
  <1>11. trail' \subseteq Record
    <2>1. Event("gateway", "allowed", t, t.tool) \in Record
      BY <1>4 DEF Event, Record, TxnTokenClaims, Services
    <2>2. QED
      BY <1>1, <2>1 DEF IInv, TypeOK
  <1>12. Window'
    BY <1>1 DEF IInv, Window
  <1>13. QED
    BY <1>1, <1>9, <1>10, <1>11, <1>12 DEF IInv, TypeOK

\* An effect that the token names, on the records of the gateway and of the
\* services it went through, keeps SignedRouteOnly.
LEMMA EffectStep ==
    ASSUME IInv, NEW t \in TxnTokenClaims, NEW w \in {"server", "api"},
           RouteAllowed(t, trail), ServerSaw(t, trail),
           w = "api" => Event("api", "verify", t, t.tool) \in trail,
           trail' = trail,
           effects' = effects \cup {[at |-> w, tool |-> t.tool, token |-> t]}
    PROVE  /\ SignedRouteOnly'
           /\ effects' \subseteq [at : Services, tool : Tools, token : TxnTokenClaims]
  <1> DEFINE e0 == [at |-> w, tool |-> t.tool, token |-> t]
  <1>1. t.tool \in Tools
    BY DEF TxnTokenClaims
  <1>2. e0.at = w /\ e0.tool = t.tool /\ e0.token = t
    OBVIOUS
  <1>3. e0 \in [at : Services, tool : Tools, token : TxnTokenClaims]
    BY <1>1 DEF Services
  <1>4. effects' = effects \cup {e0}
    OBVIOUS
  <1> HIDE DEF e0
  <1>5. effects' \subseteq [at : Services, tool : Tools, token : TxnTokenClaims]
    BY <1>3, <1>4 DEF IInv, TypeOK
  <1>6. ASSUME NEW e \in effects'
        PROVE  /\ e.token.target = "demo" /\ e.token.tool = e.tool
               /\ Event("gateway", "allowed", e.token, e.tool) \in trail'
               /\ Event("server", "verify", e.token, e.tool) \in trail'
               /\ e.at = "api" => Event("api", "verify", e.token, e.tool) \in trail'
    <2>1. CASE e \in effects
      BY <2>1 DEF IInv, SignedRouteOnly
    <2>2. CASE e = e0
      BY <1>2, <2>2 DEF RouteAllowed, ServerSaw
    <2>3. QED
      BY <1>4, <2>1, <2>2
  <1>7. QED
    BY <1>5, <1>6 DEF SignedRouteOnly

\* A tool that answers by itself, and the API.
LEMMA AnswerSteps ==
    ASSUME IInv, NEW c \in Calls, CustomerGet(c) \/ APIAnswers(c)
    PROVE  IInv'
  <1> DEFINE t == call[c].token
  <1>1. /\ UNCHANGED <<clock, known, trail>> /\ Finish(c, TRUE)
        /\ call[c].stage \in {"admitted server", "admitted api"}
    BY DEF CustomerGet, APIAnswers, At
  <1>2. call[c] \in Call /\ Carried(call[c]) /\ Staged(call[c], trail)
    BY DEF IInv, TypeOK
  <1>3. /\ t \in TxnTokenClaims /\ RouteAllowed(t, trail) /\ ServerSaw(t, trail)
        /\ call[c].runner => t.workload = Requester /\ t.tool = "system.whoami"
    BY <1>1, <1>2 DEF Carried, Staged, Downstream
  <1>4. /\ call' \in [Calls -> Call]
        /\ \A d \in Calls : (Carried(call[d]) /\ Staged(call[d], trail))'
    BY <1>1, <1>3, FinishStep DEF IInv
  <1>5. /\ SignedRouteOnly'
        /\ effects' \subseteq [at : Services, tool : Tools, token : TxnTokenClaims]
    <2>1. CASE CustomerGet(c)
      <3>1. effects' = effects \cup {[at |-> "server", tool |-> t.tool, token |-> t]}
        BY <2>1 DEF CustomerGet, signedToolMatches
      <3>2. QED
        BY <1>1, <1>3, <3>1, EffectStep
    <2>2. CASE APIAnswers(c)
      <3>1. CASE signedToolMatches(c, "system.whoami")
        <4>1. effects' = effects \cup {[at |-> "api", tool |-> t.tool, token |-> t]}
          BY <2>2, <3>1 DEF APIAnswers, signedToolMatches
        <4>2. Event("api", "verify", t, t.tool) \in trail
          BY <1>2, <2>2 DEF Staged, APIAnswers, At
        <4>3. QED
          BY <1>1, <1>3, <4>1, <4>2, EffectStep
      <3>2. CASE ~signedToolMatches(c, "system.whoami")
        <4>1. effects' = effects
          BY <2>2, <3>2 DEF APIAnswers
        <4>2. QED
          BY <1>1, <4>1, RoutesKept DEF IInv, TypeOK
      <3>3. QED
        BY <3>1, <3>2
    <2>3. QED
      BY <2>1, <2>2
  <1>6. Window'
    BY <1>1 DEF IInv, Window
  <1>7. QED
    BY <1>1, <1>4, <1>5, <1>6 DEF IInv, TypeOK

\* The tool that calls the API.
LEMMA WhoAmIStep ==
    ASSUME IInv, NEW c \in Calls, WhoAmI(c)
    PROVE  IInv'
  <1> DEFINE t == call[c].token
             r == [call[c] EXCEPT !.stage = "api", !.caller = "server",
                                  !.copies = 1, !.auth = FALSE]
  <1>1. /\ UNCHANGED <<clock, known, trail>> /\ call[c].stage = "admitted server"
        /\ call' = [call EXCEPT ![c] = r]
        /\ effects' = effects \cup {[at |-> "server", tool |-> t.tool, token |-> t]}
    BY DEF WhoAmI, At, signedToolMatches
  <1>2. call[c] \in Call /\ Carried(call[c]) /\ Staged(call[c], trail)
    BY DEF IInv, TypeOK
  <1>3. t \in TxnTokenClaims /\ RouteAllowed(t, trail) /\ ServerSaw(t, trail)
    BY <1>1, <1>2 DEF Carried, Staged, Downstream
  <1>4. r \in Call
    <2>1. /\ "api" \in {"idle", "adapter", "issued", "done"} \cup Downstream
          /\ "server" \in Peers \cup {None} /\ 1 \in 0..2 /\ FALSE \in BOOLEAN
      BY DEF Downstream, Peers
    <2>2. QED
      BY <1>2, <2>1, SentOn
  <1>5. /\ r.stage = "api" /\ r.token = t /\ r.runner = call[c].runner
        /\ r.caller = "server" /\ r.name = call[c].name /\ r.result = call[c].result
        /\ r.allowed = call[c].allowed
    BY <1>2 DEF Call
  <1> HIDE DEF r
  <1>6. Carried(r)
    BY <1>1, <1>2, <1>5 DEF Carried, Downstream
  <1>7. Staged(r, trail')
    BY <1>1, <1>2, <1>3, <1>5 DEF Staged
  <1>8. /\ call' \in [Calls -> Call]
        /\ \A d \in Calls : (Carried(call[d]) /\ Staged(call[d], trail))'
    BY <1>1, <1>4, <1>6, <1>7, CallStep DEF IInv
  <1>9. /\ SignedRouteOnly'
        /\ effects' \subseteq [at : Services, tool : Tools, token : TxnTokenClaims]
    BY <1>1, <1>3, EffectStep
  <1>10. Window'
    BY <1>1 DEF IInv, Window
  <1>11. QED
    BY <1>1, <1>8, <1>9, <1>10 DEF IInv, TypeOK

-----------------------------------------------------------------------------
(* The theorems *)

\* Time passing changes nothing that was recorded.
LEMMA TickStep ==
    ASSUME IInv, Tick
    PROVE  IInv'
  BY VerifierAssumption DEF IInv, Tick, TypeOK, Window, SignedRouteOnly

\* The invariant holds in every state of the strict chain.
THEOREM Invariance == Spec => []IInv
  <1>1. Init => IInv
    BY NoCallRight, VerifierAssumption DEF Init, IInv, TypeOK, SignedRouteOnly, Window
  <1>2. IInv /\ [Next]_vars => IInv'
    <2> SUFFICES ASSUME IInv, [Next]_vars
                 PROVE  IInv'
      OBVIOUS
    <2>1. CASE Tick
      BY <2>1, TickStep
    <2>2. ASSUME NEW c \in Calls, Step(c)
          PROVE  IInv'
      BY <2>2, RefusalSteps, RequestSteps, GivingUpSteps, GatewayForwardsStep,
         AdapterIssuesStep, RunnerCallsStep, MiddlewareAdmitsStep, GatewayAllowsStep,
         AnswerSteps, WhoAmIStep DEF Step
    <2>3. CASE UNCHANGED vars
      BY <2>3 DEF vars, IInv, TypeOK, SignedRouteOnly, Window
    <2>4. QED
      BY <2>1, <2>2, <2>3 DEF Next
  <1>3. QED
    BY <1>1, <1>2, PTL DEF Spec

\* The variables always have their types.
THEOREM TypeCorrect == Spec => []TypeOK
  <1>1. IInv => TypeOK
    BY DEF IInv
  <1>2. QED
    BY <1>1, Invariance, PTL

\* What is done is what the token was signed for, allowed and recorded on the
\* way (SignedRouteAuthorizer.Authorize, signedToolMatches), whatever the
\* headers and the body of any request say.
THEOREM SignedRouteCorrect == Spec => []SignedRouteOnly
  <1>1. IInv => SignedRouteOnly
    BY DEF IInv
  <1>2. QED
    BY <1>1, Invariance, PTL

\* The time between the first and the last acceptance of a token is bounded by
\* the longest lifetime, the skew and the drift (validateWire).
THEOREM LifetimeCorrect == Spec => []LifetimeBounded
  <1>1. IInv => LifetimeBounded
    <2> SUFFICES ASSUME IInv, NEW t \in DOMAIN known
                 PROVE  known[t].last - known[t].first
                           <= MaximumLifetime + 2 * ClockSkew + 2 * Drift
      BY DEF LifetimeBounded
    <2>1. /\ t \in TxnTokenClaims
          /\ known[t] \in [first : 0..MaxClock, last : 0..MaxClock]
      BY DEF IInv, TypeOK
    <2>2. /\ t.iat \in Int /\ t.exp \in Int /\ known[t].first \in Int
          /\ known[t].last \in Int /\ MaximumLifetime \in Int /\ ClockSkew \in Int
          /\ Drift \in Int
      BY <2>1, VerifierAssumption, StrictAssumption DEF TxnTokenClaims
    <2>3. QED
      BY <2>2 DEF IInv, Window
  <1>2. QED
    BY <1>1, Invariance, PTL

\* The workload named in a token that the gateway lets through is the one that
\* presents it, though the middleware compares neither with the other.
THEOREM CallerCorrect == Spec => []CallerIsRequester
  <1>1. IInv => CallerIsRequester
    BY DEF IInv, Carried, CallerIsRequester
  <1>2. QED
    BY <1>1, Invariance, PTL

\* The runner reports success only for a call that the gateway allowed and the
\* server let through, both on record (Run's status check).
THEOREM SuccessCorrect == Spec => []SuccessIsTrailed
  <1>1. IInv => SuccessIsTrailed
    <2> SUFFICES ASSUME IInv, NEW c \in Calls, call[c].result = "ok"
                 PROVE  /\ call[c].token.workload = Requester
                        /\ Event("gateway", "allowed", call[c].token, "system.whoami") \in trail
                        /\ Event("server", "verify", call[c].token, "system.whoami") \in trail
      BY DEF SuccessIsTrailed
    <2>1. Staged(call[c], trail)
      BY DEF IInv
    <2>2. QED
      BY <2>1 DEF Staged, RouteAllowed, ServerSaw
  <1>2. QED
    BY <1>1, Invariance, PTL

\* A token that was handed out opens no way around the gateway: each single
\* request that the server or the API lets through was allowed by the gateway in
\* its own passage (the caller checks of StrictTxnMiddleware.Handler).
THEOREM NoWayAroundCorrect == Spec => []NoWayAround
  <1>1. IInv => NoWayAround
    BY DEF IInv, Carried, NoWayAround
  <1>2. QED
    BY <1>1, Invariance, PTL

=============================================================================
