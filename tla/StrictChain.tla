----------------------------- MODULE StrictChain -----------------------------
(***************************************************************************)
(* The strict profile: the runner (pkg/agent/strict.go) obtains a signed   *)
(* Txn-Token through the adapter (pkg/ttsadapter/handler.go) and calls the *)
(* gateway, which calls the server, which calls the API, each behind the   *)
(* strict middleware (pkg/middleware/strict_identity.go).  The token names *)
(* the target and the tool, and each hop compares them with what it is     *)
(* about to do (pkg/mcp/strict.go, server.go, api.go).                     *)
(*                                                                         *)
(* The services have to be right for every request, not only the runner's: *)
(* AnyoneCalls is a workload's request to any of them with any token the   *)
(* adapter has handed out, any headers and any body.  The identities of    *)
(* the gateway and the server are used by those two programs alone.        *)
(*                                                                         *)
(* A handler's verification, caller check and audit write are one action   *)
(* here; how an audit write fails or arrives late is CallChain's subject.  *)
(***************************************************************************)
EXTENDS TxnVerifier, FiniteSets

CONSTANTS
    Calls,             \* requests under way at the same time
    MaximumExpiresIn,  \* ttsadapter.Config.MaximumExpiresIn
    Drift,             \* how far a workload's clock may be off
    MaxTokens,         \* bound: tokens handed out
    None               \* no value

ASSUME StrictAssumption ==
    /\ MaximumExpiresIn \in Nat \ {0}
    /\ Drift \in Nat
    /\ MaxTokens \in Nat
    /\ {"demo"} \subseteq Targets
    /\ {"system.whoami"} \subseteq Tools
    /\ {"gateway", "server"} \cap Workloads = {}
    /\ None \notin Workloads \cup Tools

VARIABLES
    clock,             \* true time
    call,              \* call[c] : the request under way
    known,             \* the tokens the adapter has handed out, with the
                       \* first and last time at which anyone accepted them
    trail,             \* the audit trail: what was recorded
    effects            \* what was done: tools run and API answers given

vars == <<clock, call, known, trail, effects>>

Services == {"gateway", "server", "api"}

\* Where a call can be between the runner's sending it and its answer.
Downstream == {"gateway", "admitted gateway", "allowed", "server", "admitted server",
               "api", "admitted api"}

Peers == Workloads \cup {"gateway", "server"}

\* The tools the strict gateway routes.
byTool == {"system.whoami"}

Record == [at : Services, type : {"verify", "allowed"}, token : TxnTokenClaims, tool : Tools]

\* "copies" counts the Txn-Token fields, "auth" says whether there is an
\* Authorization field; "method" and "name" are the Mcp- fields, "tool" is the
\* tool in the body.  "result" is the runner's.  "allowed" is history, read by
\* no action: the tool that the gateway allowed this very request, in passing.
Call ==
    [stage : {"idle", "adapter", "issued", "done"} \cup Downstream,
     runner : BOOLEAN, caller : Peers \cup {None},
     token : TxnTokenClaims \cup {None}, copies : 0..2, auth : BOOLEAN,
     method : {"tools/call", "other"}, name : Tools \cup {None}, tool : Tools \cup {None},
     allowed : Tools \cup {None}, result : {"none", "ok", "failed"}]

NoCall == [stage |-> "idle", runner |-> FALSE, caller |-> None, token |-> None,
           copies |-> 0, auth |-> FALSE, method |-> "other", name |-> None,
           tool |-> None, allowed |-> None, result |-> "none"]

TypeOK ==
    /\ clock \in 0..MaxClock
    /\ call \in [Calls -> Call]
    /\ DOMAIN known \subseteq TxnTokenClaims
    /\ \A t \in DOMAIN known : known[t] \in [first : 0..MaxClock, last : 0..MaxClock]
    /\ trail \subseteq Record
    /\ effects \subseteq [at : Services, tool : Tools, token : TxnTokenClaims]

Init ==
    /\ clock = 0
    /\ call = [c \in Calls |-> NoCall]
    /\ known = [t \in {} |-> 0]
    /\ trail = {}
    /\ effects = {}

-----------------------------------------------------------------------------
(* Helpers *)

At(c, stage) == call[c].stage = stage

Goto(c, stage) == call' = [call EXCEPT ![c].stage = stage]

\* The runner has not had its answer yet.
Waiting(c) == call[c].runner /\ call[c].result = "none"

\* The answer to the call, of which only the runner keeps something: it takes
\* any 2xx for success.
Finish(c, ok) ==
    call' = [call EXCEPT ![c] =
                [NoCall EXCEPT !.stage = "done", !.runner = call[c].runner,
                               !.token = call[c].token,
                               !.result = IF ~Waiting(c) THEN call[c].result
                                          ELSE IF ok THEN "ok" ELSE "failed"]]

\* Some verifier's clock makes it accept the token now.
Verifies(token) ==
    \E now \in (clock - Drift)..(clock + Drift) : Accepted(token, now)

\* History: the token has been accepted now.
Noted(token) ==
    [t \in DOMAIN known \cup {token} |->
        IF t # token THEN known[t]
        ELSE IF t \in DOMAIN known THEN [known[t] EXCEPT !.last = clock]
        ELSE [first |-> clock, last |-> clock]]

Event(w, type, token, tool) == [at |-> w, type |-> type, token |-> token, tool |-> tool]

-----------------------------------------------------------------------------
(* Obtaining a token *)

\* Run, up to the request to the adapter, or another program's request to it.
AskAdapter(c) ==
    /\ At(c, "idle")
    /\ \E runner \in BOOLEAN, peer \in Workloads :
          /\ runner => peer = Requester
          /\ call' = [call EXCEPT ![c] = [NoCall EXCEPT !.stage = "adapter",
                                             !.runner = runner, !.caller = peer]]
    /\ UNCHANGED <<clock, known, trail, effects>>

\* The adapter's own comparisons, after the verifier has accepted the token.
AdapterBindings(c, token) ==
    /\ token.workload = call[c].caller
    /\ token.exp - token.iat > 0
    /\ token.exp - token.iat <= MaximumExpiresIn

\* The adapter's ServeHTTP: PingFederate signs what it likes; the adapter hands
\* it out if it verifies and is bound to the caller.
AdapterIssues(c, token) ==
    /\ At(c, "adapter")
    /\ token \in DOMAIN known \/ Cardinality(DOMAIN known) < MaxTokens
    /\ Verifies(token)
    /\ AdapterBindings(c, token)
    /\ known' = Noted(token)
    /\ call' = [call EXCEPT ![c] = [@ EXCEPT !.token = token,
                   !.stage = IF call[c].runner THEN "issued" ELSE "done"]]
    /\ UNCHANGED <<clock, trail, effects>>

\* The form, the exchange, the upstream answer or the token is refused.
AdapterRefuses(c) ==
    /\ At(c, "adapter")
    /\ Finish(c, FALSE)
    /\ UNCHANGED <<clock, known, trail, effects>>

\* The runner verifies again that the token is for what it is about to do, and
\* calls the gateway.
RunnerCalls(c) ==
    LET t == call[c].token IN
    /\ At(c, "issued")
    /\ Verifies(t)
    /\ t.workload = Requester /\ t.agent = "urn:agent:demo"
    /\ t.target = "demo" /\ t.tool = "system.whoami"
    /\ known' = Noted(t)
    /\ call' = [call EXCEPT ![c] = [@ EXCEPT !.stage = "gateway", !.copies = 1,
                   !.method = "tools/call", !.name = "system.whoami",
                   !.tool = "system.whoami"]]
    /\ UNCHANGED <<clock, trail, effects>>

RunnerRefuses(c) ==
    /\ At(c, "issued")
    /\ Finish(c, FALSE)
    /\ UNCHANGED <<clock, known, trail, effects>>

\* Mutant: Run returns the transport's own error.
GivesUpTimeout(c) ==
    /\ Waiting(c)
    /\ call[c].stage \in Downstream
    /\ call' = [call EXCEPT ![c].result = "timeout"]
    /\ UNCHANGED <<clock, known, trail, effects>>

\* The runner or the gateway gives up on the call it waits for; whoever it
\* called goes on.  Run returns ErrStrictAgent.
GivesUp(c) ==
    /\ Waiting(c)
    /\ call[c].stage \in Downstream
    /\ call' = [call EXCEPT ![c].result = "failed"]
    /\ UNCHANGED <<clock, known, trail, effects>>

\* The server gives up on the API (callDemoAPIStrict): a tool's error in a 200.
ServerGivesUp(c) ==
    /\ Waiting(c)
    /\ call[c].stage \in {"api", "admitted api"}
    /\ call' = [call EXCEPT ![c].result = "ok"]
    /\ UNCHANGED <<clock, known, trail, effects>>

\* A workload calls a service with a token that was handed out.
AnyoneCalls(c, service, peer, token) ==
    /\ At(c, "idle")
    /\ token \in DOMAIN known
    /\ \E copies \in 0..2, auth \in BOOLEAN, method \in {"tools/call", "other"},
          name \in Tools, tool \in Tools :
          call' = [call EXCEPT ![c] = [NoCall EXCEPT !.stage = service, !.caller = peer,
                      !.token = token, !.copies = copies, !.auth = auth,
                      !.method = method, !.name = name, !.tool = tool]]
    /\ UNCHANGED <<clock, known, trail, effects>>

-----------------------------------------------------------------------------
(* The strict middleware, in front of each service *)

\* Mutant: the server also takes the runner's own requests.
AllowedCallersRunner(w) ==
    CASE w = "gateway" -> {Requester} [] w = "server" -> {"gateway", Requester}
      [] w = "api" -> {"server"}

AllowedCallers(w) ==
    CASE w = "gateway" -> {Requester} [] w = "server" -> {"gateway"} [] w = "api" -> {"server"}

\* ExtractTxnToken: one Txn-Token field and no Authorization field.
ExtractTxnToken(c) == call[c].copies = 1 /\ ~call[c].auth

\* Handler: extract, verify, compare the caller, record, pass on.
MiddlewareAdmits(c, w) ==
    LET t == call[c].token IN
    /\ At(c, w)
    /\ ExtractTxnToken(c)
    /\ Verifies(t)
    /\ call[c].caller \in AllowedCallers(w)
    /\ known' = Noted(t)
    /\ trail' = trail \cup {Event(w, "verify", t, t.tool)}
    /\ Goto(c, CASE w = "gateway" -> "admitted gateway"
                 [] w = "server"  -> "admitted server"
                 [] w = "api"     -> "admitted api")
    /\ UNCHANGED <<clock, effects>>

\* 401, 403 or 500, or the request never arrives; before the server, the answer
\* reaches the runner as a refusal, behind it as a tool's error in a 200.
MiddlewareRefuses(c, w) ==
    /\ At(c, w)
    /\ Finish(c, w = "api")
    /\ UNCHANGED <<clock, known, trail, effects>>

-----------------------------------------------------------------------------
(* The gateway *)

\* tools/call is routed by its name, anything else to the only target.
Routed(c) == call[c].method = "tools/call" => call[c].name \in byTool

\* SignedRouteAuthorizer: the route in the token is the one asked for.
SignedRoute(c) == call[c].token.target = "demo" /\ call[c].token.tool = call[c].name

\* The inner authorizer (external) allows, and the decision is recorded.
GatewayAllows(c) ==
    /\ At(c, "admitted gateway")
    /\ Routed(c)
    /\ SignedRoute(c)
    /\ trail' = trail \cup {Event("gateway", "allowed", call[c].token, call[c].name)}
    /\ call' = [call EXCEPT ![c] = [@ EXCEPT !.stage = "allowed", !.allowed = call[c].name]]
    /\ UNCHANGED <<clock, known, effects>>

\* Mutant: a refusal that writes no status, which net/http answers with 200.
GatewayRefusesSilently(c) ==
    /\ At(c, "admitted gateway")
    /\ Finish(c, TRUE)
    /\ UNCHANGED <<clock, known, trail, effects>>

\* No route, no agreement, a denial, or no record of the decision.
GatewayRefuses(c) ==
    /\ At(c, "admitted gateway")
    /\ Finish(c, FALSE)
    /\ UNCHANGED <<clock, known, trail, effects>>

\* copyStrictHeaders and PropagateVerifiedTxnToken; the body goes through
\* unread.
GatewayForwards(c) ==
    /\ At(c, "allowed")
    /\ call' = [call EXCEPT ![c] = [@ EXCEPT !.stage = "server", !.caller = "gateway",
                                             !.copies = 1, !.auth = FALSE]]
    /\ UNCHANGED <<clock, known, trail, effects>>

-----------------------------------------------------------------------------
(* The server and the API *)

\* Mutant: the body's tool is run without looking at the token.
signedToolMatchesTarget(c, tool) == call[c].token.target = "demo"

signedToolMatches(c, tool) == call[c].token.target = "demo" /\ call[c].token.tool = tool

\* customer.get answers by itself.
CustomerGet(c) ==
    /\ At(c, "admitted server")
    /\ call[c].tool = "customer.get"
    /\ signedToolMatches(c, "customer.get")
    /\ effects' = effects \cup {[at |-> "server", tool |-> "customer.get",
                                 token |-> call[c].token]}
    /\ Finish(c, TRUE)
    /\ UNCHANGED <<clock, known, trail>>

\* system.whoami calls the API with the verified token.
WhoAmI(c) ==
    /\ At(c, "admitted server")
    /\ call[c].tool = "system.whoami"
    /\ signedToolMatches(c, "system.whoami")
    /\ effects' = effects \cup {[at |-> "server", tool |-> "system.whoami",
                                 token |-> call[c].token]}
    /\ call' = [call EXCEPT ![c] = [@ EXCEPT !.stage = "api", !.caller = "server",
                                             !.copies = 1, !.auth = FALSE]]
    /\ UNCHANGED <<clock, known, trail>>

\* An unknown tool, another than the signed one, missing arguments, or a
\* request that is no tool call: an error in a 200.
ServerAnswersError(c) ==
    /\ At(c, "admitted server")
    /\ Finish(c, TRUE)
    /\ UNCHANGED <<clock, known, trail, effects>>

\* StrictDemoAPIHandler("demo", "system.whoami"): the transaction's ID, or 403,
\* which the server turns into a tool's error.
APIAnswers(c) ==
    /\ At(c, "admitted api")
    /\ effects' = effects \cup
          {e \in {[at |-> "api", tool |-> "system.whoami", token |-> call[c].token]} :
              signedToolMatches(c, "system.whoami")}
    /\ Finish(c, TRUE)
    /\ UNCHANGED <<clock, known, trail>>

-----------------------------------------------------------------------------
\* The connection is free for the next request.
Forget(c) ==
    /\ At(c, "done")
    /\ call' = [call EXCEPT ![c] = NoCall]
    /\ UNCHANGED <<clock, known, trail, effects>>

Tick ==
    /\ clock < MaxClock
    /\ clock' = clock + 1
    /\ UNCHANGED <<call, known, trail, effects>>

Step(c) ==
    \/ AskAdapter(c) \/ AdapterRefuses(c) \/ RunnerCalls(c) \/ RunnerRefuses(c)
    \/ GivesUp(c) \/ ServerGivesUp(c)
    \/ \E token \in TxnTokenClaims : AdapterIssues(c, token)
    \/ \E service \in Services, peer \in Workloads, token \in DOMAIN known :
          AnyoneCalls(c, service, peer, token)
    \/ \E w \in Services : MiddlewareAdmits(c, w) \/ MiddlewareRefuses(c, w)
    \/ GatewayAllows(c) \/ GatewayRefuses(c) \/ GatewayForwards(c)
    \/ CustomerGet(c) \/ WhoAmI(c) \/ ServerAnswersError(c)
    \/ APIAnswers(c)
    \/ Forget(c)

Next == Tick \/ \E c \in Calls : Step(c)

Spec == Init /\ [][Next]_vars

-----------------------------------------------------------------------------
(* Properties *)

\* Whatever the headers and the body say, what is done is what the token was
\* signed for, and the gateway has allowed and recorded exactly that: the
\* headers decide at the gateway, the body at the server, and only the signed
\* route ties them together (SignedRouteAuthorizer, signedToolMatches).
SignedRouteOnly ==
    \A e \in effects :
        /\ e.token.target = "demo" /\ e.token.tool = e.tool
        /\ Event("gateway", "allowed", e.token, e.tool) \in trail
        /\ Event("server", "verify", e.token, e.tool) \in trail
        /\ e.at = "api" => Event("api", "verify", e.token, e.tool) \in trail

\* No token is accepted, by any verifier in the system, for longer than its
\* maximal lifetime and the clocks' tolerance and drift at either end: a token
\* dated ahead cannot stretch it (validateWire).
LifetimeBounded ==
    \A t \in DOMAIN known :
        known[t].last - known[t].first <= MaximumLifetime + 2 * ClockSkew + 2 * Drift

\* The requesting workload in a token that the gateway lets through is the
\* workload that presents it.  The middleware never compares the two: it holds
\* because bindings and allowed callers name the same single workload.
CallerIsRequester ==
    \A c \in Calls :
        call[c].stage \in {"admitted gateway", "allowed"} =>
            call[c].token.workload = call[c].caller

\* The runner reports success only if the call was allowed and reached the
\* server, both on record, with a token issued to the runner for that tool.
SuccessIsTrailed ==
    \A c \in Calls :
        call[c].result = "ok" =>
            /\ call[c].token.workload = Requester
            /\ Event("gateway", "allowed", call[c].token, "system.whoami") \in trail
            /\ Event("server", "verify", call[c].token, "system.whoami") \in trail

\* A token opens no way around the gateway: it can be presented again, by any
\* workload, to any service, and an earlier passage has left every record that
\* SignedRouteOnly asks for.  Still each single request that the server or the
\* API lets through was allowed by the gateway in its own passage, for the tool
\* in its token.  Neither service asks for that: it rests on the caller checks
\* of two middlewares and on who uses the gateway's and the server's identity.
NoWayAround ==
    \A c \in Calls :
        \/ call[c].stage \in {"admitted server", "admitted api"}
        \/ call[c].stage = "api" /\ call[c].caller = "server"
        => call[c].allowed = call[c].token.tool

=============================================================================
