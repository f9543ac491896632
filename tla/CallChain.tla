------------------------------ MODULE CallChain ------------------------------
(***************************************************************************)
(* A delegated tool call through the four workloads of the legacy profile: *)
(* the agent runner (pkg/agent/agent.go), the MCP gateway                  *)
(* (pkg/mcp/gateway.go), the MCP server (pkg/mcp/server.go) and the        *)
(* protected API (pkg/mcp/api.go), the last three behind the identity      *)
(* middleware (pkg/middleware/identity.go).  Calls are nested: each        *)
(* workload waits for the next, with a client timeout, and a workload that *)
(* has given up need not stop those behind it.                             *)
(*                                                                         *)
(* Before a workload acts it writes an audit event to a fanout             *)
(* (pkg/audit/fanout.go): standard output, then the collector over the     *)
(* network (pkg/audit/remote.go, pkg/auditcollector/handler.go).  The      *)
(* request or the answer may be lost, and a request whose sender has given *)
(* up may still be stored.                                                 *)
(*                                                                         *)
(* Data is reduced to what control depends on.  A transaction token is     *)
(* named by the transaction it carries.  Everything that makes a verifier  *)
(* refuse a token (keys unavailable or rotated, expiry, signature, claims) *)
(* is one refusal that can happen at any verification.                     *)
(***************************************************************************)
EXTENDS Naturals, Sequences, FiniteSets

CONSTANTS
    Txns,              \* transactions, one invocation of the runner each
    Calls,             \* Calls[t] : the modes and tools t may be invoked with
    None               \* no value

AllModes == {"normal", "spoof-agent", "wrong-audience", "expired-token",
             "direct-to-api", "unapproved-mcp"}

AllTools == {"system.whoami", "customer.get", "admin.unapproved"}

\* The gateway's single target "demo" (cmd/mcp-gateway).
byTool == {"customer.get", "system.whoami"}

ASSUME ChainAssumption ==
    /\ DOMAIN Calls = Txns
    /\ \A t \in Txns : Calls[t] \subseteq [mode : AllModes, tool : byTool]
    /\ None \notin Txns \cup {"agent", "gateway", "server", "api"}
    /\ Txns \cap {"none", "output", "error"} = {}

VARIABLES
    agent,             \* agent[t] : the runner's invocation
    hop,               \* hop[t][w] : the request that workload w serves for t
    write,             \* write[t][w] : the audit write w is in
    stdout,            \* events on standard output, of all workloads
    inflight,          \* events posted to the collector and not yet handled
    collector          \* collector[t] : the events of t that the collector has
                       \* accepted, in order of their sequence numbers

vars == <<agent, hop, write, stdout, inflight, collector>>

Services  == {"gateway", "server", "api"}
Workloads == Services \cup {"agent"}

Event == [txn : Txns, at : Workloads, type : {"exchange", "verify", "allowed", "denied"}]

WriteSteps == {"none", "stdout", "post", "posted", "ok", "failed"}

Writing == [step : WriteSteps, event : Event \cup {None}]

AgentSteps == {"idle", "exchange", "verify", "audit", "waiting", "completed", "failed"}

HopSteps == {"idle", "verify", "audited", "denying", "allowing", "waiting", "replied"}
Statuses == {0, 200, 401, 403, 500, 502}
Results  == Txns \cup {"none", "output", "error"}

\* "caller" is the SPIFFE workload on the other end of the mTLS connection,
\* "raw" the bearer token in the request, "name" the Mcp-Name header and
\* "tool" the tool in the body; "result" says whether the MCP answer carries
\* the tool's output or its error.
Request ==
    [pc : HopSteps, caller : Workloads \cup {None}, raw : Txns \cup {None},
     name : AllTools \cup {None}, tool : AllTools \cup {None},
     status : Statuses, result : Results]

TypeOK ==
    /\ agent \in [Txns -> [pc : AgentSteps, mode : AllModes, tool : AllTools]]
    /\ hop \in [Txns -> [Services -> Request]]
    /\ write \in [Txns -> [Workloads -> Writing]]
    /\ stdout \subseteq Event
    /\ inflight \subseteq Event
    /\ collector \in [Txns -> Seq(Event)]

NoRequest == [pc |-> "idle", caller |-> None, raw |-> None, name |-> None,
              tool |-> None, status |-> 0, result |-> "none"]

NoWrite == [step |-> "none", event |-> None]

Init ==
    /\ agent \in [Txns -> [pc : {"idle"}, mode : AllModes, tool : byTool]]
    /\ \A t \in Txns : [mode |-> agent[t].mode, tool |-> agent[t].tool] \in Calls[t]
    /\ hop = [t \in Txns |-> [w \in Services |-> NoRequest]]
    /\ write = [t \in Txns |-> [w \in Workloads |-> NoWrite]]
    /\ stdout = {}
    /\ inflight = {}
    /\ collector = [t \in Txns |-> <<>>]

Collected == UNION {{collector[t][i] : i \in DOMAIN collector[t]} : t \in Txns}

-----------------------------------------------------------------------------
(* The audit fanout.  A workload starts a write, the write runs, and the    *)
(* workload goes on when it is "ok" or "failed".                            *)

StartWrite(t, w, event) ==
    write' = [write EXCEPT ![t][w] = [step |-> "stdout", event |-> event]]

SetWrite(t, w, step) == write' = [write EXCEPT ![t][w].step = step]

WriteOK(t, w)     == write[t][w].step = "ok"
WriteFailed(t, w) == write[t][w].step = "failed"

\* JSONSink.Write
WriteStdout(t, w) ==
    /\ write[t][w].step = "stdout"
    /\ \/ stdout' = stdout \cup {write[t][w].event} /\ SetWrite(t, w, "post")
       \/ UNCHANGED stdout /\ SetWrite(t, w, "failed")
    /\ UNCHANGED <<agent, hop, inflight, collector>>

\* Remote.Write sends the event ...
Post(t, w) ==
    /\ write[t][w].step = "post"
    /\ inflight' = inflight \cup {write[t][w].event}
    /\ SetWrite(t, w, "posted")
    /\ UNCHANGED <<agent, hop, stdout, collector>>

\* Mutant: the write succeeds before the collector has answered.
AcknowledgedUnconfirmed(t, w) ==
    /\ write[t][w].step = "posted"
    /\ SetWrite(t, w, "ok")
    /\ UNCHANGED <<agent, hop, stdout, inflight, collector>>

\* ... and returns nil only on the collector's 201 ...
Acknowledged(t, w) ==
    /\ write[t][w].step = "posted"
    /\ write[t][w].event \in Collected
    /\ SetWrite(t, w, "ok")
    /\ UNCHANGED <<agent, hop, stdout, inflight, collector>>

\* ... and an error on any other answer, no answer, or the client timeout,
\* whatever has become of the request.
PostFails(t, w) ==
    /\ write[t][w].step = "posted"
    /\ SetWrite(t, w, "failed")
    /\ UNCHANGED <<agent, hop, stdout, inflight, collector>>

\* The collector stores an event it receives (submit, Store.Add) ...
CollectorStores(event) ==
    /\ event \in inflight
    /\ inflight' = inflight \ {event}
    /\ collector' = [collector EXCEPT ![event.txn] = Append(@, event)]
    /\ UNCHANGED <<agent, hop, write, stdout>>

\* ... unless the request is lost or submit refuses it.
CollectorMisses(event) ==
    /\ event \in inflight
    /\ inflight' = inflight \ {event}
    /\ UNCHANGED <<agent, hop, write, stdout, collector>>

auditState == <<stdout, inflight, collector>>

-----------------------------------------------------------------------------
(* The agent runner *)

AgentAt(t, step) == agent[t].pc = step

AgentGoto(t, step) == agent' = [agent EXCEPT ![t].pc = step]

\* The two modes refused locally, and a failing Workload API.
InvokeRejected(t) ==
    /\ AgentAt(t, "idle")
    /\ AgentGoto(t, "failed")
    /\ UNCHANGED <<hop, write, auditState>>

InvokeBegin(t) ==
    /\ AgentAt(t, "idle")
    /\ agent[t].mode \notin {"spoof-agent", "expired-token"}
    /\ AgentGoto(t, "exchange")
    /\ UNCHANGED <<hop, write, auditState>>

\* PingFederate issues a transaction token or does not.
ExchangeReturns(t) ==
    /\ AgentAt(t, "exchange")
    /\ \E step \in {"verify", "failed"} : AgentGoto(t, step)
    /\ UNCHANGED <<hop, write, auditState>>

\* The issued token carries the audience asked for; it must be the gateway's.
VerifyIssued(t) ==
    /\ AgentAt(t, "verify")
    /\ \/ /\ agent[t].mode # "wrong-audience"
          /\ AgentGoto(t, "audit")
          /\ StartWrite(t, "agent", [txn |-> t, at |-> "agent", type |-> "exchange"])
       \/ /\ AgentGoto(t, "failed")
          /\ UNCHANGED write
    /\ UNCHANGED <<hop, auditState>>

\* One workload calls another: the request is delivered to its middleware.
Received(from, raw, name, tool) ==
    [NoRequest EXCEPT !.pc = "verify", !.caller = from, !.raw = raw,
                      !.name = name, !.tool = tool]

Deliver(t, to, from, raw, name, tool) ==
    hop' = [hop EXCEPT ![t][to] = Received(from, raw, name, tool)]

\* The same while the caller, itself a service, waits for the answer.
CallOn(t, from, to, raw, name, tool) ==
    hop' = [hop EXCEPT ![t][from].pc = "waiting",
                       ![t][to] = Received(from, raw, name, tool)]

\* The request leaves only when the exchange is audited.
InvokeCalls(t) ==
    LET header == IF agent[t].mode = "unapproved-mcp" THEN "admin.unapproved"
                                                      ELSE agent[t].tool
        target == IF agent[t].mode = "direct-to-api" THEN "api" ELSE "gateway"
    IN  /\ AgentAt(t, "audit")
        /\ WriteOK(t, "agent")
        /\ AgentGoto(t, "waiting")
        /\ Deliver(t, target, "agent", t, header, agent[t].tool)
        /\ UNCHANGED <<write, auditState>>

InvokeUnaudited(t) ==
    /\ AgentAt(t, "audit")
    /\ WriteFailed(t, "agent")
    /\ AgentGoto(t, "failed")
    /\ UNCHANGED <<hop, write, auditState>>

\* Any 2xx is success: the body of the answer is not read.
InvokeReturns(t) ==
    LET target == IF agent[t].mode = "direct-to-api" THEN "api" ELSE "gateway" IN
    /\ AgentAt(t, "waiting")
    /\ hop[t][target].pc = "replied"
    /\ AgentGoto(t, IF hop[t][target].status = 200 THEN "completed" ELSE "failed")
    /\ UNCHANGED <<hop, write, auditState>>

\* Transport error or client timeout.  The callee's request context is then
\* cancelled, which may fail its own outgoing call (ForwardFails, WhoAmIFails);
\* its audit writes have no context and go on.
InvokeTimesOut(t) ==
    /\ AgentAt(t, "waiting")
    /\ AgentGoto(t, "failed")
    /\ UNCHANGED <<hop, write, auditState>>

-----------------------------------------------------------------------------
(* The identity middleware, in front of each service *)

HopAt(t, w, step) == hop[t][w].pc = step

HopGoto(t, w, step) == hop' = [hop EXCEPT ![t][w].pc = step]

Reply(t, w, status, result) ==
    hop' = [hop EXCEPT ![t][w] = [@ EXCEPT !.pc = "replied", !.status = status,
                                           !.result = result]]

\* Which mTLS peer each service accepts (cmd/*/main.go).
AllowedCaller == [gateway |-> "agent", server |-> "gateway", api |-> "server"]

\* No usable bearer token, or the verifier refuses it.
VerifyFails(t, w) ==
    /\ HopAt(t, w, "verify")
    /\ Reply(t, w, 401, "none")
    /\ UNCHANGED <<agent, write, auditState>>

CallerDenied(t, w) ==
    /\ HopAt(t, w, "verify")
    /\ hop[t][w].caller # AllowedCaller[w]
    /\ Reply(t, w, 403, "none")
    /\ UNCHANGED <<agent, write, auditState>>

\* Token and caller verified: the identity is that of the token received.
VerifySucceeds(t, w) ==
    /\ HopAt(t, w, "verify")
    /\ hop[t][w].raw # None
    /\ hop[t][w].caller = AllowedCaller[w]
    /\ HopGoto(t, w, "audited")
    /\ StartWrite(t, w, [txn |-> hop[t][w].raw, at |-> w, type |-> "verify"])
    /\ UNCHANGED <<agent, auditState>>

\* Mutant: a failed audit write is tried again for ever.
UnauditedRetries(t, w) ==
    /\ HopAt(t, w, "audited") \/ HopAt(t, w, "allowing")
    /\ WriteFailed(t, w)
    /\ SetWrite(t, w, "stdout")
    /\ UNCHANGED <<agent, hop, auditState>>

Unaudited(t, w) ==
    /\ HopAt(t, w, "audited") \/ HopAt(t, w, "allowing")
    /\ WriteFailed(t, w)
    /\ Reply(t, w, 500, "none")
    /\ UNCHANGED <<agent, write, auditState>>

\* Mutant: the middleware ignores the audit error.
AdmittedRegardless(t, w) ==
    HopAt(t, w, "audited") /\ (WriteOK(t, w) \/ WriteFailed(t, w))

\* The middleware has passed the request on to the service's own handler.
Admitted(t, w) == HopAt(t, w, "audited") /\ WriteOK(t, w)

-----------------------------------------------------------------------------
(* The gateway *)

RouteDenied(t) ==
    /\ Admitted(t, "gateway")
    /\ hop[t]["gateway"].name \notin byTool
    /\ Reply(t, "gateway", 403, "none")
    /\ UNCHANGED <<agent, write, auditState>>

\* What the authorizer (OPA or PingAuthorize) can come to: anything but an
\* explicit allow, a timeout and an unusable answer included, denies.
Decisions == {"allowed", "denied"}

\* Mutant: the decision is recorded and not enforced.
AuthorizeDecidesUnenforced(t, decision) ==
    /\ Admitted(t, "gateway")
    /\ hop[t]["gateway"].name \in byTool
    /\ HopGoto(t, "gateway", "allowing")
    /\ StartWrite(t, "gateway",
                  [txn |-> hop[t]["gateway"].raw, at |-> "gateway", type |-> decision])
    /\ UNCHANGED <<agent, auditState>>

\* The authorizer decides, and the decision is audited before it takes effect.
AuthorizeDecides(t, decision) ==
    /\ Admitted(t, "gateway")
    /\ hop[t]["gateway"].name \in byTool
    /\ HopGoto(t, "gateway", IF decision = "allowed" THEN "allowing" ELSE "denying")
    /\ StartWrite(t, "gateway",
                  [txn |-> hop[t]["gateway"].raw, at |-> "gateway", type |-> decision])
    /\ UNCHANGED <<agent, auditState>>

\* A denial is answered whether or not its audit write succeeded.
DenialReplied(t) ==
    /\ HopAt(t, "gateway", "denying")
    /\ WriteOK(t, "gateway") \/ WriteFailed(t, "gateway")
    /\ Reply(t, "gateway", 403, "none")
    /\ UNCHANGED <<agent, write, auditState>>

Forward(t) ==
    LET r == hop[t]["gateway"] IN
    /\ HopAt(t, "gateway", "allowing")
    /\ WriteOK(t, "gateway")
    /\ CallOn(t, "gateway", "server", r.raw, r.name, r.tool)
    /\ UNCHANGED <<agent, write, auditState>>

\* The server's answer is passed through unread.
ForwardReturns(t) ==
    /\ HopAt(t, "gateway", "waiting")
    /\ HopAt(t, "server", "replied")
    /\ Reply(t, "gateway", hop[t]["server"].status, hop[t]["server"].result)
    /\ UNCHANGED <<agent, write, auditState>>

ForwardFails(t) ==
    /\ HopAt(t, "gateway", "waiting")
    /\ Reply(t, "gateway", 502, "none")
    /\ UNCHANGED <<agent, write, auditState>>

-----------------------------------------------------------------------------
(* The MCP server.  The SDK answers a tool's error with HTTP 200 and an     *)
(* error result (external, go-sdk).                                         *)

\* customer.get: the runner sends no arguments, so customer_id is missing.
CustomerGet(t) ==
    /\ Admitted(t, "server")
    /\ hop[t]["server"].tool = "customer.get"
    /\ Reply(t, "server", 200, "error")
    /\ UNCHANGED <<agent, write, auditState>>

\* Mutant: the token is kept in the server, not in the request's context.
WhoAmICallsShared(t) ==
    /\ Admitted(t, "server")
    /\ hop[t]["server"].tool = "system.whoami"
    /\ \E u \in Txns :
          /\ hop[u]["server"].raw # None
          /\ CallOn(t, "server", "api", hop[u]["server"].raw, None, None)
    /\ UNCHANGED <<agent, write, auditState>>

\* system.whoami calls the API with the token it was called with.
WhoAmICalls(t) ==
    LET r == hop[t]["server"] IN
    /\ Admitted(t, "server")
    /\ r.tool = "system.whoami"
    /\ CallOn(t, "server", "api", r.raw, None, None)
    /\ UNCHANGED <<agent, write, auditState>>

\* The API's 200 must name the same transaction.
WhoAmIReturns(t) ==
    /\ HopAt(t, "server", "waiting")
    /\ HopAt(t, "api", "replied")
    /\ Reply(t, "server", 200,
             IF hop[t]["api"].status = 200 /\ hop[t]["api"].result = hop[t]["server"].raw
             THEN "output" ELSE "error")
    /\ UNCHANGED <<agent, write, auditState>>

WhoAmIFails(t) ==
    /\ HopAt(t, "server", "waiting")
    /\ Reply(t, "server", 200, "error")
    /\ UNCHANGED <<agent, write, auditState>>

(* The protected API: answers with the transaction of the verified token.   *)
APIAnswers(t) ==
    /\ Admitted(t, "api")
    /\ Reply(t, "api", 200, hop[t]["api"].raw)
    /\ UNCHANGED <<agent, write, auditState>>

-----------------------------------------------------------------------------
\* Somebody invokes the runner.
Invoke(t) == InvokeRejected(t) \/ InvokeBegin(t)

AgentStep(t) ==
    \/ ExchangeReturns(t) \/ VerifyIssued(t)
    \/ InvokeCalls(t) \/ InvokeUnaudited(t)
    \/ InvokeReturns(t) \/ InvokeTimesOut(t)

GatewayStep(t) ==
    \/ RouteDenied(t)
    \/ \E decision \in Decisions : AuthorizeDecides(t, decision)
    \/ DenialReplied(t) \/ Forward(t) \/ ForwardReturns(t) \/ ForwardFails(t)

ServerStep(t) ==
    CustomerGet(t) \/ WhoAmICalls(t) \/ WhoAmIReturns(t) \/ WhoAmIFails(t)

MiddlewareStep(t, w) ==
    VerifyFails(t, w) \/ CallerDenied(t, w) \/ VerifySucceeds(t, w) \/ Unaudited(t, w)

WriteStep(t, w) ==
    WriteStdout(t, w) \/ Post(t, w) \/ Acknowledged(t, w) \/ PostFails(t, w)

\* What follows once the runner has been invoked.
Work(t) ==
    \/ AgentStep(t)
    \/ \E w \in Services : MiddlewareStep(t, w)
    \/ GatewayStep(t) \/ ServerStep(t) \/ APIAnswers(t)
    \/ \E w \in Workloads : WriteStep(t, w)

\* Nothing is left to do: the only state in which the chain may stand still.
Settled ==
    /\ inflight = {}
    /\ \A t \in Txns :
          /\ agent[t].pc \in {"completed", "failed"}
          /\ \A w \in Services : hop[t][w].pc \in {"idle", "replied"}
    /\ UNCHANGED vars

Next ==
    \/ \E t \in Txns : Invoke(t)
    \/ \E t \in Txns : Work(t)
    \/ \E event \in inflight : CollectorStores(event)
    \/ \E event \in inflight : CollectorMisses(event)
    \/ Settled

Spec == Init /\ [][Next]_vars

\* Every call has a client timeout and every goroutine is scheduled, so a
\* workload that can go on does.  Nobody has to invoke the runner.
FairSpec == Spec /\ \A t \in Txns : WF_vars(Work(t))

-----------------------------------------------------------------------------
(* Properties *)

\* The events of a transaction that is answered with the tool's output, in
\* the order in which they are written.
Ladder == <<[at |-> "agent",   type |-> "exchange"],
            [at |-> "gateway", type |-> "verify"],
            [at |-> "gateway", type |-> "allowed"],
            [at |-> "server",  type |-> "verify"],
            [at |-> "api",     type |-> "verify"]>>

Rung(t, i) == [txn |-> t, at |-> Ladder[i].at, type |-> Ladder[i].type]

\* The first n events of the transaction are in both sinks.
Recorded(t, n) == \A i \in 1..n : Rung(t, i) \in stdout /\ Rung(t, i) \in Collected

\* Fail closed, across the chain: no workload is reached, and no answer with
\* an effect given, unless every earlier workload has its events in both
\* sinks; and the user is told "completed" only when exchange, gateway and
\* server are all recorded, a tool's output only when the API is too (invoke,
\* Middleware.Handler, Gateway.ServeHTTP).
EffectsAudited ==
    \A t \in Txns :
        /\ ~HopAt(t, "gateway", "idle") => Recorded(t, 1)
        /\ ~HopAt(t, "server", "idle")  => Recorded(t, 3)
        /\ hop[t]["api"].caller = "server" => Recorded(t, 4)
        /\ hop[t]["api"].status = 200   => Recorded(t, 5)
        /\ AgentAt(t, "completed") => Recorded(t, 4)
        /\ hop[t]["server"].result = "output" => Recorded(t, 5)

\* The two trails agree.  The collector's order of a transaction's events is
\* the order of the hops, even when acknowledgements are lost and events arrive
\* late: the browser sorts by that order to number the hops (app.js,
\* renderAudit).  And nothing is under way to the collector that is not on the
\* workload's own standard output first (Fanout.Write).
TrailsConsistent ==
    /\ TypeOK
    /\ Collected \cup inflight \subseteq stdout
    /\ \A t \in Txns : \A i, j \in DOMAIN collector[t] : \A m, n \in 1..Len(Ladder) :
          collector[t][i] = Rung(t, m) /\ collector[t][j] = Rung(t, n) /\ i < j => m < n

\* One immutable token per call: whatever workload is reached on behalf of a
\* transaction holds the token issued for it, and an API answer names it
\* (copyHeaders, VerifiedTransactionToken, callDemoAPI).
TokenUnchanged ==
    \A t \in Txns : \A w \in Services :
        /\ hop[t][w].raw \in {None, t}
        /\ hop[t][w].result \in Txns => hop[t][w].result = t

\* A denied call goes no further: no later event, no request to the server
\* and no success, whether or not the denial itself could be recorded.
DenialIsFinal ==
    \A t \in Txns :
        (\/ HopAt(t, "gateway", "denying")
         \/ [txn |-> t, at |-> "gateway", type |-> "denied"] \in stdout) =>
            /\ HopAt(t, "server", "idle")
            /\ Rung(t, 3) \notin stdout
            /\ ~AgentAt(t, "completed")

\* Every invocation that begins ends, and so does every request a service has
\* received, including those whose caller has given up: in the end nobody is at
\* work.
EventuallySettled ==
    <>[](\A t \in Txns :
            /\ agent[t].pc \in {"idle", "completed", "failed"}
            /\ \A w \in Services : hop[t][w].pc \in {"idle", "replied"})

\* The acceptance criterion of the invocation path: a downstream rejection is
\* a rejection, so no call is "completed" that the API has refused.
DownstreamRejectionFails ==
    \A t \in Txns : AgentAt(t, "completed") => hop[t]["api"].status \in {0, 200}

=============================================================================
