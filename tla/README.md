# A verification project for pf-tts

pf-tts is a demonstrator for workload and agent identity: a person signs in
with OpenID Connect, an agent exchanges the person's access token and its own
SPIFFE JWT-SVID for one immutable *transaction token*, and that token travels
with a tool call through an MCP gateway and an MCP server to a protected API.
Every workload verifies the token and the mTLS peer again and records what it
does, before it does it, in an audit trail that the person can read in the
browser.

This directory holds TLA+ specifications of the parts that carry that promise,
TLC configurations that check them on small instances, and proofs, checked by
TLAPS, of the safety of eight of them: the audit store and the collector around
it, the web application, the page, both call chains, the SPIFFE provider and
token issuance.

    tlc -workers 2 -config MCWebApp.cfg MCWebApp      # any run of the table below
    tlapm WebAppProofs.tla                            # any module named ...Proofs

## 1. The system

    browser page --HTTPS--> web application --(in process)--> agent runner
                                 |                                |  mTLS
                                 | mTLS                           v
                                 v                 MCP gateway -> MCP server -> API
                           audit collector <---- audit events of every workload

| component | source | state | operations | what is hard |
|---|---|---|---|---|
| audit store | `pkg/audit/store.go` | a slice of records, a sequence number, one mutex | `Add`, `ListByUser`, `GetByUser`, each of which purges first | capacity and age at once; a wall clock that can be set back; IDs that come back |
| fanout, remote sink, collector | `pkg/audit/{event,fanout,remote}.go`, `pkg/auditcollector` | two sinks in order; the collector owns a store | `Write`, `submit`, `list`, `get` | lost requests and answers, events stored after the writer gave up, one sink of two failing |
| web application | `pkg/webapp/handler.go` | `preAuth` and `sessions` under one mutex | `login`, `callback`, `getSession`, `logout`, `invokeInteraction`, `listInteractions`, `getInteraction` | a goroutine per request; critical sections separated by calls to the identity provider; a clock read before the lock and used after it; capacity |
| browser page | `pkg/webapp/static/app.js` | `state`, the DOM, one interval | `loadSession`, `loadAudit`, `showDetail`, submit, sign-out | answers applied after whatever happened during the await |
| agent runner | `pkg/agent/agent.go` | none across calls | `invoke` in six modes | gives up while the workloads behind it go on |
| identity middleware | `pkg/middleware/identity.go` | none | `Handler` | fail-closed order of verify, authorise caller, audit, pass on |
| MCP gateway | `pkg/mcp/gateway.go` | routing table | `ServeHTTP` | a denial whose audit write fails, a permit whose audit write fails |
| MCP server, protected API | `pkg/mcp/server.go`, `api.go` | none | `customer.get`, `system.whoami`, `GET /` | concurrent transactions in one process; a tool error that travels in a 200 |
| token exchange and verification | `pkg/pingfederate` | none (keys are fetched at every verification) | `Exchange`, `Verify`, `VerifyIDToken` | accepts at one hop, refuses at the next |
| authorizers | `pkg/authorization` | rule table | `LoadJSON`, `Authorize` | rules that overlap; anything but an explicit allow denies |
| strict profile | `pkg/agent/strict.go`, `pkg/middleware/strict_identity.go`, `pkg/mcp/strict.go`, `pkg/transaction`, `pkg/ttsadapter` | none across calls | signed routes, `Txn-Token` verification | time-window boundaries, several bindings that must agree |
| SPIFFE provider | `pkg/spiffe/spire/provider.go`, `pkg/spiffe` | the Workload API client and source, one `sync.Once` | `New`, `FetchJWTSVID`, handshakes, `Close` | several owners closing at once, rotation to another identity, error paths of a start in steps |
| PingFederate plugins | `deploy/pingfederate/plugins` | volatile fields, written one after the other | `configure`, `processToken`, `issueAccessToken`, `validateAccessToken` | a request between two assignments of `configure`, a `configure` that fails half-way, times that add up over four clocks |
| configuration | `internal/config/config.go` | none | `Validate` | integer width, strings trimmed here and not there, two nested loops |
| JSON scanners | `pkg/transaction/txn_verifier.go`, `pkg/pingfederate/{jwks_resolver,exchange}.go`, `pkg/agent/strict.go` | the recursion's stack | `scanJSONValue`, `scanJSON`, `uniqueJSONObjectFields` | repetition at any depth, documents cut short, case |
| probes, deployment | `cmd/tts-probe`, `deploy/`, `scripts/` | - | - | one-shot I/O against products |

## 2. The modules

| module | what it is |
|---|---|
| `AuditLog` | abstract: a log that only grows, of which clients see a bounded suffix |
| `AuditStore` | `pkg/audit/store.go`; implements `AuditLog` |
| `LoginLifecycle` | abstract: a login only moves forward, within a capacity |
| `WebApp` | `pkg/webapp/handler.go`; implements `LoginLifecycle` |
| `WebAppProofs` | its theorems |
| `CallChain` | composition of runner, gateway, server, API, the middleware in front of the last three, the audit fanout and the collector |
| `CallChainProofs` | its theorems |
| `BrowserUI` | `app.js` against the web application reduced to what the page sees |
| `BrowserUIProofs` | its theorems |
| `TxnVerifier` | what `pkg/transaction/txn_verifier.go` accepts, as operators |
| `StrictChain` | composition of strict runner, adapter, gateway, server and API, each service behind the strict middleware; uses `TxnVerifier` |
| `StrictChainProofs` | its theorems |
| `AuditCollector` | composition of `pkg/audit/remote.go`, the network, `pkg/auditcollector` and `AuditStore`, which it extends |
| `AuditCollectorProofs` | the theorems of `AuditStore`, and on their lemmas those of the collector |
| `SpireProvider` | `pkg/spiffe/spire/provider.go`, and `demoenv.Provider` around it |
| `SpireProviderProofs` | its theorems |
| `TokenIssuance` | composition of the exchange client, the two PingFederate plugins and the verifier that later accepts the token |
| `TokenIssuanceProofs` | its theorems |
| `TrustedConfig` | `Validate` of `internal/config/config.go` |
| `RoutePolicy` | `pkg/authorization/policy.go` |
| `StrictJson` | the duplicate-key scanners |
| `MCInputChecks` | the last three side by side: a behaviour is one of the three checks |
| `InputChecksProofs` | their theorems |
| other `MC...` | the instances for TLC (symmetry sets, views, sets of calls and forms) |

The mutated definitions that stand next to some operators (each marked
`Mutant:` and named after the operator it replaces) are plausible mistakes; no
specification uses them. Replacing the operator by its mutant must make the
property named in `PROJECT.json` fail, which shows that the property depends on
the code it is about.

### AuditStore

State: `records`, `sequence` are the fields of `Store`; `clock` is what
`config.Now()` returns; `answer` is what the last call returned; `accepted` and
`latest` are history variables (every accepted record; the highest clock any
call has seen). Every method holds the mutex for its whole body and reads the
clock inside it, so each method is one action: purge, then search, number,
stamp, make room and append (`Add`), or filter (`ListByUser`, `GetByUser`).
`AddDuplicate` keeps the effect of the purge, as the code does. The
field-by-field rules of `validate` that depend on contents are one Boolean,
`clean`; the owner is kept apart because the properties are about owners.
`purgeLocked` stops at the first record that is not out of date: `PurgePoint`
says exactly that, and so does not assume that timestamps are ordered.
`Now().UTC()` drops Go's monotonic reading, so `SetBack` is possible in
reality; `ClockMaySetBack` chooses.

### WebApp

State: the two maps of `Handler`, and for each goroutine the request it is in,
with the values it has read (`now`, the state and code, a session's ID, subject
and token). A critical section is one action; so is an outgoing call's outcome.
`now` is read in `LoginBegin` and `CallbackBegin` and used later under the lock,
as in the code; `authenticate` reads the clock under the lock. A state
parameter names the nonce and verifier drawn with it, a code is named by the
login it was issued for; a callback may combine any state with any code.
`authorised` and `redeemed` are the identity provider's; whether it compares
the PKCE verifier is not relied on, so the nonce alone must bind. A code may be
redeemed even though the exchange fails for the application. Time is Go's
monotonic clock here (`now.Add`, `Before` keep the reading), so it never goes
back. `AuthenticatedBegin` copies out of the map what the request uses later.
Which status code a request is answered with is kept as "done" or "error".

### CallChain

State: for each transaction the runner's position, for each service the
request it serves, for each workload the audit write it is in; the two sinks
and the events under way to the collector. A call is delivered by writing the
callee's request; the callee's answer is its `status` and `result`. A caller
may time out at any time (`InvokeTimesOut`, `ForwardFails`, `WhoAmIFails`)
while the callee goes on. `Calls` gives each transaction the modes and tools it
may be invoked with. A write goes through `stdout`, `post`, `posted`;
`Acknowledged` needs the collector to have the event; `PostFails` may happen
whatever became of the request, so an event may be stored after its writer has
answered 500. Verification may refuse at every hop. The tool the header names
and the tool in the body are kept apart. The collector's store is here without
its capacity and retention, which are AuditStore's subject.

Two places admit more than the deployed code does. In direct-to-API mode the
peers' TLS policy already refuses the connection; the model delivers the request
and the middleware's caller check denies it, which is the check the mode
demonstrates. And the model does not correlate refusals (an unreachable key
endpoint could refuse at every hop at once): every combination is allowed.

The runner always sends `tools/call`, so the gateway's rule for other methods
(the sole target) does not occur.

### TxnVerifier and StrictChain

State: each call under way with what its request carries (the token, how many
`Txn-Token` fields, an `Authorization` field, the `Mcp-` headers, the tool in
the body) and how far it has come; the tokens the adapter has handed out, with
the first and the last time anyone accepted them (history); the audit trail as
the set of recorded events; what was done. Each call also has a history field
`allowed`, the tool for which the gateway let this very request pass: the trail
cannot tell the passage of a token from a later one of the same token, and
`NoWayAround` is about that difference. PingFederate may sign any claims;
the adapter hands them out only if they verify and name the mTLS caller. The
runner verifies the token, calls, and takes any 2xx for success, so a tool's
error counts as success here as in the legacy chain. `AnyoneCalls` lets any
workload call any service with any token that was handed out and any headers
and body: what the services promise has to hold for all requests. The SPIFFE
identities of gateway and server belong to those programs alone. The TLS peer
policies, which would refuse some of these requests earlier, are not relied on.

A verifier may use any time within `Drift` of the true one. A token is reduced
to issue time, expiry, workload, agent, target and tool; `sound` stands for
everything else that is checked without a clock. Verification, caller check and
audit write of the middleware are one action, and so are the gateway's decision
and its record: every way in which they can fail ends in the same refusal, and
what happens when an audit write is lost or late is in `CallChain`. A refusal
may happen at any time (policy, keys, audit), so nothing is claimed about
progress. Methods other than `tools/call` go to the sole target, as in the
code, so the signed tool is all that ties them to a tool.

### BrowserUI

State: what is in `state` and on the page, the requests under way, and behind
them whether the session is live and how many events the trail holds. An action
is one run of JavaScript to the next `await`. A request may be served, fail, or
be served and have its answer lost. The trail is named by its length, as its
version is the list of its record IDs and it only grows within the bound; an
expiring trail is not modelled. `PageLoad` is a navigation through the login,
which kills the old document's requests and timer. `selected` and `detail` are
the event that is marked and the one whose detail is on the page; a detail
request carries the event it was sent for. `overlapped` is history: the selected
event was clicked while the detail of another was awaited. Requests are
interchangeable, so a new one takes the first free slot (`Free`). The text of
the result is kept as none, running or ended.

### AuditCollector

State: the store (instantiated, so that its calls are the proved ones), for
each POST where its request is and what `Remote.Write` returned to its sender,
and for each query slot of the web application what was asked and answered. The
request and the sender are separate: `WriteFails` may happen while the request
is still on its way, and the request may be handled afterwards. `maySubmit` and
`QueryDenied` are the handlers' checks of the mTLS peer. `Restart` empties the
store and the requests that were inside the old process; `at` says which
incarnation an answer belongs to. `known` is history: what any writer or reader
knew to be stored when the query was sent. Whether a listing fits in the
reader's limit is its number of records against `MaxListed`.

### SpireProvider

State: what the agent issues, where `New` is, the two resources, the SVID the
source holds, the `sync.Once` and each goroutine. The agent changes what it
issues at any time and the source hears of it later (`Rotate`). `Close` is
three steps: enter or wait, close the source, close the client; either library
call may return an error. The SPIRE agent and the library are external.

### TokenIssuance

State: the fields of the two plugins, each named by the form it was made from,
the `configure` that is under way, and each exchange with its token. Every
assignment of `configure` is an action and every read of a field by a request
is another one, so a request can see half of a configuration. Assumed: the
server calls `configure` from one thread at a time; the fields are volatile, as
declared (`profile` is written and never read, so it is left out); jose4j, whose
processing is external, checks the expiry with the configured skew and does not
compare the issue time with the clock. Times are whole seconds, as in the
tokens. A verifier's and the client's clock may differ from the server's by
`Drift`; the client gives up after `Timeout`.

### TrustedConfig, RoutePolicy, StrictJson

These three have no concurrency; their state machines are the loops of the
code, one action per element read, so that what a loop carries from one element
to the next is a variable and the inputs are every short list. `TrustedConfig`
keeps a string as a text and whether white space surrounds it, because the code
trims in some places, and multiplies integers with their width; the fields of
the web application and the collector are chosen when `Validate` comes to them.
`RoutePolicy` loads the rules one by one, with every error of `add`, and then
decides a request; the reference definition reads the rules as a set. `StrictJson` has one
frame per recursive call and reads the tokens that the decoder yields; `members`
records every member read, and the reference definition looks for a repetition
in it afterwards. `deep` and `shallow` are the two kinds of scanner; a key is a
name and how it is spelt, which is what the scanners compare.

## 3. What is checked

| run | instance | properties | states |
|---|---|---|---|
| `audit_store` | 3 IDs, 2 users, capacity 2, retention 1, clock 0..2 that may be set back, 4 acceptances | `StoreTypeOK`, `WindowIsSuffix`, `HeldIDsUnique`, `ListComplete`, `RetentionWhileOrdered`, `ImplementsAuditLog` | 108 000 |
| `audit_set_back` | one user, capacity 3, clock 0..4 that may be set back | `RetentionHonoured`, **violated** | |
| `web_app` | 2 goroutines, 2 logins, 2 session IDs, 2 people, capacity 1, TTLs of 1, clock 0..2, fair | `TypeOK`, `LoginExclusive`, `ActsForItsUser`, `NoLiveEviction`, `ImplementsLifecycle`, `RequestsAnswered` | 400 000 |
| `call_chain` | two concurrent transactions, one in all six modes and with both tools, one normal, fair | `TrailsConsistent`, `EffectsAudited`, `DenialIsFinal`, `TokenUnchanged`, `EventuallySettled` | 139 000 |
| `call_chain_tool_error` | `system.whoami` in normal mode | `DownstreamRejectionFails`, **violated** | |
| `strict_chain` | one call after another, one token at a time, 2 workloads, targets and tools, skew 1, lifetime 1, clock 0..4 | `TypeOK`, `SignedRouteOnly`, `LifetimeBounded`, `CallerIsRequester`, `SuccessIsTrailed`, `NoWayAround` | 281 000 |
| `browser_ui` | 3 requests at a time, trail up to 2, fair | `ListMatchesVersion`, `SelectedIsShown`, `StaysQuiet`, `InvokeReenabled` | 864 000 |
| `browser_sign_out` | 2 requests at a time | `SignedOutPageIsBlank`, **violated** | |
| `collector` | 2 posts, 1 query slot, 2 peers of which one may submit, 2 users, capacity 2, retention 1, clock 0..2 that may be set back, one record per answer, one restart | `KnownRecordsAreShown`, `ShownIsGenuine`, `StoredOnce` | 1 468 000 |
| `spire_provider` | 2 identities, 3 goroutines | `OnlyExpectedIdentity`, `NothingLeaks`, `CloseMeansClosed` | 24 000 |
| `token_issuance` | one exchange, 2 workloads and agents, forms that are good, refused at once and refused half-way, clock 0..7 | `BoundAndExact`, `FreshIssueIsWhole`, `AuthorityBounded` | 756 000 |
| `input_checks` | configuration: 2 agents, 2 SPIFFE IDs, up to 2 listed workloads, padded, blank and malformed strings, TTLs around the ceiling and the wrap of an 8-bit integer; rules: 2, with up to 2 entries in each list, 2 tools, 2 scopes; JSON: 2 names, depth 3, 5 values | `AcceptedIsSound` (`BindingsUnambiguous` and `AcceptedIsSafe`), `DecisionFollowsRules`, `ScanExact` | 4 547 000 |

Where the table does not name `TypeOK`, it is the first conjunct of an invariant
it does name (`TrailsConsistent`, `ListMatchesVersion`, `StoredOnce`,
`NothingLeaks`, `BoundAndExact` and the three of `input_checks`).

What they say, in a line each:

* the store: the slice is the newest part of what was accepted
  (`WindowIsSuffix`), no two held records share an ID, a listing misses only
  what was too old or pushed out (`ListComplete`);
* the web application: a state is redeemed once (`LoginExclusive`), sessions and
  the operations that outlive them belong to who consented (`ActsForItsUser`),
  nothing live is evicted, a login only moves forward and within the capacity
  (`ImplementsLifecycle`), every request is answered;
* the chain: nobody is reached and nobody is told of success before both sinks
  hold what came before (`EffectsAudited`), the collector has the events in the
  order of the hops and none that the workload did not log
  (`TrailsConsistent`), a denial is final, a call carries its own token,
  everything begun ends;
* the strict chain: what is done is what the token names (`SignedRouteOnly`),
  for no longer than its window and for the workload it was issued to, success
  stands on the record, and a token presented again opens no way around the
  gateway (`NoWayAround`);
* the page: the list is the one its version names, the selected event is the one
  shown, a quiet signed-out page stays quiet, the button comes back;
* the collector: read your writes (`KnownRecordsAreShown`), only genuine records,
  each write stored once;
* the provider: one identity only, no leak on any error path, `Close` means
  closed for every caller;
* token issuance: the agent is bound to the verified workload
  (`BoundAndExact`), an accepted configuration is used whole
  (`FreshIssueIsWhole`), authority ends when all limits added up do
  (`AuthorityBounded`).

Why the bounds are enough. In the store, four acceptances against a capacity of
two or three reach eviction, purge, both in one call, and the return of an ID;
the clock range exceeds the retention. In the web application a capacity of one
makes every check at capacity matter, two goroutines give every pair of racing
critical sections, and the clock outlives both TTLs, so that a waiting login or
a session can expire at every point of a request. In the chain, transactions
share only the sinks and the workloads' processes, and no guard of one reads
another's state, so one transaction shows what concerns one call and two show
what could be mixed up; that is why only one of them takes every mode. In the
strict chain the same holds, and the proofs cover any number of calls and
tokens; the clock range exceeds lifetime and skew together, so a token that
could be stretched would be seen. On the page two requests are needed for an
answer to overtake another and a third for a sign-out between them; two events
are enough to show the wrong one. Two posts against an answer limit of one reach
an oversized answer, and one post can be stored, expire or be lost in a restart
while the other and a query are under way; eviction is the subject of the
store's own run and proofs, whose actions the collector uses. The view leaves
out the store's last return value, which the step that made the call has used
up. Three goroutines give a `Close` that runs, one that waits and a use in
between. Exchanges meet only through the plugins' fields, which `configure`
alone writes, so one exchange among reconfigurations sees what any would; the
clock exceeds the sum of all limits, and `AuthorityBounded` is tight: one second
less is violated. The integers of `TrustedConfig` are eight bits wide and a
second ten units long, so that one multiplication can wrap as it does with 64
bits and 10^9 nanoseconds.

Symmetry (of IDs and users, which only meet equality) is used in the store's and
the collector's runs; they check safety only, and the refinement there has no
fairness. Deadlock is checked everywhere but in `input_checks`, where a document that has
been decided is the end.

Fairness. `WebApp` and `CallChain` assume weak fairness of each request that
has begun (`Continue`) and of each invocation that has begun (`Work`): goroutines are scheduled, a Go mutex
does not starve, and every outgoing call has a client timeout - `webapp.New`,
`NewGateway` and the environment's clients require one - so some outcome of the
call always becomes possible and stays possible. The arrival of new requests
(`Begin`, `Invoke`), time and the collector's storing get no fairness, so
`RequestsAnswered` and `EventuallySettled` speak of what has begun. `BrowserUI` assumes that every
fetch is settled (by the web application or by a failing connection) and that
the event loop runs every continuation that is ready; nobody is assumed to
click. The other runs check safety only.

### Disagreements found

* `audit_set_back`: `purgeLocked` relies on timestamps that rise along the
  slice. When the wall clock is set back between two `Add`s, the record in
  front is the younger one, the loop stops at it, and a query returns the older
  one behind it after its retention. The store's test calls that state "expired
  records remained queryable" (`pkg/audit/store_test.go:34`), and ADR 0008
  promises bounded retention.
* `call_chain_tool_error`: the runner takes any 2xx for success. The MCP server
  answers a tool's error, a downstream rejection included, with 200 and an
  error result, so the page shows "Completed" for it; UI-04's acceptance
  criteria ask to reject on downstream rejection. In TLC's trace the API refuses
  the token of a `system.whoami` call with 401 after gateway and server have
  accepted it, and the runner completes.
* `browser_sign_out`: a poll, a detail or an invocation that is waiting for its
  answer when the user signs out renders that answer on the signed-out page;
  UI-07's notes say that logout clears result and detail.

Seen while modelling, and not a run of their own:

* `internal/config/config.go:129` multiplies the maximum lifetime into
  nanoseconds before it compares it with a minute. A number of seconds whose
  product wraps is accepted, though the message says that 60 seconds cannot be
  exceeded. `AcceptedIsSafe` excepts exactly the products that do not fit.
* `config.go:219` compares the collector's and the web application's SPIFFE IDs
  as written, while `validSPIFFEID` trims them first, so the same identity with
  a space before it counts as distinct. `AcceptedIsSafe` excepts exactly that;
  neither exception would be noticed by the run, which shows that there is no
  third.
* The scanners compare member names as spelt; `json.Unmarshal`
  (`pkg/transaction/txn_verifier.go:165`) matches them without regard to case.
  The decoder itself is not modelled.
* Of two overlapping clicks the detail that arrives last is shown
  (`SelectedIsShown` excepts them); a `configure` that fails in the bindings
  leaves the new issuer beside the old metadata until the next one (each token
  is still bound and exact, `BoundAndExact`); a listing over the reader's limit
  fails until records expire.

## 4. What is proved

| module | properties of the runs that are theorems | for every |
|---|---|---|
| `AuditCollectorProofs`, the store | `StoreTypeOK`, `WindowIsSuffix`, `HeldIDsUnique`, `ListComplete`, `RetentionWhileOrdered`, `ImplementsAuditLog` | capacity, retention, users, IDs, clock |
| `AuditCollectorProofs`, the collector | `KnownRecordsAreShown`, `ShownIsGenuine`, `StoredOnce` | the same, and workloads, POSTs, queries, reader's limit, restarts |
| `WebAppProofs` | `TypeOK`, `LoginExclusive`, `ActsForItsUser`, `NoLiveEviction`, `ImplementsLifecycle` | number of goroutines, logins, sessions, people, capacity, TTLs |
| `CallChainProofs` | `TrailsConsistent`, `EffectsAudited`, `DenialIsFinal`, `TokenUnchanged` | number of transactions, their modes and tools |
| `StrictChainProofs` | `TypeOK`, `SignedRouteOnly`, `LifetimeBounded`, `CallerIsRequester`, `SuccessIsTrailed`, `NoWayAround` | workloads, targets, tools, calls, tokens, skew, drift, lifetime |
| `SpireProviderProofs` | `OnlyExpectedIdentity`, `NothingLeaks`, `CloseMeansClosed` | identities, peers, number of goroutines |
| `TokenIssuanceProofs` | `BoundAndExact`, `FreshIssueIsWhole`, `AuthorityBounded` | forms, workloads, agents, exchanges, limits |
| `BrowserUIProofs` | `ListMatchesVersion`, `SelectedIsShown`, `StaysQuiet` | number of requests, length of the trail |
| `InputChecksProofs` | `AcceptedIsSound`, `DecisionFollowsRules`, `ScanExact` | texts, numbers of workloads, rules and purposes, lifetimes, integer width, names, nesting, number of members |

Each theorem is of `Spec`, without fairness. Each module states an inductive
invariant (`IInv`, in the store `StoreInv`, for the checks of documents
`InputInv`), proves it once (the theorem that ends
in `Invariance`, one step per action) and derives the properties from it. Every one
of these invariants was also checked with TLC, on the instance of the module's
run.

### The audit store

The first part of `AuditCollectorProofs` proves, for every capacity, retention, set of IDs and users,
clock bound and number of acceptances (assumption: `StoreConfigAssumption`,
which `NewStore` enforces):

* `StoreTypeCorrect`, `StoreWindow`, `StoreIDs`, `StoreListing`: `StoreTypeOK`,
  `WindowIsSuffix`, `HeldIDsUnique` and `ListComplete` are invariants, whether
  or not the clock is set back;
* `StoreOrderedRetention`: so is `RetentionWhileOrdered` - as long as the
  accepted records carry rising timestamps, no query returns one older than the
  retention, even if the clock was set back between them and caught up again;
* `StoreRetention`: if the clock is never set back, `RetentionHonoured` is an
  invariant;
* `StoreImplementsLog`: the store implements `AuditLog`.

The argument. `WindowIsSuffix` is close to inductive: a purge or an eviction
takes from the old end and an acceptance appends to both sequences, so the same
offset fits afterwards (`PurgeLemma`, `InsertLemma`). `ListComplete` is about
the past - a missing record *was* out of date or *was* pushed out - so the
invariant needs the reason to be kept for every record that is no longer in the
slice, listed or not: `AbsentForAReason` says that each such record is older
than the retention at `latest` or has `MaximumRecords` successors. Both reasons
are monotone, `latest` never decreases and `accepted` only grows, which is why
the history variable is the *highest* clock seen and not the current one.
`StoreInv` is the conjunction of the types, the window, the unique IDs, this
reason and the listing; `PurgeStep` and `AddStep` prove it for the two shapes a
step can have and `StepInv` has one case per action. Retention needs `StampsRise`, that timestamps
rise along `accepted`: the slice is a suffix of it, so the record at which the
loop stops vouches for all behind it. A step only appends to `accepted`, so
stamps that rise after it rose before it, and the step itself can be judged
with them (`OrderedStep`). For a clock that is never set back
`StampsOrdered` (the stamps rise and none is ahead of the clock) is inductive
and discharges the condition. The refinement maps `log` to
`accepted` and `dropped` to the length difference, and every step is `Accept`,
`Expire` or a stutter by `StoreInv`.

### The chain of the strict profile

`StrictChainProofs` proves, for every set of workloads, targets, tools and
concurrent calls, every number of tokens and every skew, drift and lifetime
(assumptions: `VerifierAssumption`, what `NewTxnTokenVerifier` enforces, and
`StrictAssumption`, in essence that no requesting workload has the gateway's or
the server's identity), that all six properties of `strict_chain` are
invariants: `TypeCorrect`, `SignedRouteCorrect`, `LifetimeCorrect`,
`CallerCorrect`, `SuccessCorrect`, `NoWayAroundCorrect`.

The argument. `SignedRouteOnly` speaks of effects, so its invariant must say
what is already known of a call at each stage before it (`Staged`): from
"allowed" on, the gateway has recorded the route its token names; past the
server's middleware, the server has recorded it too. The step from the gateway
to the server is where it could break, because anyone can send a request that
looks like the gateway's: the clause for "server" and "api" holds only for the
caller that the middleware will admit. Records are never taken back
(`TrailGrows`), so the other calls keep their facts (`CallStep`) and each action
is proved for its own call. `Window` bounds the first and the last acceptance
of a token separately by its own issue time and expiry; `LifetimeBounded` is
their difference. `Carried` holds what the types do not say (a call downstream
has a token and a name; the runner's token is its own), and for `NoWayAround`
that `allowed` is the token's tool from "allowed" on, under the same condition
on the caller as in `Staged`.

### The collector

Assumptions: `StoreConfigAssumption`, and `CollectorAssumption`, in essence that
the submitters are workloads with a certificate. The store is not proved about
again: the collector's steps are shown to call the store's operations as the
lemmas about them suppose (`CallsPurge`, `AcceptStep`), and `SliceInv` is a part
of the invariant. `KnownRecordsAreShown` speaks of what was known when the
query was sent and what the store did since, so the invariant says of every
known record that it is an acceptance of the present incarnation (`Held`), and
the store's `AbsentForAReason` gives the reason if the slice no longer has it
when the query is handled (`InSlice`); afterwards the reason can only get
stronger (`GoneStays`). `StoredOnce` needs that a POST not yet handled was not
stored (`PostOK`), and `ShownIsGenuine` that the POST behind an acceptance is
never forgotten (`RecordOK`: its status is 201, and only POSTs with another
status are). A restart discharges everything that mentions the present
incarnation, as every `at` then lies before it.

Two theorems compose the parts. `CollectorRunsStore`: every step of the whole is,
on the store's variables, a step of `StoreNext`, none, or the replacement of the
process (`CallsStore`: the handlers call the store with arguments it was proved
about; that a query names a user comes from `QueryOK`). `CollectorKeepsStore`:
so the store's guarantees - the window, unique identifiers, complete listings,
retention - hold under overlapping requests and restarts, by the store's own
lemmas (`StoreStepInv`, `OrderedStep`).

### The web application

Assumption: `ConfigAssumption` (what `webapp.New` enforces; finite sets of
logins and session IDs). `LoginOK` says that a login is in one place: drawn by
one request, waiting in `preAuth`, being redeemed by one callback, or in one
session. It survives the race of callbacks because `CallbackConsume` takes the
state out of the map in the critical section in which it finds it. `HandlerOK`
carries what each step of a request has established - after the nonce has been
compared, the code is the login's and the subject is the person who consented -
and `SessionOK` hands it on to the session; `Over` says that what an
authenticated operation acts for is not redeemed again, so that an operation
that outlives its session keeps its person. `Moves(h)` describes what any step
of goroutine `h` may do to the maps; every action is shown to move like that,
and the invariant and the refinement are proved from `Moves` once. The
refinement maps a login to the phase `PhaseOf`: `PhaseMoves` shows that a step
moves at most its own login, by one phase or to the end, and `PhasesBounded`
that the phases fit in the capacity.

### The chain of the legacy profile

Assumption: `ChainAssumption` (each transaction may be invoked with some modes
and tools; transaction names differ from `None`, from the workloads and from the
other results). Two groups of facts. `Sinks` and `Ordered` say, by how far each
write has come, in which sinks its event is (`Placed`), and that a workload
writes only when the events of the hops before it are in both (`Writes`); an
event that is in flight when its writer gives up may still be stored, and
`Ordered` survives because its successors were never written. `Control` ties each
handler's position to its own writes and to the handlers around it; the answer
of the callee (`status`, `result`) implies the records it stands on. A step of a
handler either leaves the sinks alone or begins a write (`StartWriteStep`), and
a step of a write leaves the handlers alone (`SinksFrame`), so the two groups
are proved apart. `DenialIsFinal` follows from the two without a
conjunct of its own: standard output holds only the workload's current event, or
its first (`Written`), so a denial excludes an allowance.

### The SPIFFE provider

Assumption: `ProviderAssumption`. `Acquired` lists what `New` holds at each of
its steps. Once the provider is ready, the invariant is a case on the
`sync.Once`: fresh, running (exactly one goroutine is inside, and which resource
is closed follows from its step), done (both closed once, one result).
`Selected` says that the source holds an SVID only when its last update was the
expected one alone.

### Token issuance

Assumption: `IssuanceAssumption` (limits are natural numbers; the forms are
forms). `ConfigurationOK` says how the three fields relate at each assignment
of `configure`; that every value a field ever held was accepted is what makes
`BoundAndExact` hold for torn reads as well. `ExchangeOK` keeps one inequality
per step between the clock, the time the exchange began and the SVID's expiry,
and `AuthorityBounded` is their sum. `FreshOK` holds of an exchange that began
after a whole configuration while none has begun since.

### The page

Assumption: `PageAssumption`. That list and version agree holds because every
continuation that changes one changes the other. `SelectionOK` adds to
`SelectedIsShown` what is awaited: as long as no click overtook another, all
detail requests under way are for the selected event, so whichever is answered
last shows it. `StaysQuiet` is an action property and needs no invariant:
in a quiet state every action but a navigation is disabled or changes
nothing on the page.

### The checks of documents

Assumption: `InputAssumption` (bounds, widths and units are natural numbers; the
blank text is not an identity, a purpose, a tool or a route). The three checks share no variable, so the
invariant is a conjunction of three, each preserved by its own steps and by the
others' stutter. A loop's invariant says what it has collected of what it has
read:

* Configuration (`ConfigInv`): the table binds exactly the trimmed identities of
  the workloads listed so far, each to the agent it was listed under, and no two
  listed workloads are equal once trimmed (`TableIsList`); every agent that the
  loop has left has a workload, the present one unless its list is still
  empty (`AgentsHaveWorkloads`). Two facts about the data decide the proof:
  `TrimSpace` maps two texts to one exactly when they differ in padding only
  (`TrimLemma`, `SameString`), and a product in nanoseconds is what Go computes
  unless it exceeds `MaxInt64` (`HeldLemma`). The width is the constant
  `MaxInt64`, not a power of two, since the provers know no laws of
  exponentiation.
* Rules (`PolicyInv`): while no rule was refused, every rule requires its own
  scopes for each of its bindings, nothing else is in the table and no binding
  comes from two rules (`TableIsRules`); a decision was made by that table
  (`DecidedByTable`). That at most one rule covers a request is then a
  cardinality.
* Scanners (`JsonInv`): no induction over documents is needed, because the stack
  is a variable and each step reads one token. `FramesOK` says that every open
  object has a number of its own and remembers exactly the keys that were read
  under that number, which is what keeps equal keys of enclosing, enclosed and
  sibling objects apart; `MembersOK` says that so far no object the scanner
  answers for has a key twice; `EndsOK` that the stack is empty only at the
  start and at the end. A new object gets a number that no member has
  (`OpenObjectInv`), and a key changes only the set of its own frame
  (`ReadKeyInv`).

### Only model-checked

* Liveness: `RequestsAnswered`, `EventuallySettled`, `InvokeReenabled`.
  Fairness and ENABLED are out of the provers' reach here.
* `RetentionHonoured` when the clock may be set back is violated
  (`audit_set_back`); when it may not it is a theorem (`StoreRetention`), which
  TLC covers by way of `RetentionWhileOrdered`.

## 5. What is not modelled

* Content rules: lengths, formats, credential shapes and header syntax are one
  refusal that can happen where the code checks them.
* Cryptography, JOSE and TLS: verification is an outcome.
* PingFederate, OPA, PingAuthorize, the Workload API and the MCP SDK: external;
  modelled by the outcomes the code handles.
* A restart of a process other than the collector: all state is in memory and
  starts empty, as `Init`.
* OPA and PingAuthorize: their evaluators are third-party; the adapters in
  `opa.go` and `pingauthorize.go` are the decision of `CallChain`, which denies
  on every error.
* The comparison of single claims with configured values in
  `pkg/pingfederate/verifier.go`: one refusal that can happen at every hop.
* `cmd/tts-probe`: a diagnostic that makes each request once, in order, and
  prints what came back; it keeps no state.
* Environment variables and certificate files (`internal/demoenv`), the Terraform
  and Helm descriptions, and the Python, PowerShell and shell scripts.

## 6. Plan

Done: the audit store with its proofs, the web application, the chain of the
legacy profile, the page, the chain of the strict profile with its proofs, the
collector end to end, the SPIFFE provider, token issuance, the configuration,
the rule table and the JSON scanners.

The safety and action properties of every passing run are proved, for every
value of their constants. What is left:

1. An abstract specification of the chain (a trail that only grows in the order
   of the hops), and the refinement on the invariants that are already proved.
2. Liveness, which TLC checks on small instances only.
