---------------------------- MODULE SpireProvider ----------------------------
(***************************************************************************)
(* The workload's own identity, pkg/spiffe/spire/provider.go: construction *)
(* against the SPIRE agent's Workload API, the X.509 source that follows   *)
(* rotations, JWT-SVIDs on demand and a shutdown that several owners may   *)
(* ask for at once (the provider and every X509Source it handed out close  *)
(* the same two resources).                                                *)
(*                                                                         *)
(* The agent may change what it issues at any time.  The source learns of  *)
(* it later, through a watch; the library keeps the last SVID it picked    *)
(* while the agent issues none.                                            *)
(***************************************************************************)
EXTENDS Naturals, Sequences, FiniteSets

CONSTANTS
    IDs,          \* SPIFFE IDs
    Expected,     \* Options.ExpectedSPIFFEID
    Allowed,      \* the peers of the ExactPeerPolicy in use
    None,         \* no SVID
    Threads       \* goroutines using or closing the provider

ASSUME ProviderAssumption ==
    /\ Expected \in IDs
    /\ Allowed \subseteq IDs /\ Allowed # {}
    /\ None \notin IDs

\* Bound: the agent issues at most two SVIDs to this workload at a time.
Issuable == {<<>>} \cup {<<i>> : i \in IDs} \cup {<<i, j>> : i, j \in IDs}

VARIABLES
    issued,       \* the IDs of the SVIDs the agent issues now
    boot,         \* where New, and demoenv.Provider around it, are
    client,       \* the Workload API client
    source,       \* the rotating X.509 source
    svid,         \* the SVID the source holds
    once,         \* Provider.once
    closeErr,     \* Provider.closeErr
    thread,       \* what each goroutine is doing
    closes,       \* history: how often each resource was closed
    told,         \* history: the last update the source was given
    presented     \* history: identities shown to peers or put in JWTs

vars == <<issued, boot, client, source, svid, once, closeErr, thread, closes,
          told, presented>>

Resource == {"none", "open", "closed"}

\* "late" is history: the operation began after some Close had returned.
Thread ==
    [pc : {"idle", "fetching", "closeSource", "closeClient", "wait", "closed"},
     got : IDs \cup {None}, late : BOOLEAN, result : {"none", "nil", "error"}]

TypeOK ==
    /\ issued \in Issuable
    /\ boot \in {"start", "connected", "fetched", "sourced", "ready", "failed"}
    /\ client \in Resource
    /\ source \in Resource
    /\ svid \in IDs \cup {None}
    /\ once \in {"fresh", "running", "done"}
    /\ closeErr \in {"nil", "error"}
    /\ thread \in [Threads -> Thread]
    /\ closes \in [{"client", "source"} -> Nat]
    /\ told \in Issuable
    /\ presented \subseteq IDs

Idle == [pc |-> "idle", got |-> None, late |-> FALSE, result |-> "none"]

Init ==
    /\ issued \in Issuable
    /\ boot = "start"
    /\ client = "none"
    /\ source = "none"
    /\ svid = None
    /\ once = "fresh"
    /\ closeErr = "nil"
    /\ thread = [t \in Threads |-> Idle]
    /\ closes = [r \in {"client", "source"} |-> 0]
    /\ told = <<>>
    /\ presented = {}

-----------------------------------------------------------------------------
(* Selection *)

\* Mutant: the first SVID is taken when there are several.
selectFirst(svids) == IF svids # <<>> THEN svids[1] ELSE None

\* selectExpectedX509, selectExpectedJWT: exactly one SVID, the expected one.
selectExpected(svids) == IF svids = <<Expected>> THEN Expected ELSE None

\* The agent starts, stops or changes what it issues to this workload.
Issue ==
    /\ issued' \in Issuable
    /\ UNCHANGED <<boot, client, source, svid, once, closeErr, thread, closes,
                   told, presented>>

-----------------------------------------------------------------------------
(* New, and demoenv.Provider *)

\* The options are validated and the client created.
Connect ==
    /\ boot = "start"
    /\ \/ boot' = "connected" /\ client' = "open"
       \/ boot' = "failed" /\ UNCHANGED client
    /\ UNCHANGED <<issued, source, svid, once, closeErr, thread, closes,
                   told, presented>>

\* Mutant: the error path forgets the client.
GiveUpLeaking ==
    /\ boot' = "failed"
    /\ UNCHANGED <<client, closes>>

\* An error path of New after the client exists.
GiveUp ==
    /\ boot' = "failed"
    /\ client' = "closed"
    /\ closes' = [closes EXCEPT !["client"] = @ + 1]

\* fetchExpectedX509: what the agent issues right now must be acceptable.
FetchExpected ==
    /\ boot = "connected"
    /\ \/ /\ selectExpected(issued) # None
          /\ boot' = "fetched"
          /\ UNCHANGED <<client, closes>>
       \/ GiveUp
    /\ UNCHANGED <<issued, source, svid, once, closeErr, thread, told, presented>>

\* NewX509Source returns after its first update, picked from what the agent
\* issues by then, or fails.
NewX509Source ==
    /\ boot = "fetched"
    /\ \/ /\ issued # <<>>
          /\ svid' = selectExpected(issued)
          /\ told' = issued
          /\ source' = "open"
          /\ boot' = "sourced"
          /\ UNCHANGED <<client, closes>>
       \/ GiveUp /\ UNCHANGED <<svid, told, source>>
    /\ UNCHANGED <<issued, once, closeErr, thread, presented>>

\* X509Source of a provider nobody else has yet: without a selected SVID the
\* provider is closed again.
TakeSource ==
    /\ boot = "sourced"
    /\ \/ /\ svid # None
          /\ boot' = "ready"
          /\ UNCHANGED <<client, source, once, closeErr, closes>>
       \/ /\ svid = None
          /\ boot' = "failed"
          /\ client' = "closed" /\ source' = "closed"
          /\ closes' = [r \in {"client", "source"} |-> closes[r] + 1]
          /\ once' = "done" /\ closeErr' \in {"nil", "error"}
    /\ UNCHANGED <<issued, svid, thread, told, presented>>

-----------------------------------------------------------------------------
(* Rotation *)

\* The watch delivers an update; none is delivered while nothing is issued.
Rotate ==
    /\ source = "open"
    /\ issued # <<>>
    /\ svid' = selectExpected(issued)
    /\ told' = issued
    /\ UNCHANGED <<issued, boot, client, source, once, closeErr, thread, closes,
                   presented>>

-----------------------------------------------------------------------------
(* Use *)

SomeCloseReturned == \E t \in Threads : thread[t].pc = "closed"

\* tlsConfig: every handshake asks the source for the SVID to present and the
\* exact peer policy about the other side.
Handshake(t, peer) ==
    /\ boot = "ready"
    /\ thread[t].pc = "idle"
    /\ source = "open" /\ svid # None
    /\ peer \in Allowed
    /\ presented' = presented \cup {svid}
    /\ thread' = [thread EXCEPT ![t] = [Idle EXCEPT !.got = svid,
                                                    !.late = SomeCloseReturned]]
    /\ UNCHANGED <<issued, boot, client, source, svid, once, closeErr, closes, told>>

\* FetchJWTSVID, up to the request to the agent.
FetchBegin(t) ==
    /\ boot = "ready"
    /\ thread[t].pc = "idle"
    /\ thread' = [thread EXCEPT ![t] = [Idle EXCEPT !.pc = "fetching",
                                                    !.late = SomeCloseReturned]]
    /\ UNCHANGED <<issued, boot, client, source, svid, once, closeErr, closes,
                   told, presented>>

\* The answer must be exactly the expected JWT-SVID.
FetchReturns(t) ==
    /\ thread[t].pc = "fetching"
    /\ client = "open"
    /\ selectExpected(issued) # None
    /\ presented' = presented \cup {selectExpected(issued)}
    /\ thread' = [thread EXCEPT ![t] = [@ EXCEPT !.pc = "idle",
                                           !.got = selectExpected(issued)]]
    /\ UNCHANGED <<issued, boot, client, source, svid, once, closeErr, closes, told>>

\* The agent refuses, the client is closed, or the answer is not acceptable.
FetchFails(t) ==
    /\ thread[t].pc = "fetching"
    /\ thread' = [thread EXCEPT ![t] = Idle]
    /\ UNCHANGED <<issued, boot, client, source, svid, once, closeErr, closes,
                   told, presented>>

-----------------------------------------------------------------------------
(* Close: sync.Once around closing the source, then the client *)

\* Mutant: a flag instead of the Once; the second caller does not wait.
CloseEnterFlag(t) ==
    /\ boot = "ready"
    /\ thread[t].pc = "idle"
    /\ once' = IF once = "fresh" THEN "running" ELSE once
    /\ thread' = [thread EXCEPT ![t] =
                    IF once = "fresh" THEN [Idle EXCEPT !.pc = "closeSource"]
                    ELSE [Idle EXCEPT !.pc = "closed", !.result = closeErr]]
    /\ UNCHANGED <<issued, boot, client, source, svid, closeErr, closes,
                   told, presented>>

CloseEnter(t) ==
    /\ boot = "ready"
    /\ thread[t].pc = "idle"
    /\ once' = IF once = "fresh" THEN "running" ELSE once
    /\ thread' = [thread EXCEPT ![t] = [Idle EXCEPT !.pc =
                    IF once = "fresh" THEN "closeSource" ELSE "wait"]]
    /\ UNCHANGED <<issued, boot, client, source, svid, closeErr, closes,
                   told, presented>>

CloseSource(t) ==
    /\ thread[t].pc = "closeSource"
    /\ source' = "closed"
    /\ closes' = [closes EXCEPT !["source"] = @ + 1]
    /\ closeErr' \in {"nil", "error"}
    /\ thread' = [thread EXCEPT ![t].pc = "closeClient"]
    /\ UNCHANGED <<issued, boot, client, svid, once, told, presented>>

\* The client is closed whatever closing the source returned.
CloseClient(t) ==
    /\ thread[t].pc = "closeClient"
    /\ client' = "closed"
    /\ closes' = [closes EXCEPT !["client"] = @ + 1]
    /\ closeErr' \in IF closeErr = "error" THEN {"error"} ELSE {"nil", "error"}
    /\ once' = "done"
    /\ thread' = [thread EXCEPT ![t] = [@ EXCEPT !.pc = "closed", !.result = closeErr']]
    /\ UNCHANGED <<issued, boot, source, svid, told, presented>>

CloseWait(t) ==
    /\ thread[t].pc = "wait"
    /\ once = "done"
    /\ thread' = [thread EXCEPT ![t] = [@ EXCEPT !.pc = "closed", !.result = closeErr]]
    /\ UNCHANGED <<issued, boot, client, source, svid, once, closeErr, closes,
                   told, presented>>

-----------------------------------------------------------------------------
Next ==
    \/ Issue
    \/ Connect \/ FetchExpected \/ NewX509Source \/ TakeSource
    \/ Rotate
    \/ \E t \in Threads :
          \/ \E peer \in IDs : Handshake(t, peer)
          \/ FetchBegin(t) \/ FetchReturns(t) \/ FetchFails(t)
          \/ CloseEnter(t) \/ CloseSource(t) \/ CloseClient(t) \/ CloseWait(t)

Spec == Init /\ [][Next]_vars

-----------------------------------------------------------------------------
(* Properties *)

\* However the agent's registrations change, and however late the source hears
\* of it, this workload only ever presents, or obtains a JWT for, the identity
\* it was configured with; and an update that brings anything else, or anything
\* more, ends the use of the SVID held before it (selectExpectedX509 as the
\* picker, selectExpectedJWT).
OnlyExpectedIdentity ==
    /\ presented \subseteq {Expected}
    /\ svid # None => told = <<Expected>>

\* A construction that fails leaves neither the client nor the source open,
\* whichever step failed; one that succeeds has both, until it is closed.
NothingLeaks ==
    /\ TypeOK
    /\ boot = "failed" => client # "open" /\ source # "open"
    /\ boot = "ready" /\ once = "fresh" => client = "open" /\ source = "open"

\* When a Close returns, to whichever of several concurrent callers, both
\* resources are closed, each exactly once, and every caller is told the same
\* result; and nothing that began after a Close had returned obtains an
\* identity (Provider.Close, FetchJWTSVID).
CloseMeansClosed ==
    /\ closes["client"] <= 1 /\ closes["source"] <= 1
    /\ \A t \in Threads : thread[t].pc = "closed" =>
          /\ client = "closed" /\ source = "closed"
          /\ thread[t].result = closeErr
    /\ \A t \in Threads : thread[t].late => thread[t].got = None

=============================================================================
