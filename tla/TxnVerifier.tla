----------------------------- MODULE TxnVerifier -----------------------------
(***************************************************************************)
(* What a verifier of the strict profile accepts                           *)
(* (pkg/transaction/txn_verifier.go).  A token is reduced to the claims    *)
(* that the chain's decisions depend on.  "sound" stands for everything    *)
(* that concerns one token alone and no clock: size, encoding, duplicate   *)
(* keys, JOSE header, signature, schema, issuer, audience and scope.       *)
(* Times are whole seconds, as the claims are.                             *)
(***************************************************************************)
EXTENDS Integers

CONSTANTS
    ClockSkew,         \* TxnTokenVerifierConfig.ClockSkew
    MaximumLifetime,   \* TxnTokenVerifierConfig.MaximumLifetime
    Workloads,         \* SPIFFE IDs of requesting workloads
    Requester,         \* the one workload in WorkloadAgentBindings
    Targets,           \* values of tctx.wai.target
    Tools,             \* values of tctx.wai.tool
    MaxClock           \* bound: last instant considered

ASSUME VerifierAssumption ==
    /\ ClockSkew \in Nat
    /\ MaximumLifetime \in Nat \ {0}
    /\ Requester \in Workloads
    /\ MaxClock \in Nat

Agents == {"urn:agent:demo", "another agent"}

TxnTokenClaims ==
    [iat : 0..MaxClock, exp : 0..MaxClock, workload : Workloads,
     agent : Agents, target : Targets, tool : Tools, sound : BOOLEAN]

\* Mutant: the issue time is not compared with the clock.
validTimeWindowAnyIssue(w, now) ==
    /\ w.iat > 0 /\ w.exp > 0
    /\ w.exp >= now - ClockSkew
    /\ w.exp > w.iat
    /\ w.exp - w.iat <= MaximumLifetime

\* The time window of validateWire.
validTimeWindow(w, now) ==
    /\ w.iat > 0 /\ w.exp > 0
    /\ w.exp >= now - ClockSkew
    /\ w.iat <= now + ClockSkew
    /\ w.exp > w.iat
    /\ w.exp - w.iat <= MaximumLifetime

\* Mutant: the agent is compared, the workload it is bound to is not.
boundAgentOnly(w) == w.agent = "urn:agent:demo"

\* WorkloadAgentBindings has one entry: Requester is "urn:agent:demo".
boundAgent(w) == w.workload = Requester /\ w.agent = "urn:agent:demo"

\* Verify
Accepted(w, now) == w.sound /\ validTimeWindow(w, now) /\ boundAgent(w)

=============================================================================
