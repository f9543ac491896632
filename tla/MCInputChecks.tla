---------------------------- MODULE MCInputChecks ----------------------------
(***************************************************************************)
(* Model-checking instance of the three checks of documents that a process *)
(* makes before it acts on them: the operator's configuration              *)
(* (TrustedConfig), the rules of the route authorizer (RoutePolicy) and    *)
(* the JSON of tokens and answers (StrictJson).  They share no state; a    *)
(* behaviour is one of the three, from its own initial states.             *)
(***************************************************************************)
EXTENDS Integers, Sequences, FiniteSets

CONSTANTS
    AgentTexts, SpiffeTexts, Malformed, MaxInt64, Second, Minute, TTLs,
    MaxWorkloads,                                        \* of TrustedConfig
    Routes, Purposes, Tools, Scopes, MaxListed, MaxRules, \* of RoutePolicy
    Names, MaxDepth, MaxMembers,                         \* of StrictJson
    Blank

VARIABLES
    document,     \* which of the three is checked
    transaction, ui, step, agents, bindings, agent, bare, listed,
    phase, requiredScopes, rules, request, decision,
    mode, stack, verdict, members, objects, read

Config == INSTANCE TrustedConfig
Policy == INSTANCE RoutePolicy
Json   == INSTANCE StrictJson

ASSUME InputAssumption ==
    Config!ConfigAssumption /\ Policy!PolicyAssumption /\ Json!JsonAssumption

configVars == <<transaction, ui, step, agents, bindings, agent, bare, listed>>
policyVars == <<phase, requiredScopes, rules, request, decision>>
jsonVars   == <<mode, stack, verdict, members, objects, read>>

vars == <<document, configVars, policyVars, jsonVars>>

\* The variables of a check that is not made stay at one initial value.
Init ==
    /\ document \in {"config", "rules", "json"}
    /\ Config!Init /\ Policy!Init /\ Json!Init
    /\ document # "config" => \A t \in {transaction.MaximumTTLSeconds,
                                        transaction.DefaultTTLSeconds} : t = 0
    /\ document # "json" => mode = "deep"

Next ==
    \/ document = "config" /\ Config!Next /\ UNCHANGED <<document, policyVars, jsonVars>>
    \/ document = "rules" /\ Policy!Next /\ UNCHANGED <<document, configVars, jsonVars>>
    \/ document = "json" /\ Json!Next /\ UNCHANGED <<document, configVars, policyVars>>

Spec == Init /\ [][Next]_vars

-----------------------------------------------------------------------------
(* Properties, as the three modules state them *)

\* An accepted configuration binds each workload to one agent, and keeps the
\* ceiling and the two identities apart, but for numbers that wrap and white
\* space (Validate).
AcceptedIsSound ==
    Config!TypeOK /\ Config!BindingsUnambiguous /\ Config!AcceptedIsSafe

\* A request is decided as the rules say, in whatever order (LoadJSON,
\* Authorize).
DecisionFollowsRules == Policy!TypeOK /\ Policy!DecisionFollowsRules

\* The scanners refuse exactly the documents that repeat a key, and accept only
\* whole ones (scanJSONValue, uniqueJSONObjectFields).
ScanExact == Json!TypeOK /\ Json!ScanExact /\ Json!AcceptedIsComplete

=============================================================================
