----------------------------- MODULE RoutePolicy -----------------------------
(***************************************************************************)
(* The built-in route authorizer, pkg/authorization/policy.go: LoadJSON    *)
(* adds the rules of a document one by one to a table keyed by the exact   *)
(* binding, each rule expanding to the product of its purposes and tools;  *)
(* Authorize looks the request's binding up and compares scopes.           *)
(*                                                                         *)
(* A rule's agent, workload and target are one "route"; a string is its    *)
(* text and whether white space surrounds it; a rule's scopes are the set  *)
(* of their texts, which is all that add makes of them.                    *)
(***************************************************************************)
EXTENDS Naturals, Sequences, FiniteSets

CONSTANTS
    Routes,       \* (agent, workload, target) triples, trimmed
    Purposes, Tools, Scopes,
    Blank,        \* the empty text
    MaxListed,    \* bound: purposes, and tools, listed in a rule
    MaxRules      \* bound: rules in a document

PolicyAssumption ==
    /\ Blank \notin Purposes \cup Tools \cup Routes \cup Scopes
    /\ MaxListed \in Nat /\ MaxRules \in Nat

VARIABLES
    phase,             \* "load", "serve" or "failed"
    requiredScopes,   \* Policy.requiredScopes: binding -> scopes
    rules,            \* history: the rules as written
    request,          \* the last request Authorize was asked about
    decision          \* what Authorize answered

vars == <<phase, requiredScopes, rules, request, decision>>

String(texts) == [text : texts \cup {Blank}, padded : BOOLEAN]

Lists(texts) == UNION {[1..n -> String(texts)] : n \in 0..MaxListed}

Rule == [route : Routes \cup {Blank}, purposes : Lists(Purposes),
         tools : Lists(Tools), scopes : SUBSET (Scopes \cup {Blank})]

Binding == Routes \X Purposes \X Tools

Request == [binding : Binding, scopes : SUBSET Scopes]

NoRequest == [binding |-> <<>>, scopes |-> {}]

TypeOK ==
    /\ phase \in {"load", "serve", "failed"}
    /\ DOMAIN requiredScopes \subseteq Binding
    /\ \A b \in DOMAIN requiredScopes : requiredScopes[b] \in (SUBSET Scopes) \ {{}}
    /\ Len(rules) <= MaxRules
    /\ request \in Request \cup {NoRequest}
    /\ decision \in {"none", "allow", "deny"}

Init ==
    /\ phase = "load"
    /\ requiredScopes = [b \in {} |-> {}]
    /\ rules = <<>>
    /\ request = NoRequest
    /\ decision = "none"

-----------------------------------------------------------------------------
(* LoadJSON *)

\* A rule without one of the trusted bindings.
MissingBinding(rule) ==
    \/ rule.route = Blank
    \/ rule.purposes = <<>> \/ rule.tools = <<>> \/ rule.scopes = {}

\* The binding of the i-th purpose and the j-th tool, both trimmed.
BindingAt(rule, i, j) == <<rule.route, rule.purposes[i].text, rule.tools[j].text>>

Pairs(rule) == (DOMAIN rule.purposes) \X (DOMAIN rule.tools)

\* An empty scope, purpose or tool.
HasBlank(rule) ==
    \/ Blank \in rule.scopes
    \/ \E p \in Pairs(rule) :
          rule.purposes[p[1]].text = Blank \/ rule.tools[p[2]].text = Blank

BindingsOf(rule) == {BindingAt(rule, p[1], p[2]) : p \in Pairs(rule)}

\* Mutant: a later rule replaces an earlier one.
AmbiguousInRule(rule) == Cardinality(BindingsOf(rule)) < Cardinality(Pairs(rule))

\* A binding of the rule is in the table already, or comes twice in the rule.
Ambiguous(rule) ==
    \/ BindingsOf(rule) \cap DOMAIN requiredScopes # {}
    \/ Cardinality(BindingsOf(rule)) < Cardinality(Pairs(rule))

\* add: any error fails the whole load; the table is not used then.
Add(rule) ==
    /\ phase = "load"
    /\ Len(rules) < MaxRules
    /\ rules' = Append(rules, rule)
    /\ \/ /\ ~MissingBinding(rule) /\ ~HasBlank(rule) /\ ~Ambiguous(rule)
          /\ requiredScopes' =
                [b \in DOMAIN requiredScopes \cup BindingsOf(rule) |->
                    IF b \in BindingsOf(rule) THEN rule.scopes ELSE requiredScopes[b]]
          /\ UNCHANGED phase
       \/ /\ MissingBinding(rule) \/ HasBlank(rule) \/ Ambiguous(rule)
          /\ phase' = "failed"
          /\ UNCHANGED requiredScopes
    /\ UNCHANGED <<request, decision>>

\* The document ends.  One without rules is an error.
EndOfRules ==
    /\ phase = "load"
    /\ phase' = IF rules = <<>> THEN "failed" ELSE "serve"
    /\ UNCHANGED <<requiredScopes, rules, request, decision>>

-----------------------------------------------------------------------------
(* Authorize *)

Granted(req) ==
    /\ req.binding \in DOMAIN requiredScopes
    /\ requiredScopes[req.binding] \subseteq req.scopes

Authorize(req) ==
    /\ phase = "serve"
    /\ request' = req
    /\ decision' = IF Granted(req) THEN "allow" ELSE "deny"
    /\ UNCHANGED <<phase, requiredScopes, rules>>

Next ==
    \/ phase = "load" /\ \E rule \in Rule : Add(rule)
    \/ EndOfRules
    \/ \E req \in Request : Authorize(req)

Spec == Init /\ [][Next]_vars

-----------------------------------------------------------------------------
(* Properties *)

\* The rule numbers that cover a binding.
Covering(binding) ==
    {n \in DOMAIN rules :
        /\ rules[n].route = binding[1]
        /\ \E i \in DOMAIN rules[n].purposes : rules[n].purposes[i].text = binding[2]
        /\ \E j \in DOMAIN rules[n].tools : rules[n].tools[j].text = binding[3]}

\* What is decided is what the document says, in whatever order its rules come:
\* a request is allowed exactly when one rule, and no second one, covers its
\* binding and all that rule's scopes were granted; no rule shadows or widens
\* another (LoadJSON, Authorize).
DecisionFollowsRules ==
    decision # "none" =>
        /\ Cardinality(Covering(request.binding)) <= 1
        /\ decision = "allow" <=>
              \E n \in Covering(request.binding) : rules[n].scopes \subseteq request.scopes

=============================================================================
