-------------------------- MODULE InputChecksProofs --------------------------
(***************************************************************************)
(* Proofs about the checks of documents that MCInputChecks puts together:  *)
(* TrustedConfig, RoutePolicy and StrictJson, for any texts, widths, rules, *)
(* scopes, names and nesting.  Each check is a loop over its document, and *)
(* each invariant says what the loop has collected of the part it has read. *)
(***************************************************************************)
EXTENDS MCInputChecks, FiniteSetTheorems, TLAPS

-----------------------------------------------------------------------------
(* RoutePolicy *)

\* What add has put into the table, as long as no rule was refused: every rule
\* requires its own scopes for each of its bindings, nothing else is in the
\* table, and no binding comes from two rules.
TableIsRules ==
    /\ \A n \in 1..Len(rules) :
          \A b \in Policy!BindingsOf(rules[n]) :
              b \in DOMAIN requiredScopes /\ requiredScopes[b] = rules[n].scopes
    /\ \A b \in DOMAIN requiredScopes :
          \E n \in 1..Len(rules) : b \in Policy!BindingsOf(rules[n])
    /\ \A m, n \in 1..Len(rules) :
          \A b \in Policy!BindingsOf(rules[m]) : b \in Policy!BindingsOf(rules[n]) => m = n

\* A decision was made by the table that serves.
DecidedByTable ==
    decision # "none" =>
        /\ phase = "serve"
        /\ request \in Policy!Request
        /\ decision = "allow" <=> Policy!Granted(request)

PolicyInv ==
    /\ Policy!TypeOK
    /\ rules \in Seq(Policy!Rule)
    /\ phase # "failed" => TableIsRules
    /\ DecidedByTable

\* The bindings of a rule without blanks are bindings a request can have.
LEMMA BindingsTyped ==
    ASSUME NEW rule \in Policy!Rule,
           ~Policy!MissingBinding(rule), ~Policy!HasBlank(rule)
    PROVE  Policy!BindingsOf(rule) \subseteq Policy!Binding
  <1>1. PICK n \in 0..MaxListed : rule.purposes \in [1..n -> Policy!String(Purposes)]
    BY DEF Policy!Rule, Policy!Lists
  <1>2. PICK m \in 0..MaxListed : rule.tools \in [1..m -> Policy!String(Tools)]
    BY DEF Policy!Rule, Policy!Lists
  <1>3. rule.route \in Routes
    BY DEF Policy!Rule, Policy!MissingBinding
  <1>4. ASSUME NEW p \in Policy!Pairs(rule)
        PROVE  Policy!BindingAt(rule, p[1], p[2]) \in Policy!Binding
    <2>1. p[1] \in 1..n /\ p[2] \in 1..m
      BY <1>1, <1>2 DEF Policy!Pairs
    <2>2. /\ rule.purposes[p[1]] \in Policy!String(Purposes)
          /\ rule.tools[p[2]] \in Policy!String(Tools)
      BY <1>1, <1>2, <2>1
    <2>3. rule.purposes[p[1]].text # Blank /\ rule.tools[p[2]].text # Blank
      BY DEF Policy!HasBlank
    <2>4. rule.purposes[p[1]].text \in Purposes /\ rule.tools[p[2]].text \in Tools
      BY <2>2, <2>3 DEF Policy!String
    <2>. QED
      BY <1>3, <2>4 DEF Policy!BindingAt, Policy!Binding
  <1>. QED
    BY <1>4 DEF Policy!BindingsOf

\* To cover a binding is to have it among one's own.
LEMMA CoveringLemma ==
    ASSUME rules \in Seq(Policy!Rule), NEW b \in Policy!Binding
    PROVE  Policy!Covering(b) =
              {n \in 1..Len(rules) : b \in Policy!BindingsOf(rules[n])}
  <1>1. b = <<b[1], b[2], b[3]>>
    BY DEF Policy!Binding
  <1>2. ASSUME NEW n \in 1..Len(rules)
        PROVE  (/\ rules[n].route = b[1]
                /\ \E i \in DOMAIN rules[n].purposes : rules[n].purposes[i].text = b[2]
                /\ \E j \in DOMAIN rules[n].tools : rules[n].tools[j].text = b[3])
               <=> b \in Policy!BindingsOf(rules[n])
    <2>1. ASSUME rules[n].route = b[1],
                 NEW i \in DOMAIN rules[n].purposes, rules[n].purposes[i].text = b[2],
                 NEW j \in DOMAIN rules[n].tools, rules[n].tools[j].text = b[3]
          PROVE  b \in Policy!BindingsOf(rules[n])
      <3>1. <<i, j>> \in Policy!Pairs(rules[n])
        BY DEF Policy!Pairs
      <3>2. Policy!BindingAt(rules[n], <<i, j>>[1], <<i, j>>[2]) = b
        BY <1>1, <2>1 DEF Policy!BindingAt
      <3>. QED
        BY <3>1, <3>2 DEF Policy!BindingsOf
    <2>2. ASSUME b \in Policy!BindingsOf(rules[n])
          PROVE  /\ rules[n].route = b[1]
                 /\ \E i \in DOMAIN rules[n].purposes : rules[n].purposes[i].text = b[2]
                 /\ \E j \in DOMAIN rules[n].tools : rules[n].tools[j].text = b[3]
      <3>1. PICK p \in Policy!Pairs(rules[n]) : b = Policy!BindingAt(rules[n], p[1], p[2])
        BY <2>2 DEF Policy!BindingsOf
      <3>2. p[1] \in DOMAIN rules[n].purposes /\ p[2] \in DOMAIN rules[n].tools
        BY DEF Policy!Pairs
      <3>. QED
        BY <1>1, <3>1, <3>2 DEF Policy!BindingAt
    <2>. QED
      BY <2>1, <2>2
  <1>3. DOMAIN rules = 1..Len(rules)
    OBVIOUS
  <1>. QED
    BY <1>2, <1>3 DEF Policy!Covering

\* add: a rule that is accepted widens the table by its own bindings alone.
LEMMA AddInv ==
    ASSUME PolicyInv, NEW rule \in Policy!Rule, Policy!Add(rule)
    PROVE  PolicyInv'
  <1>1. /\ phase = "load" /\ Len(rules) < MaxRules
        /\ rules' = Append(rules, rule)
        /\ request' = request /\ decision' = decision
    BY DEF Policy!Add
  <1>2. /\ rules \in Seq(Policy!Rule) /\ Len(rules) \in Nat
        /\ rules' \in Seq(Policy!Rule)
        /\ Len(rules') = Len(rules) + 1
        /\ rules'[Len(rules) + 1] = rule
        /\ \A n \in 1..Len(rules) : rules'[n] = rules[n]
    BY <1>1 DEF PolicyInv
  <1>3. decision = "none"
    BY <1>1 DEF PolicyInv, DecidedByTable
  <1>4. Len(rules') <= MaxRules
    BY <1>1, <1>2, InputAssumption DEF Policy!PolicyAssumption
  <1>5. CASE /\ ~Policy!MissingBinding(rule) /\ ~Policy!HasBlank(rule)
             /\ ~Policy!Ambiguous(rule)
    <2>1. /\ requiredScopes' =
                [b \in DOMAIN requiredScopes \cup Policy!BindingsOf(rule) |->
                    IF b \in Policy!BindingsOf(rule) THEN rule.scopes
                                                     ELSE requiredScopes[b]]
          /\ phase' = phase
      BY <1>5 DEF Policy!Add
    <2>2. \A b \in Policy!BindingsOf(rule) : b \notin DOMAIN requiredScopes
      BY <1>5 DEF Policy!Ambiguous
    <2>3. rule.scopes \in (SUBSET Scopes) \ {{}}
      BY <1>5 DEF Policy!MissingBinding, Policy!HasBlank, Policy!Rule
    <2>4. Policy!BindingsOf(rule) \subseteq Policy!Binding
      BY <1>5, BindingsTyped
    <2>5. Policy!TypeOK'
      BY <1>1, <1>4, <2>1, <2>3, <2>4 DEF PolicyInv, Policy!TypeOK
    <2>6. TableIsRules
      BY <1>1 DEF PolicyInv
    <2>7. \A n \in 1..Len(rules') : n = Len(rules) + 1 \/ n \in 1..Len(rules)
      BY <1>2
    <2>8. ASSUME NEW n \in 1..Len(rules'), NEW b \in Policy!BindingsOf(rules'[n])
          PROVE  b \in DOMAIN requiredScopes' /\ requiredScopes'[b] = rules'[n].scopes
      <3>1. CASE n = Len(rules) + 1
        BY <1>2, <2>1, <3>1
      <3>2. CASE n \in 1..Len(rules)
        <4>1. b \in DOMAIN requiredScopes /\ requiredScopes[b] = rules[n].scopes
          BY <1>2, <2>6, <3>2 DEF TableIsRules
        <4>. QED
          BY <1>2, <2>1, <2>2, <3>2, <4>1
      <3>. QED
        BY <2>7, <3>1, <3>2
    <2>9. ASSUME NEW b \in DOMAIN requiredScopes'
          PROVE  \E n \in 1..Len(rules') : b \in Policy!BindingsOf(rules'[n])
      <3>1. CASE b \in Policy!BindingsOf(rule)
        <4>1. Len(rules) + 1 \in 1..Len(rules')
          BY <1>2
        <4>. QED
          BY <1>2, <3>1, <4>1
      <3>2. CASE b \in DOMAIN requiredScopes
        <4>1. PICK n \in 1..Len(rules) : b \in Policy!BindingsOf(rules[n])
          BY <2>6, <3>2 DEF TableIsRules
        <4>2. n \in 1..Len(rules')
          BY <1>2
        <4>. QED
          BY <1>2, <4>1, <4>2
      <3>. QED
        BY <2>1, <3>1, <3>2
    <2>10. ASSUME NEW m \in 1..Len(rules'), NEW n \in 1..Len(rules'),
                  NEW b \in Policy!BindingsOf(rules'[m]), b \in Policy!BindingsOf(rules'[n])
           PROVE  m = n
      <3>1. CASE m = Len(rules) + 1 /\ n = Len(rules) + 1
        BY <3>1
      <3>2. CASE m \in 1..Len(rules) /\ n \in 1..Len(rules)
        BY <1>2, <2>6, <2>10, <3>2 DEF TableIsRules
      <3>3. CASE m \in 1..Len(rules) /\ n = Len(rules) + 1
        BY <1>2, <2>2, <2>6, <2>10, <3>3 DEF TableIsRules
      <3>4. CASE m = Len(rules) + 1 /\ n \in 1..Len(rules)
        BY <1>2, <2>2, <2>6, <2>10, <3>4 DEF TableIsRules
      <3>. QED
        BY <2>7, <3>1, <3>2, <3>3, <3>4
    <2>11. TableIsRules'
      BY <2>8, <2>9, <2>10 DEF TableIsRules
    <2>. QED
      BY <1>1, <1>2, <1>3, <2>5, <2>11 DEF PolicyInv, DecidedByTable
  <1>6. CASE ~(/\ ~Policy!MissingBinding(rule) /\ ~Policy!HasBlank(rule)
               /\ ~Policy!Ambiguous(rule))
    <2>1. phase' = "failed" /\ requiredScopes' = requiredScopes
      BY <1>6 DEF Policy!Add
    <2>2. Policy!TypeOK'
      BY <1>1, <1>4, <2>1 DEF PolicyInv, Policy!TypeOK
    <2>. QED
      BY <1>1, <1>2, <1>3, <2>1, <2>2 DEF PolicyInv, DecidedByTable
  <1>. QED
    BY <1>5, <1>6

\* Every step of loading and deciding preserves the invariant.
LEMMA PolicyStep ==
    ASSUME PolicyInv, Policy!Next \/ UNCHANGED policyVars
    PROVE  PolicyInv'
  <1>1. ASSUME NEW rule \in Policy!Rule, Policy!Add(rule)
        PROVE  PolicyInv'
    BY <1>1, AddInv
  <1>2. CASE Policy!EndOfRules
    <2>1. /\ phase = "load" /\ phase' \in {"failed", "serve"}
          /\ UNCHANGED <<requiredScopes, rules, request, decision>>
      BY <1>2 DEF Policy!EndOfRules
    <2>2. Policy!TypeOK'
      BY <2>1 DEF PolicyInv, Policy!TypeOK
    <2>3. TableIsRules'
      BY <2>1 DEF PolicyInv, TableIsRules
    <2>. QED
      BY <2>1, <2>2, <2>3 DEF PolicyInv, DecidedByTable
  <1>3. ASSUME NEW req \in Policy!Request, Policy!Authorize(req)
        PROVE  PolicyInv'
    <2>1. /\ phase = "serve" /\ request' = req
          /\ decision' = IF Policy!Granted(req) THEN "allow" ELSE "deny"
          /\ UNCHANGED <<phase, requiredScopes, rules>>
      BY <1>3 DEF Policy!Authorize
    <2>2. Policy!TypeOK'
      BY <2>1 DEF PolicyInv, Policy!TypeOK
    <2>3. TableIsRules'
      BY <2>1 DEF PolicyInv, TableIsRules
    <2>4. DecidedByTable'
      BY <2>1 DEF DecidedByTable, Policy!Granted
    <2>. QED
      BY <2>1, <2>2, <2>3, <2>4 DEF PolicyInv
  <1>4. CASE UNCHANGED policyVars
    <2>1. UNCHANGED <<phase, requiredScopes, rules, request, decision>>
      BY <1>4 DEF policyVars
    <2>. QED
      BY <2>1 DEF PolicyInv, Policy!TypeOK, TableIsRules, DecidedByTable, Policy!Granted
  <1>. QED
    BY <1>1, <1>2, <1>3, <1>4 DEF Policy!Next

\* Nothing is loaded or decided at first.
LEMMA PolicyStart ==
    ASSUME Policy!Init
    PROVE  PolicyInv
  <1>. USE DEF Policy!Init
  <1>1. Policy!TypeOK
    BY InputAssumption DEF Policy!TypeOK, Policy!PolicyAssumption
  <1>. QED
    BY <1>1 DEF PolicyInv, TableIsRules, DecidedByTable

\* The instance has a name of its own for the size of a set.
LEMMA SameCardinality ==
    ASSUME NEW S
    PROVE  Policy!Cardinality(S) = Cardinality(S)
  BY DEF Cardinality, Policy!Cardinality

\* What the table decides is what the one covering rule says.
LEMMA PolicyDecides ==
    ASSUME PolicyInv
    PROVE  DecisionFollowsRules
  <1>1. ASSUME decision # "none"
        PROVE  /\ Policy!Cardinality(Policy!Covering(request.binding)) <= 1
               /\ decision = "allow" <=>
                     \E n \in Policy!Covering(request.binding) :
                         rules[n].scopes \subseteq request.scopes
    <2>. DEFINE b == request.binding
    <2>1. /\ TableIsRules
          /\ rules \in Seq(Policy!Rule)
          /\ request \in Policy!Request
          /\ decision = "allow" <=> Policy!Granted(request)
      BY <1>1 DEF PolicyInv, DecidedByTable
    <2>2. b \in Policy!Binding
      BY <2>1 DEF Policy!Request
    <2>3. Policy!Granted(request) <=>
             b \in DOMAIN requiredScopes /\ requiredScopes[b] \subseteq request.scopes
      BY DEF Policy!Granted
    <2>. HIDE DEF b
    <2>4. Policy!Covering(b) = {n \in 1..Len(rules) : b \in Policy!BindingsOf(rules[n])}
      BY <2>1, <2>2, CoveringLemma
    <2>5. \A m, n \in Policy!Covering(b) : m = n
      BY <2>1, <2>4 DEF TableIsRules
    <2>6. Cardinality(Policy!Covering(b)) <= 1
      <3>1. CASE Policy!Covering(b) = {}
        BY <3>1, FS_EmptySet
      <3>2. CASE Policy!Covering(b) # {}
        <4>1. PICK n \in Policy!Covering(b) : Policy!Covering(b) = {n}
          BY <2>5, <3>2
        <4>2. Cardinality({n}) = 1
          BY FS_Singleton
        <4>. QED
          BY <4>1, <4>2
      <3>. QED
        BY <3>1, <3>2
    <2>7. Policy!Granted(request) <=>
             \E n \in Policy!Covering(b) : rules[n].scopes \subseteq request.scopes
      BY <2>1, <2>3, <2>4 DEF TableIsRules
    <2>8. Policy!Cardinality(Policy!Covering(b)) <= 1
      BY <2>6, SameCardinality
    <2>9. decision = "allow" <=>
             \E n \in Policy!Covering(b) : rules[n].scopes \subseteq request.scopes
      BY <2>1, <2>7
    <2>. QED
      BY <2>8, <2>9 DEF b
  <1>. QED
    BY <1>1 DEF DecisionFollowsRules, Policy!DecisionFollowsRules, PolicyInv

-----------------------------------------------------------------------------
(* TrustedConfig *)

\* The binding table is the list as it was written, white space aside: no text
\* is listed twice, and each listed workload is bound to its agent.
TableIsList ==
    /\ \A i, j \in 1..Len(listed) : listed[i][1].text = listed[j][1].text => i = j
    /\ \A i \in 1..Len(listed) :
          /\ Config!keyOf(listed[i][1]) \in DOMAIN bindings
          /\ bindings[Config!keyOf(listed[i][1])] = listed[i][2]
    /\ \A s \in DOMAIN bindings :
          \E i \in 1..Len(listed) : Config!keyOf(listed[i][1]) = s

HasWorkload(a) == \E i \in 1..Len(listed) : listed[i][2] = a

\* Only the agent whose list is being read may still be without a workload.
AgentsHaveWorkloads ==
    /\ \A a \in agents : HasWorkload(a) \/ (step = "workloads" /\ bare /\ a = agent)
    /\ step = "workloads" => agent \in agents

ConfigInv ==
    /\ Config!TypeOK
    /\ TableIsList
    /\ step # "rejected" => AgentsHaveWorkloads
    /\ step \in {"agents", "workloads", "accepted"} => Config!TransactionOK
    /\ step = "accepted" => Config!validateUI(ui)

\* Trimming keeps the text and takes the white space.
LEMMA TrimLemma ==
    ASSUME NEW s \in Config!String
    PROVE  /\ Config!TrimSpace(s) \in Config!String
           /\ Config!TrimSpace(s).text = s.text
           /\ Config!TrimSpace(s).padded = FALSE
           /\ Config!keyOf(s) = Config!TrimSpace(s)
  BY DEF Config!TrimSpace, Config!keyOf, Config!String

\* Two strings are the same if their texts and their white space are.
LEMMA SameString ==
    ASSUME NEW s \in Config!String, NEW t \in Config!String,
           s.text = t.text, s.padded = t.padded
    PROVE  s = t
  BY DEF Config!String

\* The empty string, and the fields before they are read.
LEMMA EmptyString == Config!Empty \in Config!String /\ Config!Unread \in Config!UI
  <1>1. Config!Empty \in Config!String
    BY DEF Config!Empty, Config!String, Config!Texts
  <1>. QED
    BY <1>1 DEF Config!Unread, Config!UI

\* The elements of the list are strings.
LEMMA ListedTyped ==
    ASSUME listed \in Seq(Config!String \X Config!String)
    PROVE  /\ Len(listed) \in Nat
           /\ \A i \in 1..Len(listed) :
                 listed[i][1] \in Config!String /\ listed[i][2] \in Config!String
  OBVIOUS

\* The inner loop: the workload that is added is bound to the agent being read,
\* and its text was not listed before, however it was padded.
LEMMA NextWorkloadInv ==
    ASSUME ConfigInv, NEW raw \in Config!String, Config!NextWorkload(raw),
           step' # "rejected"
    PROVE  ConfigInv'
  <1>. DEFINE k == Config!keyOf(raw)
  <1>1. /\ step = "workloads"
        /\ k \notin DOMAIN bindings
        /\ bindings' = [s \in DOMAIN bindings \cup {k} |->
                            IF s = k THEN agent ELSE bindings[s]]
        /\ bare' = FALSE
        /\ listed' = Append(listed, <<raw, agent>>)
        /\ UNCHANGED <<transaction, ui, step, agents, agent>>
    BY DEF Config!NextWorkload, Config!Reject
  <1>2. Config!TypeOK /\ TableIsList /\ AgentsHaveWorkloads /\ agent \in agents
    BY <1>1 DEF ConfigInv, AgentsHaveWorkloads
  <1>3. k \in Config!String /\ k.text = raw.text /\ k.padded = FALSE
    BY TrimLemma
  <1>. HIDE DEF k
  <1>4. /\ agent \in Config!String
        /\ listed \in Seq(Config!String \X Config!String)
        /\ Len(listed) \in Nat
        /\ listed' \in Seq(Config!String \X Config!String)
        /\ Len(listed') = Len(listed) + 1
        /\ listed'[Len(listed) + 1] = <<raw, agent>>
        /\ \A i \in 1..Len(listed) : listed'[i] = listed[i]
    BY <1>1, <1>2 DEF Config!TypeOK
  <1>5. \A i \in 1..Len(listed') : i = Len(listed) + 1 \/ i \in 1..Len(listed)
    BY <1>4
  <1>6. Config!TypeOK'
    BY <1>1, <1>2, <1>3, <1>4 DEF Config!TypeOK
  <1>7. \A i \in 1..Len(listed) : listed[i][1].text # raw.text
    <2>. SUFFICES ASSUME NEW i \in 1..Len(listed), listed[i][1].text = raw.text
                  PROVE  FALSE
      OBVIOUS
    <2>. DEFINE w == listed[i][1]
    <2>0. w \in Config!String /\ w.text = raw.text
      BY <1>4, ListedTyped
    <2>. HIDE DEF w
    <2>1. /\ Config!keyOf(w) \in Config!String
          /\ Config!keyOf(w).text = raw.text
          /\ Config!keyOf(w).padded = FALSE
      BY <2>0, TrimLemma
    <2>2. Config!keyOf(w) = k
      BY <1>3, <2>1, SameString
    <2>. QED
      BY <1>1, <1>2, <2>2 DEF TableIsList, w
  <1>8. ASSUME NEW i \in 1..Len(listed'), NEW j \in 1..Len(listed'),
               listed'[i][1].text = listed'[j][1].text
        PROVE  i = j
    <2>1. CASE i \in 1..Len(listed) /\ j \in 1..Len(listed)
      BY <1>2, <1>4, <1>8, <2>1 DEF TableIsList
    <2>2. CASE i = Len(listed) + 1 /\ j \in 1..Len(listed)
      BY <1>4, <1>7, <1>8, <2>2
    <2>3. CASE i \in 1..Len(listed) /\ j = Len(listed) + 1
      BY <1>4, <1>7, <1>8, <2>3
    <2>4. CASE i = Len(listed) + 1 /\ j = Len(listed) + 1
      BY <2>4
    <2>. QED
      BY <1>5, <2>1, <2>2, <2>3, <2>4
  <1>9. ASSUME NEW i \in 1..Len(listed')
        PROVE  /\ Config!keyOf(listed'[i][1]) \in DOMAIN bindings'
               /\ bindings'[Config!keyOf(listed'[i][1])] = listed'[i][2]
    <2>1. CASE i = Len(listed) + 1
      <3>1. Config!keyOf(listed'[i][1]) = k
        BY <1>4, <2>1 DEF k
      <3>. QED
        BY <1>1, <1>4, <2>1, <3>1
    <2>2. CASE i \in 1..Len(listed)
      BY <1>1, <1>2, <1>4, <2>2 DEF TableIsList
    <2>. QED
      BY <1>5, <2>1, <2>2
  <1>10. ASSUME NEW s \in DOMAIN bindings'
         PROVE  \E i \in 1..Len(listed') : Config!keyOf(listed'[i][1]) = s
    <2>1. CASE s = k
      <3>1. Len(listed) + 1 \in 1..Len(listed')
        BY <1>4
      <3>2. Config!keyOf(listed'[Len(listed) + 1][1]) = k
        BY <1>4 DEF k
      <3>. QED
        BY <2>1, <3>1, <3>2
    <2>2. CASE s \in DOMAIN bindings
      <3>1. PICK i \in 1..Len(listed) : Config!keyOf(listed[i][1]) = s
        BY <1>2, <2>2 DEF TableIsList
      <3>. QED
        BY <1>4, <3>1
    <2>. QED
      BY <1>1, <2>1, <2>2
  <1>11. TableIsList'
    BY <1>8, <1>9, <1>10 DEF TableIsList
  <1>12. ASSUME NEW a \in agents
         PROVE  HasWorkload(a)'
    <2>1. CASE a = agent
      <3>1. Len(listed) + 1 \in 1..Len(listed') /\ listed'[Len(listed) + 1][2] = a
        BY <1>4, <2>1
      <3>. QED
        BY <3>1 DEF HasWorkload
    <2>2. CASE a # agent
      <3>1. PICK i \in 1..Len(listed) : listed[i][2] = a
        BY <1>2, <2>2 DEF AgentsHaveWorkloads, HasWorkload
      <3>2. i \in 1..Len(listed') /\ listed'[i][2] = a
        BY <1>4, <3>1
      <3>. QED
        BY <3>2 DEF HasWorkload
    <2>. QED
      BY <2>1, <2>2
  <1>13. AgentsHaveWorkloads'
    BY <1>1, <1>2, <1>12 DEF AgentsHaveWorkloads
  <1>14. Config!TransactionOK'
    BY <1>1 DEF ConfigInv, Config!TransactionOK
  <1>. QED
    BY <1>1, <1>6, <1>11, <1>13, <1>14 DEF ConfigInv

\* The outer loop: the agent whose list is read next has no workload yet.
LEMMA NextAgentInv ==
    ASSUME ConfigInv, NEW id \in Config!String, Config!NextAgent(id),
           step' # "rejected"
    PROVE  ConfigInv'
  <1>. DEFINE a == Config!TrimSpace(id)
  <1>1. /\ step = "agents" /\ step' = "workloads"
        /\ agents' = agents \cup {a} /\ agent' = a /\ bare' = TRUE
        /\ UNCHANGED <<transaction, ui, bindings, listed>>
    BY DEF Config!NextAgent, Config!Reject
  <1>2. a \in Config!String
    BY TrimLemma
  <1>. HIDE DEF a
  <1>3. Config!TypeOK'
    BY <1>1, <1>2 DEF ConfigInv, Config!TypeOK
  <1>4. TableIsList'
    BY <1>1 DEF ConfigInv, TableIsList
  <1>5. AgentsHaveWorkloads'
    BY <1>1 DEF ConfigInv, AgentsHaveWorkloads, HasWorkload
  <1>6. Config!TransactionOK'
    BY <1>1 DEF ConfigInv, Config!TransactionOK
  <1>. QED
    BY <1>1, <1>3, <1>4, <1>5, <1>6 DEF ConfigInv

\* An error changes nothing of what was read.
LEMMA RejectInv ==
    ASSUME ConfigInv, step' = "rejected",
           UNCHANGED <<transaction, agents, bindings, agent, bare, listed>>,
           ui' \in Config!UI
    PROVE  ConfigInv'
  BY DEF ConfigInv, Config!TypeOK, TableIsList

\* Every step of Validate preserves the invariant.
LEMMA ConfigStep ==
    ASSUME ConfigInv, Config!Next \/ UNCHANGED configVars
    PROVE  ConfigInv'
  <1>0. ui \in Config!UI
    BY DEF ConfigInv, Config!TypeOK
  <1>1. CASE Config!Reject
    BY <1>0, <1>1, RejectInv DEF Config!Reject
  <1>2. CASE Config!ValidateTransaction
    <2>1. CASE step' = "rejected"
      BY <1>0, <1>2, <2>1, RejectInv DEF Config!ValidateTransaction, Config!Reject
    <2>2. CASE step' # "rejected"
      <3>1. /\ step = "transaction" /\ Config!TransactionOK /\ step' = "agents"
            /\ UNCHANGED <<transaction, ui, agents, bindings, agent, bare, listed>>
        BY <1>2, <2>2 DEF Config!ValidateTransaction, Config!Reject
      <3>2. Config!TypeOK'
        BY <3>1 DEF ConfigInv, Config!TypeOK
      <3>3. TableIsList'
        BY <3>1 DEF ConfigInv, TableIsList
      <3>4. AgentsHaveWorkloads'
        BY <3>1 DEF ConfigInv, AgentsHaveWorkloads, HasWorkload
      <3>5. Config!TransactionOK'
        BY <3>1 DEF Config!TransactionOK
      <3>. QED
        BY <3>1, <3>2, <3>3, <3>4, <3>5 DEF ConfigInv
    <2>. QED
      BY <2>1, <2>2
  <1>3. ASSUME NEW id \in Config!String, Config!NextAgent(id)
        PROVE  ConfigInv'
    <2>1. CASE step' = "rejected"
      BY <1>0, <1>3, <2>1, RejectInv DEF Config!NextAgent, Config!Reject
    <2>. QED
      BY <1>3, <2>1, NextAgentInv
  <1>4. ASSUME NEW raw \in Config!String, Config!NextWorkload(raw)
        PROVE  ConfigInv'
    <2>1. CASE step' = "rejected"
      BY <1>0, <1>4, <2>1, RejectInv DEF Config!NextWorkload, Config!Reject
    <2>. QED
      BY <1>4, <2>1, NextWorkloadInv
  <1>5. CASE Config!EndAgent
    <2>1. CASE step' = "rejected"
      BY <1>0, <1>5, <2>1, RejectInv DEF Config!EndAgent, Config!Reject
    <2>2. CASE step' # "rejected"
      <3>1. /\ step = "workloads" /\ ~bare /\ step' = "agents"
            /\ UNCHANGED <<transaction, ui, agents, bindings, agent, bare, listed>>
        BY <1>5, <2>2 DEF Config!EndAgent, Config!Reject
      <3>2. Config!TypeOK'
        BY <3>1 DEF ConfigInv, Config!TypeOK
      <3>3. TableIsList'
        BY <3>1 DEF ConfigInv, TableIsList
      <3>4. AgentsHaveWorkloads'
        BY <3>1 DEF ConfigInv, AgentsHaveWorkloads, HasWorkload
      <3>5. Config!TransactionOK'
        BY <3>1 DEF ConfigInv, Config!TransactionOK
      <3>. QED
        BY <3>1, <3>2, <3>3, <3>4, <3>5 DEF ConfigInv
    <2>. QED
      BY <2>1, <2>2
  <1>6. ASSUME step = "agents", NEW fields \in Config!UI, Config!ValidateUI(fields)
        PROVE  ConfigInv'
    <2>1. /\ ui' = fields
          /\ step' = IF Config!validateUI(fields) THEN "accepted" ELSE "rejected"
          /\ UNCHANGED <<transaction, agents, bindings, agent, bare, listed>>
      BY <1>6 DEF Config!ValidateUI
    <2>2. CASE Config!validateUI(fields)
      <3>1. step' = "accepted"
        BY <2>1, <2>2
      <3>2. Config!TypeOK'
        BY <2>1, <3>1 DEF ConfigInv, Config!TypeOK
      <3>3. TableIsList'
        BY <2>1 DEF ConfigInv, TableIsList
      <3>4. AgentsHaveWorkloads'
        BY <1>6, <2>1, <3>1 DEF ConfigInv, AgentsHaveWorkloads, HasWorkload
      <3>5. Config!TransactionOK'
        BY <1>6, <2>1 DEF ConfigInv, Config!TransactionOK
      <3>6. Config!validateUI(ui)'
        BY <2>1, <2>2 DEF Config!validateUI, Config!webBound, Config!Bound
      <3>. QED
        BY <3>1, <3>2, <3>3, <3>4, <3>5, <3>6 DEF ConfigInv
    <2>3. CASE ~Config!validateUI(fields)
      BY <2>1, <2>3, RejectInv
    <2>. QED
      BY <2>2, <2>3
  <1>7. CASE UNCHANGED configVars
    <2>1. UNCHANGED <<transaction, ui, step, agents, bindings, agent, bare, listed>>
      BY <1>7 DEF configVars
    <2>2. Config!TypeOK' /\ TableIsList'
      BY <2>1 DEF ConfigInv, Config!TypeOK, TableIsList
    <2>3. step' # "rejected" => AgentsHaveWorkloads'
      BY <2>1 DEF ConfigInv, AgentsHaveWorkloads, HasWorkload
    <2>4. step' \in {"agents", "workloads", "accepted"} => Config!TransactionOK'
      BY <2>1 DEF ConfigInv, Config!TransactionOK
    <2>5. step' = "accepted" => Config!validateUI(ui)'
      BY <2>1 DEF ConfigInv, Config!validateUI, Config!webBound, Config!Bound
    <2>. QED
      BY <2>2, <2>3, <2>4, <2>5 DEF ConfigInv
  <1>. QED
    BY <1>2, <1>3, <1>4, <1>5, <1>6, <1>7 DEF Config!Next

\* Nothing is read at first.
LEMMA ConfigStart ==
    ASSUME Config!Init
    PROVE  ConfigInv
  <1>. USE DEF Config!Init
  <1>1. Config!TypeOK
    BY EmptyString DEF Config!TypeOK
  <1>. QED
    BY <1>1 DEF ConfigInv, TableIsList, AgentsHaveWorkloads

\* A number of the size of an int64 is held as it is; what is held as at most
\* Minute is that small or does not fit.
LEMMA HeldLemma ==
    ASSUME NEW n \in Int, n > 0, Config!Int64(n) <= Minute
    PROVE  n <= Minute \/ n > MaxInt64
  <1>. DEFINE half == MaxInt64 + 1
  <1>1. half \in Nat \ {0} /\ Minute \in Nat
    BY InputAssumption DEF Config!ConfigAssumption
  <1>2. Config!Int64(n) = ((n + half) % (2 * half)) - half
    BY DEF Config!Int64
  <1>. SUFFICES ASSUME n < half PROVE n <= Minute
    BY <1>1, InputAssumption DEF Config!ConfigAssumption
  <1>. HIDE DEF half
  <1>3. (n + half) % (2 * half) = n + half
    BY <1>1
  <1>. QED
    BY <1>1, <1>2, <1>3

\* An accepted configuration is sound.
LEMMA ConfigSound ==
    ASSUME ConfigInv
    PROVE  AcceptedIsSound
  <1>1. Config!TypeOK
    BY DEF ConfigInv
  <1>2. listed \in Seq(Config!String \X Config!String) /\ ui \in Config!UI
    BY <1>1 DEF Config!TypeOK
  <1>3. DOMAIN listed = 1..Len(listed)
    BY <1>2
  <1>4. ASSUME step = "accepted"
        PROVE  /\ TableIsList /\ AgentsHaveWorkloads
               /\ Config!TransactionOK /\ Config!validateUI(ui)
    BY <1>4 DEF ConfigInv
  <1>5. ui.webSPIFFEID \in Config!String /\ ui.webAgentID \in Config!String
    BY <1>2 DEF Config!UI
  <1>6. ASSUME NEW i \in 1..Len(listed)
        PROVE  /\ listed[i][1] \in Config!String
               /\ Config!TrimSpace(listed[i][1]) = Config!keyOf(listed[i][1])
               /\ Config!TrimSpace(listed[i][1]).text = listed[i][1].text
    <2>1. listed[i][1] \in Config!String
      BY <1>2, ListedTyped
    <2>. DEFINE w == listed[i][1]
    <2>. HIDE DEF w
    <2>2. Config!TrimSpace(w) = Config!keyOf(w) /\ Config!TrimSpace(w).text = w.text
      BY <2>1, TrimLemma DEF w
    <2>. QED
      BY <2>1, <2>2 DEF w
  <1>7. Config!BindingsUnambiguous
    <2>. SUFFICES ASSUME step = "accepted"
                  PROVE  Config!BindingsUnambiguous
      BY DEF Config!BindingsUnambiguous
    <2>1. \A i, j \in 1..Len(listed) : listed[i][1].text = listed[j][1].text => i = j
      BY <1>4 DEF TableIsList
    <2>2. \A i \in 1..Len(listed) : Config!Bound(Config!TrimSpace(listed[i][1])) = listed[i][2]
      BY <1>4, <1>6 DEF TableIsList, Config!Bound
    <2>3. \A s \in DOMAIN bindings :
             \E i \in 1..Len(listed) : Config!TrimSpace(listed[i][1]) = s
      BY <1>4, <1>6 DEF TableIsList
    <2>4. \A a \in agents : \E i \in 1..Len(listed) : listed[i][2] = a
      BY <1>4 DEF AgentsHaveWorkloads, HasWorkload
    <2>5. \E i \in 1..Len(listed) :
             /\ listed[i][1].text = ui.webSPIFFEID.text
             /\ listed[i][2].text = ui.webAgentID.text
      <3>1. /\ Config!Bound(ui.webSPIFFEID) = ui.webAgentID
            /\ Config!TrimSpace(ui.webAgentID) # Config!Empty
        BY <1>4 DEF Config!validateUI, Config!webBound
      <3>2. ui.webAgentID # Config!Empty
        <4>1. Config!TrimSpace(Config!Empty) = Config!Empty
          BY EmptyString, TrimLemma, SameString DEF Config!Empty
        <4>. QED
          BY <3>1, <4>1
      <3>3. ui.webSPIFFEID \in DOMAIN bindings
        BY <3>1, <3>2 DEF Config!Bound
      <3>4. PICK i \in 1..Len(listed) : Config!keyOf(listed[i][1]) = ui.webSPIFFEID
        BY <1>4, <3>3 DEF TableIsList
      <3>5. bindings[ui.webSPIFFEID] = listed[i][2]
        BY <1>4, <3>4 DEF TableIsList
      <3>. QED
        BY <1>6, <3>1, <3>3, <3>4, <3>5 DEF Config!Bound
    <2>. QED
      BY <1>3, <2>1, <2>2, <2>3, <2>4, <2>5 DEF Config!BindingsUnambiguous
  <1>8. Config!AcceptedIsSafe
    <2>. SUFFICES ASSUME step = "accepted"
                  PROVE  Config!AcceptedIsSafe
      BY DEF Config!AcceptedIsSafe
    <2>. DEFINE maximum == transaction.MaximumTTLSeconds
                default == transaction.DefaultTTLSeconds
    <2>1. maximum \in Int /\ default \in Int
      BY <1>1, InputAssumption DEF Config!TypeOK, Config!Transaction, Config!ConfigAssumption
    <2>2. maximum > 0 /\ default > 0 /\ default <= maximum
          /\ Config!Int64(maximum * Second) <= Minute
      BY <1>4 DEF Config!TransactionOK
    <2>3. Second \in Nat \ {0}
      BY InputAssumption DEF Config!ConfigAssumption
    <2>4. ui.collectorSPIFFEID \in Config!String /\ ui.collectorSPIFFEID # ui.webSPIFFEID
      BY <1>2, <1>4 DEF Config!UI, Config!validateUI
    <2>5. \/ ui.collectorSPIFFEID.text # ui.webSPIFFEID.text
          \/ ui.collectorSPIFFEID.padded # ui.webSPIFFEID.padded
      BY <1>5, <2>4, SameString
    <2>. HIDE DEF maximum, default
    <2>6. maximum * Second \in Int /\ maximum * Second > 0
      BY <2>1, <2>2, <2>3
    <2>7. maximum * Second <= Minute \/ maximum * Second > MaxInt64
      BY <2>2, <2>6, HeldLemma
    <2>8. default \in 1..maximum
      BY <2>1, <2>2
    <2>. QED
      BY <2>5, <2>7, <2>8 DEF Config!AcceptedIsSafe, maximum, default
  <1>. QED
    BY <1>1, <1>7, <1>8 DEF AcceptedIsSound

-----------------------------------------------------------------------------
(* StrictJson *)

\* Each open object has a number of its own and remembers exactly the keys read
\* under that number; the shallow scanners only go down from the first object.
FramesOK ==
    /\ \A f \in 1..Len(stack) :
          stack[f].kind = "object" => stack[f].object \in 1..objects
    /\ \A f, g \in 1..Len(stack) :
          /\ stack[f].kind = "object" /\ stack[g].kind = "object"
          /\ stack[f].object = stack[g].object
          => f = g
    /\ \A f \in 1..Len(stack) : stack[f].kind = "object" =>
          \A key \in Json!Keys :
              key \in stack[f].seen <=>
                  \E i \in 1..Len(members) : members[i] = <<stack[f].object, key>>
    /\ mode = "shallow" /\ Len(stack) > 0 =>
          stack[1].kind = "object" /\ stack[1].object = 1
    /\ Len(stack) > 0 => read >= 1

\* Every member belongs to an object that was opened; the last one repeats
\* another if the scanner said so, and otherwise no object it answers for has a
\* key twice.
MembersOK ==
    /\ \A i \in 1..Len(members) : members[i][1] \in 1..objects
    /\ verdict # "duplicate" =>
          \A i, j \in 1..Len(members) :
              members[i] = members[j] /\ Json!Covered(members[i][1]) => i = j
    /\ verdict = "duplicate" =>
          \E i \in 1..(Len(members) - 1) : members[i] = members[Len(members)]

\* The scanner is at the start, or one whole value has been read.
EndsOK ==
    /\ verdict = "scanning" /\ Len(stack) = 0 => objects = 0 /\ read = 0
    /\ verdict \in {"trailing", "accepted"} =>
          Len(stack) = 0 /\ read >= 1 /\ (mode = "shallow" => objects >= 1)

JsonInv == Json!TypeOK /\ FramesOK /\ MembersOK /\ EndsOK

\* The stack with its innermost frame replaced.
LEMMA ReplaceTop ==
    ASSUME stack \in Seq(Json!Frame), Len(stack) > 0, NEW x \in Json!Frame
    PROVE  /\ Append(Json!Below, x) \in Seq(Json!Frame)
           /\ Len(Append(Json!Below, x)) = Len(stack)
           /\ Append(Json!Below, x)[Len(stack)] = x
           /\ \A f \in 1..(Len(stack) - 1) : Append(Json!Below, x)[f] = stack[f]
           /\ Json!Below \in Seq(Json!Frame)
           /\ Len(Json!Below) = Len(stack) - 1
           /\ \A f \in 1..(Len(stack) - 1) : Json!Below[f] = stack[f]
  <1>. DEFINE s == Json!Below
  <1>1. /\ s \in Seq(Json!Frame) /\ Len(s) = Len(stack) - 1 /\ Len(stack) \in Nat
        /\ \A f \in 1..(Len(stack) - 1) : s[f] = stack[f]
    <2>. DEFINE n == Len(stack) - 1
    <2>1. n \in 0..Len(stack) /\ Len(stack) \in Nat
      OBVIOUS
    <2>2. s = SubSeq(stack, 1, n)
      BY DEF Json!Below
    <2>. HIDE DEF n
    <2>3. /\ SubSeq(stack, 1, n) \in Seq(Json!Frame)
          /\ Len(SubSeq(stack, 1, n)) = n
          /\ \A f \in 1..n : SubSeq(stack, 1, n)[f] = stack[f]
      BY <2>1
    <2>. QED
      BY <2>1, <2>2, <2>3 DEF n
  <1>. HIDE DEF s
  <1>2. /\ Append(s, x) \in Seq(Json!Frame)
        /\ Len(Append(s, x)) = Len(stack)
        /\ Append(s, x)[Len(stack)] = x
        /\ \A f \in 1..(Len(stack) - 1) : Append(s, x)[f] = stack[f]
    BY <1>1
  <1>. QED
    BY <1>1, <1>2 DEF s

\* The innermost frame.
LEMMA TopTyped ==
    ASSUME stack \in Seq(Json!Frame), Len(stack) > 0
    PROVE  Json!Top = stack[Len(stack)] /\ Json!Top \in Json!Frame
  BY DEF Json!Top

\* A value that has been read changes what the innermost frame wants next.
LEMMA ValueTakenLemma ==
    ASSUME stack \in Seq(Json!Frame)
    PROVE  /\ Json!ValueTaken \in Seq(Json!Frame)
           /\ Len(Json!ValueTaken) = Len(stack)
           /\ \A f \in 1..Len(stack) :
                 /\ Json!ValueTaken[f].kind = stack[f].kind
                 /\ Json!ValueTaken[f].seen = stack[f].seen
                 /\ Json!ValueTaken[f].object = stack[f].object
  <1>1. CASE stack = <<>>
    BY <1>1 DEF Json!ValueTaken
  <1>2. CASE stack # <<>>
    <2>. DEFINE x == [Json!Top EXCEPT !.wants = "key"]
    <2>1. Len(stack) > 0 /\ Len(stack) \in Nat
      BY <1>2
    <2>2. Json!Top = stack[Len(stack)] /\ Json!Top \in Json!Frame
      BY <2>1, TopTyped
    <2>3. /\ x \in Json!Frame
          /\ x.kind = stack[Len(stack)].kind
          /\ x.seen = stack[Len(stack)].seen
          /\ x.object = stack[Len(stack)].object
      BY <2>2 DEF Json!Frame
    <2>4. Json!ValueTaken = Append(Json!Below, x)
      BY <1>2 DEF Json!ValueTaken
    <2>. HIDE DEF x
    <2>5. \A f \in 1..Len(stack) : f = Len(stack) \/ f \in 1..(Len(stack) - 1)
      BY <2>1
    <2>. QED
      BY <2>1, <2>3, <2>4, <2>5, ReplaceTop
  <1>. QED
    BY <1>1, <1>2

\* What the frames remember does not depend on what they want next.
LEMMA FramesStay ==
    ASSUME FramesOK, stack \in Seq(Json!Frame), stack' \in Seq(Json!Frame),
           Len(stack') <= Len(stack),
           \A f \in 1..Len(stack') :
              /\ stack'[f].kind = stack[f].kind
              /\ stack'[f].seen = stack[f].seen
              /\ stack'[f].object = stack[f].object,
           read \in Nat, read' \in {read, read + 1},
           UNCHANGED <<mode, members, objects>>
    PROVE  FramesOK'
  <1>1. \A f \in 1..Len(stack') : f \in 1..Len(stack)
    OBVIOUS
  <1>2. Len(stack') > 0 => Len(stack) > 0 /\ 1 \in 1..Len(stack')
    OBVIOUS
  <1>3. ASSUME NEW f \in 1..Len(stack'), stack'[f].kind = "object"
        PROVE  /\ stack'[f].object \in 1..objects'
               /\ \A key \in Json!Keys :
                     key \in stack'[f].seen <=>
                        \E i \in 1..Len(members') : members'[i] = <<stack'[f].object, key>>
    <2>1. /\ f \in 1..Len(stack) /\ stack[f].kind = "object"
          /\ stack'[f].seen = stack[f].seen /\ stack'[f].object = stack[f].object
      BY <1>1, <1>3
    <2>2. stack[f].object \in 1..objects
      BY <2>1 DEF FramesOK
    <2>3. \A key \in Json!Keys :
             key \in stack[f].seen <=>
                \E i \in 1..Len(members) : members[i] = <<stack[f].object, key>>
      BY <2>1 DEF FramesOK
    <2>. QED
      BY <2>1, <2>2, <2>3
  <1>4. ASSUME NEW f \in 1..Len(stack'), NEW g \in 1..Len(stack'),
               stack'[f].kind = "object", stack'[g].kind = "object",
               stack'[f].object = stack'[g].object
        PROVE  f = g
    BY <1>1, <1>4 DEF FramesOK
  <1>5. mode' = "shallow" /\ Len(stack') > 0 =>
           stack'[1].kind = "object" /\ stack'[1].object = 1
    BY <1>2 DEF FramesOK
  <1>6. Len(stack') > 0 => read' >= 1
    BY <1>2 DEF FramesOK
  <1>. QED
    BY <1>3, <1>4, <1>5, <1>6 DEF FramesOK

\* ReadKey: the innermost object remembers the key, unless it has it already.
LEMMA ReadKeyInv ==
    ASSUME JsonInv, NEW key \in Json!Keys, Json!ReadKey(key)
    PROVE  JsonInv'
  <1>. DEFINE n == Len(stack)
              m == Len(members)
  <1>1. /\ Json!TypeOK /\ FramesOK /\ MembersOK
        /\ stack \in Seq(Json!Frame) /\ members \in Seq(Nat \X Json!Keys)
        /\ objects \in Nat /\ read \in Nat /\ n \in Nat /\ m \in Nat
        /\ n <= MaxDepth
    BY DEF JsonInv, Json!TypeOK
  <1>2. /\ verdict = "scanning" /\ n > 0
        /\ members' = Append(members, <<stack[n].object, key>>)
        /\ stack[n].kind = "object"
        /\ UNCHANGED <<mode, objects, read>>
    BY <1>1 DEF Json!ReadKey, Json!Top
  <1>3. Json!Top = stack[n] /\ stack[n] \in Json!Frame
    BY <1>1, <1>2, TopTyped
  <1>4. stack[n].object \in 1..objects /\ stack[n].object \in Nat
    BY <1>1, <1>2, <1>3 DEF FramesOK, Json!Frame
  <1>5. /\ members' \in Seq(Nat \X Json!Keys)
        /\ Len(members') = m + 1
        /\ members'[m + 1] = <<stack[n].object, key>>
        /\ \A i \in 1..m : members'[i] = members[i]
    BY <1>1, <1>2, <1>4
  <1>6. \A i \in 1..Len(members') : i = m + 1 \/ i \in 1..m
    BY <1>1, <1>5
  <1>7. \A i \in 1..Len(members') : members'[i][1] \in 1..objects'
    <2>1. \A i \in 1..m : members[i][1] \in 1..objects
      BY <1>1 DEF MembersOK
    <2>2. members'[m + 1][1] \in 1..objects
      BY <1>4, <1>5
    <2>. QED
      BY <1>2, <1>5, <1>6, <2>1, <2>2
  <1>8. key \in stack[n].seen <=>
           \E i \in 1..m : members[i] = <<stack[n].object, key>>
    <2>1. n \in 1..Len(stack)
      BY <1>1, <1>2
    <2>. HIDE DEF n
    <2>. QED
      BY <1>1, <1>2, <2>1 DEF FramesOK
  <1>9. \A o \in 1..objects, k \in Json!Keys :
           (\E i \in 1..Len(members') : members'[i] = <<o, k>>) <=>
              \/ \E i \in 1..m : members[i] = <<o, k>>
              \/ o = stack[n].object /\ k = key
    <2>. SUFFICES ASSUME NEW o \in 1..objects, NEW k \in Json!Keys
                  PROVE  (\E i \in 1..Len(members') : members'[i] = <<o, k>>) <=>
                            \/ \E i \in 1..m : members[i] = <<o, k>>
                            \/ o = stack[n].object /\ k = key
      OBVIOUS
    <2>1. ASSUME NEW i \in 1..Len(members'), members'[i] = <<o, k>>
          PROVE  \/ \E j \in 1..m : members[j] = <<o, k>>
                 \/ o = stack[n].object /\ k = key
      BY <1>5, <1>6, <2>1
    <2>2. ASSUME NEW i \in 1..m, members[i] = <<o, k>>
          PROVE  \E j \in 1..Len(members') : members'[j] = <<o, k>>
      <3>1. i \in 1..Len(members')
        BY <1>1, <1>5
      <3>2. members'[i] = <<o, k>>
        BY <1>5, <2>2
      <3>. QED
        BY <3>1, <3>2
    <2>3. ASSUME o = stack[n].object, k = key
          PROVE  \E j \in 1..Len(members') : members'[j] = <<o, k>>
      <3>1. m + 1 \in 1..Len(members')
        BY <1>1, <1>5
      <3>. QED
        BY <1>5, <2>3, <3>1
    <2>. QED
      BY <2>1, <2>2, <2>3
  <1>. HIDE DEF n, m
  <1>10. CASE Json!Tested /\ Json!repeated(key)
    <2>1. verdict' = "duplicate" /\ stack' = stack
      BY <1>10 DEF Json!ReadKey
    <2>2. key \in stack[n].seen
      BY <1>3, <1>10 DEF Json!repeated
    <2>3. PICK i \in 1..m : members[i] = <<stack[n].object, key>>
      BY <1>8, <2>2
    <2>4. i \in 1..(Len(members') - 1) /\ members'[i] = members'[Len(members')]
      BY <1>1, <1>5, <2>3
    <2>5. MembersOK'
      BY <1>7, <2>1, <2>4 DEF MembersOK
    <2>6. ASSUME NEW f \in 1..Len(stack), stack[f].kind = "object",
                 NEW k \in Json!Keys
          PROVE  k \in stack[f].seen <=>
                    \E j \in 1..Len(members') : members'[j] = <<stack[f].object, k>>
      <3>1. stack[f].object \in 1..objects
        BY <1>1, <2>6 DEF FramesOK
      <3>2. k \in stack[f].seen <=> \E j \in 1..m : members[j] = <<stack[f].object, k>>
        BY <1>1, <2>6 DEF FramesOK, m
      <3>3. stack[f].object = stack[n].object /\ k = key =>
               \E j \in 1..m : members[j] = <<stack[f].object, k>>
        BY <2>3
      <3>. QED
        BY <1>9, <3>1, <3>2, <3>3
    <2>7. FramesOK'
      BY <1>1, <1>2, <2>1, <2>6 DEF FramesOK
    <2>8. Json!TypeOK'
      BY <1>1, <1>2, <1>5, <2>1 DEF Json!TypeOK
    <2>. QED
      BY <2>1, <2>5, <2>7, <2>8 DEF JsonInv, EndsOK
  <1>11. CASE ~(Json!Tested /\ Json!repeated(key))
    <2>. DEFINE y == [stack[n] EXCEPT !.wants = "value"]
                x == [y EXCEPT !.seen = stack[n].seen \cup {key}]
    <2>1. /\ y \in Json!Frame /\ y.kind = stack[n].kind /\ y.seen = stack[n].seen
          /\ y.object = stack[n].object
      BY <1>3 DEF Json!Frame
    <2>2. stack' = Append(Json!Below, x) /\ verdict' = "scanning"
      BY <1>2, <1>3, <1>11 DEF Json!ReadKey
    <2>. HIDE DEF y
    <2>3. x \in Json!Frame
      BY <1>3, <2>1 DEF Json!Frame
    <2>4. /\ x.kind = stack[n].kind /\ x.seen = stack[n].seen \cup {key}
          /\ x.object = stack[n].object
      BY <1>3, <2>1 DEF Json!Frame
    <2>. HIDE DEF x
    <2>5. /\ stack' \in Seq(Json!Frame) /\ Len(stack') = n /\ stack'[n] = x
          /\ \A f \in 1..(n - 1) : stack'[f] = stack[f]
      BY <1>1, <1>2, <2>2, <2>3, ReplaceTop DEF n
    <2>6. \A f \in 1..Len(stack') : f = n \/ f \in 1..(n - 1)
      BY <1>1, <2>5
    <2>7. \A f \in 1..Len(stack') :
             /\ f \in 1..Len(stack)
             /\ stack'[f].kind = stack[f].kind
             /\ stack'[f].object = stack[f].object
             /\ stack'[f].seen = IF f = n THEN stack[n].seen \cup {key} ELSE stack[f].seen
      <3>1. Len(stack') = Len(stack) /\ n - 1 \in Int /\ n \notin 1..(n - 1)
        BY <1>1, <2>5 DEF n
      <3>. QED
        BY <2>4, <2>5, <2>6, <3>1
    <2>8. ASSUME NEW f \in 1..Len(stack'), stack'[f].kind = "object",
                 NEW k \in Json!Keys
          PROVE  k \in stack'[f].seen <=>
                    \E j \in 1..Len(members') : members'[j] = <<stack'[f].object, k>>
      <3>1. f \in 1..Len(stack) /\ stack[f].kind = "object"
        BY <2>7, <2>8
      <3>2. stack[f].object \in 1..objects /\ stack'[f].object = stack[f].object
        BY <1>1, <2>7, <3>1 DEF FramesOK
      <3>3. k \in stack[f].seen <=> \E j \in 1..m : members[j] = <<stack[f].object, k>>
        BY <1>1, <3>1 DEF FramesOK, m
      <3>4. stack[f].object = stack[n].object <=> f = n
        BY <1>1, <1>2, <3>1 DEF FramesOK, n
      <3>5. k \in stack'[f].seen <=> k \in stack[f].seen \/ (f = n /\ k = key)
        BY <2>7
      <3>. QED
        BY <1>9, <3>2, <3>3, <3>4, <3>5
    <2>9. FramesOK'
      <3>1. \A f \in 1..Len(stack') :
               stack'[f].kind = "object" => stack'[f].object \in 1..objects'
        BY <1>1, <1>2, <2>7 DEF FramesOK
      <3>2. ASSUME NEW f \in 1..Len(stack'), NEW g \in 1..Len(stack'),
                   stack'[f].kind = "object", stack'[g].kind = "object",
                   stack'[f].object = stack'[g].object
            PROVE  f = g
        BY <1>1, <2>7, <3>2 DEF FramesOK
      <3>3. mode' = "shallow" /\ Len(stack') > 0 =>
               stack'[1].kind = "object" /\ stack'[1].object = 1
        <4>1. Len(stack') > 0 => 1 \in 1..Len(stack') /\ Len(stack) > 0
          BY <1>1, <1>2, <2>5 DEF n
        <4>. QED
          BY <1>1, <1>2, <2>7, <4>1 DEF FramesOK
      <3>4. read' >= 1
        BY <1>1, <1>2 DEF FramesOK, n
      <3>. QED
        BY <2>8, <3>1, <3>2, <3>3, <3>4 DEF FramesOK
    <2>10. Json!Covered(stack[n].object) => key \notin stack[n].seen
      <3>. SUFFICES ASSUME Json!Covered(stack[n].object)
                    PROVE  Json!Tested
        BY <1>3, <1>11 DEF Json!repeated
      <3>1. CASE mode = "deep"
        BY <3>1 DEF Json!Tested
      <3>2. CASE mode # "deep"
        <4>1. mode = "shallow" /\ stack[n].object = 1
          BY <1>1, <3>2 DEF Json!Covered, Json!TypeOK
        <4>2. 1 \in 1..Len(stack) /\ n \in 1..Len(stack)
          BY <1>1, <1>2 DEF n
        <4>3. stack[1].kind = "object" /\ stack[1].object = 1
          BY <1>1, <1>2, <4>1 DEF FramesOK, n
        <4>4. n = 1
          BY <1>1, <1>2, <4>1, <4>2, <4>3 DEF FramesOK
        <4>. QED
          BY <4>4 DEF Json!Tested, n
      <3>. QED
        BY <3>1, <3>2
    <2>11. ASSUME NEW i \in 1..Len(members'), NEW j \in 1..Len(members'),
                  members'[i] = members'[j], Json!Covered(members'[i][1])
           PROVE  i = j
      <3>1. \A k \in 1..m : members[k] = <<stack[n].object, key>> =>
               ~Json!Covered(stack[n].object)
        BY <1>8, <2>10
      <3>2. CASE i \in 1..m /\ j \in 1..m
        BY <1>1, <1>2, <1>5, <2>11, <3>2 DEF MembersOK, m
      <3>3. CASE i = m + 1 /\ j \in 1..m
        BY <1>5, <2>11, <3>1, <3>3
      <3>4. CASE i \in 1..m /\ j = m + 1
        BY <1>5, <2>11, <3>1, <3>4
      <3>5. CASE i = m + 1 /\ j = m + 1
        BY <3>5
      <3>. QED
        BY <1>6, <3>2, <3>3, <3>4, <3>5
    <2>12. MembersOK'
      BY <1>2, <1>7, <2>2, <2>11 DEF MembersOK, Json!Covered
    <2>13. Json!TypeOK'
      BY <1>1, <1>2, <1>5, <2>2, <2>5 DEF Json!TypeOK
    <2>14. EndsOK'
      BY <1>2, <2>2, <2>5 DEF EndsOK
    <2>. QED
      BY <2>9, <2>12, <2>13, <2>14 DEF JsonInv
  <1>. QED
    BY <1>10, <1>11

\* What was read of members so far stays true while none is read.
LEMMA MembersStay ==
    ASSUME MembersOK, members \in Seq(Nat \X Json!Keys), objects \in Nat,
           verdict # "duplicate", verdict' # "duplicate",
           objects' \in {objects, objects + 1}, UNCHANGED <<mode, members>>
    PROVE  MembersOK'
  <1>1. \A i \in 1..Len(members') : members'[i][1] \in 1..objects'
    <2>. SUFFICES ASSUME NEW i \in 1..Len(members)
                  PROVE  members[i][1] \in 1..objects'
      OBVIOUS
    <2>. DEFINE o == members[i][1]
    <2>1. o \in 1..objects
      BY DEF MembersOK
    <2>. HIDE DEF o
    <2>2. o \in 1..objects'
      BY <2>1
    <2>. QED
      BY <2>2 DEF o
  <1>. QED
    BY <1>1 DEF MembersOK, Json!Covered

\* ReadScalar: a value that opens no frame.
LEMMA ReadScalarInv ==
    ASSUME JsonInv, Json!ReadScalar
    PROVE  JsonInv'
  <1>1. /\ Json!TypeOK /\ FramesOK /\ MembersOK
        /\ stack \in Seq(Json!Frame) /\ members \in Seq(Nat \X Json!Keys)
        /\ objects \in Nat /\ read \in Nat
        /\ mode \in {"deep", "shallow"} /\ Len(stack) <= MaxDepth
    BY DEF JsonInv, Json!TypeOK
  <1>2. /\ verdict = "scanning" /\ read' = read + 1 /\ stack' = Json!ValueTaken
        /\ verdict' = IF stack # <<>> THEN "scanning"
                      ELSE IF mode = "deep" THEN "trailing" ELSE "malformed"
        /\ UNCHANGED <<mode, members, objects>>
    BY DEF Json!ReadScalar, Json!ValueExpected
  <1>3. /\ stack' \in Seq(Json!Frame) /\ Len(stack') = Len(stack)
        /\ \A f \in 1..Len(stack') :
              /\ stack'[f].kind = stack[f].kind
              /\ stack'[f].seen = stack[f].seen
              /\ stack'[f].object = stack[f].object
    BY <1>1, <1>2, ValueTakenLemma
  <1>4. Len(stack) \in Nat /\ (stack = <<>> <=> Len(stack) = 0)
    BY <1>1
  <1>5. FramesOK'
    BY <1>1, <1>2, <1>3, <1>4, FramesStay
  <1>6. verdict' \in {"scanning", "trailing", "malformed"}
    BY <1>2
  <1>7. MembersOK'
    BY <1>1, <1>2, <1>6, MembersStay
  <1>8. Json!TypeOK'
    BY <1>1, <1>2, <1>3, <1>6 DEF Json!TypeOK
  <1>9. EndsOK'
    BY <1>1, <1>2, <1>3, <1>4 DEF EndsOK
  <1>. QED
    BY <1>5, <1>7, <1>8, <1>9 DEF JsonInv

\* OpenObject: the new frame has the next number, which no member has yet.
LEMMA OpenObjectInv ==
    ASSUME JsonInv, Json!OpenObject
    PROVE  JsonInv'
  <1>. DEFINE n == Len(stack)
              w == Json!ValueTaken
              x == [kind |-> "object", wants |-> "key",
                    seen |-> {}, object |-> objects + 1]
  <1>1. /\ Json!TypeOK /\ FramesOK /\ MembersOK /\ EndsOK
        /\ stack \in Seq(Json!Frame) /\ members \in Seq(Nat \X Json!Keys)
        /\ objects \in Nat /\ read \in Nat /\ n \in Nat /\ MaxDepth \in Nat
    BY InputAssumption DEF JsonInv, Json!TypeOK, Json!JsonAssumption
  <1>2. /\ verdict = "scanning" /\ n < MaxDepth
        /\ read' = read + 1 /\ objects' = objects + 1
        /\ stack' = Append(w, x)
        /\ UNCHANGED <<mode, verdict, members>>
    BY DEF Json!OpenObject, Json!ValueExpected
  <1>3. /\ x \in Json!Frame /\ x.kind = "object" /\ x.seen = {}
        /\ x.object = objects + 1
    BY <1>1 DEF Json!Frame
  <1>4. /\ w \in Seq(Json!Frame) /\ Len(w) = n
        /\ \A f \in 1..n :
              /\ w[f].kind = stack[f].kind
              /\ w[f].seen = stack[f].seen
              /\ w[f].object = stack[f].object
    BY <1>1, ValueTakenLemma
  <1>. HIDE DEF n, w, x
  <1>5. /\ stack' \in Seq(Json!Frame) /\ Len(stack') = n + 1 /\ stack'[n + 1] = x
        /\ \A f \in 1..n : stack'[f] = w[f]
    BY <1>1, <1>2, <1>3, <1>4
  <1>6. \A f \in 1..Len(stack') : f = n + 1 \/ f \in 1..n
    BY <1>1, <1>5
  <1>7. \A f \in 1..n : f \in 1..Len(stack) /\ f # n + 1
    BY <1>1 DEF n
  <1>8. ASSUME NEW f \in 1..Len(stack'), stack'[f].kind = "object"
        PROVE  /\ stack'[f].object \in 1..objects'
               /\ f = n + 1 <=> stack'[f].object = objects + 1
               /\ \A key \in Json!Keys :
                     key \in stack'[f].seen <=>
                        \E i \in 1..Len(members') : members'[i] = <<stack'[f].object, key>>
    <2>1. CASE f = n + 1
      <3>1. stack'[f].seen = {} /\ stack'[f].object = objects + 1
        BY <1>3, <1>5, <2>1
      <3>2. ASSUME NEW key \in Json!Keys, NEW i \in 1..Len(members'),
                   members'[i] = <<objects + 1, key>>
            PROVE  FALSE
        <4>1. members[i][1] \in 1..objects
          BY <1>1, <1>2 DEF MembersOK
        <4>2. members[i][1] = objects + 1
          BY <1>2, <3>2
        <4>. QED
          BY <1>1, <4>1, <4>2
      <3>3. objects + 1 \in 1..objects'
        BY <1>1, <1>2
      <3>. QED
        BY <2>1, <3>1, <3>2, <3>3
    <2>2. CASE f \in 1..n
      <3>1. /\ f \in 1..Len(stack) /\ f # n + 1 /\ stack[f].kind = "object"
            /\ stack'[f].seen = stack[f].seen /\ stack'[f].object = stack[f].object
        BY <1>4, <1>5, <1>7, <1>8, <2>2
      <3>. DEFINE o == stack[f].object
      <3>2. o \in 1..objects
        BY <1>1, <3>1 DEF FramesOK
      <3>3. \A key \in Json!Keys :
               key \in stack[f].seen <=>
                  \E i \in 1..Len(members) : members[i] = <<o, key>>
        BY <1>1, <3>1 DEF FramesOK
      <3>4. stack'[f].object = o
        BY <3>1
      <3>. HIDE DEF o
      <3>5. o \in 1..objects' /\ o # objects + 1
        BY <1>1, <1>2, <3>2
      <3>. QED
        BY <1>2, <3>1, <3>3, <3>4, <3>5
    <2>. QED
      BY <1>6, <2>1, <2>2
  <1>9. ASSUME NEW f \in 1..Len(stack'), NEW g \in 1..Len(stack'),
               stack'[f].kind = "object", stack'[g].kind = "object",
               stack'[f].object = stack'[g].object
        PROVE  f = g
    <2>1. CASE f = n + 1 \/ g = n + 1
      BY <1>8, <1>9, <2>1
    <2>2. CASE f # n + 1 /\ g # n + 1
      <3>1. f \in 1..n /\ g \in 1..n
        BY <1>6, <2>2
      <3>2. /\ stack[f].kind = "object" /\ stack[g].kind = "object"
            /\ stack[f].object = stack[g].object
        BY <1>4, <1>5, <1>9, <3>1
      <3>. QED
        BY <1>1, <1>7, <3>1, <3>2 DEF FramesOK
    <2>. QED
      BY <2>1, <2>2
  <1>10. ASSUME mode' = "shallow"
         PROVE  stack'[1].kind = "object" /\ stack'[1].object = 1
    <2>1. CASE n = 0
      <3>1. objects = 0
        BY <1>1, <1>2, <2>1 DEF EndsOK, n
      <3>. QED
        BY <1>3, <1>5, <2>1, <3>1
    <2>2. CASE n > 0
      <3>1. 1 \in 1..n
        BY <1>1, <2>2
      <3>2. stack[1].kind = "object" /\ stack[1].object = 1
        BY <1>1, <1>2, <1>10, <2>2 DEF FramesOK, n
      <3>. QED
        BY <1>4, <1>5, <3>1, <3>2
    <2>. QED
      BY <1>1, <2>1, <2>2
  <1>11. FramesOK'
    <2>1. read' >= 1
      BY <1>1, <1>2
    <2>. QED
      BY <1>8, <1>9, <1>10, <2>1 DEF FramesOK
  <1>12. MembersOK'
    BY <1>1, <1>2, MembersStay
  <1>13. Json!TypeOK'
    <2>1. objects' \in Nat /\ read' \in Nat /\ Len(stack') <= MaxDepth
      BY <1>1, <1>2, <1>5
    <2>. QED
      BY <1>1, <1>2, <1>5, <2>1 DEF Json!TypeOK
  <1>14. EndsOK'
    BY <1>1, <1>2, <1>5 DEF EndsOK
  <1>. QED
    BY <1>11, <1>12, <1>13, <1>14 DEF JsonInv

\* OpenArray: an array remembers nothing; a shallow scanner refuses one at the
\* start.
LEMMA OpenArrayInv ==
    ASSUME JsonInv, Json!OpenArray
    PROVE  JsonInv'
  <1>. DEFINE n == Len(stack)
              w == Json!ValueTaken
              x == [kind |-> "array", wants |-> "value", seen |-> {}, object |-> 0]
  <1>1. /\ Json!TypeOK /\ FramesOK /\ MembersOK /\ EndsOK
        /\ stack \in Seq(Json!Frame) /\ members \in Seq(Nat \X Json!Keys)
        /\ objects \in Nat /\ read \in Nat /\ n \in Nat /\ MaxDepth \in Nat
        /\ (stack = <<>> <=> n = 0) /\ n <= MaxDepth
    BY InputAssumption DEF JsonInv, Json!TypeOK, Json!JsonAssumption
  <1>2. /\ verdict = "scanning" /\ n < MaxDepth /\ read' = read + 1
        /\ \/ stack = <<>> /\ verdict' = "malformed" /\ stack' = stack
           \/ /\ stack # <<>> \/ mode = "deep"
              /\ stack' = Append(w, x) /\ verdict' = verdict
        /\ UNCHANGED <<mode, members, objects>>
    BY DEF Json!OpenArray, Json!ValueExpected
  <1>3. MembersOK'
    BY <1>1, <1>2, MembersStay
  <1>4. CASE stack' = stack /\ verdict' = "malformed"
    <2>1. FramesOK'
      BY <1>1, <1>2, <1>4, FramesStay
    <2>2. Json!TypeOK'
      BY <1>1, <1>2, <1>4 DEF Json!TypeOK
    <2>. QED
      BY <1>3, <1>4, <2>1, <2>2 DEF JsonInv, EndsOK
  <1>5. CASE /\ stack # <<>> \/ mode = "deep"
             /\ stack' = Append(w, x) /\ verdict' = verdict
    <2>1. x \in Json!Frame /\ x.kind = "array"
      BY DEF Json!Frame
    <2>2. /\ w \in Seq(Json!Frame) /\ Len(w) = n
          /\ \A f \in 1..n :
                /\ w[f].kind = stack[f].kind
                /\ w[f].seen = stack[f].seen
                /\ w[f].object = stack[f].object
      BY <1>1, ValueTakenLemma
    <2>3. n = Len(stack)
      OBVIOUS
    <2>. HIDE DEF n, w, x
    <2>4. /\ stack' \in Seq(Json!Frame) /\ Len(stack') = n + 1
          /\ stack'[n + 1] = x
          /\ \A f \in 1..n : stack'[f] = w[f]
      BY <1>1, <1>5, <2>1, <2>2
    <2>5. \A f \in 1..Len(stack') : f = n + 1 \/ f \in 1..n
      BY <1>1, <2>4
    <2>6. \A f \in 1..Len(stack') : stack'[f].kind = "object" =>
             /\ f \in 1..Len(stack)
             /\ stack[f].kind = "object"
             /\ stack'[f].seen = stack[f].seen
             /\ stack'[f].object = stack[f].object
      <3>1. x.kind # "object"
        BY <2>1
      <3>. QED
        BY <2>2, <2>3, <2>4, <2>5, <3>1
    <2>7. ASSUME NEW f \in 1..Len(stack'), stack'[f].kind = "object"
          PROVE  /\ stack'[f].object \in 1..objects'
                 /\ \A key \in Json!Keys :
                       key \in stack'[f].seen <=>
                          \E i \in 1..Len(members') :
                             members'[i] = <<stack'[f].object, key>>
      <3>1. stack[f].object \in 1..objects
        BY <1>1, <2>6, <2>7 DEF FramesOK
      <3>2. \A key \in Json!Keys :
               key \in stack[f].seen <=>
                  \E i \in 1..Len(members) : members[i] = <<stack[f].object, key>>
        BY <1>1, <2>6, <2>7 DEF FramesOK
      <3>. QED
        BY <1>2, <2>6, <2>7, <3>1, <3>2
    <2>8. ASSUME NEW f \in 1..Len(stack'), NEW g \in 1..Len(stack'),
                 stack'[f].kind = "object", stack'[g].kind = "object",
                 stack'[f].object = stack'[g].object
          PROVE  f = g
      BY <1>1, <2>6, <2>8 DEF FramesOK
    <2>9. ASSUME mode' = "shallow"
          PROVE  stack'[1].kind = "object" /\ stack'[1].object = 1
      <3>1. n # 0 /\ 1 \in 1..n /\ mode = "shallow"
        BY <1>1, <1>2, <1>5, <2>9
      <3>2. stack[1].kind = "object" /\ stack[1].object = 1
        BY <1>1, <2>3, <3>1 DEF FramesOK
      <3>. QED
        BY <2>2, <2>4, <3>1, <3>2
    <2>10. read' >= 1
      BY <1>1, <1>2
    <2>11. FramesOK'
      BY <2>7, <2>8, <2>9, <2>10 DEF FramesOK
    <2>12. Json!TypeOK'
      <3>1. read' \in Nat /\ Len(stack') <= MaxDepth
        BY <1>1, <1>2, <2>4
      <3>. QED
        BY <1>1, <1>2, <1>5, <2>4, <3>1 DEF Json!TypeOK
    <2>13. EndsOK'
      BY <1>1, <1>2, <1>5, <2>4 DEF EndsOK
    <2>. QED
      BY <1>3, <2>11, <2>12, <2>13 DEF JsonInv
  <1>. QED
    BY <1>2, <1>4, <1>5

\* Close: the innermost frame is done; with the outermost the value is complete.
LEMMA CloseInv ==
    ASSUME JsonInv, Json!Close
    PROVE  JsonInv'
  <1>. DEFINE n == Len(stack)
  <1>1. /\ Json!TypeOK /\ FramesOK /\ MembersOK /\ EndsOK
        /\ stack \in Seq(Json!Frame) /\ members \in Seq(Nat \X Json!Keys)
        /\ objects \in Nat /\ read \in Nat /\ n \in Nat /\ n <= MaxDepth
        /\ (stack = <<>> <=> n = 0) /\ MaxDepth \in Nat
    BY InputAssumption DEF JsonInv, Json!TypeOK, Json!JsonAssumption
  <1>2. /\ verdict = "scanning" /\ stack # <<>> /\ stack' = Json!Below
        /\ verdict' = IF stack' = <<>> THEN "trailing" ELSE "scanning"
        /\ UNCHANGED <<mode, members, objects, read>>
    BY DEF Json!Close
  <1>3. /\ n > 0
        /\ stack' \in Seq(Json!Frame) /\ Len(stack') = n - 1
        /\ \A f \in 1..(n - 1) : stack'[f] = stack[f]
    <2>1. n > 0
      BY <1>1, <1>2
    <2>2. PICK x \in Json!Frame : TRUE
      BY <1>1, <2>1, TopTyped
    <2>. QED
      BY <1>1, <1>2, <2>1, <2>2, ReplaceTop
  <1>4. Len(stack') <= Len(stack) /\ (stack' = <<>> <=> Len(stack') = 0)
    BY <1>1, <1>3
  <1>5. FramesOK'
    BY <1>1, <1>2, <1>3, <1>4, FramesStay
  <1>6. MembersOK'
    BY <1>1, <1>2, MembersStay
  <1>7. Json!TypeOK'
    <2>1. Len(stack') <= MaxDepth
      BY <1>1, <1>3
    <2>. QED
      BY <1>1, <1>2, <1>3, <2>1 DEF Json!TypeOK
  <1>8. EndsOK'
    <2>1. read >= 1
      BY <1>1, <1>3 DEF FramesOK
    <2>2. mode = "shallow" => objects >= 1
      <3>1. 1 \in 1..Len(stack)
        BY <1>1, <1>3
      <3>2. mode = "shallow" => 1 \in 1..objects
        BY <1>1, <1>3, <3>1 DEF FramesOK
      <3>. QED
        BY <1>1, <3>2
    <2>. QED
      BY <1>2, <1>4, <2>1, <2>2 DEF EndsOK
  <1>. QED
    BY <1>5, <1>6, <1>7, <1>8 DEF JsonInv

\* Finish and SyntaxError only return, and neither calls a key repeated.
LEMMA ReturnInv ==
    ASSUME JsonInv, Json!Finish \/ Json!SyntaxError
    PROVE  JsonInv'
  <1>1. /\ Json!TypeOK /\ FramesOK /\ MembersOK /\ EndsOK
        /\ stack \in Seq(Json!Frame) /\ members \in Seq(Nat \X Json!Keys)
        /\ objects \in Nat /\ read \in Nat
    BY DEF JsonInv, Json!TypeOK
  <1>2. /\ verdict \in {"scanning", "trailing"}
        /\ verdict' \in {"accepted", "malformed"}
        /\ verdict' = "accepted" => verdict = "trailing"
        /\ UNCHANGED <<mode, stack, members, objects, read>>
    BY DEF Json!Finish, Json!SyntaxError
  <1>3. FramesOK'
    BY <1>1, <1>2, FramesStay
  <1>4. MembersOK'
    BY <1>1, <1>2, MembersStay
  <1>5. Json!TypeOK'
    BY <1>1, <1>2 DEF Json!TypeOK
  <1>6. EndsOK'
    BY <1>1, <1>2 DEF EndsOK
  <1>. QED
    BY <1>3, <1>4, <1>5, <1>6 DEF JsonInv

\* The invariant of the scanners is inductive.
LEMMA JsonStep ==
    ASSUME JsonInv, Json!Next \/ UNCHANGED jsonVars
    PROVE  JsonInv'
  <1>1. CASE UNCHANGED jsonVars
    BY <1>1 DEF jsonVars, JsonInv, Json!TypeOK, FramesOK, MembersOK, EndsOK, Json!Covered
  <1>2. CASE Json!Next
    BY <1>2, ReadKeyInv, ReadScalarInv, OpenObjectInv, OpenArrayInv, CloseInv,
       ReturnInv DEF Json!Next
  <1>. QED
    BY <1>1, <1>2

\* A scanner starts before its document.
LEMMA JsonStart ==
    ASSUME Json!Init
    PROVE  JsonInv
  <1>1. stack = <<>> /\ members = <<>> /\ MaxDepth \in Nat
    BY InputAssumption DEF Json!Init, Json!JsonAssumption
  <1>2. Len(stack) = 0 /\ Len(members) = 0 /\ stack \in Seq(Json!Frame)
        /\ members \in Seq(Nat \X Json!Keys)
    BY <1>1
  <1>. QED
    BY <1>1, <1>2 DEF Json!Init, JsonInv, Json!TypeOK, FramesOK, MembersOK, EndsOK

\* The invariant says that the verdict is the reference one.
LEMMA JsonExact ==
    ASSUME JsonInv
    PROVE  ScanExact
  <1>1. /\ Json!TypeOK /\ MembersOK /\ EndsOK
        /\ stack \in Seq(Json!Frame) /\ members \in Seq(Nat \X Json!Keys)
    BY DEF JsonInv, Json!TypeOK
  <1>2. DOMAIN members = 1..Len(members) /\ (Len(stack) = 0 => stack = <<>>)
    BY <1>1
  <1>3. Json!ScanExact
    BY <1>1, <1>2 DEF MembersOK, Json!ScanExact
  <1>4. Json!AcceptedIsComplete
    BY <1>1, <1>2 DEF EndsOK, Json!AcceptedIsComplete
  <1>. QED
    BY <1>1, <1>3, <1>4 DEF ScanExact

-----------------------------------------------------------------------------
(* The three checks together *)

InputInv == ConfigInv /\ PolicyInv /\ JsonInv

\* Whichever document is checked, what its loop has collected is what the part
\* it has read says (Validate, LoadJSON, scanJSONValue).
THEOREM InputInvariance == Spec => []InputInv
  <1>1. Init => InputInv
    BY ConfigStart, PolicyStart, JsonStart DEF Init, InputInv
  <1>2. InputInv /\ [Next]_vars => InputInv'
    <2>. SUFFICES ASSUME InputInv, [Next]_vars
                  PROVE  InputInv'
      OBVIOUS
    <2>1. Config!Next \/ UNCHANGED configVars
      BY DEF Next, vars
    <2>2. Policy!Next \/ UNCHANGED policyVars
      BY DEF Next, vars
    <2>3. Json!Next \/ UNCHANGED jsonVars
      BY DEF Next, vars
    <2>. QED
      BY <2>1, <2>2, <2>3, ConfigStep, PolicyStep, JsonStep DEF InputInv
  <1>. QED
    BY <1>1, <1>2, PTL DEF Spec

\* A configuration that Validate accepts binds every workload to one agent,
\* never two agents to one workload, and keeps the lifetime ceiling and the two
\* identities apart, except for a number that wraps an int64 and an identity
\* that differs in white space only.
THEOREM AcceptedCorrect == Spec => []AcceptedIsSound
  <1>1. InputInv => AcceptedIsSound
    BY ConfigSound DEF InputInv
  <1>. QED
    BY <1>1, InputInvariance, PTL

\* Authorize allows exactly the requests that one rule of the loaded document
\* grants, with that rule's scopes, whatever the order of the rules.
THEOREM DecisionCorrect == Spec => []DecisionFollowsRules
  <1>1. InputInv => DecisionFollowsRules
    BY PolicyDecides DEF InputInv
  <1>. QED
    BY <1>1, InputInvariance, PTL

\* A scanner accepts only whole documents without a repeated key in any object
\* it answers for, and reports only keys that the same object had before.
THEOREM ScanCorrect == Spec => []ScanExact
  <1>1. InputInv => ScanExact
    BY JsonExact DEF InputInv
  <1>. QED
    BY <1>1, InputInvariance, PTL

=============================================================================
