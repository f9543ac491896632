---------------------------- MODULE TrustedConfig ----------------------------
(***************************************************************************)
(* Config.Validate, internal/config/config.go: the operator's configuration *)
(* is accepted or rejected as a whole.  The two nested loops over agents   *)
(* and their workloads build the binding table that the rest of Validate   *)
(* consults; the model reads the lists element by element as the loops do. *)
(*                                                                         *)
(* A string is its text and whether white space surrounds it.  Integers    *)
(* have the width of Go's int64, scaled down with the units they count.    *)
(***************************************************************************)
EXTENDS Integers, Sequences

CONSTANTS
    AgentTexts,       \* agent IDs
    SpiffeTexts,      \* well-formed SPIFFE IDs
    Blank,            \* the empty string
    Malformed,        \* a text that is not a SPIFFE ID
    MaxInt64,         \* the largest int64, 2^63 - 1 in Go
    Second, Minute,   \* time.Second and time.Minute, in units of a Duration
    TTLs,             \* the numbers an operator may write
    MaxWorkloads      \* bound: workloads listed over all agents

ConfigAssumption ==
    /\ MaxInt64 \in Nat
    /\ Second \in Nat \ {0} /\ Minute \in Nat \ {0}
    /\ TTLs \subseteq Int
    /\ MaxWorkloads \in Nat
    /\ Blank \notin AgentTexts \cup SpiffeTexts
    /\ Malformed \notin SpiffeTexts \cup {Blank}

Texts == AgentTexts \cup SpiffeTexts \cup {Blank, Malformed}

String == [text : Texts, padded : BOOLEAN]

VARIABLES
    transaction,  \* Config.Transaction
    ui,           \* Config.Web and Config.AuditStore, once they are read
    step,         \* where Validate is
    agents,       \* the agent IDs seen
    bindings,     \* workload -> agent
    agent,        \* the agent whose workloads are being read
    bare,         \* no workload of that agent has been read yet
    listed        \* history: the (workload, agent) strings as written

vars == <<transaction, ui, step, agents, bindings, agent, bare, listed>>

\* "shape" stands for the checks of one field each: required values, URLs and
\* their origins, scopes, the cookie, and the session and storage limits.
UI == [webAgentID : String, webSPIFFEID : String, collectorSPIFFEID : String,
       shape : BOOLEAN]

Transaction == [MaximumTTLSeconds : TTLs, DefaultTTLSeconds : TTLs]

TypeOK ==
    /\ transaction \in Transaction
    /\ ui \in UI
    /\ step \in {"transaction", "agents", "workloads", "accepted", "rejected"}
    /\ agents \subseteq String
    /\ DOMAIN bindings \subseteq String
    /\ \A s \in DOMAIN bindings : bindings[s] \in agents
    /\ agent \in String
    /\ bare \in BOOLEAN
    /\ listed \in Seq(String \X String)

Empty == [text |-> Blank, padded |-> FALSE]

\* The fields of the document are chosen as Validate comes to them.
Unread == [webAgentID |-> Empty, webSPIFFEID |-> Empty, collectorSPIFFEID |-> Empty,
           shape |-> FALSE]

Init ==
    /\ transaction \in Transaction
    /\ ui = Unread
    /\ step = "transaction"
    /\ agents = {}
    /\ bindings = [s \in {} |-> Empty]
    /\ agent = Empty
    /\ bare = TRUE
    /\ listed = <<>>

-----------------------------------------------------------------------------
(* Strings and numbers *)

TrimSpace(s) == [s EXCEPT !.padded = FALSE]

\* Mutant: the binding table is keyed by the string as it is written.
keyOfRaw(s) == s

\* The key under which a workload is bound.
keyOf(s) == TrimSpace(s)

validSPIFFEID(s) == TrimSpace(s).text \in SpiffeTexts

\* What an int64 holds of n.
Int64(n) ==
    LET half == MaxInt64 + 1 IN ((n + half) % (2 * half)) - half

\* A missing key of a Go map reads as the empty string.
Bound(s) == IF s \in DOMAIN bindings THEN bindings[s] ELSE Empty

-----------------------------------------------------------------------------
(* Validate *)

Reject ==
    /\ step' = "rejected"
    /\ UNCHANGED <<transaction, ui, agents, bindings, agent, bare, listed>>

TransactionOK ==
    /\ transaction.MaximumTTLSeconds > 0
    /\ transaction.DefaultTTLSeconds > 0
    /\ transaction.DefaultTTLSeconds <= transaction.MaximumTTLSeconds
    /\ Int64(transaction.MaximumTTLSeconds * Second) <= Minute

ValidateTransaction ==
    /\ step = "transaction"
    /\ \/ /\ TransactionOK
          /\ step' = "agents"
          /\ UNCHANGED <<transaction, ui, agents, bindings, agent, bare, listed>>
       \/ ~TransactionOK /\ Reject

\* The outer loop: an agent ID that is empty or was seen is an error.
NextAgent(id) ==
    /\ step = "agents"
    /\ Len(listed) < MaxWorkloads
    /\ \/ /\ TrimSpace(id) # Empty
          /\ TrimSpace(id) \notin agents
          /\ agents' = agents \cup {TrimSpace(id)}
          /\ agent' = TrimSpace(id)
          /\ bare' = TRUE
          /\ step' = "workloads"
          /\ UNCHANGED <<transaction, ui, bindings, listed>>
       \/ TrimSpace(id) \in agents \cup {Empty} /\ Reject

\* The inner loop: a workload that is malformed or already bound is an error.
NextWorkload(raw) ==
    /\ step = "workloads"
    /\ Len(listed) < MaxWorkloads
    /\ \/ /\ validSPIFFEID(raw)
          /\ keyOf(raw) \notin DOMAIN bindings
          /\ bindings' = [s \in DOMAIN bindings \cup {keyOf(raw)} |->
                            IF s = keyOf(raw) THEN agent ELSE bindings[s]]
          /\ bare' = FALSE
          /\ listed' = Append(listed, <<raw, agent>>)
          /\ UNCHANGED <<transaction, ui, step, agents, agent>>
       \/ /\ ~validSPIFFEID(raw) \/ keyOf(raw) \in DOMAIN bindings
          /\ Reject

\* The agent's list ends; an empty one is an error.
EndAgent ==
    /\ step = "workloads"
    /\ \/ /\ ~bare
          /\ step' = "agents"
          /\ UNCHANGED <<transaction, ui, agents, bindings, agent, bare, listed>>
       \/ bare /\ Reject

webBound(read) == Bound(read.webSPIFFEID) = read.webAgentID

validateUI(read) ==
    /\ read.shape
    /\ TrimSpace(read.webAgentID) # Empty
    /\ validSPIFFEID(read.webSPIFFEID)
    /\ webBound(read)
    /\ validSPIFFEID(read.collectorSPIFFEID)
    /\ read.collectorSPIFFEID # read.webSPIFFEID

ValidateUI(read) ==
    /\ step = "agents"
    /\ ui' = read
    /\ step' = IF validateUI(read) THEN "accepted" ELSE "rejected"
    /\ UNCHANGED <<transaction, agents, bindings, agent, bare, listed>>

Next ==
    \/ ValidateTransaction
    \/ \E id \in String : NextAgent(id)
    \/ \E raw \in String : NextWorkload(raw)
    \/ EndAgent
    \/ step = "agents" /\ \E read \in UI : ValidateUI(read)

Spec == Init /\ [][Next]_vars

-----------------------------------------------------------------------------
(* Properties *)

\* An accepted configuration is unambiguous, whatever white space it contains:
\* no workload is listed twice, the table binds exactly the listed workloads to
\* the agents they were listed under, every agent has a workload, and the web
\* application is one of the listed pairs (the loops of Validate, validateUI).
BindingsUnambiguous ==
    step = "accepted" =>
        /\ \A i, j \in DOMAIN listed :
              listed[i][1].text = listed[j][1].text => i = j
        /\ \A i \in DOMAIN listed :
              Bound(TrimSpace(listed[i][1])) = listed[i][2]
        /\ \A s \in DOMAIN bindings :
              \E i \in DOMAIN listed : TrimSpace(listed[i][1]) = s
        /\ \A a \in agents : \E i \in DOMAIN listed : listed[i][2] = a
        /\ \E i \in DOMAIN listed :
              /\ listed[i][1].text = ui.webSPIFFEID.text
              /\ listed[i][2].text = ui.webAgentID.text

\* "transaction safety maximum cannot exceed 60 seconds" and "web and audit
\* collector workloads must have distinct SPIFFE IDs": what Validate accepts
\* keeps the ceiling, unless the nanoseconds of the maximum do not fit an int64,
\* and the two identities apart, unless white space surrounds one of them.
AcceptedIsSafe ==
    step = "accepted" =>
        /\ \/ transaction.MaximumTTLSeconds * Second <= Minute
           \/ transaction.MaximumTTLSeconds * Second > MaxInt64
        /\ transaction.DefaultTTLSeconds \in 1..transaction.MaximumTTLSeconds
        /\ \/ ui.collectorSPIFFEID.text # ui.webSPIFFEID.text
           \/ ui.collectorSPIFFEID.padded # ui.webSPIFFEID.padded

=============================================================================
