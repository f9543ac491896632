----------------------------- MODULE MCCallChain -----------------------------
(* Model-checking instances of CallChain.                                  *)
EXTENDS CallChain

CONSTANTS t1, t2

\* One transaction in every mode, beside a plain one that reaches the server.
MCCalls ==
    [t \in Txns |-> IF t = t1 THEN [mode : AllModes, tool : byTool]
                              ELSE [mode : {"normal"}, tool : {"customer.get"}]]

\* What the deployed runner sends (pkg/agent/agent.go, system.whoami).
MCNormalCalls == [t \in Txns |-> [mode : {"normal"}, tool : {"system.whoami"}]]

=============================================================================
