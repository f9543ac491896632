--------------------------- MODULE MCTokenIssuance ---------------------------
(* Model-checking instance of TokenIssuance: seconds are scaled so that the *)
(* limits are 1 or 2, and the forms an administrator saves are one good one *)
(* of each profile, one with a bad table and one with too long a lifetime.  *)
EXTENDS TokenIssuance, TLC

CONSTANTS w1, w2, a1, a2

Form(profile, lifetime, b1, b2, wellFormed) ==
    [profile |-> profile, lifetime |-> lifetime, wellFormed |-> wellFormed,
     bindings |-> [w \in Workloads |-> IF w = w1 THEN b1 ELSE b2]]

MCSettings ==
    {Form("legacy", 2, a1, None, TRUE), Form("strict", 1, a2, a1, TRUE),
     Form("legacy", 1, a2, a2, FALSE), Form("legacy", 3, a1, a2, TRUE)}

MCActorSettings ==
    {[lifetime |-> 2, skew |-> 1], [lifetime |-> 1, skew |-> 0],
     [lifetime |-> 2, skew |-> 2], [lifetime |-> 0, skew |-> 0]}

=============================================================================
