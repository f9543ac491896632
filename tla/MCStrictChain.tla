---------------------------- MODULE MCStrictChain ----------------------------
(* Model-checking instance of StrictChain.                                 *)
EXTENDS StrictChain
=============================================================================
