--------------------------- MODULE MCSpireProvider ---------------------------
(* Model-checking instance of SpireProvider.                               *)
EXTENDS SpireProvider
=============================================================================
