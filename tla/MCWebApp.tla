------------------------------ MODULE MCWebApp ------------------------------
(* Model-checking instance of WebApp. A login lives for one tick, as does  *)
(* a session, and the clock makes two: both expire while a handler is at   *)
(* work. RequestsAnswered is a liveness property, so no symmetry is used.  *)
EXTENDS WebApp

=============================================================================
