---------------------------- MODULE MCAuditStore ----------------------------
(* Model-checking instance of AuditStore.                                  *)
EXTENDS AuditStore, TLC

\* Identifiers and users only meet equality, so their permutations are
\* symmetries of the specification.
Symmetry == Permutations(IDs) \cup Permutations(Users)

=============================================================================
