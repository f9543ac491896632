-------------------------- MODULE MCAuditCollector --------------------------
(* Model-checking instance of AuditCollector.                              *)
EXTENDS AuditCollector, TLC

\* POSTs, query slots and identifiers only meet equality.
Symmetry ==
    Permutations(Posts) \cup Permutations(Queries) \cup Permutations(IDs)
      \cup Permutations(Users)

\* The store's return value is consumed by the step that makes the call.
View == <<records, sequence, clock, accepted, latest, submitting, source,
          posts, queries, restarts>>

=============================================================================
