------------------------------ MODULE AuditLog ------------------------------
(***************************************************************************)
(* What the audit store promises its clients, without saying how: a log    *)
(* that only grows, of which the clients see a suffix.  Nothing accepted   *)
(* is ever rewritten, reordered or resurrected, and the visible suffix is  *)
(* never longer than Capacity.                                             *)
(***************************************************************************)
EXTENDS Naturals, Sequences

CONSTANT Capacity     \* StoreConfig.MaximumRecords

VARIABLES
    log,              \* every record ever accepted, in order of acceptance
    dropped           \* how many of them, the oldest, are no longer visible

vars == <<log, dropped>>

Init == log = <<>> /\ dropped = 0

\* Records leave the visible window oldest first, and never come back.
Expire ==
    /\ dropped' \in dropped..Len(log)
    /\ UNCHANGED log

\* A record is accepted at the end of the log.  Older ones may expire in the
\* same step; at capacity the oldest has to.
Accept ==
    /\ Len(log') = Len(log) + 1
    /\ \A i \in 1..Len(log) : log'[i] = log[i]
    /\ dropped' \in dropped..Len(log)
    /\ Len(log') - dropped' <= Capacity

Next == Accept \/ Expire

Spec == Init /\ [][Next]_vars

=============================================================================
