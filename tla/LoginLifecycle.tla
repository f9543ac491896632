--------------------------- MODULE LoginLifecycle ---------------------------
(***************************************************************************)
(* What the web application promises about a login: a life that only moves *)
(* forward.  A login is started, redeemed at most once, yields at most one *)
(* session, and once it is over nothing brings it back.  The numbers of    *)
(* waiting logins and of sessions stay within Capacity.                    *)
(***************************************************************************)
EXTENDS Naturals, FiniteSets

CONSTANTS
    Logins,           \* the login attempts, each named by its state parameter
    Capacity          \* Config.MaximumSessions

VARIABLE phase        \* phase[l] : where login l is in its life

Phases == {"unused", "pending", "redeeming", "session", "closed"}

\* The steps a single login can take.  A login may be closed at any time
\* after it has started: it expires, fails, is refused or is logged out.
Forward ==
    {<<"unused", "pending">>, <<"unused", "closed">>,
     <<"pending", "redeeming">>, <<"pending", "closed">>,
     <<"redeeming", "session">>, <<"redeeming", "closed">>,
     <<"session", "closed">>}

In(p) == {l \in Logins : phase[l] = p}

Init == phase = [l \in Logins |-> "unused"]

\* One step of the application may close any number of logins, and move at
\* most one of them ahead.
Next ==
    /\ phase' \in [Logins -> Phases]
    /\ \A l \in Logins : phase'[l] = phase[l] \/ <<phase[l], phase'[l]>> \in Forward
    /\ Cardinality({l \in Logins : phase'[l] \notin {phase[l], "closed"}}) <= 1
    /\ Cardinality(In("pending"))' <= Capacity
    /\ Cardinality(In("session"))' <= Capacity

Spec == Init /\ [][Next]_phase

=============================================================================
