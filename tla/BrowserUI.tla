------------------------------ MODULE BrowserUI ------------------------------
(***************************************************************************)
(* The page, pkg/webapp/static/app.js.  JavaScript runs one continuation   *)
(* at a time, but every fetch suspends its function: what the function     *)
(* does with the answer it does later, after whatever clicks, timer ticks  *)
(* and other answers came first.  An action is one run to the next await.  *)
(*                                                                         *)
(* Behind the page is the web application (see WebApp), reduced to whether *)
(* the browser's session is live and how many events the user's trail      *)
(* holds; the trail is named by its length, so an empty trail is version 0 *)
(* just as "" is the version of no records.                                *)
(***************************************************************************)
EXTENDS Naturals, FiniteSets

CONSTANTS
    Fetches,           \* bound: requests the page has under way at a time
    MaxTrail           \* bound: number of events in the trail

ASSUME PageAssumption == MaxTrail \in Nat /\ IsFiniteSet(Fetches)

VARIABLES
    page,              \* what the header shows; state.csrf is set iff "in"
    records,           \* state.records
    auditVersion,      \* state.auditVersion
    list,              \* the trail whose events are in auditList
    selected,          \* state.selected; events are numbered, 0 is ""
    detail,            \* the event in detail-fields; audit-detail shown?
    result,            \* the result panel; "ended" is either outcome
    invokeDisabled,    \* the invoke button
    timer,             \* the polling interval runs, and state.timer names it
    fetch,             \* the requests under way
    overlapped,        \* history: the selected event was clicked while the
                       \* detail of another was still awaited
    session,           \* at the web application: the session is live
    trail              \* at the collector: length of the user's trail

vars == <<page, records, auditVersion, list, selected, detail, result,
          invokeDisabled, timer, fetch, overlapped, session, trail>>

Kinds == {"session", "audit", "detail", "post", "logout"}

\* "awaiting" is the function that awaits loadAudit, if any; "of" the event
\* showDetail asked for.
Request ==
    [pc : {"idle", "sent", "answered"}, kind : Kinds,
     awaiting : {"none", "loadSession", "submit"},
     of : 0..MaxTrail, ok : BOOLEAN, body : 0..MaxTrail]

NoRequest == [pc |-> "idle", kind |-> "session", awaiting |-> "none",
              of |-> 0, ok |-> FALSE, body |-> 0]

TypeOK ==
    /\ page \in {"loading", "in", "out"}
    /\ records \in 0..MaxTrail
    /\ auditVersion \in 0..MaxTrail
    /\ list \in 0..MaxTrail
    /\ selected \in 0..MaxTrail
    /\ detail \in [of : 0..MaxTrail, shown : BOOLEAN]
    /\ result \in {"none", "running", "ended"}
    /\ invokeDisabled \in BOOLEAN
    /\ timer \in BOOLEAN
    /\ fetch \in [Fetches -> Request]
    /\ overlapped \in BOOLEAN
    /\ session \in BOOLEAN
    /\ trail \in 0..MaxTrail

NoDetail == [of |-> 0, shown |-> FALSE]

Sent(kind, awaiting) ==
    [NoRequest EXCEPT !.pc = "sent", !.kind = kind, !.awaiting = awaiting]

\* A new document: its script calls loadSession, which asks for the session.
FreshPage ==
    [f \in Fetches |->
        IF f = CHOOSE g \in Fetches : TRUE THEN Sent("session", "none") ELSE NoRequest]

Init ==
    /\ page = "loading" /\ records = 0 /\ auditVersion = 0 /\ list = 0
    /\ selected = 0 /\ detail = NoDetail /\ result = "none"
    /\ invokeDisabled = FALSE /\ timer = FALSE
    /\ fetch = FreshPage /\ overlapped = FALSE
    /\ session \in BOOLEAN
    /\ trail = 0

-----------------------------------------------------------------------------
(* Requests *)

At(f, kind) == fetch[f].pc = "answered" /\ fetch[f].kind = kind

\* Slots for requests are used in a fixed order: they have no identity.
Free(f) ==
    /\ fetch[f].pc = "idle"
    /\ f = CHOOSE g \in Fetches : fetch[g].pc = "idle"

Start(f, kind, awaiting) == fetch' = [fetch EXCEPT ![f] = Sent(kind, awaiting)]

End(f) == fetch' = [fetch EXCEPT ![f] = NoRequest]

\* The answer to loadAudit carries the trail.
Answer(f, ok) ==
    fetch' = [fetch EXCEPT ![f] = [@ EXCEPT !.pc = "answered", !.ok = ok,
                                     !.body = IF ok /\ fetch[f].kind = "audit"
                                              THEN trail' ELSE 0]]

shown == <<page, records, auditVersion, list, selected, detail, result,
           invokeDisabled, timer, overlapped>>

\* An invocation adds events to the trail, failed ones included.
TrailMayGrow(f) ==
    trail' \in {trail} \cup {n \in {trail + 1} :
                    fetch[f].kind = "post" /\ session /\ n <= MaxTrail}

\* The web application serves a request: it needs a live session, and a logout
\* ends it.
Serve(f) ==
    /\ fetch[f].pc = "sent"
    /\ session' = (session /\ fetch[f].kind # "logout")
    /\ TrailMayGrow(f)
    /\ Answer(f, session)
    /\ UNCHANGED shown

\* The answer is an error, or the request or its answer is lost: whether it
\* was served is not known.
Fails(f) ==
    /\ fetch[f].pc = "sent"
    /\ session' \in {session, session /\ fetch[f].kind # "logout"}
    /\ TrailMayGrow(f)
    /\ Answer(f, FALSE)
    /\ UNCHANGED shown

\* The session expires.
SessionEnds ==
    /\ session
    /\ session' = FALSE
    /\ UNCHANGED <<shown, fetch, trail>>

-----------------------------------------------------------------------------
(* What the page does *)

\* Mutant: the version of the list survives the sign-out.
signedOutKeepsVersion ==
    /\ page' = "out"
    /\ records' = 0 /\ list' = 0
    /\ selected' = 0 /\ detail' = NoDetail
    /\ result' = "none"
    /\ timer' = FALSE
    /\ overlapped' = FALSE
    /\ UNCHANGED <<auditVersion, invokeDisabled>>

\* signedOut: every part of the page goes back to its first state.
signedOut ==
    /\ page' = "out"
    /\ records' = 0 /\ auditVersion' = 0 /\ list' = 0
    /\ selected' = 0 /\ detail' = NoDetail
    /\ result' = "none"
    /\ timer' = FALSE
    /\ overlapped' = FALSE
    /\ UNCHANGED invokeDisabled

\* renderAudit rebuilds the list when the version has changed.
renderAudit(body) ==
    /\ auditVersion' = body
    /\ list' = IF body = auditVersion THEN list ELSE body

\* Mutant: polling does not look at the CSRF token.
LoadAuditUnguarded == TRUE

\* loadAudit does nothing without a CSRF token.
LoadAuditGuard == page = "in"

\* loadSession, on the answer to its request.
SessionAnswered(f) ==
    /\ At(f, "session")
    /\ \/ /\ fetch[f].ok
          /\ page' = "in"
          /\ Start(f, "audit", "loadSession")
          /\ UNCHANGED <<records, auditVersion, list, selected, detail, result,
                         invokeDisabled, timer, overlapped>>
       \/ /\ ~fetch[f].ok
          /\ signedOut
          /\ End(f)
    /\ UNCHANGED <<session, trail>>

\* loadAudit, started by the interval, or by the refresh button, which is
\* enabled while signed in.
loadAudit(f) ==
    /\ Free(f)
    /\ timer \/ page = "in"
    /\ LoadAuditGuard
    /\ Start(f, "audit", "none")
    /\ UNCHANGED <<shown, session, trail>>

\* loadAudit goes on with the answer, and so does who awaited it: loadSession
\* then starts the interval, submit re-enables its button.
AuditAnswered(f) ==
    /\ At(f, "audit")
    /\ \/ /\ fetch[f].ok
          /\ records' = fetch[f].body
          /\ renderAudit(fetch[f].body)
       \/ ~fetch[f].ok /\ UNCHANGED <<records, auditVersion, list>>
    /\ timer' = (timer \/ fetch[f].awaiting = "loadSession")
    /\ invokeDisabled' = (invokeDisabled /\ fetch[f].awaiting # "submit")
    /\ End(f)
    /\ UNCHANGED <<page, selected, detail, result, overlapped, session, trail>>

DetailAwaited == \E f \in Fetches : fetch[f].pc # "idle" /\ fetch[f].kind = "detail"

\* showDetail, on a click on any event that is in the list: it is selected
\* before the request is sent.
showDetail(f, event) ==
    /\ Free(f)
    /\ event \in 1..list
    /\ selected' = event
    /\ fetch' = [fetch EXCEPT ![f] = [Sent("detail", "none") EXCEPT !.of = event]]
    /\ overlapped' = DetailAwaited
    /\ UNCHANGED <<page, records, auditVersion, list, detail, result,
                   invokeDisabled, timer, session, trail>>

\* Mutant: a failed request leaves the event selected.
DetailAnsweredKeepsSelection(f) ==
    /\ At(f, "detail")
    /\ detail' = IF fetch[f].ok THEN [of |-> fetch[f].of, shown |-> TRUE] ELSE detail
    /\ End(f)
    /\ UNCHANGED <<page, records, auditVersion, list, selected, result,
                   invokeDisabled, timer, overlapped, session, trail>>

\* The answer is rendered without another look at what is selected by now; a
\* failure deselects whatever is.
DetailAnswered(f) ==
    /\ At(f, "detail")
    /\ detail' = IF fetch[f].ok THEN [of |-> fetch[f].of, shown |-> TRUE] ELSE detail
    /\ selected' = IF fetch[f].ok THEN selected ELSE 0
    /\ overlapped' = (overlapped /\ fetch[f].ok)
    /\ End(f)
    /\ UNCHANGED <<page, records, auditVersion, list, result, invokeDisabled,
                   timer, session, trail>>

CloseDetail ==
    /\ detail.shown
    /\ selected' = 0
    /\ overlapped' = FALSE
    /\ detail' = [detail EXCEPT !.shown = FALSE]
    /\ UNCHANGED <<page, records, auditVersion, list, result, invokeDisabled,
                   timer, fetch, session, trail>>

\* The form's submit handler; the form is visible while signed in.
Submit(f) ==
    /\ Free(f)
    /\ page = "in" /\ ~invokeDisabled
    /\ invokeDisabled' = TRUE
    /\ result' = "running"
    /\ Start(f, "post", "none")
    /\ UNCHANGED <<page, records, auditVersion, list, selected, detail, timer,
                   overlapped, session, trail>>

\* Mutant: the button is re-enabled on success only.
SubmitAnsweredNoFinally(f) ==
    /\ At(f, "post")
    /\ result' = "ended"
    /\ \/ /\ fetch[f].ok /\ LoadAuditGuard
          /\ Start(f, "audit", "submit")
       \/ /\ ~(fetch[f].ok /\ LoadAuditGuard)
          /\ End(f)
    /\ UNCHANGED <<page, records, auditVersion, list, selected, detail,
                   invokeDisabled, timer, overlapped, session, trail>>

\* On success it awaits loadAudit before its finally clause.
SubmitAnswered(f) ==
    /\ At(f, "post")
    /\ result' = "ended"
    /\ \/ /\ fetch[f].ok /\ LoadAuditGuard
          /\ Start(f, "audit", "submit")
          /\ UNCHANGED invokeDisabled
       \/ /\ ~(fetch[f].ok /\ LoadAuditGuard)
          /\ End(f)
          /\ invokeDisabled' = FALSE
    /\ UNCHANGED <<page, records, auditVersion, list, selected, detail, timer,
                   overlapped, session, trail>>

\* The sign-out button; it stays clickable until the answer.
SignOut(f) ==
    /\ Free(f)
    /\ page = "in"
    /\ Start(f, "logout", "none")
    /\ UNCHANGED <<shown, session, trail>>

\* Whether the logout succeeded or not.
SignOutAnswered(f) ==
    /\ At(f, "logout")
    /\ signedOut
    /\ End(f)
    /\ UNCHANGED <<session, trail>>

\* "Sign in" leaves the page; its requests die with it.  The login ends in a
\* new page, with a session or without.
PageLoad ==
    /\ page = "out"
    /\ page' = "loading" /\ records' = 0 /\ auditVersion' = 0 /\ list' = 0
    /\ selected' = 0 /\ detail' = NoDetail /\ result' = "none"
    /\ invokeDisabled' = FALSE /\ timer' = FALSE
    /\ fetch' = FreshPage /\ overlapped' = FALSE
    /\ session' \in {session, TRUE}
    /\ UNCHANGED trail

-----------------------------------------------------------------------------
Resume(f) ==
    \/ SessionAnswered(f) \/ AuditAnswered(f) \/ DetailAnswered(f)
    \/ SubmitAnswered(f) \/ SignOutAnswered(f)

Next ==
    \/ \E f \in Fetches :
          \/ Serve(f) \/ Fails(f) \/ Resume(f)
          \/ loadAudit(f) \/ Submit(f) \/ SignOut(f)
          \/ \E event \in 1..MaxTrail : showDetail(f, event)
    \/ CloseDetail
    \/ SessionEnds
    \/ PageLoad

Spec == Init /\ [][Next]_vars

\* The web application answers every request (see WebApp) or the connection
\* fails, and the event loop runs every continuation that is ready.
FairSpec ==
    Spec /\ \A f \in Fetches : WF_vars(Serve(f) \/ Fails(f) \/ Resume(f))

-----------------------------------------------------------------------------
(* Properties *)

\* The list on the page is the one auditVersion names and the one of the last
\* answer, although answers overtake each other, the list is not rebuilt when
\* the version is unchanged, and signing out resets them (renderAudit).
ListMatchesVersion == TypeOK /\ list = auditVersion /\ records = auditVersion

\* Nothing of the session is left on the page.
Blank == list = 0 /\ detail = NoDetail /\ result = "none"

Quiet == page = "out" /\ Blank /\ \A f \in Fetches : fetch[f].pc = "idle"

\* A page that is signed out, blank and waits for nothing stays so until the
\* next login: an interval started after the sign-out (loadSession awaits the
\* first loadAudit before it keeps the handle signedOut would clear) fetches
\* nothing, even if the session is still live because the logout was lost.
StaysQuiet == [][Quiet => Quiet' \/ page' = "loading"]_vars

\* Unless the selected event was clicked while the detail of another was
\* awaited, its detail is on the page as soon as nothing is awaited, however
\* closing the panel, polling, failures and signing out interleave with the
\* request.  (With such a click the detail whose answer came last is shown:
\* showDetail does not compare its answer with state.selected.)
SelectedIsShown ==
    ~overlapped /\ ~DetailAwaited /\ selected # 0
        => detail = [of |-> selected, shown |-> TRUE]

\* The invoke button does not stay disabled (submit's finally clause).
InvokeReenabled == invokeDisabled ~> ~invokeDisabled

\* "Logout clears rendered result and audit detail nodes": a signed-out page
\* shows nothing of the session.
SignedOutPageIsBlank == page = "out" => Blank

=============================================================================
