---------------------------- MODULE BrowserUIProofs ----------------------------
(***************************************************************************)
(* Proofs about BrowserUI, for any number of requests under way and any    *)
(* length of trail: what the page shows, however the answers, the clicks   *)
(* and the polling interleave.                                             *)
(***************************************************************************)
EXTENDS BrowserUI, TLAPS

-----------------------------------------------------------------------------
(* The inductive invariant *)

\* A request of showDetail whose answer the page has not yet handled.
Awaited(f) == fetch[f].pc # "idle" /\ fetch[f].kind = "detail"

ListOK == list = auditVersion /\ records = auditVersion

\* As long as no click overtook another, all that is awaited is the selected
\* event's detail, and once nothing is awaited it is what the page shows.
SelectionOK ==
    ~overlapped /\ selected # 0 =>
        /\ \A f \in Fetches : Awaited(f) => fetch[f].of = selected
        /\ (\A f \in Fetches : ~Awaited(f)) => detail = [of |-> selected, shown |-> TRUE]

IInv == TypeOK /\ ListOK /\ SelectionOK

-----------------------------------------------------------------------------
(* Requests *)

\* The requests of showDetail are as they were.
SameDetails ==
    \A f \in Fetches : /\ Awaited(f)' <=> Awaited(f)
                       /\ Awaited(f) => fetch'[f].of = fetch[f].of

\* A request is replaced: the others and the types stay.
LEMMA FetchStep ==
    ASSUME TypeOK, NEW f \in Fetches, NEW x \in Request, fetch' = [fetch EXCEPT ![f] = x]
    PROVE  /\ fetch' \in [Fetches -> Request]
           /\ fetch'[f] = x
           /\ \A g \in Fetches \ {f} : fetch'[g] = fetch[g]
  BY DEF TypeOK

\* Replacing a request that is not a detail by one that is not leaves the detail
\* requests as they were.
LEMMA SameDetailsStep ==
    ASSUME TypeOK, NEW f \in Fetches, ~Awaited(f), NEW x \in Request,
           x.pc = "idle" \/ x.kind # "detail", fetch' = [fetch EXCEPT ![f] = x]
    PROVE  fetch' \in [Fetches -> Request] /\ SameDetails
  BY FetchStep DEF SameDetails, Awaited

\* A free slot is typed and awaits nothing.
LEMMA NoRequestFacts == NoRequest \in Request /\ NoRequest.pc = "idle"
  BY PageAssumption DEF NoRequest, Request, Kinds

\* A request that has just been sent is typed and of the kind it was sent as.
LEMMA SentFacts ==
    ASSUME NEW kind \in Kinds, NEW awaiting \in {"none", "loadSession", "submit"}
    PROVE  /\ Sent(kind, awaiting) \in Request
           /\ Sent(kind, awaiting).pc = "sent" /\ Sent(kind, awaiting).kind = kind
  BY NoRequestFacts DEF Sent, Request

\* A step that leaves the selection and the requests for it alone.
LEMMA ElsewhereSafe ==
    ASSUME IInv, TypeOK', ListOK', SameDetails, UNCHANGED <<selected, detail, overlapped>>
    PROVE  IInv'
  <1>1. SelectionOK'
    BY DEF IInv, SelectionOK, SameDetails
  <1>2. QED
    BY <1>1 DEF IInv

\* A step that deselects.
LEMMA DeselectSafe ==
    ASSUME TypeOK', ListOK', selected' = 0
    PROVE  IInv'
  BY DEF IInv, SelectionOK

-----------------------------------------------------------------------------
(* The steps *)

\* A request is served, or fails: the page does not know yet.
LEMMA AnswerSafe ==
    ASSUME IInv, NEW f \in Fetches, Serve(f) \/ Fails(f)
    PROVE  IInv'
  <1>1. PICK ok \in BOOLEAN : Answer(f, ok)
    <2>1. session \in BOOLEAN
      BY DEF IInv, TypeOK
    <2>2. Answer(f, session) \/ Answer(f, FALSE)
      BY DEF Serve, Fails
    <2>3. CASE Answer(f, session)
      <3> WITNESS session \in BOOLEAN
      <3>1. QED
        BY <2>3
    <2>4. CASE Answer(f, FALSE)
      <3> WITNESS FALSE \in BOOLEAN
      <3>1. QED
        BY <2>4
    <2>5. QED
      BY <2>2, <2>3, <2>4
  <1>2. /\ fetch[f] \in Request /\ fetch[f].pc = "sent"
        /\ UNCHANGED <<page, records, auditVersion, list, selected, detail, result,
                       invokeDisabled, timer, overlapped>>
    BY DEF Serve, Fails, shown, IInv, TypeOK
  <1>3. trail' \in 0..MaxTrail
    <2>1. trail \in 0..MaxTrail
      BY DEF IInv, TypeOK
    <2>2. TrailMayGrow(f)
      BY DEF Serve, Fails
    <2>3. trail' = trail \/ (trail' = trail + 1 /\ trail' <= MaxTrail)
      BY <2>2, Zenon DEF TrailMayGrow
    <2>4. QED
      BY <2>1, <2>3, PageAssumption
  <1>4. session' \in BOOLEAN
    BY DEF Serve, Fails, IInv, TypeOK
  <1> DEFINE body == IF ok /\ fetch[f].kind = "audit" THEN trail' ELSE 0
             x == [fetch[f] EXCEPT !.pc = "answered", !.ok = ok, !.body = body]
  <1>5. body \in 0..MaxTrail
    BY <1>3, PageAssumption
  <1>6. fetch' = [fetch EXCEPT ![f] = x]
    BY <1>1 DEF Answer
  <1> HIDE DEF body
  <1>7. x \in Request /\ x.pc = "answered" /\ x.kind = fetch[f].kind /\ x.of = fetch[f].of
    BY <1>2, <1>5 DEF Request
  <1> HIDE DEF x
  <1>8. /\ fetch' \in [Fetches -> Request] /\ fetch'[f] = x
        /\ \A g \in Fetches \ {f} : fetch'[g] = fetch[g]
    BY <1>6, <1>7, FetchStep DEF IInv
  <1>9. SameDetails
    BY <1>2, <1>7, <1>8 DEF SameDetails, Awaited
  <1>10. TypeOK' /\ ListOK'
    BY <1>2, <1>3, <1>4, <1>8 DEF IInv, TypeOK, ListOK
  <1>11. QED
    BY <1>2, <1>9, <1>10, ElsewhereSafe

\* A request that is not of showDetail ends, or its slot is used for another
\* that is not either, while the selection and the list stay.
LEMMA SlotSafe ==
    ASSUME IInv, NEW f \in Fetches, ~Awaited(f), NEW x \in Request,
           x.pc = "idle" \/ x.kind # "detail", fetch' = [fetch EXCEPT ![f] = x],
           UNCHANGED <<selected, detail, overlapped, session, trail>>, ListOK',
           records' \in 0..MaxTrail,
           page' \in {"loading", "in", "out"}, result' \in {"none", "running", "ended"},
           invokeDisabled' \in BOOLEAN, timer' \in BOOLEAN
    PROVE  IInv'
  <1>1. fetch' \in [Fetches -> Request] /\ SameDetails
    BY SameDetailsStep DEF IInv
  <1>2. TypeOK'
    BY <1>1 DEF IInv, TypeOK, ListOK
  <1>3. QED
    BY <1>1, <1>2, ElsewhereSafe

\* Every part of the page goes back to its first state, whatever is awaited.
LEMMA SignedOutSafe ==
    ASSUME IInv, NEW f \in Fetches, signedOut, End(f), UNCHANGED <<session, trail>>
    PROVE  IInv'
  <1>1. fetch' \in [Fetches -> Request]
    BY NoRequestFacts, FetchStep DEF End, IInv
  <1>2. NoDetail \in [of : 0..MaxTrail, shown : BOOLEAN] /\ 0 \in 0..MaxTrail
    BY PageAssumption DEF NoDetail
  <1>3. TypeOK' /\ ListOK' /\ selected' = 0
    BY <1>1, <1>2 DEF signedOut, IInv, TypeOK, ListOK
  <1>4. QED
    BY <1>3, DeselectSafe

\* loadSession's answer, whichever it is, keeps the invariant.
LEMMA SessionAnsweredSafe ==
    ASSUME IInv, NEW f \in Fetches, SessionAnswered(f)
    PROVE  IInv'
  <1>1. UNCHANGED <<session, trail>> /\ ~Awaited(f)
    BY DEF SessionAnswered, At, Awaited
  <1>2. CASE signedOut /\ End(f)
    BY <1>1, <1>2, SignedOutSafe
  <1>3. ASSUME page' = "in", Start(f, "audit", "loadSession"),
               UNCHANGED <<records, auditVersion, list, selected, detail, result,
                           invokeDisabled, timer, overlapped>>
        PROVE  IInv'
    <2> DEFINE x == Sent("audit", "loadSession")
    <2>1. x \in Request /\ x.kind = "audit"
      BY SentFacts DEF Kinds
    <2>2. fetch' = [fetch EXCEPT ![f] = x]
      BY <1>3 DEF Start
    <2> HIDE DEF x
    <2>3. ListOK' /\ records' \in 0..MaxTrail
      BY <1>3 DEF IInv, ListOK, TypeOK
    <2>4. /\ page' \in {"loading", "in", "out"} /\ result' \in {"none", "running", "ended"}
          /\ invokeDisabled' \in BOOLEAN /\ timer' \in BOOLEAN
      BY <1>3 DEF IInv, TypeOK
    <2>5. UNCHANGED <<selected, detail, overlapped>>
      BY <1>3
    <2>6. QED
      BY <1>1, <2>1, <2>2, <2>3, <2>4, <2>5, SlotSafe
  <1>4. QED
    BY <1>2, <1>3 DEF SessionAnswered

\* The interval, the refresh button, the form and the sign-out button use a slot
\* that was free.
LEMMA StartSafe ==
    ASSUME IInv, NEW f \in Fetches, loadAudit(f) \/ Submit(f) \/ SignOut(f)
    PROVE  IInv'
  <1>1. PICK kind \in {"audit", "post", "logout"} : Start(f, kind, "none")
    BY DEF loadAudit, Submit, SignOut
  <1> DEFINE x == Sent(kind, "none")
  <1>2. x \in Request /\ x.kind = kind /\ kind # "detail"
    BY SentFacts DEF Kinds
  <1>3. fetch' = [fetch EXCEPT ![f] = x]
    BY <1>1 DEF Start
  <1> HIDE DEF x
  <1>4. ~Awaited(f)
    BY DEF loadAudit, Submit, SignOut, Free, Awaited
  <1>5. /\ UNCHANGED <<page, records, auditVersion, list, selected, detail, timer,
                       overlapped, session, trail>>
        /\ result' \in {"running", result} /\ invokeDisabled' \in {TRUE, invokeDisabled}
    BY DEF loadAudit, Submit, SignOut, shown
  <1>6. ListOK' /\ records' \in 0..MaxTrail
    BY <1>5 DEF IInv, ListOK, TypeOK
  <1>7. /\ page' \in {"loading", "in", "out"} /\ result' \in {"none", "running", "ended"}
        /\ invokeDisabled' \in BOOLEAN /\ timer' \in BOOLEAN
    BY <1>5 DEF IInv, TypeOK
  <1>8. QED
    BY <1>2, <1>3, <1>4, <1>5, <1>6, <1>7, SlotSafe

\* Whichever answer comes last, the list and its version go together.
LEMMA AuditAnsweredSafe ==
    ASSUME IInv, NEW f \in Fetches, AuditAnswered(f)
    PROVE  IInv'
  <1>1. /\ ~Awaited(f) /\ fetch[f] \in Request
        /\ fetch' = [fetch EXCEPT ![f] = NoRequest]
        /\ UNCHANGED <<page, selected, detail, result, overlapped, session, trail>>
    BY DEF AuditAnswered, At, Awaited, End, IInv, TypeOK
  <1>2. fetch[f].body \in 0..MaxTrail
    BY <1>1 DEF Request
  <1>3. ListOK' /\ records' \in 0..MaxTrail
    <2>1. CASE records' = fetch[f].body /\ renderAudit(fetch[f].body)
      BY <1>2, <2>1 DEF renderAudit, ListOK, IInv
    <2>2. CASE UNCHANGED <<records, auditVersion, list>>
      BY <2>2 DEF ListOK, IInv, TypeOK
    <2>3. QED
      BY <2>1, <2>2 DEF AuditAnswered
  <1>4. timer' \in BOOLEAN /\ invokeDisabled' \in BOOLEAN
    BY DEF AuditAnswered
  <1>5. /\ page' \in {"loading", "in", "out"} /\ result' \in {"none", "running", "ended"}
    BY <1>1 DEF IInv, TypeOK
  <1>6. QED
    BY <1>1, <1>3, <1>4, <1>5, NoRequestFacts, SlotSafe

\* The answer of an invocation, and the reload behind it, keep the invariant.
LEMMA SubmitAnsweredSafe ==
    ASSUME IInv, NEW f \in Fetches, SubmitAnswered(f)
    PROVE  IInv'
  <1>1. /\ ~Awaited(f) /\ result' = "ended"
        /\ UNCHANGED <<page, records, auditVersion, list, selected, detail, timer,
                       overlapped, session, trail>>
    BY DEF SubmitAnswered, At, Awaited
  <1>2. PICK x \in Request :
            (x.pc = "idle" \/ x.kind # "detail") /\ fetch' = [fetch EXCEPT ![f] = x]
    <2>1. CASE Start(f, "audit", "submit")
      BY <2>1, SentFacts DEF Start, Kinds
    <2>2. CASE End(f)
      BY <2>2, NoRequestFacts DEF End
    <2>3. QED
      BY <2>1, <2>2 DEF SubmitAnswered
  <1>3. ListOK' /\ records' \in 0..MaxTrail
    BY <1>1 DEF IInv, ListOK, TypeOK
  <1>4. /\ page' \in {"loading", "in", "out"} /\ result' \in {"none", "running", "ended"}
        /\ timer' \in BOOLEAN
    BY <1>1 DEF IInv, TypeOK
  <1>5. invokeDisabled' \in BOOLEAN
    BY DEF SubmitAnswered, IInv, TypeOK
  <1>6. QED
    BY <1>1, <1>2, <1>3, <1>4, <1>5, SlotSafe

\* A click selects its event, and remembers whether another was awaited.
LEMMA ShowDetailSafe ==
    ASSUME IInv, NEW f \in Fetches, NEW event \in 1..MaxTrail, showDetail(f, event)
    PROVE  IInv'
  <1> DEFINE x == [Sent("detail", "none") EXCEPT !.of = event]
  <1>1. /\ selected' = event /\ overlapped' = DetailAwaited /\ fetch[f].pc = "idle"
        /\ fetch' = [fetch EXCEPT ![f] = x]
        /\ UNCHANGED <<page, records, auditVersion, list, detail, result,
                       invokeDisabled, timer, session, trail>>
    BY DEF showDetail, Free
  <1>2. event \in 0..MaxTrail
    BY PageAssumption
  <1>3. x \in Request /\ x.pc = "sent" /\ x.kind = "detail" /\ x.of = event
    BY <1>2, SentFacts DEF Request, Kinds
  <1> HIDE DEF x
  <1>4. /\ fetch' \in [Fetches -> Request] /\ fetch'[f] = x
        /\ \A g \in Fetches \ {f} : fetch'[g] = fetch[g]
    BY <1>1, <1>3, FetchStep DEF IInv
  <1>5. overlapped' \in BOOLEAN /\ (~overlapped' => \A g \in Fetches : ~Awaited(g))
    BY <1>1 DEF DetailAwaited, Awaited
  <1>6. TypeOK' /\ ListOK'
    BY <1>1, <1>2, <1>4, <1>5 DEF IInv, TypeOK, ListOK
  <1>7. Awaited(f)'
    BY <1>3, <1>4 DEF Awaited
  <1>8. ~overlapped' => \A g \in Fetches : Awaited(g)' => fetch'[g].of = selected'
    <2> SUFFICES ASSUME ~overlapped', NEW g \in Fetches, Awaited(g)'
                 PROVE  fetch'[g].of = selected'
      OBVIOUS
    <2>1. CASE g = f
      BY <1>1, <1>3, <1>4, <2>1
    <2>2. CASE g # f
      BY <1>4, <1>5, <2>2 DEF Awaited
    <2>3. QED
      BY <2>1, <2>2
  <1>9. SelectionOK'
    BY <1>7, <1>8 DEF SelectionOK
  <1>10. QED
    BY <1>6, <1>9 DEF IInv

\* The answer is shown, or whatever is selected is deselected.
LEMMA DetailAnsweredSafe ==
    ASSUME IInv, NEW f \in Fetches, DetailAnswered(f)
    PROVE  IInv'
  <1>1. /\ Awaited(f) /\ fetch[f] \in Request
        /\ fetch' = [fetch EXCEPT ![f] = NoRequest]
        /\ UNCHANGED <<page, records, auditVersion, list, result, invokeDisabled,
                       timer, session, trail>>
    BY DEF DetailAnswered, At, Awaited, End, IInv, TypeOK
  <1>2. /\ fetch' \in [Fetches -> Request] /\ fetch'[f] = NoRequest
        /\ \A g \in Fetches \ {f} : fetch'[g] = fetch[g]
    BY <1>1, NoRequestFacts, FetchStep DEF IInv
  <1>3. fetch[f].of \in 0..MaxTrail /\ overlapped' \in BOOLEAN
    BY <1>1 DEF Request, DetailAnswered
  <1>4. CASE ~fetch[f].ok
    <2>1. selected' = 0 /\ detail' = detail
      BY <1>4 DEF DetailAnswered
    <2>2. TypeOK' /\ ListOK'
      BY <1>1, <1>2, <1>3, <2>1, PageAssumption DEF IInv, TypeOK, ListOK
    <2>3. QED
      BY <2>1, <2>2, DeselectSafe
  <1>5. CASE fetch[f].ok
    <2>1. selected' = selected /\ detail' = [of |-> fetch[f].of, shown |-> TRUE]
      BY <1>5 DEF DetailAnswered
    <2>2. ~overlapped' => ~overlapped
      BY <1>5 DEF DetailAnswered
    <2>3. TypeOK' /\ ListOK'
      BY <1>1, <1>2, <1>3, <2>1 DEF IInv, TypeOK, ListOK
    <2>4. ~Awaited(f)' /\ \A g \in Fetches \ {f} : Awaited(g)' = Awaited(g)
      BY <1>2, NoRequestFacts DEF Awaited
    <2>5. SelectionOK'
      <3> SUFFICES ASSUME ~overlapped', selected' # 0
                   PROVE  /\ \A g \in Fetches : Awaited(g)' => fetch'[g].of = selected'
                          /\ detail' = [of |-> selected', shown |-> TRUE]
        BY DEF SelectionOK
      <3>1. \A g \in Fetches : Awaited(g) => fetch[g].of = selected
        BY <2>1, <2>2 DEF IInv, SelectionOK
      <3>2. QED
        BY <1>1, <1>2, <2>1, <2>4, <3>1
    <2>6. QED
      BY <2>3, <2>5 DEF IInv
  <1>6. QED
    BY <1>4, <1>5

\* Closing the detail unmarks the event as well.
LEMMA CloseDetailSafe ==
    ASSUME IInv, CloseDetail
    PROVE  IInv'
  <1>1. /\ selected' = 0 /\ overlapped' = FALSE /\ detail' = [detail EXCEPT !.shown = FALSE]
        /\ UNCHANGED <<page, records, auditVersion, list, result, invokeDisabled,
                       timer, fetch, session, trail>>
    BY DEF CloseDetail
  <1>2. detail' \in [of : 0..MaxTrail, shown : BOOLEAN] /\ 0 \in 0..MaxTrail
    <2>1. detail \in [of : 0..MaxTrail, shown : BOOLEAN]
      BY DEF IInv, TypeOK
    <2>2. [detail EXCEPT !.shown = FALSE] \in [of : 0..MaxTrail, shown : BOOLEAN]
      BY <2>1
    <2>3. QED
      BY <1>1, <2>2, PageAssumption
  <1>3. TypeOK' /\ ListOK'
    BY <1>1, <1>2 DEF IInv, TypeOK, ListOK
  <1>4. QED
    BY <1>1, <1>3, DeselectSafe

\* A new document.
LEMMA FreshFacts == FreshPage \in [Fetches -> Request]
  <1>1. Sent("session", "none") \in Request /\ NoRequest \in Request
    BY SentFacts, NoRequestFacts DEF Kinds
  <1>2. QED
    BY <1>1 DEF FreshPage

\* A new document starts with everything empty.
LEMMA PageLoadSafe ==
    ASSUME IInv, PageLoad
    PROVE  IInv'
  <1>1. /\ page' = "loading" /\ records' = 0 /\ auditVersion' = 0 /\ list' = 0
        /\ selected' = 0 /\ detail' = NoDetail /\ result' = "none"
        /\ invokeDisabled' = FALSE /\ timer' = FALSE
        /\ fetch' = FreshPage /\ overlapped' = FALSE /\ UNCHANGED trail
    BY DEF PageLoad
  <1>2. session' \in BOOLEAN
    BY DEF PageLoad, IInv, TypeOK
  <1>3. NoDetail \in [of : 0..MaxTrail, shown : BOOLEAN] /\ 0 \in 0..MaxTrail
    BY PageAssumption DEF NoDetail
  <1>4. TypeOK' /\ ListOK'
    BY <1>1, <1>2, <1>3, FreshFacts DEF IInv, TypeOK, ListOK
  <1>5. QED
    BY <1>1, <1>4, DeselectSafe

-----------------------------------------------------------------------------
(* The theorems *)

\* What the other results rest on.
THEOREM PageInvariance == Spec => []IInv
  <1>1. Init => IInv
    <2> SUFFICES ASSUME Init PROVE IInv
      OBVIOUS
    <2>1. NoDetail \in [of : 0..MaxTrail, shown : BOOLEAN] /\ 0 \in 0..MaxTrail
      BY PageAssumption DEF NoDetail
    <2>2. TypeOK
      BY <2>1, FreshFacts DEF Init, TypeOK
    <2>3. ListOK /\ SelectionOK
      BY DEF Init, ListOK, SelectionOK
    <2>4. QED
      BY <2>2, <2>3 DEF IInv
  <1>2. ASSUME IInv, [Next]_vars PROVE IInv'
    <2>1. ASSUME NEW f \in Fetches, Serve(f) \/ Fails(f) PROVE IInv'
      BY <1>2, <2>1, AnswerSafe
    <2>2. ASSUME NEW f \in Fetches, Resume(f) PROVE IInv'
      <3>1. CASE SignOutAnswered(f)
        BY <1>2, <3>1, SignedOutSafe DEF SignOutAnswered
      <3>2. QED
        BY <1>2, <2>2, <3>1, SessionAnsweredSafe, AuditAnsweredSafe, DetailAnsweredSafe,
           SubmitAnsweredSafe DEF Resume
    <2>3. ASSUME NEW f \in Fetches, loadAudit(f) \/ Submit(f) \/ SignOut(f) PROVE IInv'
      BY <1>2, <2>3, StartSafe
    <2>4. ASSUME NEW f \in Fetches, NEW event \in 1..MaxTrail, showDetail(f, event) PROVE IInv'
      BY <1>2, <2>4, ShowDetailSafe
    <2>5. CASE CloseDetail
      BY <1>2, <2>5, CloseDetailSafe
    <2>6. CASE SessionEnds
      <3>1. /\ UNCHANGED <<page, records, auditVersion, list, selected, detail, result,
                           invokeDisabled, timer, overlapped, fetch, trail>>
            /\ session' = FALSE
        BY <2>6 DEF SessionEnds, shown
      <3>2. QED
        BY <1>2, <3>1 DEF IInv, TypeOK, ListOK, SelectionOK, Awaited
    <2>7. CASE PageLoad
      BY <1>2, <2>7, PageLoadSafe
    <2>8. CASE UNCHANGED vars
      BY <1>2, <2>8 DEF vars, IInv, TypeOK, ListOK, SelectionOK, Awaited
    <2>9. QED
      BY <1>2, <2>1, <2>2, <2>3, <2>4, <2>5, <2>6, <2>7, <2>8 DEF Next
  <1>3. QED
    BY <1>1, <1>2, PTL DEF Spec

\* The list on the page is the one its version names, and the one of the last
\* answer, in whatever order the answers come (renderAudit, signedOut).
THEOREM PageList == Spec => []ListMatchesVersion
  <1>1. IInv => ListMatchesVersion
    BY DEF IInv, ListOK, ListMatchesVersion
  <1>2. QED
    BY <1>1, PageInvariance, PTL

\* Unless clicks overtook each other, the selected event is the one whose detail
\* is on the page once nothing is awaited (showDetail, closing, signedOut).
THEOREM PageSelection == Spec => []SelectedIsShown
  <1>1. IInv => SelectedIsShown
    BY DEF IInv, SelectionOK, SelectedIsShown, DetailAwaited, Awaited
  <1>2. QED
    BY <1>1, PageInvariance, PTL

\* A page that is signed out, blank and waits for nothing can only be left by a
\* new login: every action is disabled or leaves it as it is (loadAudit's guard,
\* the visibility of the buttons).
THEOREM PageStaysQuiet == Spec => StaysQuiet
  <1>1. ASSUME [Next]_vars, Quiet
        PROVE  UNCHANGED vars \/ Quiet' \/ page' = "loading"
    <2>1. /\ page = "out" /\ list = 0 /\ ~detail.shown
          /\ \A f \in Fetches : fetch[f].pc = "idle"
      BY <1>1 DEF Quiet, Blank, NoDetail
    <2>2. ASSUME NEW f \in Fetches,
                 \/ Serve(f) \/ Fails(f) \/ Resume(f) \/ loadAudit(f) \/ Submit(f) \/ SignOut(f)
          PROVE  FALSE
      BY <2>1, <2>2 DEF Serve, Fails, Resume, SessionAnswered, AuditAnswered, DetailAnswered,
                        SubmitAnswered, SignOutAnswered, At, loadAudit, LoadAuditGuard,
                        Submit, SignOut
    <2>3. ASSUME NEW f \in Fetches, NEW event \in 1..MaxTrail, showDetail(f, event)
          PROVE  FALSE
      BY <2>1, <2>3, PageAssumption DEF showDetail
    <2>4. ~CloseDetail
      BY <2>1 DEF CloseDetail
    <2>5. SessionEnds => Quiet'
      BY <1>1 DEF SessionEnds, shown, Quiet, Blank
    <2>6. PageLoad => page' = "loading"
      BY DEF PageLoad
    <2>7. QED
      BY <1>1, <2>2, <2>3, <2>4, <2>5, <2>6 DEF Next
  <1>2. QED
    BY <1>1, PTL DEF Spec, StaysQuiet

=============================================================================
