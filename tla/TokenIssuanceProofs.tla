-------------------------- MODULE TokenIssuanceProofs --------------------------
(***************************************************************************)
(* Proofs about TokenIssuance, for any number of exchanges, any forms an   *)
(* administrator may save and any limits: what a token says, when it comes *)
(* from one configuration, and how long its authority lasts.               *)
(***************************************************************************)
EXTENDS TokenIssuance, TLAPS

-----------------------------------------------------------------------------
(* The inductive invariant *)

\* What the fields of the two extensions hold, and how far a call of configure
\* has come in replacing them.
ConfigurationOK ==
    /\ issuer # None => lifetimeOK(issuer)
    /\ metadata # None => metadata.wellFormed
    /\ configuring.step # "none" =>
          /\ configuring.settings \in Settings /\ issuer = configuring.settings
          /\ ~configuring.whole
    /\ configuring.step = "validator" => metadata = configuring.settings
    /\ configuring.whole =>
          /\ configuring.settings \in Settings
          /\ issuer = configuring.settings
          /\ metadata = configuring.settings
          /\ validator = configuring.settings
    /\ verifier # None => verifier.skew \in 0..MaxActorSkew

\* What a token says.
TokenOK(token, workload) ==
    /\ token \in Token
    /\ token.workload = workload
    /\ token.metadata.wellFormed
    /\ token.agent = token.metadata.bindings[token.workload]
    /\ token.expiresAt = token.issuedAt + token.issuer.lifetime
    /\ lifetimeOK(token.issuer)
    /\ token.issuedAt <= clock

UnderWay == {"sent", "verified", "issuing", "issued"}

\* What an exchange has established by the step it is at.
ExchangeOK(x) ==
    /\ x.pc \in UnderWay \cup {"held"} => x.workload \in Workloads
    /\ x.pc \in UnderWay => x.began <= clock
    /\ x.pc \in {"verified", "issuing", "issued"} => x.began < x.actorExpires + MaxActorSkew
    /\ x.issuer # None => x.issuer \in Settings /\ lifetimeOK(x.issuer)
    /\ x.token # None => x.pc \in {"issued", "held"}
    /\ x.pc \in {"issued", "held"} => TokenOK(x.token, x.workload)
    /\ x.pc = "held" => x.token.issuedAt < x.actorExpires + MaxActorSkew + Timeout
    /\ x.accepted > 0 =>
          x.pc = "held" /\ x.accepted <= x.token.expiresAt + Skew + Drift
    /\ x.introspected # "no" => x.pc = "held"

\* What makes the token of a fresh exchange whole.
FreshOK(x) ==
    x.fresh =>
        /\ configuring.step = "none" /\ configuring.whole
        /\ x.issuer \in {None, configuring.settings}
        /\ x.pc \in {"issued", "held"} =>
              /\ x.token.issuer = configuring.settings
              /\ x.token.metadata = configuring.settings
        /\ x.introspected = "null" => clock >= x.token.expiresAt

IInv ==
    /\ TypeOK
    /\ ConfigurationOK
    /\ \A r \in Requests : ExchangeOK(req[r]) /\ FreshOK(req[r])

-----------------------------------------------------------------------------
(* Steps of one exchange *)

\* The limits are natural numbers, and None is nothing else.
LEMMA Limits ==
    /\ MaxLifetime \in Nat /\ MaxActorSkew \in Nat /\ Skew \in Nat /\ Timeout \in Nat
    /\ Drift \in Nat /\ MaxActorLife \in Nat /\ MaxClock \in Nat
    /\ None \notin Settings /\ None \notin Agents /\ None \notin Workloads
    /\ None \notin ActorSettings
  BY IssuanceAssumption

\* A step that replaces one exchange's entry and nothing else.
LEMMA RequestStep ==
    ASSUME IInv, UNCHANGED <<manager, verifier, clock>>, NEW r \in Requests, NEW x \in Request,
           req' = [req EXCEPT ![r] = x], ExchangeOK(x), FreshOK(x)
    PROVE  IInv'
  <1>1. /\ req' \in [Requests -> Request] /\ req'[r] = x
        /\ \A q \in Requests \ {r} : req'[q] = req[q]
    BY DEF IInv, TypeOK
  <1>2. UNCHANGED <<issuer, metadata, validator, configuring, verifier, clock>>
    BY DEF manager
  <1>3. TypeOK'
    BY <1>1, <1>2 DEF IInv, TypeOK
  <1>4. ConfigurationOK'
    BY <1>2 DEF IInv, ConfigurationOK
  <1>5. ASSUME NEW q \in Requests PROVE ExchangeOK(req[q])' /\ FreshOK(req[q])'
    <2>1. /\ \E y \in Request : req'[q] = y /\ ExchangeOK(y) /\ FreshOK(y)
      BY <1>1 DEF IInv, TypeOK
    <2>2. PICK y \in Request : req'[q] = y /\ ExchangeOK(y) /\ FreshOK(y)
      BY <2>1
    <2>3. ExchangeOK(y)' /\ FreshOK(y)'
      BY <1>2, <2>2 DEF ExchangeOK, FreshOK, TokenOK
    <2>4. QED
      BY <2>2, <2>3 DEF ExchangeOK, FreshOK, TokenOK
  <1>6. QED
    BY <1>3, <1>4, <1>5 DEF IInv

\* An exchange that has not begun, or has failed, has established nothing.
LEMMA NoRequestOK ==
    /\ NoRequest \in Request /\ [NoRequest EXCEPT !.pc = "failed"] \in Request
    /\ ExchangeOK(NoRequest) /\ FreshOK(NoRequest)
    /\ ExchangeOK([NoRequest EXCEPT !.pc = "failed"]) /\ FreshOK([NoRequest EXCEPT !.pc = "failed"])
  <1> DEFINE x == [NoRequest EXCEPT !.pc = "failed"]
  <1>1. /\ NoRequest.pc = "idle" /\ NoRequest.issuer = None /\ NoRequest.token = None
        /\ NoRequest.accepted = 0 /\ NoRequest.introspected = "no" /\ NoRequest.fresh = FALSE
    BY DEF NoRequest
  <1>2. /\ x.pc = "failed" /\ x.issuer = None /\ x.token = None
        /\ x.accepted = 0 /\ x.introspected = "no" /\ x.fresh = FALSE
    BY DEF NoRequest
  <1>3. NoRequest \in Request /\ x \in Request
    BY DEF NoRequest, Request
  <1> HIDE DEF x
  <1>4. ExchangeOK(NoRequest) /\ FreshOK(NoRequest)
    BY <1>1 DEF ExchangeOK, FreshOK, UnderWay
  <1>5. ExchangeOK(x) /\ FreshOK(x)
    BY <1>2 DEF ExchangeOK, FreshOK, UnderWay
  <1>6. QED
    BY <1>3, <1>4, <1>5 DEF x

\* An exchange that fails keeps the invariant.
LEMMA FailSafe ==
    ASSUME IInv, UNCHANGED <<manager, verifier, clock>>, NEW r \in Requests, Fail(r)
    PROVE  IInv'
  <1> DEFINE x == [NoRequest EXCEPT !.pc = "failed"]
  <1>1. x \in Request /\ ExchangeOK(x) /\ FreshOK(x)
    BY NoRequestOK
  <1>2. req' = [req EXCEPT ![r] = x]
    BY DEF Fail
  <1> HIDE DEF x
  <1>3. QED
    BY <1>1, <1>2, RequestStep

\* The workload's token is sent; the exchange is fresh if the last
\* configuration was accepted whole.
LEMMA ExchangeSafe ==
    ASSUME IInv, NEW r \in Requests, Exchange(r)
    PROVE  IInv'
  <1>1. PICK workload \in Workloads, asserted \in Agents \cup {None},
             issuedAt \in 0..(clock + Drift), life \in 1..MaxActorLife :
           req' = [req EXCEPT ![r] =
                    [NoRequest EXCEPT !.pc = "sent", !.began = clock,
                        !.workload = workload, !.asserted = asserted,
                        !.actorIssued = issuedAt, !.actorExpires = issuedAt + life,
                        !.fresh = configuring.step = "none" /\ configuring.whole]]
    BY DEF Exchange
  <1> DEFINE fresh == configuring.step = "none" /\ configuring.whole
             expires == issuedAt + life
             x == [NoRequest EXCEPT !.pc = "sent", !.began = clock,
                      !.workload = workload, !.asserted = asserted,
                      !.actorIssued = issuedAt, !.actorExpires = expires,
                      !.fresh = fresh]
  <1>2. /\ clock \in Nat /\ clock <= clock /\ issuedAt \in Nat /\ expires \in Nat
        /\ workload \in Workloads /\ workload \in Workloads \cup {None}
        /\ asserted \in Agents \cup {None}
    BY Limits DEF IInv, TypeOK
  <1>3. fresh \in BOOLEAN /\ (fresh => configuring.step = "none" /\ configuring.whole)
    OBVIOUS
  <1>4. req' = [req EXCEPT ![r] = x]
    BY <1>1
  <1> HIDE DEF fresh, expires
  <1>5. x \in Request
    BY <1>2, <1>3 DEF Request, NoRequest
  <1>6. /\ x.pc = "sent" /\ x.workload = workload /\ x.began = clock /\ x.issuer = None
        /\ x.token = None /\ x.accepted = 0 /\ x.introspected = "no"
        /\ x.fresh = fresh
    BY DEF NoRequest
  <1> HIDE DEF x
  <1>7. ExchangeOK(x)
    <2>1. /\ x.pc \notin {"verified", "issuing", "issued", "held"} /\ ~(x.accepted > 0)
          /\ x.began <= clock
      BY <1>2, <1>6
    <2>2. QED
      BY <1>2, <1>6, <2>1 DEF ExchangeOK, UnderWay
  <1>8. FreshOK(x)
    BY <1>3, <1>6 DEF FreshOK
  <1>9. UNCHANGED <<manager, verifier, clock>>
    BY DEF Exchange
  <1>10. QED
    BY <1>4, <1>5, <1>7, <1>8, <1>9, RequestStep

\* The verifier's own lifetime and skew are within its limits.
LEMMA ProcessSafe ==
    ASSUME IInv, NEW r \in Requests, processToken(r)
    PROVE  IInv'
  <1>1. UNCHANGED <<manager, verifier, clock>>
    BY DEF processToken
  <1>2. CASE Fail(r)
    BY <1>1, <1>2, FailSafe
  <1>3. ASSUME req[r].pc = "sent", verifier # None, actorAccepted(r),
               req' = [req EXCEPT ![r] = [@ EXCEPT !.pc = "verified", !.actorIssued = 0]]
        PROVE  IInv'
    <2> DEFINE y == req[r]
               x == [y EXCEPT !.pc = "verified", !.actorIssued = 0]
    <2>1. y \in Request /\ ExchangeOK(y) /\ FreshOK(y)
      BY DEF IInv, TypeOK
    <2>2. req' = [req EXCEPT ![r] = x]
      BY <1>3
    <2>3. /\ y.pc = "sent" /\ clock - verifier.skew < y.actorExpires
          /\ clock \in Nat /\ verifier.skew \in 0..MaxActorSkew
      BY <1>3, Limits DEF actorAccepted, IInv, TypeOK, ConfigurationOK
    <2> HIDE DEF y
    <2>4. /\ x \in Request /\ x.pc = "verified" /\ x.workload = y.workload
          /\ x.began = y.began /\ x.actorExpires = y.actorExpires /\ x.issuer = y.issuer
          /\ x.token = y.token /\ x.accepted = y.accepted
          /\ x.introspected = y.introspected /\ x.fresh = y.fresh
      BY <2>1 DEF Request
    <2> HIDE DEF x
    <2>5. y.began \in Nat /\ y.actorExpires \in Nat /\ y.accepted \in Nat
      BY <2>1 DEF Request
    <2>6. ExchangeOK(x)
      BY <2>1, <2>3, <2>4, <2>5, Limits DEF ExchangeOK, UnderWay
    <2>7. FreshOK(x)
      BY <2>1, <2>3, <2>4 DEF FreshOK
    <2>8. QED
      BY <1>1, <2>2, <2>4, <2>6, <2>7, RequestStep
  <1>4. QED
    BY <1>2, <1>3 DEF processToken

\* issueAccessToken reads the field issuer: what it gets was accepted.
LEMMA ReadIssuerSafe ==
    ASSUME IInv, NEW r \in Requests, ReadIssuer(r)
    PROVE  IInv'
  <1> DEFINE y == req[r]
             x == [y EXCEPT !.pc = "issuing", !.issuer = issuer]
  <1>1. y \in Request /\ ExchangeOK(y) /\ FreshOK(y)
    BY DEF IInv, TypeOK
  <1>2. req' = [req EXCEPT ![r] = x] /\ y.pc = "verified" /\ UNCHANGED <<manager, verifier, clock>>
    BY DEF ReadIssuer
  <1>3. issuer \in Settings \cup {None}
    BY DEF IInv, TypeOK
  <1> HIDE DEF y
  <1>4. /\ x \in Request /\ x.pc = "issuing" /\ x.workload = y.workload
        /\ x.began = y.began /\ x.actorExpires = y.actorExpires /\ x.issuer = issuer
        /\ x.token = y.token /\ x.accepted = y.accepted
        /\ x.introspected = y.introspected /\ x.fresh = y.fresh
    BY <1>1, <1>3 DEF Request
  <1> HIDE DEF x
  <1>5. ConfigurationOK
    BY DEF IInv
  <1>6. ExchangeOK(x)
    BY <1>1, <1>2, <1>3, <1>4, <1>5 DEF ExchangeOK, UnderWay, ConfigurationOK
  <1>7. FreshOK(x)
    BY <1>1, <1>2, <1>4, <1>5 DEF FreshOK, ConfigurationOK
  <1>8. QED
    BY <1>2, <1>4, <1>6, <1>7, RequestStep

\* The one step that makes a token: from an issuer that was read earlier and
\* the metadata as they are now.
LEMMA IssueSafe ==
    ASSUME IInv, NEW r \in Requests, issueAccessToken(r)
    PROVE  IInv'
  <1>1. UNCHANGED <<manager, verifier, clock>>
    BY DEF issueAccessToken
  <1>2. CASE Fail(r)
    BY <1>1, <1>2, FailSafe
  <1>3. ASSUME req[r].pc = "issuing", MayIssue(r),
               req' = [req EXCEPT ![r] = [@ EXCEPT !.pc = "issued",
                       !.asserted = None, !.issuer = None, !.token =
                       [workload |-> req[r].workload, agent |-> derive(r),
                        issuedAt |-> clock,
                        expiresAt |-> clock + req[r].issuer.lifetime,
                        issuer |-> req[r].issuer, metadata |-> metadata]]]
        PROVE  IInv'
    <2> DEFINE y == req[r]
               expiresAt == clock + y.issuer.lifetime
               t == [workload |-> y.workload, agent |-> derive(r), issuedAt |-> clock,
                     expiresAt |-> expiresAt, issuer |-> y.issuer, metadata |-> metadata]
               x == [y EXCEPT !.pc = "issued", !.asserted = None, !.issuer = None, !.token = t]
    <2>1. y \in Request /\ ExchangeOK(y) /\ FreshOK(y) /\ y.pc = "issuing"
      BY <1>3 DEF IInv, TypeOK
    <2>2. req' = [req EXCEPT ![r] = x]
      BY <1>3
    <2>3. /\ y.issuer # None /\ metadata # None /\ derive(r) # None
          /\ derive(r) = metadata.bindings[y.workload]
      BY <1>3 DEF MayIssue, derive
    <2> HIDE DEF y
    <2>4. /\ y.issuer \in Settings /\ lifetimeOK(y.issuer) /\ y.workload \in Workloads
          /\ y.began \in Nat /\ y.actorExpires \in Nat /\ y.accepted \in Nat
      BY <2>1, <2>3 DEF ExchangeOK, UnderWay, Request
    <2>5. metadata \in Settings /\ metadata.wellFormed
      BY <2>3 DEF IInv, TypeOK, ConfigurationOK
    <2>6. derive(r) \in Agents
      <3>1. metadata.bindings \in [Workloads -> Agents \cup {None}]
        BY <2>5, IssuanceAssumption DEF SettingsType
      <3>2. QED
        BY <2>3, <2>4, <3>1
    <2>7. clock \in Nat /\ clock <= clock
      BY Limits DEF IInv, TypeOK
    <2>8. expiresAt \in Nat /\ expiresAt = clock + y.issuer.lifetime
      BY <2>4, <2>7, Limits DEF lifetimeOK
    <2> HIDE DEF expiresAt
    <2>9. t \in Token
      BY <2>4, <2>5, <2>6, <2>7, <2>8 DEF Token
    <2>10. TokenOK(t, y.workload)
      BY <2>3, <2>4, <2>5, <2>7, <2>8, <2>9 DEF TokenOK
    <2>11. t.issuer = y.issuer /\ t.metadata = metadata
      OBVIOUS
    <2> HIDE DEF t
    <2>12. /\ x \in Request /\ x.pc = "issued" /\ x.workload = y.workload
           /\ x.began = y.began /\ x.actorExpires = y.actorExpires /\ x.issuer = None
           /\ x.token = t /\ x.accepted = y.accepted
           /\ x.introspected = y.introspected /\ x.fresh = y.fresh
      BY <2>1, <2>9 DEF Request
    <2> HIDE DEF x
    <2>13. ExchangeOK(x)
      BY <2>1, <2>4, <2>10, <2>12 DEF ExchangeOK, UnderWay
    <2>14. FreshOK(x)
      <3>1. y.introspected = "no"
        BY <2>1 DEF ExchangeOK, Request
      <3>2. ConfigurationOK
        BY DEF IInv
      <3>3. QED
        BY <2>1, <2>3, <2>11, <2>12, <3>1, <3>2 DEF FreshOK, ConfigurationOK
    <2>15. QED
      BY <1>1, <2>2, <2>12, <2>13, <2>14, RequestStep
  <1>4. QED
    BY <1>2, <1>3 DEF issueAccessToken

\* The client has waited no longer than its timeout since it sent the actor
\* token, so the token was issued soon enough after that was verified.
LEMMA DeliverSafe ==
    ASSUME IInv, NEW r \in Requests, Deliver(r)
    PROVE  IInv'
  <1> DEFINE y == req[r]
             x == [y EXCEPT !.pc = "held", !.began = 0]
  <1>1. y \in Request /\ ExchangeOK(y) /\ FreshOK(y)
    BY DEF IInv, TypeOK
  <1>2. /\ req' = [req EXCEPT ![r] = x] /\ y.pc = "issued" /\ clock - y.began <= Timeout
        /\ UNCHANGED <<manager, verifier, clock>>
    BY DEF Deliver
  <1>3. clock \in Nat
    BY Limits DEF IInv, TypeOK
  <1> HIDE DEF y
  <1>4. /\ x \in Request /\ x.pc = "held" /\ x.workload = y.workload
        /\ x.actorExpires = y.actorExpires /\ x.issuer = y.issuer
        /\ x.token = y.token /\ x.accepted = y.accepted
        /\ x.introspected = y.introspected /\ x.fresh = y.fresh
    BY <1>1 DEF Request
  <1> HIDE DEF x
  <1>5. y.began \in Nat /\ y.actorExpires \in Nat
    BY <1>1 DEF Request
  <1>6. /\ TokenOK(y.token, y.workload) /\ y.began < y.actorExpires + MaxActorSkew
        /\ y.token.issuedAt \in Nat /\ y.token.issuedAt <= clock
    BY <1>1, <1>2 DEF ExchangeOK, TokenOK, Token
  <1>7. y.token.issuedAt < y.actorExpires + MaxActorSkew + Timeout
    BY <1>2, <1>3, <1>5, <1>6, Limits
  <1>8. ExchangeOK(x)
    BY <1>1, <1>2, <1>4, <1>6, <1>7 DEF ExchangeOK, UnderWay
  <1>9. FreshOK(x)
    BY <1>1, <1>2, <1>4 DEF FreshOK
  <1>10. QED
    BY <1>2, <1>4, <1>8, <1>9, RequestStep

\* A service accepts at an instant its own clock allows.
LEMMA VerifySafe ==
    ASSUME IInv, NEW r \in Requests, Verify(r)
    PROVE  IInv'
  <1> DEFINE y == req[r]
             x == [y EXCEPT !.accepted = clock]
  <1>1. y \in Request /\ ExchangeOK(y) /\ FreshOK(y)
    BY DEF IInv, TypeOK
  <1>2. /\ req' = [req EXCEPT ![r] = x] /\ y.pc = "held"
        /\ \E now \in (clock - Drift)..(clock + Drift) : y.token.expiresAt >= now - Skew
        /\ UNCHANGED <<manager, verifier, clock>>
    BY DEF Verify
  <1>3. clock \in Nat
    BY Limits DEF IInv, TypeOK
  <1> HIDE DEF y
  <1>4. /\ x \in Request /\ x.pc = "held" /\ x.workload = y.workload
        /\ x.actorExpires = y.actorExpires /\ x.issuer = y.issuer
        /\ x.token = y.token /\ x.accepted = clock
        /\ x.introspected = y.introspected /\ x.fresh = y.fresh
    BY <1>1, <1>2, <1>3 DEF Request
  <1> HIDE DEF x
  <1>5. y.token.expiresAt \in Nat
    BY <1>1, <1>2 DEF ExchangeOK, TokenOK, Token
  <1>6. clock <= y.token.expiresAt + Skew + Drift
    BY <1>2, <1>3, <1>5, Limits
  <1>7. ExchangeOK(x)
    BY <1>1, <1>2, <1>4, <1>6 DEF ExchangeOK, UnderWay
  <1>8. FreshOK(x)
    BY <1>1, <1>2, <1>4 DEF FreshOK
  <1>9. QED
    BY <1>2, <1>4, <1>7, <1>8, RequestStep

\* A fresh token was made by the configuration the validator is of, so only its
\* expiry can make the server disown it.
LEMMA ValidateSafe ==
    ASSUME IInv, NEW r \in Requests, validateAccessToken(r)
    PROVE  IInv'
  <1> DEFINE y == req[r]
             verdict == IF /\ validator # None
                           /\ validator.profile = y.token.issuer.profile
                           /\ clock < y.token.expiresAt
                        THEN "valid" ELSE "null"
             x == [y EXCEPT !.introspected = verdict]
  <1>1. y \in Request /\ ExchangeOK(y) /\ FreshOK(y)
    BY DEF IInv, TypeOK
  <1>2. /\ req' = [req EXCEPT ![r] = x] /\ y.pc = "held" /\ UNCHANGED <<manager, verifier, clock>>
    BY DEF validateAccessToken
  <1>3. clock \in Nat
    BY Limits DEF IInv, TypeOK
  <1> HIDE DEF y
  <1>4. y.token.expiresAt \in Nat
    BY <1>1, <1>2 DEF ExchangeOK, TokenOK, Token
  <1>5. y.fresh /\ verdict = "null" => clock >= y.token.expiresAt
    <2>1. y.fresh => validator # None /\ validator = y.token.issuer
      BY <1>1, <1>2, Limits DEF FreshOK, IInv, ConfigurationOK
    <2>2. QED
      BY <1>3, <1>4, <2>1
  <1>6. verdict \in {"valid", "null"}
    OBVIOUS
  <1> HIDE DEF verdict
  <1>7. /\ x \in Request /\ x.pc = "held" /\ x.workload = y.workload
        /\ x.actorExpires = y.actorExpires /\ x.issuer = y.issuer
        /\ x.token = y.token /\ x.accepted = y.accepted
        /\ x.introspected = verdict /\ x.fresh = y.fresh
    BY <1>1, <1>2, <1>6 DEF Request
  <1> HIDE DEF x
  <1>8. ExchangeOK(x)
    BY <1>1, <1>2, <1>7 DEF ExchangeOK, UnderWay
  <1>9. FreshOK(x)
    BY <1>1, <1>2, <1>5, <1>7 DEF FreshOK
  <1>10. QED
    BY <1>2, <1>7, <1>8, <1>9, RequestStep

-----------------------------------------------------------------------------
(* Steps of the configuration *)

\* An exchange stays in order when it is no longer called fresh.
LEMMA NoLongerFresh ==
    ASSUME NEW y \in Request, ExchangeOK(y)
    PROVE  LET x == [y EXCEPT !.fresh = FALSE]
           IN  x \in Request /\ ExchangeOK(x) /\ ~x.fresh
  <1> DEFINE x == [y EXCEPT !.fresh = FALSE]
  <1>1. /\ x \in Request /\ x.pc = y.pc /\ x.workload = y.workload /\ x.began = y.began
        /\ x.actorExpires = y.actorExpires /\ x.issuer = y.issuer
        /\ x.token = y.token /\ x.accepted = y.accepted
        /\ x.introspected = y.introspected /\ ~x.fresh
    BY DEF Request
  <1> HIDE DEF x
  <1>2. ExchangeOK(x)
    BY <1>1 DEF ExchangeOK
  <1>3. QED
    BY <1>1, <1>2 DEF x

\* A new issuer: from now on no exchange under way is fresh.
LEMMA ConfigureSafe ==
    ASSUME IInv, NEW settings \in Settings, Configure(settings)
    PROVE  IInv'
  <1>1. UNCHANGED <<metadata, validator, verifier, clock>> /\ configuring.step = "none"
    BY DEF Configure
  <1>2. CASE UNCHANGED <<issuer, configuring, req>>
    BY <1>1, <1>2 DEF IInv, TypeOK, ConfigurationOK, ExchangeOK, FreshOK, TokenOK
  <1>3. ASSUME lifetimeOK(settings), issuer' = settings,
               configuring' = [step |-> "metadata", settings |-> settings, whole |-> FALSE],
               NothingFresh
        PROVE  IInv'
    <2>1. \A r \in Requests :
             /\ req'[r] = [req[r] EXCEPT !.fresh = FALSE]
             /\ req[r] \in Request /\ ExchangeOK(req[r])
      BY <1>3 DEF NothingFresh, IInv, TypeOK
    <2>2. \A r \in Requests : req'[r] \in Request /\ ExchangeOK(req'[r]) /\ ~req'[r].fresh
      <3> SUFFICES ASSUME NEW r \in Requests
                   PROVE  req'[r] \in Request /\ ExchangeOK(req'[r]) /\ ~req'[r].fresh
        OBVIOUS
      <3>1. req[r] \in Request /\ ExchangeOK(req[r]) /\ req'[r] = [req[r] EXCEPT !.fresh = FALSE]
        BY <2>1
      <3>2. QED
        BY <3>1, NoLongerFresh
    <2>3. req' \in [Requests -> Request]
      <3>1. req' = [r \in Requests |-> req'[r]]
        BY <1>3 DEF NothingFresh
      <3>2. QED
        BY <2>2, <3>1
    <2>4. TypeOK'
      BY <1>1, <1>3, <2>3 DEF IInv, TypeOK
    <2>5. ConfigurationOK'
      BY <1>1, <1>3 DEF IInv, ConfigurationOK
    <2>6. \A r \in Requests : ExchangeOK(req[r])' /\ FreshOK(req[r])'
      BY <1>1, <2>2 DEF ExchangeOK, TokenOK, FreshOK
    <2>7. QED
      BY <2>4, <2>5, <2>6 DEF IInv
  <1>4. QED
    BY <1>2, <1>3 DEF Configure

\* While a call of configure is under way nothing is fresh, so the exchanges do
\* not meet what it replaces.
LEMMA InstallSafe ==
    ASSUME IInv, InstallMetadata \/ InstallValidator
    PROVE  IInv'
  <1>1. /\ UNCHANGED <<issuer, verifier, req, clock>>
        /\ configuring.step \in {"metadata", "validator"}
    BY DEF InstallMetadata, InstallValidator
  <1>2. /\ configuring \in [step : {"none", "metadata", "validator"},
                            settings : Settings \cup {None}, whole : BOOLEAN]
        /\ configuring.settings \in Settings /\ issuer = configuring.settings
        /\ ~configuring.whole /\ ConfigurationOK
    BY <1>1 DEF IInv, TypeOK, ConfigurationOK
  <1>3. \A r \in Requests : ~req[r].fresh
    BY <1>1 DEF IInv, FreshOK
  <1>4. \A r \in Requests : ExchangeOK(req[r])' /\ FreshOK(req[r])'
    BY <1>1, <1>3 DEF IInv, ExchangeOK, TokenOK, FreshOK
  <1>5. CASE InstallMetadata
    <2>1. /\ configuring'.settings = configuring.settings /\ configuring'.whole = configuring.whole
          /\ configuring' \in [step : {"none", "metadata", "validator"},
                               settings : Settings \cup {None}, whole : BOOLEAN]
          /\ \/ /\ configuring'.step = "validator" /\ metadata' = configuring.settings
                /\ configuring.settings.wellFormed
             \/ configuring'.step = "none" /\ metadata' = metadata
      BY <1>2, <1>5 DEF InstallMetadata
    <2>2. validator' = validator
      BY <1>5 DEF InstallMetadata
    <2>3. TypeOK'
      BY <1>1, <1>2, <2>1, <2>2 DEF IInv, TypeOK
    <2>4. ConfigurationOK'
      BY <1>1, <1>2, <2>1, <2>2 DEF ConfigurationOK
    <2>5. QED
      BY <1>4, <2>3, <2>4 DEF IInv
  <1>6. CASE InstallValidator
    <2>1. /\ configuring'.settings = configuring.settings /\ configuring'.whole = TRUE
          /\ configuring' \in [step : {"none", "metadata", "validator"},
                               settings : Settings \cup {None}, whole : BOOLEAN]
          /\ configuring'.step = "none" /\ metadata' = metadata
          /\ validator' = configuring.settings /\ metadata = configuring.settings
      BY <1>2, <1>6 DEF InstallValidator, ConfigurationOK
    <2>2. TypeOK'
      BY <1>1, <1>2, <2>1 DEF IInv, TypeOK
    <2>3. ConfigurationOK'
      BY <1>1, <1>2, <2>1 DEF ConfigurationOK
    <2>4. QED
      BY <1>4, <2>2, <2>3 DEF IInv
  <1>7. QED
    BY <1>5, <1>6

\* configure of the token processor accepts only a skew within its limit.
LEMMA ProcessorSafe ==
    ASSUME IInv, NEW settings \in ActorSettings, ConfigureProcessor(settings)
    PROVE  IInv'
  <1>1. /\ UNCHANGED <<issuer, metadata, validator, configuring, req, clock>>
        /\ verifier' = settings /\ settings.skew \in 0..MaxActorSkew
    BY DEF ConfigureProcessor, manager
  <1>2. TypeOK' /\ ConfigurationOK'
    BY <1>1 DEF IInv, TypeOK, ConfigurationOK
  <1>3. \A r \in Requests : ExchangeOK(req[r])' /\ FreshOK(req[r])'
    BY <1>1 DEF IInv, ExchangeOK, TokenOK, FreshOK
  <1>4. QED
    BY <1>2, <1>3 DEF IInv

\* Time passes, and no exchange began or token was issued later than now.
LEMMA TickSafe ==
    ASSUME IInv, Tick
    PROVE  IInv'
  <1>1. /\ UNCHANGED <<issuer, metadata, validator, configuring, verifier, req>>
        /\ clock \in 0..MaxClock /\ clock' = clock + 1 /\ clock < MaxClock
    BY DEF Tick, manager, IInv, TypeOK
  <1>2. clock' \in 0..MaxClock /\ clock \in Nat /\ clock' \in Nat /\ clock < clock'
    BY <1>1, Limits
  <1>3. TypeOK' /\ ConfigurationOK'
    BY <1>1, <1>2 DEF IInv, TypeOK, ConfigurationOK
  <1>4. ASSUME NEW r \in Requests PROVE ExchangeOK(req[r])' /\ FreshOK(req[r])'
    <2>1. req[r] \in Request /\ ExchangeOK(req[r]) /\ FreshOK(req[r])
      BY DEF IInv, TypeOK
    <2>2. req[r].began \in Nat
      BY <2>1 DEF Request
    <2>3. req[r].pc \in {"issued", "held"} => TokenOK(req[r].token, req[r].workload)'
      <3>1. req[r].pc \in {"issued", "held"} =>
               req[r].token.issuedAt \in Nat /\ TokenOK(req[r].token, req[r].workload)
        BY <2>1 DEF ExchangeOK, TokenOK, Token
      <3>2. QED
        BY <1>1, <1>2, <3>1 DEF TokenOK
    <2>4. ExchangeOK(req[r])'
      BY <1>1, <1>2, <2>1, <2>2, <2>3 DEF ExchangeOK
    <2>5. FreshOK(req[r])'
      <3>1. req[r].introspected = "null" => req[r].token.expiresAt \in Nat
        BY <2>1 DEF ExchangeOK, TokenOK, Token
      <3>2. QED
        BY <1>1, <1>2, <2>1, <3>1 DEF FreshOK
    <2>6. QED
      BY <2>4, <2>5
  <1>5. QED
    BY <1>3, <1>4 DEF IInv

-----------------------------------------------------------------------------
(* The theorems *)

\* What the other results rest on.
THEOREM IssuanceInvariance == Spec => []IInv
  <1>1. Init => IInv
    <2> SUFFICES ASSUME Init PROVE IInv
      OBVIOUS
    <2>1. TypeOK
      BY NoRequestOK, Limits DEF Init, TypeOK
    <2>2. ConfigurationOK
      BY DEF Init, ConfigurationOK
    <2>3. \A r \in Requests : ExchangeOK(req[r]) /\ FreshOK(req[r])
      BY NoRequestOK DEF Init
    <2>4. QED
      BY <2>1, <2>2, <2>3 DEF IInv
  <1>2. ASSUME IInv, [Next]_vars PROVE IInv'
    <2>1. ASSUME NEW settings \in Settings, Configure(settings) PROVE IInv'
      BY <1>2, <2>1, ConfigureSafe
    <2>2. CASE InstallMetadata \/ InstallValidator
      BY <1>2, <2>2, InstallSafe
    <2>3. ASSUME NEW settings \in ActorSettings, ConfigureProcessor(settings) PROVE IInv'
      BY <1>2, <2>3, ProcessorSafe
    <2>4. ASSUME NEW r \in Requests,
                 \/ Exchange(r) \/ processToken(r) \/ ReadIssuer(r) \/ issueAccessToken(r)
                 \/ Deliver(r) \/ GivesUp(r) \/ Verify(r) \/ validateAccessToken(r)
          PROVE  IInv'
      <3>1. CASE GivesUp(r)
        BY <1>2, <3>1, FailSafe DEF GivesUp
      <3>2. QED
        BY <1>2, <2>4, <3>1, ExchangeSafe, ProcessSafe, ReadIssuerSafe, IssueSafe,
           DeliverSafe, VerifySafe, ValidateSafe
    <2>5. CASE Tick
      BY <1>2, <2>5, TickSafe
    <2>6. CASE UNCHANGED vars
      BY <1>2, <2>6 DEF vars, manager, IInv, TypeOK, ConfigurationOK, ExchangeOK, FreshOK, TokenOK
    <2>7. QED
      BY <1>2, <2>1, <2>2, <2>3, <2>4, <2>5, <2>6 DEF Next
  <1>3. QED
    BY <1>1, <1>2, PTL DEF Spec

\* However reconfigurations and exchanges interleave, the agent a token names is
\* bound to the workload whose SVID was verified in this exchange, by a table
\* that was accepted, and its lifetime is exact (derive, issue).
THEOREM IssuanceBound == Spec => []BoundAndExact
  <1>1. IInv => BoundAndExact
    <2>1. ASSUME IInv, NEW r \in Requests, req[r].token # None
          PROVE  LET t == req[r].token IN
                 /\ t.workload = req[r].workload
                 /\ t.metadata.wellFormed
                 /\ t.agent = t.metadata.bindings[t.workload]
                 /\ t.expiresAt - t.issuedAt = t.issuer.lifetime
                 /\ t.issuer.lifetime \in 1..MaxLifetime
      <3>1. TokenOK(req[r].token, req[r].workload)
        BY <2>1 DEF IInv, ExchangeOK
      <3>2. /\ req[r].token.issuedAt \in Nat
            /\ req[r].token.issuer.lifetime \in 1..MaxLifetime
        BY <3>1 DEF TokenOK, Token, lifetimeOK
      <3>3. req[r].token.expiresAt - req[r].token.issuedAt = req[r].token.issuer.lifetime
        BY <3>1, <3>2, Limits DEF TokenOK
      <3>4. QED
        BY <3>1, <3>2, <3>3 DEF TokenOK
    <2>2. QED
      BY <2>1 DEF BoundAndExact, IInv
  <1>2. QED
    BY <1>1, IssuanceInvariance, PTL

\* An exchange begun after a configuration was accepted whole gets a token of
\* that configuration alone, and its server vouches for it until it expires
\* (configure, validateAccessToken).
THEOREM IssuanceWhole == Spec => []FreshIssueIsWhole
  <1>1. IInv => FreshIssueIsWhole
    BY DEF IInv, ExchangeOK, FreshOK, FreshIssueIsWhole
  <1>2. QED
    BY <1>1, IssuanceInvariance, PTL

\* No service accepts a token later than the workload's own SVID and the sum of
\* the limits allow, though no component checks it (verify, issue, Exchange,
\* Verify).
THEOREM IssuanceAuthority == Spec => []AuthorityBounded
  <1>1. IInv => AuthorityBounded
    <2> SUFFICES ASSUME IInv, NEW r \in Requests, req[r].accepted > 0
                 PROVE  req[r].accepted < req[r].actorExpires + MaxActorSkew + Timeout
                                            + MaxLifetime + Skew + Drift
      BY DEF AuthorityBounded
    <2> DEFINE y == req[r]
               t == y.token
    <2>1. y \in Request /\ ExchangeOK(y) /\ y.accepted > 0
      BY DEF IInv, TypeOK
    <2> HIDE DEF y
    <2>2. /\ y.pc = "held" /\ TokenOK(t, y.workload)
          /\ t.issuedAt < y.actorExpires + MaxActorSkew + Timeout
          /\ y.accepted <= t.expiresAt + Skew + Drift
      BY <2>1 DEF ExchangeOK
    <2>3. /\ y.accepted \in Nat /\ y.actorExpires \in Nat /\ t.issuedAt \in Nat
          /\ t.expiresAt = t.issuedAt + t.issuer.lifetime
          /\ t.issuer.lifetime \in 1..MaxLifetime
      BY <2>1, <2>2 DEF Request, TokenOK, Token, lifetimeOK
    <2> HIDE DEF t
    <2>4. y.accepted < y.actorExpires + MaxActorSkew + Timeout + MaxLifetime + Skew + Drift
      BY <2>2, <2>3, Limits
    <2>5. QED
      BY <2>4 DEF y
  <1>2. QED
    BY <1>1, IssuanceInvariance, PTL

=============================================================================
