---------------------------- MODULE TokenIssuance ----------------------------
(***************************************************************************)
(* Issuing a transaction token: the two extensions that run inside         *)
(* PingFederate (deploy/pingfederate/plugins), between the exchange client *)
(* that asks (pkg/pingfederate/exchange.go) and the verifier that later    *)
(* accepts the token (verifier.go, transaction/claims.go).                 *)
(*                                                                         *)
(* The access token manager keeps what configure made in volatile fields,  *)
(* written one after the other without a lock and read one after the other *)
(* by the requests it serves; its field "profile" is written and never     *)
(* read.  A field is named here by the settings it was made from.  The     *)
(* server calls configure from one thread.  Times are whole seconds, as    *)
(* they are in the tokens.                                                 *)
(***************************************************************************)
EXTENDS Integers

CONSTANTS
    Requests,          \* exchanges, one client call each
    Workloads, Agents, None,
    Settings,          \* forms an administrator may save for the token manager
    ActorSettings,     \* the same for the actor token processor
    MaxLifetime,       \* 60: TransactionJwtIssuer's limit
    MaxActorSkew,      \* 30: SpiffeJwtVerifier's limit
    Skew,              \* VerifierConfig.ClockSkew
    Timeout,           \* of the client's HTTP client
    Drift,             \* how far another machine's clock is from the server's
    MaxActorLife,      \* bound: longest SVID the SPIRE server issues
    MaxClock           \* bound: last instant considered

\* "wellFormed": parseBindings and TrustedTransactionMetadata accept the table
\* and the purpose.  "profile" stands for the profile and the audience.
SettingsType ==
    [profile : {"legacy", "strict"}, lifetime : Int,
     bindings : [Workloads -> Agents \cup {None}], wellFormed : BOOLEAN]

ASSUME IssuanceAssumption ==
    /\ None \notin Agents \cup Workloads \cup Settings \cup ActorSettings
    /\ Settings \subseteq SettingsType
    /\ ActorSettings \subseteq [lifetime : Int, skew : Int]
    /\ {MaxLifetime, MaxActorSkew, Skew, Timeout, Drift, MaxActorLife, MaxClock} \subseteq Nat

VARIABLES
    issuer, metadata, validator,  \* fields of ExactTtlJwtAccessTokenManager
    configuring,       \* the call of configure that is under way
    verifier,          \* the field of SpiffeJwtTokenProcessor
    req,               \* the exchanges and the tokens they bought
    clock              \* the server's clock

vars == <<issuer, metadata, validator, configuring, verifier, req, clock>>

manager == <<issuer, metadata, validator, configuring>>

Token ==
    [workload : Workloads, agent : Agents, issuedAt : Nat, expiresAt : Nat,
     issuer : Settings, metadata : Settings]

\* "fresh" is history: the request began under a configuration that was
\* accepted whole, and no other has been tried since.
Request ==
    [pc : {"idle", "sent", "verified", "issuing", "issued", "held", "failed"},
     began : Nat, workload : Workloads \cup {None},
     actorIssued : Nat, actorExpires : Nat,
     asserted : Agents \cup {None},
     issuer : Settings \cup {None}, token : Token \cup {None},
     accepted : Nat, introspected : {"no", "valid", "null"}, fresh : BOOLEAN]

TypeOK ==
    /\ {issuer, metadata, validator} \subseteq Settings \cup {None}
    /\ configuring \in [step : {"none", "metadata", "validator"},
                        settings : Settings \cup {None}, whole : BOOLEAN]
    /\ verifier \in ActorSettings \cup {None}
    /\ req \in [Requests -> Request]
    /\ clock \in 0..MaxClock

NoRequest ==
    [pc |-> "idle", began |-> 0, workload |-> None, actorIssued |-> 0,
     actorExpires |-> 0, asserted |-> None,
     issuer |-> None, token |-> None, accepted |-> 0, introspected |-> "no",
     fresh |-> FALSE]

Init ==
    /\ issuer = None /\ metadata = None /\ validator = None
    /\ configuring = [step |-> "none", settings |-> None, whole |-> FALSE]
    /\ verifier = None
    /\ req = [r \in Requests |-> NoRequest]
    /\ clock = 0

-----------------------------------------------------------------------------
(* configure, of both extensions *)

lifetimeOK(settings) == settings.lifetime \in 1..MaxLifetime

NothingFresh == req' = [r \in Requests |-> [req[r] EXCEPT !.fresh = FALSE]]

\* The fields of the form are read and the new issuer is made and stored; if
\* either throws (a field, the certificate, the profile, the lifetime), nothing
\* has changed.
Configure(settings) ==
    /\ configuring.step = "none"
    /\ \/ /\ lifetimeOK(settings)
          /\ issuer' = settings
          /\ configuring' = [step |-> "metadata", settings |-> settings, whole |-> FALSE]
          /\ NothingFresh
       \/ UNCHANGED <<issuer, configuring, req>>
    /\ UNCHANGED <<metadata, validator, verifier, clock>>

\* Mutant: the bindings are kept once they have been read.
InstallMetadataOnce ==
    /\ configuring.step = "metadata"
    /\ metadata' = IF metadata = None THEN configuring.settings ELSE metadata
    /\ configuring' = [configuring EXCEPT !.step = "validator"]
    /\ UNCHANGED <<issuer, validator, verifier, req, clock>>

\* If the bindings or the purpose are refused, configure ends here: the new
\* issuer stays beside the old metadata and the old validator.
InstallMetadata ==
    /\ configuring.step = "metadata"
    /\ \/ /\ configuring.settings.wellFormed
          /\ metadata' = configuring.settings
          /\ configuring' = [configuring EXCEPT !.step = "validator"]
       \/ /\ ~configuring.settings.wellFormed
          /\ configuring' = [configuring EXCEPT !.step = "none"]
          /\ UNCHANGED metadata
    /\ UNCHANGED <<issuer, validator, verifier, req, clock>>

InstallValidator ==
    /\ configuring.step = "validator"
    /\ validator' = configuring.settings
    /\ configuring' = [configuring EXCEPT !.step = "none", !.whole = TRUE]
    /\ UNCHANGED <<issuer, metadata, verifier, req, clock>>

\* One field, so replaced as a whole; refused settings leave the old verifier.
ConfigureProcessor(settings) ==
    /\ settings.lifetime > 0
    /\ settings.skew \in 0..MaxActorSkew
    /\ verifier' = settings
    /\ UNCHANGED <<manager, req, clock>>

-----------------------------------------------------------------------------
(* An exchange *)

\* The client sends the workload's SVID, stamped by a machine whose clock may
\* be ahead; "asserted" is an agent_id among the attributes the server maps.
Exchange(r) ==
    /\ req[r].pc = "idle"
    /\ \E workload \in Workloads, asserted \in Agents \cup {None},
          issuedAt \in 0..(clock + Drift), life \in 1..MaxActorLife :
          req' = [req EXCEPT ![r] =
                    [NoRequest EXCEPT !.pc = "sent", !.began = clock,
                        !.workload = workload, !.asserted = asserted,
                        !.actorIssued = issuedAt, !.actorExpires = issuedAt + life,
                        !.fresh = configuring.step = "none" /\ configuring.whole]]
    /\ UNCHANGED <<manager, verifier, clock>>

Fail(r) == req' = [req EXCEPT ![r] = [NoRequest EXCEPT !.pc = "failed"]]

\* Mutant: the actor token's expiry is not compared with the clock.
actorAcceptedLate(r) ==
    req[r].actorExpires - req[r].actorIssued <= verifier.lifetime

\* SpiffeJwtVerifier.verify; the consumer does not compare the issue time with
\* the clock, only the expiry.
actorAccepted(r) ==
    /\ clock - verifier.skew < req[r].actorExpires
    /\ req[r].actorExpires - req[r].actorIssued <= verifier.lifetime

processToken(r) ==
    /\ req[r].pc = "sent"
    /\ \/ /\ verifier # None
          /\ actorAccepted(r)
          /\ req' = [req EXCEPT ![r] = [@ EXCEPT !.pc = "verified", !.actorIssued = 0]]
       \/ Fail(r)
    /\ UNCHANGED <<manager, verifier, clock>>

\* issueAccessToken reads the issuer first.
ReadIssuer(r) ==
    /\ req[r].pc = "verified"
    /\ req' = [req EXCEPT ![r] = [@ EXCEPT !.pc = "issuing", !.issuer = issuer]]
    /\ UNCHANGED <<manager, verifier, clock>>

\* Mutant: an asserted agent is kept.
deriveAsserted(r) ==
    IF req[r].asserted # None THEN req[r].asserted ELSE metadata.bindings[req[r].workload]

\* TrustedTransactionMetadata.derive overwrites whatever was asserted; None is
\* its exception for a workload that is not bound.
derive(r) == metadata.bindings[req[r].workload]

MayIssue(r) ==
    /\ req[r].issuer # None /\ metadata # None
    /\ derive(r) # None

\* Then the metadata, which derives the agent; the issuer signs.  It may also
\* throw, of the strict profile for a scope that is not the configured one.
issueAccessToken(r) ==
    /\ req[r].pc = "issuing"
    /\ \/ /\ MayIssue(r)
          /\ req' = [req EXCEPT ![r] = [@ EXCEPT !.pc = "issued",
                       !.asserted = None, !.issuer = None, !.token =
                       [workload |-> req[r].workload, agent |-> derive(r),
                        issuedAt |-> clock,
                        expiresAt |-> clock + req[r].issuer.lifetime,
                        issuer |-> req[r].issuer, metadata |-> metadata]]]
       \/ Fail(r)
    /\ UNCHANGED <<manager, verifier, clock>>

Deliver(r) ==
    /\ req[r].pc = "issued"
    /\ clock - req[r].began <= Timeout
    /\ req' = [req EXCEPT ![r] = [@ EXCEPT !.pc = "held", !.began = 0]]
    /\ UNCHANGED <<manager, verifier, clock>>

\* The client times out, or the answer is lost or unusable; the server goes on
\* unobserved.
GivesUp(r) ==
    /\ req[r].pc \in {"sent", "verified", "issuing", "issued"}
    /\ Fail(r)
    /\ UNCHANGED <<manager, verifier, clock>>

-----------------------------------------------------------------------------
(* What is done with the token *)

\* A service verifies the token with its own clock.  A strict token lacks the
\* claims that Claims.Validate requires.
Verify(r) ==
    /\ req[r].pc = "held"
    /\ req[r].token.issuer.profile = "legacy"
    /\ \E now \in (clock - Drift)..(clock + Drift) :
          /\ req[r].token.expiresAt >= now - Skew
          /\ req[r].token.issuedAt <= now + Skew
    /\ req' = [req EXCEPT ![r].accepted = clock]
    /\ UNCHANGED <<manager, verifier, clock>>

\* PingFederate introspects its own token: type, audience, issuer and key must
\* be the validator's, and the token must not have expired.
validateAccessToken(r) ==
    /\ req[r].pc = "held"
    /\ req' = [req EXCEPT ![r].introspected =
                 IF /\ validator # None
                    /\ validator.profile = req[r].token.issuer.profile
                    /\ clock < req[r].token.expiresAt
                 THEN "valid" ELSE "null"]
    /\ UNCHANGED <<manager, verifier, clock>>

Tick ==
    /\ clock < MaxClock
    /\ clock' = clock + 1
    /\ UNCHANGED <<manager, verifier, req>>

-----------------------------------------------------------------------------
Next ==
    \/ \E settings \in Settings : Configure(settings)
    \/ InstallMetadata
    \/ InstallValidator
    \/ \E settings \in ActorSettings : ConfigureProcessor(settings)
    \/ \E r \in Requests :
          \/ Exchange(r) \/ processToken(r) \/ ReadIssuer(r) \/ issueAccessToken(r)
          \/ Deliver(r) \/ GivesUp(r) \/ Verify(r) \/ validateAccessToken(r)
    \/ Tick

Spec == Init /\ [][Next]_vars

-----------------------------------------------------------------------------
(* Properties *)

\* Although a request may read the fields of two configurations, one of them
\* refused half-way, what its token says of the workload comes from one table
\* that was accepted: the agent is bound to the workload whose SVID was
\* verified in this very exchange, whatever the attributes assert; and its
\* lifetime is the exact one of one form, within the limit (derive, issue).
BoundAndExact ==
    /\ TypeOK
    /\ \A r \in Requests : req[r].token # None =>
        LET t == req[r].token IN
        /\ t.workload = req[r].workload
        /\ t.metadata.wellFormed
        /\ t.agent = t.metadata.bindings[t.workload]
        /\ t.expiresAt - t.issuedAt = t.issuer.lifetime
        /\ t.issuer.lifetime \in 1..MaxLifetime

\* Once configure has returned without an exception, whoever asks then gets a
\* token made from that configuration alone, until configure is called again,
\* whatever configurations were tried before and failed half-way; and such a
\* token is one its own server vouches for as long as it lives (configure,
\* validateAccessToken).
FreshIssueIsWhole ==
    \A r \in Requests : req[r].fresh =>
        /\ req[r].token # None =>
              /\ req[r].token.issuer = configuring.settings
              /\ req[r].token.metadata = configuring.settings
        /\ req[r].introspected = "null" => clock >= req[r].token.expiresAt

\* No service accepts a transaction token later than the workload's own SVID
\* and the limits allow: the SVID's expiry, the processor's skew, the time the
\* client waits, the longest lifetime of a token, the service's skew and the
\* clocks' drift.  No component checks this; it rests on all of them.
AuthorityBounded ==
    \A r \in Requests : req[r].accepted > 0 =>
        req[r].accepted < req[r].actorExpires + MaxActorSkew + Timeout
                            + MaxLifetime + Skew + Drift

=============================================================================
