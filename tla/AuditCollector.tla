--------------------------- MODULE AuditCollector ---------------------------
(***************************************************************************)
(* The queryable audit trail end to end: workloads that POST audit events  *)
(* and a web application that queries them, both through                   *)
(* pkg/audit/remote.go, over a network that may lose or delay either       *)
(* direction; the collector's handlers, pkg/auditcollector/handler.go; and *)
(* the store they share (module AuditStore, one action per store call).    *)
(*                                                                         *)
(* Everything the collector keeps is in memory: a restart empties it.      *)
(***************************************************************************)
EXTENDS AuditStore

CONSTANTS
    Peers,               \* SPIFFE IDs that can present a certificate
    AllowedSubmitters,   \* Config.AllowedSubmitters, also the TLS peer policy
    QueryCaller,         \* Config.QueryCaller
    None,                \* no value
    MaxListed,           \* how many records fit in Remote.maxResponse
    Posts,               \* bound: POSTs sent
    Queries,             \* queries under way at the same time
    MaxRestarts          \* bound: collector restarts

ASSUME CollectorAssumption ==
    /\ AllowedSubmitters # {} /\ AllowedSubmitters \subseteq Peers
    /\ QueryCaller \in Peers
    /\ None \notin Users \cup IDs \cup Peers
    /\ MaxListed \in Nat
    /\ MaxRestarts \in Nat

VARIABLES
    submitting,          \* Record.SubmittingSPIFFEID, by Sequence
    source,              \* history: the POST each record came from
    posts,               \* each POST: the request and what its sender saw
    queries,             \* each query slot of the web application
    restarts             \* how often the collector has restarted

vars == <<storeVars, submitting, source, posts, queries, restarts>>

\* "request" is where the HTTP request is, "outcome" what Remote.Write has
\* returned; "record" is the record the 201 names, of incarnation "at".
\* "times" is history: how often this POST was stored.
Post ==
    [request : {"none", "sent", "handled"}, peer : Peers \cup {None},
     user : Users \cup {Blank, None}, status : {0, 201, 400},
     record : Record \cup {None}, at : 0..MaxRestarts,
     times : Nat, outcome : {"none", "waiting", "acknowledged", "failed"}]

\* "id" is the record asked for, None for a listing.  "known" is history: the
\* records the writers or this web application already knew to be stored when
\* the query was sent.
Query ==
    [pc : {"idle", "asked", "answered", "returned"}, peer : Peers \cup {None},
     user : Users \cup {None}, id : IDs \cup {None},
     status : {0, 200, 403, 404, 502}, found : SUBSET Record,
     known : SUBSET Record, at : 0..MaxRestarts]

TypeOK ==
    /\ StoreTypeOK
    /\ submitting \in Seq(Peers)
    /\ source \in Seq(Posts)
    /\ posts \in [Posts -> Post]
    /\ queries \in [Queries -> Query]
    /\ restarts \in 0..MaxRestarts

NoPost ==
    [request |-> "none", peer |-> None, user |-> None,
     status |-> 0, record |-> None, at |-> 0, times |-> 0, outcome |-> "none"]

NoQuery ==
    [pc |-> "idle", peer |-> None, user |-> None, id |-> None, status |-> 0,
     found |-> {}, known |-> {}, at |-> 0]

Init ==
    /\ StoreInit
    /\ submitting = <<>>
    /\ source = <<>>
    /\ posts = [p \in Posts |-> NoPost]
    /\ queries = [q \in Queries |-> NoQuery]
    /\ restarts = 0

-----------------------------------------------------------------------------
(* Writers: Remote.Write *)

\* The event passes validateEvent, whose rules are the store's except that the
\* user may be blank, and is posted.  Which user it names is up to the writer.
Write(p, peer, user) ==
    /\ posts[p].request = "none"
    /\ posts' = [posts EXCEPT ![p] = [NoPost EXCEPT !.request = "sent",
                                        !.peer = peer, !.user = user,
                                        !.outcome = "waiting"]]
    /\ UNCHANGED <<storeVars, submitting, source, queries, restarts>>

\* A Write that has failed and stored nothing: who posted what is forgotten.
Settled == [NoPost EXCEPT !.request = "handled", !.outcome = "failed"]

\* The answer arrives in time: only 201 counts as written.
WriteReturns(p) ==
    /\ posts[p].request = "handled"
    /\ posts[p].outcome = "waiting"
    /\ posts' = [posts EXCEPT ![p] =
                    IF @.status = 201 THEN [@ EXCEPT !.outcome = "acknowledged"]
                                      ELSE Settled]
    /\ UNCHANGED <<storeVars, submitting, source, queries, restarts>>

\* Mutant: an event that was not acknowledged is posted again.
WriteRetries(p) ==
    /\ posts[p].outcome = "waiting"
    /\ posts' = [posts EXCEPT ![p].request = "sent"]
    /\ UNCHANGED <<storeVars, submitting, source, queries, restarts>>

\* No answer within the client's timeout, or a broken connection.  The request
\* may still be handled, or may have been.
WriteFails(p) ==
    /\ posts[p].outcome = "waiting"
    /\ posts' = [posts EXCEPT ![p].outcome = "failed"]
    /\ UNCHANGED <<storeVars, submitting, source, queries, restarts>>

-----------------------------------------------------------------------------
(* The collector: POST /v1/events *)

\* Mutant: a verified certificate is enough.
maySubmitAny(peer) == TRUE

maySubmit(peer) == peer \in AllowedSubmitters

SubmissionOf(p, id) ==
    [id |-> id, user |-> posts[p].user, clean |-> TRUE]

\* An identifier is drawn and the store accepts the record; the submitter it is
\* attributed to is the peer of the connection.
SubmitStored(p) ==
    /\ posts[p].request = "sent"
    /\ maySubmit(posts[p].peer)
    /\ \E id \in IDs : Add(SubmissionOf(p, id))
    /\ submitting' = Append(submitting, posts[p].peer)
    /\ source' = Append(source, p)
    /\ posts' = [posts EXCEPT ![p] = [@ EXCEPT !.request = "handled",
                    !.status = 201, !.record = answer'.record,
                    !.at = restarts, !.times = posts[p].times + 1]]
    /\ UNCHANGED <<queries, restarts>>

\* A peer that is not a submitter, or no entropy for the identifier; or the
\* store rejects the record, or its identifier as one it still holds.
SubmitRefused(p) ==
    /\ posts[p].request = "sent"
    /\ \/ UNCHANGED storeVars
       \/ /\ maySubmit(posts[p].peer)
          /\ \E id \in IDs : ~validate(SubmissionOf(p, id))
          /\ AddInvalid
       \/ /\ maySubmit(posts[p].peer)
          /\ \E id \in IDs : AddDuplicate(SubmissionOf(p, id))
    /\ posts' = [posts EXCEPT ![p] =
                    IF @.outcome = "failed" THEN Settled
                    ELSE [NoPost EXCEPT !.request = "handled", !.status = 400,
                                        !.outcome = "waiting"]]
    /\ UNCHANGED <<submitting, source, queries, restarts>>

-----------------------------------------------------------------------------
(* The web application's queries: Remote.ListByUser, Remote.GetByUser *)

\* What has been acknowledged to a writer, or shown by an earlier answer, since
\* the collector last started.
Known ==
    {posts[p].record : p \in {p \in Posts : /\ posts[p].outcome = "acknowledged"
                                            /\ posts[p].at = restarts}}
      \cup UNION {queries[q].found : q \in {q \in Queries :
                     queries[q].pc = "returned" /\ queries[q].at = restarts}}

\* The subject of the authenticated session is the user of the query.
Ask(q, peer, user, id) ==
    /\ queries[q].pc \in {"idle", "returned"}
    /\ queries' = [queries EXCEPT ![q] = [NoQuery EXCEPT !.pc = "asked",
                      !.peer = peer, !.user = user, !.id = id,
                      !.known = Known, !.at = restarts]]
    /\ UNCHANGED <<storeVars, submitting, source, posts, restarts>>

Reply(q, status, found) ==
    queries' = [queries EXCEPT ![q] = [@ EXCEPT !.pc = "answered",
                    !.status = status, !.found = found]]

\* queryUser: only the web application's workload may query.
QueryDenied(q) ==
    /\ queries[q].pc = "asked"
    /\ queries[q].peer # QueryCaller
    /\ Reply(q, 403, {})
    /\ UNCHANGED <<storeVars, submitting, source, posts, restarts>>

list(q) ==
    /\ queries[q].pc = "asked"
    /\ queries[q].peer = QueryCaller
    /\ queries[q].id = None
    /\ ListByUser(queries[q].user)
    /\ Reply(q, 200, answer'.found)
    /\ UNCHANGED <<submitting, source, posts, restarts>>

get(q) ==
    /\ queries[q].pc = "asked"
    /\ queries[q].peer = QueryCaller
    /\ queries[q].id # None
    /\ GetByUser(queries[q].user, queries[q].id)
    /\ \/ /\ answer'.op = "got"
          /\ Reply(q, 200, {answer'.record})
       \/ /\ answer'.op = "ErrRecordMissing"
          /\ Reply(q, 404, {})
    /\ UNCHANGED <<submitting, source, posts, restarts>>

\* Mutant: what did not fit is left out.
UsableTruncated(q) ==
    IF Cardinality(queries[q].found) > MaxListed
    THEN [queries[q] EXCEPT !.pc = "returned",
             !.found = {r \in @ : \E s \in @ : s.Sequence < r.Sequence}]
    ELSE [queries[q] EXCEPT !.pc = "returned"]

\* An answer larger than maxResponse is an error, never a shorter answer.
Usable(q) ==
    IF Cardinality(queries[q].found) > MaxListed
    THEN [queries[q] EXCEPT !.pc = "returned", !.status = 502, !.found = {}]
    ELSE [queries[q] EXCEPT !.pc = "returned"]

QueryReturns(q) ==
    /\ queries[q].pc = "answered"
    /\ queries' = [queries EXCEPT ![q] = Usable(q)]
    /\ UNCHANGED <<storeVars, submitting, source, posts, restarts>>

\* A timeout or a broken connection, before or after the collector's work.
QueryFails(q) ==
    /\ queries[q].pc \in {"asked", "answered"}
    /\ queries' = [queries EXCEPT ![q] = [@ EXCEPT !.pc = "returned",
                                             !.status = 502, !.found = {}]]
    /\ UNCHANGED <<storeVars, submitting, source, posts, restarts>>

-----------------------------------------------------------------------------
\* The clock moves, between any two calls.
Clock ==
    /\ Tick \/ SetBack
    /\ UNCHANGED <<submitting, source, posts, queries, restarts>>

\* The collector is started again with an empty store.  Requests that have not
\* been handled may reach the new process; the others' answers may be on the way.
Restart ==
    /\ restarts < MaxRestarts
    /\ restarts' = restarts + 1
    /\ records' = <<>> /\ sequence' = 0
    /\ accepted' = <<>> /\ submitting' = <<>> /\ source' = <<>>
    /\ answer' = [op |-> "none"]
    /\ UNCHANGED <<clock, latest, posts, queries>>

Next ==
    \/ \E p \in Posts, peer \in Peers, user \in Users \cup {Blank} :
          Write(p, peer, user)
    \/ \E p \in Posts : \/ WriteReturns(p) \/ WriteFails(p)
                        \/ SubmitStored(p) \/ SubmitRefused(p)
    \/ \E q \in Queries, peer \in Peers, user \in Users, id \in IDs \cup {None} :
          Ask(q, peer, user, id)
    \/ \E q \in Queries : \/ QueryDenied(q) \/ list(q) \/ get(q)
                          \/ QueryReturns(q) \/ QueryFails(q)
    \/ Clock
    \/ Restart

Spec == Init /\ [][Next]_vars

-----------------------------------------------------------------------------
(* Properties *)

\* A query that has been handled by the collector as it runs now.
Handled(q) ==
    /\ queries[q].pc \in {"answered", "returned"}
    /\ queries[q].status \in {200, 404}
    /\ queries[q].at = restarts

\* A record the store no longer owes anyone: too old at some call, or pushed
\* out by newer ones.
Gone(record) ==
    \/ Len(accepted) - record.Sequence >= MaximumRecords
    \/ Expired(record, latest)

\* Read your writes and read monotonically: an answer contains every record of
\* the user that was acknowledged to its writer, or shown to anybody, before
\* the query was sent, unless retention or capacity took it; a "not found" is
\* given only for records that are not there or not the user's.  It holds with
\* delayed requests and lost answers, and no oversized answer is cut short
\* (submit, list, get, Remote.query).
KnownRecordsAreShown ==
    \A q \in Queries : Handled(q) =>
        \A record \in queries[q].known :
            \/ record \in queries[q].found
            \/ record.user # queries[q].user
            \/ queries[q].id \notin {None, record.id}
            \/ Gone(record)

\* Whatever an answer shows was posted, for the user the answer is for, by an
\* allowed workload, and is attributed to that workload; nobody but the web
\* application's workload is shown anything (submit, queryUser).
ShownIsGenuine ==
    \A q \in Queries :
        /\ queries[q].found # {} => queries[q].peer = QueryCaller
        /\ \A record \in queries[q].found :
              /\ record.user = queries[q].user
              /\ queries[q].at = restarts =>
                    LET p == source[record.Sequence] IN
                    /\ posts[p].user = record.user
                    /\ posts[p].peer = submitting[record.Sequence]
                    /\ posts[p].peer \in AllowedSubmitters

\* One Write stores at most one record, whatever the network does, and an
\* acknowledged Write stored exactly the record its answer named (Remote.Write
\* does not retry; a failed Write may have stored its record).
StoredOnce ==
    /\ TypeOK
    /\ \A p \in Posts :
        /\ posts[p].times <= 1
        /\ posts[p].outcome = "acknowledged" => posts[p].times = 1
        /\ posts[p].outcome = "acknowledged" /\ posts[p].at = restarts =>
              /\ posts[p].record = accepted[posts[p].record.Sequence]
              /\ source[posts[p].record.Sequence] = p

=============================================================================
