------------------------- MODULE SpireProviderProofs -------------------------
(***************************************************************************)
(* Proofs about SpireProvider, for every set of identities and peers and   *)
(* any number of goroutines.                                               *)
(***************************************************************************)
EXTENDS SpireProvider, TLAPS

-----------------------------------------------------------------------------
(* The inductive invariant *)

\* The source holds an SVID only when its last update was the expected one
\* alone, and that is the SVID it holds.
Selected ==
    /\ presented \subseteq {Expected}
    /\ svid # None => svid = Expected /\ told = <<Expected>>

\* What New has acquired at each of its steps; nobody else has the provider
\* before it is ready.
Acquired ==
    /\ boot = "start" => client = "none" /\ source = "none"
    /\ boot \in {"connected", "fetched"} => client = "open" /\ source = "none"
    /\ boot = "sourced" => client = "open" /\ source = "open"
    /\ boot = "failed" => client # "open" /\ source # "open"
    /\ boot \in {"start", "connected", "fetched", "sourced"} =>
          once = "fresh" /\ closes["client"] = 0 /\ closes["source"] = 0
    /\ boot # "ready" => \A t \in Threads : thread[t] = Idle
    /\ closes["client"] <= 1 /\ closes["source"] <= 1

\* How far the one execution of sync.Once has come, once the provider is ready.
OnceFresh ==
    /\ client = "open" /\ source = "open"
    /\ closes["client"] = 0 /\ closes["source"] = 0
    /\ \A t \in Threads : thread[t].pc \in {"idle", "fetching"}

OnceRunning ==
    /\ client = "open" /\ closes["client"] = 0
    /\ \A t \in Threads :
          /\ thread[t].pc # "closed"
          /\ thread[t].pc = "closeSource" => source = "open" /\ closes["source"] = 0
          /\ thread[t].pc = "closeClient" => source = "closed" /\ closes["source"] = 1
    /\ \A t, u \in Threads :
          /\ thread[t].pc \in {"closeSource", "closeClient"}
          /\ thread[u].pc \in {"closeSource", "closeClient"}
          => t = u

OnceDone ==
    /\ client = "closed" /\ source = "closed"
    /\ closes["client"] = 1 /\ closes["source"] = 1
    /\ \A t \in Threads :
          /\ thread[t].pc \notin {"closeSource", "closeClient"}
          /\ thread[t].pc = "closed" => thread[t].result = closeErr

\* Nobody can have begun after a Close before one has returned.
LateOnlyAfterClose ==
    \A t \in Threads : thread[t].late => once = "done" /\ thread[t].got = None

IInv ==
    /\ TypeOK
    /\ Selected
    /\ Acquired
    /\ boot = "ready" /\ once = "fresh" => OnceFresh
    /\ boot = "ready" /\ once = "running" => OnceRunning
    /\ boot = "ready" /\ once = "done" => OnceDone
    /\ LateOnlyAfterClose

-----------------------------------------------------------------------------
(* What the steps have in common *)

\* The update of one goroutine's record.
LEMMA ThreadUpdate ==
    ASSUME thread \in [Threads -> Thread], NEW t \in Threads, NEW r \in Thread,
           thread' = [thread EXCEPT ![t] = r]
    PROVE  /\ thread' \in [Threads -> Thread]
           /\ thread'[t] = r
           /\ \A u \in Threads \ {t} : thread'[u] = thread[u]
  OBVIOUS

\* selectExpected yields the expected identity or nothing.
LEMMA SelectExpected ==
    ASSUME NEW svids
    PROVE  /\ selectExpected(svids) \in {Expected, None}
           /\ selectExpected(svids) # None => svids = <<Expected>> /\ selectExpected(svids) = Expected
  BY ProviderAssumption DEF selectExpected

-----------------------------------------------------------------------------
(* New and the agent *)

\* The steps of New and of the watch: what is acquired is given back in every
\* error path.
LEMMA BootSteps ==
    ASSUME IInv, Issue \/ Connect \/ FetchExpected \/ NewX509Source \/ TakeSource \/ Rotate
    PROVE  IInv'
  <1> USE DEF IInv, TypeOK, Selected, Acquired, LateOnlyAfterClose
  <1>1. CASE Issue
    BY <1>1 DEF Issue, OnceFresh, OnceRunning, OnceDone
  <1>2. CASE Connect
    BY <1>2 DEF Connect, Resource, OnceFresh, OnceRunning, OnceDone
  <1>3. CASE FetchExpected
    BY <1>3 DEF FetchExpected, GiveUp, Resource, OnceFresh, OnceRunning, OnceDone
  <1>4. CASE NewX509Source
    BY <1>4, SelectExpected, ProviderAssumption
       DEF NewX509Source, GiveUp, Resource, OnceFresh, OnceRunning, OnceDone
  <1>5. CASE TakeSource
    BY <1>5 DEF TakeSource, Resource, OnceFresh, OnceRunning, OnceDone, Idle
  <1>6. CASE Rotate
    BY <1>6, SelectExpected, ProviderAssumption DEF Rotate, OnceFresh, OnceRunning, OnceDone
  <1>7. QED
    BY <1>1, <1>2, <1>3, <1>4, <1>5, <1>6

-----------------------------------------------------------------------------
(* Use *)

\* Before a Close has returned nobody begins late.
LEMMA LateStart ==
    ASSUME IInv, boot = "ready"
    PROVE  /\ SomeCloseReturned \in BOOLEAN
           /\ SomeCloseReturned => once = "done" /\ client = "closed" /\ source = "closed"
  BY DEF IInv, TypeOK, OnceFresh, OnceRunning, OnceDone, SomeCloseReturned

\* A goroutine that has left "idle" has a ready provider.
LEMMA Busy ==
    ASSUME IInv, NEW t \in Threads, thread[t].pc # "idle"
    PROVE  boot = "ready"
  BY DEF IInv, Acquired, Idle

\* A handshake presents the SVID that the source holds, if it is open.
LEMMA HandshakeStep ==
    ASSUME IInv, NEW t \in Threads, NEW peer \in IDs, Handshake(t, peer)
    PROVE  IInv'
  <1> DEFINE r == [Idle EXCEPT !.got = svid, !.late = SomeCloseReturned]
  <1>0. svid \in IDs \cup {None} /\ SomeCloseReturned \in BOOLEAN /\ ~ SomeCloseReturned
    BY LateStart DEF IInv, TypeOK, Handshake
  <1>1. r \in Thread /\ r.pc = "idle" /\ r.late = SomeCloseReturned
    BY <1>0 DEF Idle, Thread
  <1>2. thread \in [Threads -> Thread] /\ thread' = [thread EXCEPT ![t] = r]
    BY DEF Handshake, IInv, TypeOK
  <1> HIDE DEF r
  <1>3. /\ thread' \in [Threads -> Thread] /\ thread'[t] = r
        /\ \A u \in Threads \ {t} : thread'[u] = thread[u]
    BY <1>1, <1>2, ThreadUpdate
  <1>4. TypeOK' /\ Selected' /\ Acquired' /\ LateOnlyAfterClose'
    BY <1>0, <1>1, <1>3, ProviderAssumption
       DEF IInv, TypeOK, Selected, Acquired, LateOnlyAfterClose, Handshake
  <1>5. QED
    BY <1>1, <1>3, <1>4 DEF IInv, OnceFresh, OnceRunning, OnceDone, Handshake

\* FetchJWTSVID begins only on a provider that is ready.
LEMMA FetchBeginStep ==
    ASSUME IInv, NEW t \in Threads, FetchBegin(t)
    PROVE  IInv'
  <1> DEFINE r == [Idle EXCEPT !.pc = "fetching", !.late = SomeCloseReturned]
  <1>0. SomeCloseReturned \in BOOLEAN /\ (SomeCloseReturned => once = "done")
    BY LateStart DEF FetchBegin
  <1>1. r \in Thread /\ r.pc = "fetching" /\ r.late = SomeCloseReturned /\ r.got = None
    BY <1>0 DEF Idle, Thread
  <1>2. thread \in [Threads -> Thread] /\ thread' = [thread EXCEPT ![t] = r]
    BY DEF FetchBegin, IInv, TypeOK
  <1> HIDE DEF r
  <1>3. /\ thread' \in [Threads -> Thread] /\ thread'[t] = r
        /\ \A u \in Threads \ {t} : thread'[u] = thread[u]
    BY <1>1, <1>2, ThreadUpdate
  <1>4. TypeOK' /\ Selected' /\ Acquired' /\ LateOnlyAfterClose'
    BY <1>0, <1>1, <1>3 DEF IInv, TypeOK, Selected, Acquired, LateOnlyAfterClose, FetchBegin
  <1>5. QED
    BY <1>1, <1>3, <1>4 DEF IInv, OnceFresh, OnceRunning, OnceDone, FetchBegin

\* A fetch that began after a Close had returned finds the client closed.
LEMMA FetchReturnsStep ==
    ASSUME IInv, NEW t \in Threads, FetchReturns(t)
    PROVE  IInv'
  <1> DEFINE r == [thread[t] EXCEPT !.pc = "idle", !.got = selectExpected(issued)]
  <1>1. thread[t] \in Thread /\ selectExpected(issued) = Expected /\ Expected \in IDs
    BY SelectExpected, ProviderAssumption DEF IInv, TypeOK, FetchReturns
  <1>2. r \in Thread /\ r.pc = "idle" /\ r.late = thread[t].late
    BY <1>1 DEF Thread
  <1>3. thread \in [Threads -> Thread] /\ thread' = [thread EXCEPT ![t] = r]
    BY DEF FetchReturns, IInv, TypeOK
  <1> HIDE DEF r
  <1>4. /\ thread' \in [Threads -> Thread] /\ thread'[t] = r
        /\ \A u \in Threads \ {t} : thread'[u] = thread[u]
    BY <1>2, <1>3, ThreadUpdate
  <1>5. boot = "ready"
    BY Busy DEF FetchReturns
  <1>6. ~ thread[t].late
    BY <1>5 DEF IInv, LateOnlyAfterClose, OnceDone, FetchReturns
  <1>7. TypeOK' /\ Selected' /\ Acquired' /\ LateOnlyAfterClose'
    BY <1>1, <1>2, <1>4, <1>5, <1>6
       DEF IInv, TypeOK, Selected, Acquired, LateOnlyAfterClose, FetchReturns
  <1>8. QED
    BY <1>2, <1>4, <1>5, <1>7 DEF IInv, OnceFresh, OnceRunning, OnceDone, FetchReturns

\* A fetch that fails obtains nothing.
LEMMA FetchFailsStep ==
    ASSUME IInv, NEW t \in Threads, FetchFails(t)
    PROVE  IInv'
  <1>1. Idle \in Thread /\ Idle.pc = "idle" /\ Idle.late = FALSE
    BY DEF Idle, Thread
  <1>2. /\ thread' \in [Threads -> Thread] /\ thread'[t] = Idle
        /\ \A u \in Threads \ {t} : thread'[u] = thread[u]
    BY <1>1, ThreadUpdate DEF FetchFails, IInv, TypeOK
  <1>3. TypeOK' /\ Selected' /\ Acquired' /\ LateOnlyAfterClose'
    BY <1>1, <1>2 DEF IInv, TypeOK, Selected, Acquired, LateOnlyAfterClose, FetchFails
  <1>4. QED
    BY <1>1, <1>2, <1>3 DEF IInv, OnceFresh, OnceRunning, OnceDone, FetchFails

-----------------------------------------------------------------------------
(* Close *)

\* The first caller of Close runs the closing body, any other one waits
\* (sync.Once).
LEMMA CloseEnterStep ==
    ASSUME IInv, NEW t \in Threads, CloseEnter(t)
    PROVE  IInv'
  <1> DEFINE p == IF once = "fresh" THEN "closeSource" ELSE "wait"
  <1> DEFINE r == [Idle EXCEPT !.pc = p]
  <1>1. r \in Thread /\ r.pc = p /\ r.late = FALSE
    BY DEF Idle, Thread
  <1>2. thread \in [Threads -> Thread] /\ thread' = [thread EXCEPT ![t] = r]
    BY DEF CloseEnter, IInv, TypeOK
  <1> HIDE DEF r
  <1>3. /\ thread' \in [Threads -> Thread] /\ thread'[t] = r
        /\ \A u \in Threads \ {t} : thread'[u] = thread[u]
    BY <1>1, <1>2, ThreadUpdate
  <1>4. TypeOK' /\ Selected' /\ Acquired' /\ LateOnlyAfterClose'
    BY <1>1, <1>3 DEF IInv, TypeOK, Selected, Acquired, LateOnlyAfterClose, CloseEnter
  <1>5. CASE once = "fresh"
    BY <1>1, <1>3, <1>4, <1>5 DEF IInv, OnceFresh, OnceRunning, CloseEnter
  <1>6. CASE once # "fresh"
    BY <1>1, <1>3, <1>4, <1>6 DEF IInv, OnceRunning, OnceDone, CloseEnter
  <1>7. QED
    BY <1>5, <1>6

\* Only the goroutine that runs the Once closes anything.
LEMMA Runner ==
    ASSUME IInv, NEW t \in Threads, thread[t].pc \in {"closeSource", "closeClient"}
    PROVE  boot = "ready" /\ once = "running" /\ OnceRunning
  <1>1. boot = "ready"
    BY Busy
  <1>2. QED
    BY <1>1 DEF IInv, TypeOK, OnceFresh, OnceDone

\* The closing body closes the source, once.
LEMMA CloseSourceStep ==
    ASSUME IInv, NEW t \in Threads, CloseSource(t)
    PROVE  IInv'
  <1> DEFINE r == [thread[t] EXCEPT !.pc = "closeClient"]
  <1>0. thread[t] \in Thread
    BY DEF IInv, TypeOK
  <1>1. /\ r \in Thread /\ r.pc = "closeClient"
        /\ r.late = thread[t].late /\ r.got = thread[t].got
    BY <1>0 DEF Thread
  <1>2. thread \in [Threads -> Thread] /\ thread' = [thread EXCEPT ![t] = r]
    BY DEF CloseSource, IInv, TypeOK
  <1> HIDE DEF r
  <1>3. /\ thread' \in [Threads -> Thread] /\ thread'[t] = r
        /\ \A u \in Threads \ {t} : thread'[u] = thread[u]
    BY <1>1, <1>2, ThreadUpdate
  <1>4. boot = "ready" /\ once = "running" /\ OnceRunning
    BY Runner DEF CloseSource
  <1>5. closes["source"] = 0 /\ closes'["source"] = 1 /\ closes'["client"] = closes["client"]
    BY <1>4 DEF OnceRunning, CloseSource, IInv, TypeOK
  <1>6. TypeOK'
    BY <1>3 DEF IInv, TypeOK, Resource, CloseSource
  <1>7. Selected' /\ Acquired' /\ LateOnlyAfterClose'
    BY <1>1, <1>3, <1>4, <1>5 DEF IInv, Selected, Acquired, LateOnlyAfterClose, CloseSource
  <1>8. OnceRunning'
    BY <1>1, <1>3, <1>4, <1>5 DEF OnceRunning, CloseSource
  <1>9. QED
    BY <1>4, <1>6, <1>7, <1>8 DEF IInv, CloseSource

\* The closing body closes the client, once, and leaves the result for all
\* callers.
LEMMA CloseClientStep ==
    ASSUME IInv, NEW t \in Threads, CloseClient(t)
    PROVE  IInv'
  <1> DEFINE r == [thread[t] EXCEPT !.pc = "closed", !.result = closeErr']
  <1>0. closeErr' \in {"nil", "error"} /\ thread[t] \in Thread
    BY DEF CloseClient, IInv, TypeOK
  <1>1. /\ r \in Thread /\ r.pc = "closed" /\ r.result = closeErr'
        /\ r.late = thread[t].late /\ r.got = thread[t].got
    BY <1>0 DEF Thread
  <1>2. thread \in [Threads -> Thread] /\ thread' = [thread EXCEPT ![t] = r]
    BY DEF CloseClient, IInv, TypeOK
  <1> HIDE DEF r
  <1>3. /\ thread' \in [Threads -> Thread] /\ thread'[t] = r
        /\ \A u \in Threads \ {t} : thread'[u] = thread[u]
    BY <1>1, <1>2, ThreadUpdate
  <1>4. boot = "ready" /\ once = "running" /\ OnceRunning
    BY Runner DEF CloseClient
  <1>5. closes'["source"] = 1 /\ closes'["client"] = 1 /\ source = "closed"
    BY <1>4 DEF OnceRunning, CloseClient, IInv, TypeOK
  <1>6. TypeOK'
    BY <1>0, <1>3 DEF IInv, TypeOK, Resource, CloseClient
  <1>7. Selected' /\ Acquired' /\ LateOnlyAfterClose'
    BY <1>1, <1>3, <1>4, <1>5 DEF IInv, Selected, Acquired, LateOnlyAfterClose, CloseClient
  <1>8. OnceDone'
    BY <1>1, <1>3, <1>4, <1>5 DEF OnceRunning, OnceDone, CloseClient
  <1>9. QED
    BY <1>4, <1>6, <1>7, <1>8 DEF IInv, CloseClient

\* A caller that waited returns when the closing body has ended, with its
\* result.
LEMMA CloseWaitStep ==
    ASSUME IInv, NEW t \in Threads, CloseWait(t)
    PROVE  IInv'
  <1> DEFINE r == [thread[t] EXCEPT !.pc = "closed", !.result = closeErr]
  <1>0. closeErr \in {"nil", "error"} /\ thread[t] \in Thread
    BY DEF IInv, TypeOK
  <1>1. /\ r \in Thread /\ r.pc = "closed" /\ r.result = closeErr
        /\ r.late = thread[t].late /\ r.got = thread[t].got
    BY <1>0 DEF Thread
  <1>2. thread \in [Threads -> Thread] /\ thread' = [thread EXCEPT ![t] = r]
    BY DEF CloseWait, IInv, TypeOK
  <1> HIDE DEF r
  <1>3. /\ thread' \in [Threads -> Thread] /\ thread'[t] = r
        /\ \A u \in Threads \ {t} : thread'[u] = thread[u]
    BY <1>1, <1>2, ThreadUpdate
  <1>4. boot = "ready" /\ OnceDone
    BY Busy DEF CloseWait, IInv
  <1>5. TypeOK' /\ Selected' /\ Acquired' /\ LateOnlyAfterClose'
    BY <1>1, <1>3, <1>4 DEF IInv, TypeOK, Selected, Acquired, LateOnlyAfterClose, CloseWait
  <1>6. OnceDone'
    BY <1>1, <1>3, <1>4 DEF OnceDone, CloseWait
  <1>7. QED
    BY <1>4, <1>5, <1>6 DEF IInv, CloseWait

-----------------------------------------------------------------------------
(* The theorems *)

\* Nothing is acquired at first.
LEMMA Start ==
    Init => IInv
  <1>1. Idle \in Thread /\ Idle.late = FALSE
    BY DEF Idle, Thread
  <1>2. QED
    BY <1>1 DEF Init, IInv, TypeOK, Selected, Acquired, LateOnlyAfterClose, Resource, Issuable

\* The inductive invariant holds throughout: New acquires and gives back its
\* resources in order, sync.Once runs the closing body once, and only the
\* expected SVID is ever selected.
THEOREM ProviderInvariance ==
    Spec => []IInv
  <1>1. Init => IInv
    BY Start
  <1>2. IInv /\ [Next]_vars => IInv'
    <2> SUFFICES ASSUME IInv, [Next]_vars PROVE IInv'
      OBVIOUS
    <2>1. CASE Issue \/ Connect \/ FetchExpected \/ NewX509Source \/ TakeSource \/ Rotate
      BY <2>1, BootSteps
    <2>2. ASSUME NEW t \in Threads, NEW peer \in IDs, Handshake(t, peer) PROVE IInv'
      BY <2>2, HandshakeStep
    <2>3. ASSUME NEW t \in Threads, FetchBegin(t) \/ FetchReturns(t) \/ FetchFails(t)
          PROVE  IInv'
      BY <2>3, FetchBeginStep, FetchReturnsStep, FetchFailsStep
    <2>4. ASSUME NEW t \in Threads,
                 CloseEnter(t) \/ CloseSource(t) \/ CloseClient(t) \/ CloseWait(t)
          PROVE  IInv'
      BY <2>4, CloseEnterStep, CloseSourceStep, CloseClientStep, CloseWaitStep
    <2>5. CASE UNCHANGED vars
      BY <2>5 DEF vars, IInv, TypeOK, Selected, Acquired, OnceFresh, OnceRunning, OnceDone,
                  LateOnlyAfterClose
    <2>6. QED
      BY <2>1, <2>2, <2>3, <2>4, <2>5 DEF Next
  <1>3. QED
    BY <1>1, <1>2, PTL DEF Spec

\* The workload presents, and obtains JWT-SVIDs for, the configured SPIFFE ID
\* only, whatever the agent issues and whenever the watch delivers it
\* (selectExpectedX509, selectExpectedJWT).
THEOREM ProviderIdentity ==
    Spec => []OnlyExpectedIdentity
  <1>1. IInv => OnlyExpectedIdentity
    BY DEF IInv, Selected, OnlyExpectedIdentity
  <1>2. QED
    BY <1>1, ProviderInvariance, PTL

\* A failed New or X509Source leaves nothing open; a ready provider has both
\* resources until somebody closes it (the error paths of New).
THEOREM ProviderLeakFree ==
    Spec => []NothingLeaks
  <1>1. IInv => NothingLeaks
    BY DEF IInv, Acquired, OnceFresh, NothingLeaks
  <1>2. QED
    BY <1>1, ProviderInvariance, PTL

\* Any number of concurrent callers of Close: each returns only when both
\* resources have been closed, each of them exactly once, and all are told the
\* same result; no later operation obtains an identity (Provider.Close).
THEOREM ProviderClose ==
    Spec => []CloseMeansClosed
  <1>1. IInv => CloseMeansClosed
    <2> SUFFICES ASSUME IInv PROVE CloseMeansClosed
      OBVIOUS
    <2>1. ASSUME NEW t \in Threads, thread[t].pc = "closed"
          PROVE  OnceDone
      BY <2>1, Busy DEF IInv, TypeOK, OnceFresh, OnceRunning
    <2>2. QED
      BY <2>1 DEF IInv, Acquired, LateOnlyAfterClose, OnceDone, CloseMeansClosed
  <1>2. QED
    BY <1>1, ProviderInvariance, PTL

=============================================================================
