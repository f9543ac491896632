--------------------------- MODULE CallChainProofs ---------------------------
(***************************************************************************)
(* Proofs about CallChain, for any number of concurrent transactions in    *)
(* any of the runner's modes.                                              *)
(***************************************************************************)
EXTENDS CallChain, TLAPS

-----------------------------------------------------------------------------
(* The inductive invariant *)

Denial(t) == [txn |-> t, at |-> "gateway", type |-> "denied"]

InBoth(e) == e \in stdout /\ e \in Collected

\* In which sinks the event of a write is, by how far the write has come.
Placed(t, w) ==
    LET e == write[t][w].event
        s == write[t][w].step
    IN  /\ s = "stdout" => e \notin stdout
        /\ s = "post"   => e \in stdout /\ e \notin inflight /\ e \notin Collected
        /\ s = "posted" => e \in stdout
        /\ s = "ok"     => InBoth(e)

\* Which events a workload writes, and what is recorded before it does.
Writes(t) ==
    /\ write[t]["agent"].step # "none" => write[t]["agent"].event = Rung(t, 1)
    /\ write[t]["gateway"].step # "none" =>
          /\ write[t]["gateway"].event \in {Rung(t, 2), Rung(t, 3), Denial(t)}
          /\ Recorded(t, 1)
          /\ write[t]["gateway"].event # Rung(t, 2) => Recorded(t, 2)
    /\ write[t]["server"].step # "none" =>
          write[t]["server"].event = Rung(t, 4) /\ Recorded(t, 3)
    /\ write[t]["api"].step # "none" =>
          write[t]["api"].event = Rung(t, 5) /\ Recorded(t, 4)

\* An event on standard output is the workload's current one, or the gateway's
\* first when it has gone on to its second.
Written(e) ==
    /\ write[e.txn][e.at].step # "none"
    /\ \/ e = write[e.txn][e.at].event
       \/ e = Rung(e.txn, 2) /\ e \in Collected

Sinks ==
    /\ inflight \subseteq stdout
    /\ Collected \subseteq stdout
    /\ inflight \cap Collected = {}
    /\ \A t \in Txns : \A i \in DOMAIN collector[t] : collector[t][i].txn = t
    /\ \A e \in stdout : Written(e)
    /\ \A t \in Txns : Writes(t) /\ \A w \in Workloads : Placed(t, w)

Ordered ==
    \A t \in Txns : \A i, j \in DOMAIN collector[t] : \A m, n \in 1..Len(Ladder) :
        collector[t][i] = Rung(t, m) /\ collector[t][j] = Rung(t, n) /\ i < j => m < n

\* Where the runner's call has got to.
AgentControl(t) ==
    /\ agent[t].pc \in {"idle", "exchange", "verify"} => write[t]["agent"].step = "none"
    /\ agent[t].pc = "audit" => write[t]["agent"].step # "none"
    /\ agent[t].pc \in {"idle", "exchange", "verify", "audit"} =>
          hop[t]["gateway"].pc = "idle" /\ hop[t]["api"].pc = "idle"
    /\ agent[t].pc = "completed" => WriteOK(t, "server")

GatewayControl(t) ==
    LET g == hop[t]["gateway"] IN
    /\ g.pc # "idle" => WriteOK(t, "agent") /\ agent[t].mode # "direct-to-api" /\ g.raw = t
    /\ g.pc \in {"idle", "verify"} => write[t]["gateway"].step = "none"
    /\ g.pc = "audited"  => write[t]["gateway"].step # "none" /\ write[t]["gateway"].event = Rung(t, 2)
    /\ g.pc = "denying"  => write[t]["gateway"].step # "none" /\ write[t]["gateway"].event = Denial(t)
    /\ g.pc = "allowing" => write[t]["gateway"].step # "none" /\ write[t]["gateway"].event = Rung(t, 3)
    /\ g.pc = "waiting"  => WriteOK(t, "gateway") /\ write[t]["gateway"].event = Rung(t, 3)
    /\ g.status = 200    => WriteOK(t, "server")

ServerControl(t) ==
    LET s == hop[t]["server"] IN
    /\ s.pc # "idle" =>
          /\ hop[t]["gateway"].pc \in {"waiting", "replied"}
          /\ WriteOK(t, "gateway") /\ write[t]["gateway"].event = Rung(t, 3)
          /\ s.raw = t
    /\ s.pc \in {"idle", "verify"} => write[t]["server"].step = "none"
    /\ s.pc = "audited" => write[t]["server"].step # "none"
    /\ s.pc = "waiting" => WriteOK(t, "server")
    /\ s.status = 200   => WriteOK(t, "server")
    /\ s.result = "output" => WriteOK(t, "api")

APIControl(t) ==
    LET a == hop[t]["api"] IN
    /\ a.pc # "idle" =>
          /\ a.raw = t
          /\ \/ a.caller = "agent" /\ agent[t].mode = "direct-to-api"
             \/ a.caller = "server"
    /\ a.caller = "server" =>
          hop[t]["server"].pc \in {"waiting", "replied"} /\ WriteOK(t, "server")
    /\ a.pc \in {"idle", "verify"} => write[t]["api"].step = "none"
    /\ a.pc = "audited" => write[t]["api"].step # "none" /\ a.caller = "server"
    /\ a.status = 200 => WriteOK(t, "api") /\ a.caller = "server"

\* The token of a call, and what an answer names.
Token(t) == \A w \in Services :
    hop[t][w].raw \in {None, t} /\ (hop[t][w].result \in Txns => hop[t][w].result = t)

Control(t) ==
    AgentControl(t) /\ GatewayControl(t) /\ ServerControl(t) /\ APIControl(t) /\ Token(t)

IInv == TypeOK /\ Sinks /\ Ordered /\ \A t \in Txns : Control(t)

-----------------------------------------------------------------------------
(* The ladder *)

\* The five events of a transaction, in the order of the hops.
LEMMA Rungs ==
    ASSUME NEW t
    PROVE  /\ Rung(t, 1) = [txn |-> t, at |-> "agent", type |-> "exchange"]
           /\ Rung(t, 2) = [txn |-> t, at |-> "gateway", type |-> "verify"]
           /\ Rung(t, 3) = [txn |-> t, at |-> "gateway", type |-> "allowed"]
           /\ Rung(t, 4) = [txn |-> t, at |-> "server", type |-> "verify"]
           /\ Rung(t, 5) = [txn |-> t, at |-> "api", type |-> "verify"]
           /\ Len(Ladder) = 5
  BY DEF Rung, Ladder

\* Where the events of a transaction come from, and that they differ.
LEMMA RungFields ==
    ASSUME NEW t \in Txns
    PROVE  /\ \A n \in 1..5 : Rung(t, n) \in Event /\ Rung(t, n).txn = t
           /\ Denial(t) \in Event /\ Denial(t).txn = t /\ Denial(t).at = "gateway"
           /\ Rung(t, 1).at = "agent" /\ Rung(t, 2).at = "gateway"
           /\ Rung(t, 3).at = "gateway" /\ Rung(t, 4).at = "server"
           /\ Rung(t, 5).at = "api"
           /\ Rung(t, 2) # Rung(t, 3) /\ Rung(t, 2) # Denial(t) /\ Rung(t, 3) # Denial(t)
           /\ \A n \in 1..5 : Rung(t, n) # Denial(t)
  <1>1. \A n \in 1..5 : n \in {1, 2, 3, 4, 5}
    OBVIOUS
  <1>2. Rung(t, 2).type = "verify" /\ Rung(t, 3).type = "allowed" /\ Denial(t).type = "denied"
    BY Rungs DEF Denial
  <1>3. QED
    BY <1>1, <1>2, Rungs DEF Denial, Event, Workloads, Services

\* One rung more is recorded when its event is in both sinks.
LEMMA RecordedStep ==
    ASSUME NEW t \in Txns, NEW n \in 0..4
    PROVE  Recorded(t, n + 1) <=> Recorded(t, n) /\ InBoth(Rung(t, n + 1))
  BY DEF Recorded, InBoth

\* What is recorded up to each of the five rungs.
LEMMA RecordedSteps ==
    ASSUME NEW t \in Txns
    PROVE  /\ Recorded(t, 1) <=> InBoth(Rung(t, 1))
           /\ Recorded(t, 2) <=> Recorded(t, 1) /\ InBoth(Rung(t, 2))
           /\ Recorded(t, 3) <=> Recorded(t, 2) /\ InBoth(Rung(t, 3))
           /\ Recorded(t, 4) <=> Recorded(t, 3) /\ InBoth(Rung(t, 4))
           /\ Recorded(t, 5) <=> Recorded(t, 4) /\ InBoth(Rung(t, 5))
  BY DEF Recorded, InBoth

\* What is recorded up to a rung is recorded at every rung below it.
LEMMA RecordedBelow ==
    ASSUME NEW t \in Txns, NEW m \in 0..5, NEW n \in 1..m, Recorded(t, m)
    PROVE  InBoth(Rung(t, n))
  BY DEF Recorded, InBoth

\* What is recorded stays recorded while the sinks grow.
LEMMA RecordedGrows ==
    ASSUME stdout \subseteq stdout', Collected \subseteq Collected'
    PROVE  /\ \A e : InBoth(e) => InBoth(e)'
           /\ \A t \in Txns : \A n \in 0..5 : Recorded(t, n) => Recorded(t, n)'
  BY DEF Recorded, InBoth

\* The collector has an event when it is in some transaction's sequence.
LEMMA CollectedMember ==
    ASSUME NEW x
    PROVE  x \in Collected <=> \E t \in Txns : \E i \in DOMAIN collector[t] : x = collector[t][i]
  BY DEF Collected

-----------------------------------------------------------------------------
(* The updates *)

\* One service's request is replaced: all others stay.
LEMMA HopUpdate ==
    ASSUME hop \in [Txns -> [Services -> Request]], NEW t \in Txns, NEW w \in Services,
           NEW r \in Request, hop' = [hop EXCEPT ![t][w] = r]
    PROVE  /\ hop' \in [Txns -> [Services -> Request]]
           /\ hop'[t][w] = r
           /\ \A v \in Services \ {w} : hop'[t][v] = hop[t][v]
           /\ \A u \in Txns \ {t} : hop'[u] = hop[u]
  OBVIOUS

\* One workload's write is replaced: all others stay.
LEMMA WriteUpdate ==
    ASSUME write \in [Txns -> [Workloads -> Writing]], NEW t \in Txns, NEW w \in Workloads,
           NEW r \in Writing, write' = [write EXCEPT ![t][w] = r]
    PROVE  /\ write' \in [Txns -> [Workloads -> Writing]]
           /\ write'[t][w] = r
           /\ \A v \in Workloads \ {w} : write'[t][v] = write[t][v]
           /\ \A u \in Txns \ {t} : write'[u] = write[u]
  OBVIOUS

\* The runner goes to another step of one transaction.
LEMMA AgentUpdate ==
    ASSUME TypeOK, NEW t \in Txns, NEW step \in AgentSteps, AgentGoto(t, step)
    PROVE  /\ agent' \in [Txns -> [pc : AgentSteps, mode : AllModes, tool : AllTools]]
           /\ agent'[t].pc = step /\ agent'[t].mode = agent[t].mode
           /\ \A u \in Txns \ {t} : agent'[u] = agent[u]
  BY DEF TypeOK, AgentGoto

\* A reply keeps the caller and the token of the request it answers.
LEMMA ReplyUpdate ==
    ASSUME TypeOK, NEW t \in Txns, NEW w \in Services,
           NEW status \in Statuses, NEW result \in Results,
           Reply(t, w, status, result)
    PROVE  /\ hop' \in [Txns -> [Services -> Request]]
           /\ hop'[t][w].pc = "replied"
           /\ hop'[t][w].status = status /\ hop'[t][w].result = result
           /\ hop'[t][w].raw = hop[t][w].raw /\ hop'[t][w].caller = hop[t][w].caller
           /\ \A v \in Services \ {w} : hop'[t][v] = hop[t][v]
           /\ \A u \in Txns \ {t} : hop'[u] = hop[u]
  <1> DEFINE r == [hop[t][w] EXCEPT !.pc = "replied", !.status = status, !.result = result]
  <1>1. hop[t][w] \in Request /\ "replied" \in HopSteps
    BY DEF TypeOK, HopSteps
  <1>2. /\ r \in Request /\ r.pc = "replied" /\ r.status = status /\ r.result = result
        /\ r.raw = hop[t][w].raw /\ r.caller = hop[t][w].caller
    BY <1>1 DEF Request
  <1>3. hop' = [hop EXCEPT ![t][w] = r]
    BY DEF Reply
  <1> HIDE DEF r
  <1>4. hop \in [Txns -> [Services -> Request]]
    BY DEF TypeOK
  <1>5. QED
    BY <1>2, <1>3, <1>4, HopUpdate

\* A service goes to another step: the request it serves stays.
LEMMA PcUpdate ==
    ASSUME TypeOK, NEW t \in Txns, NEW w \in Services, NEW pc \in HopSteps,
           HopGoto(t, w, pc)
    PROVE  /\ hop' \in [Txns -> [Services -> Request]]
           /\ hop'[t][w].pc = pc
           /\ hop'[t][w].raw = hop[t][w].raw /\ hop'[t][w].caller = hop[t][w].caller
           /\ hop'[t][w].status = hop[t][w].status /\ hop'[t][w].result = hop[t][w].result
           /\ \A v \in Services \ {w} : hop'[t][v] = hop[t][v]
           /\ \A u \in Txns \ {t} : hop'[u] = hop[u]
  <1> DEFINE r == [hop[t][w] EXCEPT !.pc = pc]
  <1>1. hop[t][w] \in Request /\ hop \in [Txns -> [Services -> Request]]
    BY DEF TypeOK
  <1>2. /\ r \in Request /\ r.pc = pc /\ r.raw = hop[t][w].raw /\ r.caller = hop[t][w].caller
        /\ r.status = hop[t][w].status /\ r.result = hop[t][w].result
    BY <1>1 DEF Request
  <1>3. hop' = [hop EXCEPT ![t][w] = r]
    BY DEF HopGoto
  <1> HIDE DEF r
  <1>4. QED
    BY <1>1, <1>2, <1>3, HopUpdate

\* A request that has just been delivered is typed and unanswered.
LEMMA ReceivedFields ==
    ASSUME NEW from \in Workloads, NEW raw \in Txns \cup {None},
           NEW name \in AllTools \cup {None}, NEW tool \in AllTools \cup {None}
    PROVE  LET q == Received(from, raw, name, tool)
           IN  /\ q \in Request /\ q.pc = "verify" /\ q.caller = from /\ q.raw = raw
               /\ q.status = 0 /\ q.result = "none"
  <1>1. /\ "verify" \in HopSteps /\ 0 \in Statuses /\ "none" \in Results
        /\ from \in Workloads \cup {None}
    BY DEF HopSteps, Statuses, Results
  <1>2. QED
    BY <1>1 DEF Received, NoRequest, Request

CalledOn(t, from, to, raw) ==
    /\ hop' \in [Txns -> [Services -> Request]]
    /\ hop'[t][from].pc = "waiting"
    /\ hop'[t][from].raw = hop[t][from].raw /\ hop'[t][from].caller = hop[t][from].caller
    /\ hop'[t][from].status = hop[t][from].status
    /\ hop'[t][from].result = hop[t][from].result
    /\ hop'[t][to].pc = "verify" /\ hop'[t][to].raw = raw
    /\ hop'[t][to].caller = from
    /\ hop'[t][to].status = 0 /\ hop'[t][to].result = "none"
    /\ \A v \in Services \ {from, to} : hop'[t][v] = hop[t][v]
    /\ \A u \in Txns \ {t} : hop'[u] = hop[u]

\* A call onward parks the caller and delivers the callee's request.
LEMMA CallOnUpdate ==
    ASSUME TypeOK, NEW t \in Txns, NEW from \in Services, NEW to \in Services, from # to,
           NEW raw \in Txns \cup {None}, NEW name \in AllTools \cup {None},
           NEW tool \in AllTools \cup {None}, CallOn(t, from, to, raw, name, tool)
    PROVE  CalledOn(t, from, to, raw)
  <1> DEFINE f == [hop[t][from] EXCEPT !.pc = "waiting"]
             q == Received(from, raw, name, tool)
  <1>1. hop[t][from] \in Request /\ "waiting" \in HopSteps
    BY DEF TypeOK, HopSteps
  <1>2. /\ f \in Request /\ f.pc = "waiting" /\ f.raw = hop[t][from].raw
        /\ f.caller = hop[t][from].caller /\ f.status = hop[t][from].status
        /\ f.result = hop[t][from].result
    BY <1>1 DEF Request
  <1>0. from \in Workloads
    BY DEF Workloads
  <1>3. /\ q \in Request /\ q.pc = "verify" /\ q.caller = from /\ q.raw = raw
        /\ q.status = 0 /\ q.result = "none"
    BY <1>0, ReceivedFields
  <1>4. hop' = [hop EXCEPT ![t][from] = f, ![t][to] = q]
    BY DEF CallOn
  <1> HIDE DEF f, q
  <1>5. QED
    BY <1>2, <1>3, <1>4 DEF TypeOK, CalledOn

\* A write goes to another step: its event stays.
LEMMA SetWriteUpdate ==
    ASSUME TypeOK, NEW t \in Txns, NEW w \in Workloads, NEW step \in WriteSteps,
           SetWrite(t, w, step)
    PROVE  /\ write' \in [Txns -> [Workloads -> Writing]]
           /\ write'[t][w].step = step /\ write'[t][w].event = write[t][w].event
           /\ \A v \in Workloads \ {w} : write'[t][v] = write[t][v]
           /\ \A u \in Txns \ {t} : write'[u] = write[u]
  <1> DEFINE r == [write[t][w] EXCEPT !.step = step]
  <1>1. write[t][w] \in Writing
    BY DEF TypeOK
  <1>2. r \in Writing /\ r.step = step /\ r.event = write[t][w].event
    BY <1>1 DEF Writing
  <1>3. write' = [write EXCEPT ![t][w] = r] /\ write \in [Txns -> [Workloads -> Writing]]
    BY DEF SetWrite, TypeOK
  <1> HIDE DEF r
  <1>4. QED
    BY <1>2, <1>3, WriteUpdate

\* A write begins with standard output.
LEMMA StartWriteUpdate ==
    ASSUME TypeOK, NEW t \in Txns, NEW w \in Workloads, NEW event \in Event,
           StartWrite(t, w, event)
    PROVE  /\ write' \in [Txns -> [Workloads -> Writing]]
           /\ write'[t][w].step = "stdout" /\ write'[t][w].event = event
           /\ \A v \in Workloads \ {w} : write'[t][v] = write[t][v]
           /\ \A u \in Txns \ {t} : write'[u] = write[u]
  <1> DEFINE r == [step |-> "stdout", event |-> event]
  <1>1. r \in Writing /\ r.step = "stdout" /\ r.event = event
    BY DEF Writing, WriteSteps
  <1>2. write' = [write EXCEPT ![t][w] = r] /\ write \in [Txns -> [Workloads -> Writing]]
    BY DEF StartWrite, TypeOK
  <1> HIDE DEF r
  <1>3. QED
    BY <1>1, <1>2, WriteUpdate

-----------------------------------------------------------------------------
(* What a step leaves alone *)

\* Control looks at a write only for its event and for whether it has begun
\* or succeeded.
LEMMA ControlFrame ==
    ASSUME NEW u \in Txns, Control(u), agent'[u] = agent[u], hop'[u] = hop[u],
           \A w \in Workloads :
              /\ write'[u][w].event = write[u][w].event
              /\ write[u][w].step = "none" <=> write'[u][w].step = "none"
              /\ write[u][w].step = "ok" => write'[u][w].step = "ok"
    PROVE  Control(u)'
  <1>1. {"agent", "gateway", "server", "api"} \subseteq Workloads
    BY DEF Workloads, Services
  <1>2. AgentControl(u)' /\ GatewayControl(u)'
    BY <1>1 DEF Control, AgentControl, GatewayControl, WriteOK, Rung, Denial
  <1>3. ServerControl(u)' /\ APIControl(u)' /\ Token(u)'
    BY <1>1 DEF Control, ServerControl, APIControl, Token, WriteOK, Rung
  <1>4. QED
    BY <1>2, <1>3 DEF Control

\* The sinks stay in order when neither they nor the writes change.
LEMMA SinksFrame ==
    ASSUME Sinks, Ordered, UNCHANGED <<write, auditState>>
    PROVE  Sinks' /\ Ordered'
  <1>1. Collected' = Collected
    BY DEF Collected, auditState
  <1>2. \A e : InBoth(e)' <=> InBoth(e)
    BY <1>1 DEF InBoth, auditState
  <1>3. \A t, n : Recorded(t, n)' <=> Recorded(t, n)
    BY <1>1 DEF Recorded, auditState, Rung
  <1>4. \A t, w : Placed(t, w) <=> Placed(t, w)'
    BY <1>1, <1>2 DEF Placed, auditState
  <1>5. \A t : Writes(t) <=> Writes(t)'
    BY <1>3 DEF Writes
  <1>6. \A e : Written(e) <=> Written(e)'
    BY <1>1 DEF Written
  <1>7. Sinks'
    BY <1>1, <1>4, <1>5, <1>6 DEF Sinks, auditState
  <1>8. Ordered'
    BY DEF Ordered, auditState
  <1>9. QED
    BY <1>7, <1>8

\* A step of one transaction that writes nothing.
LEMMA QuietStep ==
    ASSUME IInv, NEW t \in Txns, UNCHANGED <<write, auditState>>, TypeOK',
           \A u \in Txns \ {t} : agent'[u] = agent[u] /\ hop'[u] = hop[u],
           Control(t)'
    PROVE  IInv'
  <1>1. ASSUME NEW u \in Txns \ {t} PROVE Control(u)'
    BY <1>1, ControlFrame DEF IInv
  <1>2. Sinks' /\ Ordered'
    BY SinksFrame DEF IInv
  <1>3. QED
    BY <1>1, <1>2 DEF IInv

-----------------------------------------------------------------------------
(* The audit writes *)

\* The event of a write names the transaction and the workload it is for.
LEMMA EventNames ==
    ASSUME IInv, NEW t \in Txns, NEW w \in Workloads, write[t][w].step # "none"
    PROVE  /\ write[t][w].event \in Event
           /\ write[t][w].event.txn = t /\ write[t][w].event.at = w
  BY RungFields DEF IInv, Sinks, Writes, Workloads, Services

\* An event is on standard output only when all earlier ones are recorded.
LEMMA StdoutChain ==
    ASSUME IInv, NEW t \in Txns, NEW n \in 1..5, Rung(t, n) \in stdout
    PROVE  Recorded(t, n - 1)
  <1>0. Writes(t) /\ Written(Rung(t, n)) /\ n \in {1, 2, 3, 4, 5}
    BY DEF IInv, Sinks
  <1>1. CASE n = 1
    BY <1>1 DEF Recorded
  <1>2. CASE n = 2
    BY <1>0, <1>2, RungFields DEF Written, Writes
  <1>3. CASE n = 3
    BY <1>0, <1>3, RungFields DEF Written, Writes
  <1>4. CASE n = 4
    BY <1>0, <1>4, RungFields DEF Written, Writes
  <1>5. CASE n = 5
    BY <1>0, <1>5, RungFields DEF Written, Writes
  <1>6. QED
    BY <1>0, <1>1, <1>2, <1>3, <1>4, <1>5

\* Writes go on, or stay as they are; none begins.
WritesGoOn ==
    \A u \in Txns : \A v \in Workloads :
        /\ write'[u][v].event = write[u][v].event
        /\ write[u][v].step = "none" <=> write'[u][v].step = "none"
        /\ write[u][v].step = "ok" => write'[u][v].step = "ok"

\* A write that is under way goes on without being taken back.
LEMMA GoOn ==
    ASSUME IInv, NEW t \in Txns, NEW w \in Workloads, NEW step \in WriteSteps \ {"none"},
           write[t][w].step \notin {"none", "ok"}, SetWrite(t, w, step)
    PROVE  WritesGoOn
  <1>1. SetWrite(t, w, step) /\ TypeOK /\ step \in WriteSteps
    BY DEF IInv
  <1>2. QED
    BY <1>1, SetWriteUpdate DEF WritesGoOn

\* While writes go on and the sinks grow, what has been written stays accounted
\* for, and control is not affected.
LEMMA GrowthFrame ==
    ASSUME IInv, WritesGoOn, stdout \subseteq stdout', Collected \subseteq Collected',
           UNCHANGED <<agent, hop>>
    PROVE  /\ \A u \in Txns : Control(u)' /\ Writes(u)'
           /\ \A e \in stdout : Written(e)'
  <1>1. {"agent", "gateway", "server", "api"} \subseteq Workloads
    BY DEF Workloads, Services
  <1>2. ASSUME NEW u \in Txns PROVE Control(u)'
    BY <1>2, ControlFrame DEF IInv, WritesGoOn
  <1>3. ASSUME NEW u \in Txns PROVE Writes(u)'
    <2>1. \A n \in {1, 2, 3, 4} : Recorded(u, n) => Recorded(u, n)'
      BY RecordedGrows
    <2>2. QED
      BY <1>1, <2>1 DEF IInv, Sinks, Writes, WritesGoOn
  <1>4. ASSUME NEW e \in stdout PROVE Written(e)'
    <2>1. e.txn \in Txns /\ e.at \in Workloads
      BY DEF IInv, TypeOK, Event
    <2>2. QED
      BY <2>1 DEF IInv, Sinks, Written, WritesGoOn
  <1>5. QED
    BY <1>2, <1>3, <1>4

\* JSONSink.Write adds the event of the write to standard output.
LEMMA WriteStdoutStep ==
    ASSUME IInv, NEW t \in Txns, NEW w \in Workloads, WriteStdout(t, w)
    PROVE  IInv'
  <1> DEFINE e == write[t][w].event
  <1>0. TypeOK /\ {"post", "failed"} \subseteq WriteSteps \ {"none"}
    BY DEF IInv, WriteSteps
  <1>1. e \in Event /\ e.txn = t /\ e.at = w /\ e \notin stdout
    BY EventNames DEF WriteStdout, IInv, Sinks, Placed
  <1>2. UNCHANGED <<agent, hop, inflight, collector>> /\ Collected' = Collected
    BY DEF WriteStdout, Collected
  <1>3. /\ WritesGoOn /\ write' \in [Txns -> [Workloads -> Writing]]
        /\ \A u \in Txns : \A v \in Workloads : u # t \/ v # w => write'[u][v] = write[u][v]
        /\ \/ stdout' = stdout \cup {e} /\ write'[t][w].step = "post"
           \/ stdout' = stdout /\ write'[t][w].step = "failed"
        /\ write'[t][w].event = e
    BY <1>0, GoOn, SetWriteUpdate DEF WriteStdout
  <1>4. stdout \subseteq stdout' /\ stdout' \subseteq stdout \cup {e}
    BY <1>3
  <1>5. TypeOK'
    BY <1>0, <1>1, <1>2, <1>3, <1>4 DEF TypeOK
  <1>6. /\ \A u \in Txns : Control(u)' /\ Writes(u)'
        /\ \A x \in stdout : Written(x)'
    BY <1>2, <1>3, <1>4, GrowthFrame
  <1>7. ASSUME NEW x \in stdout' PROVE Written(x)'
    <2>1. CASE x = e
      BY <1>1, <1>3, <2>1 DEF Written
    <2>2. CASE x # e
      BY <1>4, <1>6, <2>2
    <2>3. QED
      BY <2>1, <2>2
  <1>8. ASSUME NEW u \in Txns, NEW v \in Workloads PROVE Placed(u, v)'
    <2>1. CASE u = t /\ v = w
      BY <1>1, <1>2, <1>3, <2>1 DEF Placed, IInv, Sinks
    <2>2. CASE u # t \/ v # w
      <3>1. write'[u][v] = write[u][v] /\ Placed(u, v)
        BY <1>3, <2>2 DEF IInv, Sinks
      <3>2. write[u][v].step = "stdout" => write[u][v].event # e
        BY <1>1, <2>2, EventNames
      <3>3. QED
        BY <1>2, <1>4, <3>1, <3>2 DEF Placed, InBoth
    <2>3. QED
      BY <2>1, <2>2
  <1>9. Sinks'
    BY <1>2, <1>4, <1>6, <1>7, <1>8 DEF IInv, Sinks
  <1>10. Ordered'
    BY <1>2 DEF IInv, Ordered
  <1>11. QED
    BY <1>5, <1>6, <1>9, <1>10 DEF IInv

\* Remote.Write sends an event that is on standard output.
LEMMA PostStep ==
    ASSUME IInv, NEW t \in Txns, NEW w \in Workloads, Post(t, w)
    PROVE  IInv'
  <1> DEFINE e == write[t][w].event
  <1>0. TypeOK /\ "posted" \in WriteSteps \ {"none"}
    BY DEF IInv, WriteSteps
  <1>1. /\ e \in Event /\ e.txn = t /\ e.at = w
        /\ e \in stdout /\ e \notin inflight /\ e \notin Collected
    BY EventNames DEF Post, IInv, Sinks, Placed
  <1>2. UNCHANGED <<agent, hop, stdout, collector>> /\ Collected' = Collected
    BY DEF Post, Collected
  <1>3. /\ WritesGoOn /\ write' \in [Txns -> [Workloads -> Writing]]
        /\ \A u \in Txns : \A v \in Workloads : u # t \/ v # w => write'[u][v] = write[u][v]
        /\ inflight' = inflight \cup {e} /\ write'[t][w].step = "posted"
        /\ write'[t][w].event = e
    BY <1>0, GoOn, SetWriteUpdate DEF Post
  <1>4. TypeOK'
    BY <1>0, <1>1, <1>2, <1>3 DEF TypeOK
  <1>5. /\ \A u \in Txns : Control(u)' /\ Writes(u)'
        /\ \A x \in stdout : Written(x)'
    BY <1>2, <1>3, GrowthFrame
  <1>6. ASSUME NEW u \in Txns, NEW v \in Workloads PROVE Placed(u, v)'
    <2>1. CASE u = t /\ v = w
      BY <1>1, <1>2, <1>3, <2>1 DEF Placed
    <2>2. CASE u # t \/ v # w
      <3>1. write'[u][v] = write[u][v] /\ Placed(u, v)
        BY <1>3, <2>2 DEF IInv, Sinks
      <3>2. write[u][v].step = "post" => write[u][v].event # e
        BY <1>1, <2>2, EventNames
      <3>3. QED
        BY <1>2, <1>3, <3>1, <3>2 DEF Placed, InBoth
    <2>3. QED
      BY <2>1, <2>2
  <1>7. Sinks'
    BY <1>1, <1>2, <1>3, <1>5, <1>6 DEF IInv, Sinks
  <1>8. Ordered'
    BY <1>2 DEF IInv, Ordered
  <1>9. QED
    BY <1>4, <1>5, <1>7, <1>8 DEF IInv

\* Remote.Write returns: ok only if the collector has the event.
LEMMA AnswerStep ==
    ASSUME IInv, NEW t \in Txns, NEW w \in Workloads, Acknowledged(t, w) \/ PostFails(t, w)
    PROVE  IInv'
  <1> DEFINE e == write[t][w].event
  <1>0. TypeOK /\ {"ok", "failed"} \subseteq WriteSteps \ {"none"}
    BY DEF IInv, WriteSteps
  <1>1. e \in stdout
    BY DEF Acknowledged, PostFails, IInv, Sinks, Placed
  <1>2. UNCHANGED <<agent, hop, stdout, inflight, collector>> /\ Collected' = Collected
    BY DEF Acknowledged, PostFails, Collected
  <1>3. /\ WritesGoOn /\ write' \in [Txns -> [Workloads -> Writing]]
        /\ \A u \in Txns : \A v \in Workloads : u # t \/ v # w => write'[u][v] = write[u][v]
        /\ \/ write'[t][w].step = "ok" /\ e \in Collected
           \/ write'[t][w].step = "failed"
        /\ write'[t][w].event = e
    BY <1>0, GoOn, SetWriteUpdate DEF Acknowledged, PostFails
  <1>4. TypeOK'
    BY <1>0, <1>2, <1>3 DEF TypeOK
  <1>5. /\ \A u \in Txns : Control(u)' /\ Writes(u)'
        /\ \A x \in stdout : Written(x)'
    BY <1>2, <1>3, GrowthFrame
  <1>6. ASSUME NEW u \in Txns, NEW v \in Workloads PROVE Placed(u, v)'
    BY <1>1, <1>2, <1>3 DEF Placed, InBoth, IInv, Sinks
  <1>7. Sinks'
    BY <1>2, <1>5, <1>6 DEF IInv, Sinks
  <1>8. Ordered'
    BY <1>2 DEF IInv, Ordered
  <1>9. QED
    BY <1>4, <1>5, <1>7, <1>8 DEF IInv

-----------------------------------------------------------------------------
(* The collector *)

\* An event that never arrives, or that the collector refuses, changes nothing
\* that is recorded.
LEMMA CollectorMissesStep ==
    ASSUME IInv, NEW e \in inflight, CollectorMisses(e)
    PROVE  IInv'
  <1>1. /\ UNCHANGED <<agent, hop, write, stdout, collector>> /\ Collected' = Collected
        /\ inflight' \subseteq inflight
    BY DEF CollectorMisses, Collected
  <1>2. WritesGoOn
    BY <1>1 DEF WritesGoOn
  <1>3. /\ \A u \in Txns : Control(u)' /\ Writes(u)'
        /\ \A x \in stdout : Written(x)'
    BY <1>1, <1>2, GrowthFrame
  <1>4. \A u \in Txns : \A v \in Workloads : Placed(u, v)'
    BY <1>1 DEF IInv, Sinks, Placed, InBoth
  <1>5. TypeOK' /\ Ordered'
    BY <1>1 DEF IInv, TypeOK, Ordered
  <1>6. Sinks'
    BY <1>1, <1>3, <1>4 DEF IInv, Sinks
  <1>7. QED
    BY <1>3, <1>5, <1>6 DEF IInv

\* The event that arrives belongs behind those already there: had a later one
\* been stored, this one would have been, before it.
LEMMA CollectorStoresStep ==
    ASSUME IInv, NEW e \in inflight, CollectorStores(e)
    PROVE  IInv'
  <1> DEFINE t == e.txn
             L == Len(collector[t])
  <1>1. /\ e \in Event /\ t \in Txns /\ e \in stdout /\ e \notin Collected
        /\ collector \in [Txns -> Seq(Event)]
    BY DEF IInv, TypeOK, Sinks, Event
  <1>2. /\ UNCHANGED <<agent, hop, write, stdout>>
        /\ inflight' = inflight \ {e}
        /\ collector' = [collector EXCEPT ![t] = Append(collector[t], e)]
    BY DEF CollectorStores
  <1>3. /\ collector' \in [Txns -> Seq(Event)]
        /\ DOMAIN collector'[t] = 1..(L + 1) /\ DOMAIN collector[t] = 1..L /\ L \in Nat
        /\ collector'[t][L + 1] = e
        /\ \A i \in 1..L : collector'[t][i] = collector[t][i]
        /\ \A u \in Txns \ {t} : collector'[u] = collector[u]
    BY <1>1, <1>2
  <1> HIDE DEF L
  <1>4. Collected' = Collected \cup {e}
    <2>1. ASSUME NEW x \in Collected' PROVE x \in Collected \cup {e}
      <3>1. PICK u \in Txns : \E i \in DOMAIN collector'[u] : x = collector'[u][i]
        BY <2>1 DEF Collected
      <3>2. PICK i \in DOMAIN collector'[u] : x = collector'[u][i]
        BY <3>1
      <3>3. CASE u = t /\ i = L + 1
        BY <1>3, <3>2, <3>3
      <3>4. CASE u = t /\ i # L + 1
        BY <1>1, <1>3, <3>2, <3>4, CollectedMember
      <3>5. CASE u # t
        BY <1>3, <3>2, <3>5, CollectedMember
      <3>6. QED
        BY <3>3, <3>4, <3>5
    <2>2. ASSUME NEW x \in Collected PROVE x \in Collected'
      <3>1. PICK u \in Txns : \E i \in DOMAIN collector[u] : x = collector[u][i]
        BY <2>2, CollectedMember
      <3>2. PICK i \in DOMAIN collector[u] : x = collector[u][i]
        BY <3>1
      <3>3. CASE u = t
        <4>1. i \in 1..L /\ i \in 1..(L + 1)
          BY <1>3, <3>2, <3>3
        <4>2. i \in DOMAIN collector'[u] /\ x = collector'[u][i]
          BY <1>3, <3>2, <3>3, <4>1
        <4>3. QED
          BY <4>2 DEF Collected
      <3>4. CASE u # t
        <4>1. i \in DOMAIN collector'[u] /\ x = collector'[u][i]
          BY <1>3, <3>2, <3>4
        <4>2. QED
          BY <4>1 DEF Collected
      <3>5. QED
        BY <3>3, <3>4
    <2>3. e \in Collected'
      <3>1. L + 1 \in DOMAIN collector'[t] /\ e = collector'[t][L + 1]
        BY <1>3
      <3>2. QED
        BY <1>1, <3>1 DEF Collected
    <2>4. QED
      BY <2>1, <2>2, <2>3
  <1>5. WritesGoOn
    BY <1>2 DEF WritesGoOn
  <1>6. /\ \A u \in Txns : Control(u)' /\ Writes(u)'
        /\ \A x \in stdout : Written(x)'
    BY <1>2, <1>4, <1>5, GrowthFrame
  <1>7. \A u \in Txns : \A v \in Workloads : Placed(u, v)'
    BY <1>2, <1>4 DEF IInv, Sinks, Placed, InBoth
  <1>8. TypeOK'
    BY <1>2, <1>3 DEF IInv, TypeOK
  <1>9. \A u \in Txns : \A i \in DOMAIN collector'[u] : collector'[u][i].txn = u
    <2>1. ASSUME NEW u \in Txns, NEW i \in DOMAIN collector'[u]
          PROVE  collector'[u][i].txn = u
      <3>1. CASE u = t /\ i = L + 1
        BY <1>3, <3>1
      <3>2. CASE u # t \/ i # L + 1
        BY <1>3, <3>2 DEF IInv, Sinks
      <3>3. QED
        BY <3>1, <3>2
    <2>2. QED
      BY <2>1
  <1>10. Sinks'
    BY <1>1, <1>2, <1>4, <1>6, <1>7, <1>9 DEF IInv, Sinks
  <1>11. Ordered'
    <2> SUFFICES ASSUME NEW u \in Txns, NEW i \in DOMAIN collector'[u],
                        NEW j \in DOMAIN collector'[u], NEW m \in 1..5, NEW n \in 1..5,
                        collector'[u][i] = Rung(u, m), collector'[u][j] = Rung(u, n), i < j
                 PROVE  m < n
      BY Rungs DEF Ordered
    <2>1. CASE u # t \/ j # L + 1
      <3>1. /\ i \in DOMAIN collector[u] /\ collector[u][i] = Rung(u, m)
            /\ j \in DOMAIN collector[u] /\ collector[u][j] = Rung(u, n)
        <4>1. CASE u # t
          BY <1>3, <4>1
        <4>2. CASE u = t
          <5>1. i \in 1..L /\ j \in 1..L
            BY <1>3, <2>1, <4>2
          <5>2. QED
            BY <1>3, <4>2, <5>1
        <4>3. QED
          BY <4>1, <4>2
      <3>2. QED
        BY <3>1, Rungs DEF IInv, Ordered
    <2>2. CASE u = t /\ j = L + 1
      <3>1. i \in DOMAIN collector[t] /\ collector[t][i] = Rung(t, m) /\ e = Rung(t, n)
        BY <1>3, <2>2
      <3>2. Rung(t, m) \in Collected
        BY <1>1, <3>1, CollectedMember
      <3>3. m # n
        BY <1>1, <3>1, <3>2
      <3>4. ASSUME n < m PROVE FALSE
        <4>1. Rung(t, m) \in stdout
          BY <3>2 DEF IInv, Sinks
        <4>2. Recorded(t, m - 1)
          BY <1>1, <4>1, StdoutChain
        <4>3. m - 1 \in 0..5 /\ n \in 1..(m - 1)
          BY <3>4
        <4>4. InBoth(Rung(t, n))
          BY <1>1, <4>2, <4>3, RecordedBelow
        <4>5. QED
          BY <1>1, <3>1, <4>4 DEF InBoth
      <3>5. QED
        BY <3>3, <3>4
    <2>3. QED
      BY <2>1, <2>2
  <1>12. QED
    BY <1>6, <1>8, <1>10, <1>11 DEF IInv

-----------------------------------------------------------------------------
(* The start of a write *)

\* An event a workload may write next, after those that must be recorded.
MayWrite(t, w, e) ==
    \/ w = "agent" /\ e = Rung(t, 1) /\ write[t][w].step = "none"
    \/ w = "gateway" /\ e = Rung(t, 2) /\ write[t][w].step = "none" /\ Recorded(t, 1)
    \/ /\ w = "gateway" /\ e \in {Rung(t, 3), Denial(t)}
       /\ WriteOK(t, w) /\ write[t][w].event = Rung(t, 2)
    \/ w = "server" /\ e = Rung(t, 4) /\ write[t][w].step = "none" /\ Recorded(t, 3)
    \/ w = "api" /\ e = Rung(t, 5) /\ write[t][w].step = "none" /\ Recorded(t, 4)

\* A workload that may write begins its write; what has to be shown of the step
\* is its own transaction's control.
LEMMA StartWriteStep ==
    ASSUME IInv, NEW t \in Txns, NEW w \in Workloads, NEW e, MayWrite(t, w, e),
           StartWrite(t, w, e), UNCHANGED auditState,
           TypeOK',
           \A u \in Txns \ {t} : agent'[u] = agent[u] /\ hop'[u] = hop[u],
           Control(t)'
    PROVE  IInv'
  <1>1. e \in Event /\ e.txn = t /\ e.at = w
    BY RungFields DEF MayWrite
  <1>2. /\ write'[t][w].step = "stdout" /\ write'[t][w].event = e
        /\ \A v \in Workloads \ {w} : write'[t][v] = write[t][v]
        /\ \A u \in Txns \ {t} : write'[u] = write[u]
    BY <1>1, StartWriteUpdate DEF IInv
  <1>3. /\ UNCHANGED <<stdout, inflight, collector>> /\ Collected' = Collected
    BY DEF auditState, Collected
  <1>4. /\ \A n : Recorded(t, n)' <=> Recorded(t, n)
        /\ \A u \in Txns : \A n : Recorded(u, n)' <=> Recorded(u, n)
    BY <1>3 DEF Recorded
  <1>5. Writes(t) /\ Placed(t, w)
    BY DEF IInv, Sinks
  <1>6. e \notin stdout
    <2>1. ASSUME e \in stdout PROVE FALSE
      <3>1. Written(e)
        BY <2>1 DEF IInv, Sinks
      <3>2. QED
        BY <1>1, <3>1, RungFields DEF MayWrite, Written, WriteOK
    <2>2. QED
      BY <2>1
  <1>7. ASSUME NEW u \in Txns PROVE Control(u)'
    BY <1>2, <1>7, ControlFrame DEF IInv
  <1>8. ASSUME NEW u \in Txns PROVE Writes(u)'
    <2>1. {"agent", "gateway", "server", "api"} \subseteq Workloads
      BY DEF Workloads, Services
    <2>2. CASE u # t
      BY <1>2, <1>4, <2>1, <2>2 DEF IInv, Sinks, Writes
    <2>3. CASE u = t
      <3>1. MayWrite(t, w, e) /\ w = "gateway" /\ e # Rung(t, 2) => Recorded(t, 1) /\ Recorded(t, 2)
        BY <1>5, RecordedSteps, RungFields DEF MayWrite, Writes, WriteOK, Placed
      <3>2. QED
        BY <1>2, <1>4, <1>5, <2>1, <2>3, <3>1, RungFields DEF MayWrite, Writes
    <2>4. QED
      BY <2>2, <2>3
  <1>9. ASSUME NEW u \in Txns, NEW v \in Workloads PROVE Placed(u, v)'
    BY <1>2, <1>3, <1>6 DEF IInv, Sinks, Placed, InBoth
  <1>10. ASSUME NEW x \in stdout PROVE Written(x)'
    <2>1. x \in Event /\ x.txn \in Txns /\ x.at \in Workloads /\ Written(x)
      BY DEF IInv, TypeOK, Sinks, Event
    <2>2. CASE x.txn # t \/ x.at # w
      BY <1>2, <1>3, <2>1, <2>2 DEF Written
    <2>3. CASE x.txn = t /\ x.at = w
      BY <1>2, <1>3, <1>5, <2>1, <2>3, RungFields DEF Written, MayWrite, WriteOK, Placed, InBoth
    <2>4. QED
      BY <2>2, <2>3
  <1>11. Sinks'
    BY <1>3, <1>8, <1>9, <1>10 DEF IInv, Sinks
  <1>12. Ordered'
    BY <1>3 DEF IInv, Ordered
  <1>13. QED
    BY <1>7, <1>11, <1>12 DEF IInv

-----------------------------------------------------------------------------
(* The agent runner *)

\* The services and workloads by name.
LEMMA ServiceNames ==
    /\ {"gateway", "server", "api"} \subseteq Services
    /\ {"agent", "gateway", "server", "api"} \subseteq Workloads
    /\ \A w \in Services : w \in {"gateway", "server", "api"} /\ w \in Workloads
  BY DEF Services, Workloads

\* A step of the runner that neither calls nor writes and does not complete.
LEMMA AgentMoves ==
    ASSUME IInv, NEW t \in Txns, NEW step \in {"exchange", "verify", "failed"},
           agent[t].pc \in {"idle", "exchange"} \/ step = "failed",
           AgentGoto(t, step), UNCHANGED <<hop, write, auditState>>
    PROVE  IInv'
  <1>1. TypeOK /\ Control(t) /\ step \in AgentSteps
    BY DEF IInv, AgentSteps
  <1>2. /\ agent' \in [Txns -> [pc : AgentSteps, mode : AllModes, tool : AllTools]]
        /\ agent'[t].pc = step /\ agent'[t].mode = agent[t].mode
        /\ \A u \in Txns \ {t} : agent'[u] = agent[u]
    BY <1>1, AgentUpdate
  <1>3. TypeOK'
    BY <1>1, <1>2 DEF TypeOK, auditState
  <1>4. Control(t)'
    BY <1>1, <1>2 DEF Control, AgentControl, GatewayControl, ServerControl, APIControl, Token,
                      WriteOK, auditState
  <1>5. QED
    BY <1>2, <1>3, <1>4, QuietStep

\* The runner verifies the token it was issued and begins its audit write.
LEMMA VerifyIssuedStep ==
    ASSUME IInv, NEW t \in Txns, VerifyIssued(t)
    PROVE  IInv'
  <1>1. CASE AgentGoto(t, "failed") /\ UNCHANGED write
    BY <1>1, AgentMoves DEF VerifyIssued
  <1> DEFINE e == [txn |-> t, at |-> "agent", type |-> "exchange"]
  <1>2. CASE AgentGoto(t, "audit") /\ StartWrite(t, "agent", e)
    <2>1. TypeOK /\ Control(t) /\ "audit" \in AgentSteps /\ AgentAt(t, "verify")
      BY DEF IInv, AgentSteps, VerifyIssued
    <2>2. /\ agent' \in [Txns -> [pc : AgentSteps, mode : AllModes, tool : AllTools]]
          /\ agent'[t].pc = "audit" /\ agent'[t].mode = agent[t].mode
          /\ \A u \in Txns \ {t} : agent'[u] = agent[u]
      BY <1>2, <2>1, AgentUpdate
    <2>3. e = Rung(t, 1) /\ e \in Event
      BY Rungs, RungFields
    <2> HIDE DEF e
    <2>4. UNCHANGED <<hop, auditState>>
      BY DEF VerifyIssued
    <2>5. /\ write' \in [Txns -> [Workloads -> Writing]]
          /\ write'[t]["agent"].step = "stdout"
          /\ \A v \in Workloads \ {"agent"} : write'[t][v] = write[t][v]
      BY <1>2, <2>1, <2>3, ServiceNames, StartWriteUpdate
    <2>6. TypeOK'
      BY <2>1, <2>2, <2>4, <2>5 DEF TypeOK, auditState
    <2>7. Control(t)'
      BY <2>1, <2>2, <2>4, <2>5, ServiceNames
         DEF Control, AgentControl, GatewayControl, ServerControl, APIControl, Token,
             WriteOK, AgentAt
    <2>8. MayWrite(t, "agent", e)
      BY <2>1, <2>3 DEF MayWrite, Control, AgentControl, AgentAt
    <2>9. QED
      BY <1>2, <2>2, <2>4, <2>6, <2>7, <2>8, ServiceNames, StartWriteStep
  <1>3. QED
    BY <1>1, <1>2 DEF VerifyIssued

\* The runner's call is the first that reaches any service.
LEMMA InvokeCallsStep ==
    ASSUME IInv, NEW t \in Txns, InvokeCalls(t)
    PROVE  IInv'
  <1> DEFINE header == IF agent[t].mode = "unapproved-mcp" THEN "admin.unapproved"
                                                           ELSE agent[t].tool
             target == IF agent[t].mode = "direct-to-api" THEN "api" ELSE "gateway"
             q == Received("agent", t, header, agent[t].tool)
  <1>1. TypeOK /\ Control(t) /\ "waiting" \in AgentSteps /\ AgentAt(t, "audit")
    BY DEF IInv, AgentSteps, InvokeCalls
  <1>2. /\ agent' \in [Txns -> [pc : AgentSteps, mode : AllModes, tool : AllTools]]
        /\ agent'[t].pc = "waiting" /\ agent'[t].mode = agent[t].mode
        /\ \A u \in Txns \ {t} : agent'[u] = agent[u]
    BY <1>1, AgentUpdate DEF InvokeCalls
  <1>3. header \in AllTools \cup {None} /\ agent[t].tool \in AllTools \cup {None}
    BY <1>1 DEF TypeOK, AllTools
  <1>4. target \in Services
    BY ServiceNames
  <1>5. /\ q \in Request /\ q.pc = "verify" /\ q.caller = "agent" /\ q.raw = t
        /\ q.status = 0 /\ q.result = "none"
    BY <1>3, ReceivedFields, ServiceNames
  <1>6. hop' = [hop EXCEPT ![t][target] = q] /\ UNCHANGED <<write, auditState>>
    BY DEF InvokeCalls, Deliver
  <1>7. WriteOK(t, "agent")
    BY DEF InvokeCalls
  <1>8. target = "api" <=> agent[t].mode = "direct-to-api"
    OBVIOUS
  <1>9. target \in {"api", "gateway"}
    OBVIOUS
  <1> HIDE DEF q, target, header
  <1>10. /\ hop' \in [Txns -> [Services -> Request]]
         /\ hop'[t][target] = q
         /\ \A v \in Services \ {target} : hop'[t][v] = hop[t][v]
         /\ \A u \in Txns \ {t} : hop'[u] = hop[u]
    BY <1>1, <1>4, <1>5, <1>6, HopUpdate DEF TypeOK
  <1>11. TypeOK'
    BY <1>1, <1>2, <1>6, <1>10 DEF TypeOK, auditState
  <1>12. /\ hop[t]["gateway"].pc = "idle" /\ hop[t]["api"].pc = "idle"
         /\ hop[t]["server"].pc = "idle"
    BY <1>1 DEF Control, AgentControl, ServerControl, AgentAt
  <1>13. AgentControl(t)' /\ ServerControl(t)' /\ Token(t)'
    BY <1>1, <1>2, <1>5, <1>6, <1>9, <1>10, <1>12, ServiceNames, ChainAssumption
       DEF Control, AgentControl, ServerControl, Token, WriteOK
  <1>14. GatewayControl(t)' /\ APIControl(t)'
    BY <1>1, <1>2, <1>5, <1>6, <1>7, <1>8, <1>9, <1>10, <1>12, ServiceNames
       DEF Control, GatewayControl, APIControl, WriteOK
  <1>15. QED
    BY <1>2, <1>6, <1>10, <1>11, <1>13, <1>14, QuietStep DEF Control

\* A 200 of the gateway is the server's, and one of the API is an answer to
\* the server: both come after the server's own audit write.
LEMMA InvokeReturnsStep ==
    ASSUME IInv, NEW t \in Txns, InvokeReturns(t)
    PROVE  IInv'
  <1> DEFINE target == IF agent[t].mode = "direct-to-api" THEN "api" ELSE "gateway"
             step == IF hop[t][target].status = 200 THEN "completed" ELSE "failed"
  <1>1. /\ TypeOK /\ Control(t) /\ step \in AgentSteps /\ AgentGoto(t, step)
        /\ UNCHANGED <<hop, write, auditState>>
    BY DEF IInv, AgentSteps, InvokeReturns
  <1>2. /\ agent' \in [Txns -> [pc : AgentSteps, mode : AllModes, tool : AllTools]]
        /\ agent'[t].pc = step /\ agent'[t].mode = agent[t].mode
        /\ \A u \in Txns \ {t} : agent'[u] = agent[u]
    BY <1>1, AgentUpdate
  <1>3. TypeOK'
    BY <1>1, <1>2 DEF TypeOK, auditState
  <1>4. step \in {"completed", "failed"} /\ (step = "completed" => WriteOK(t, "server"))
    BY <1>1 DEF Control, GatewayControl, APIControl
  <1> HIDE DEF step
  <1>5. Control(t)'
    BY <1>1, <1>2, <1>4
       DEF Control, AgentControl, GatewayControl, ServerControl, APIControl, Token,
           WriteOK, auditState
  <1>6. QED
    BY <1>1, <1>2, <1>3, <1>5, QuietStep

\* Every step of the runner keeps the invariant (invoke).
LEMMA AgentSafe ==
    ASSUME IInv, NEW t \in Txns, Invoke(t) \/ AgentStep(t)
    PROVE  IInv'
  <1>1. CASE InvokeRejected(t) \/ InvokeBegin(t) \/ InvokeUnaudited(t) \/ InvokeTimesOut(t)
    BY <1>1, AgentMoves
       DEF InvokeRejected, InvokeBegin, InvokeUnaudited, InvokeTimesOut, AgentAt
  <1>2. CASE ExchangeReturns(t)
    BY <1>2, AgentMoves DEF ExchangeReturns, AgentAt
  <1>3. CASE VerifyIssued(t) \/ InvokeCalls(t) \/ InvokeReturns(t)
    BY <1>3, VerifyIssuedStep, InvokeCallsStep, InvokeReturnsStep
  <1>4. QED
    BY <1>1, <1>2, <1>3 DEF Invoke, AgentStep

-----------------------------------------------------------------------------
(* The services *)

\* An answer is safe when what it claims is on record.
LEMMA ReplySafe ==
    ASSUME IInv, NEW t \in Txns, NEW w \in Services, hop[t][w].pc # "idle",
           NEW status \in Statuses, NEW result \in Results, Reply(t, w, status, result),
           UNCHANGED <<agent, write, auditState>>,
           status = 200 => IF w = "api" THEN WriteOK(t, "api") /\ hop[t]["api"].caller = "server"
                                        ELSE WriteOK(t, "server"),
           result \in Txns => result = t,
           w = "server" /\ result = "output" => WriteOK(t, "api")
    PROVE  IInv'
  <1>1. TypeOK /\ Control(t)
    BY DEF IInv
  <1>2. /\ hop' \in [Txns -> [Services -> Request]]
        /\ hop'[t][w].pc = "replied"
        /\ hop'[t][w].status = status /\ hop'[t][w].result = result
        /\ hop'[t][w].raw = hop[t][w].raw /\ hop'[t][w].caller = hop[t][w].caller
        /\ \A v \in Services \ {w} : hop'[t][v] = hop[t][v]
        /\ \A u \in Txns \ {t} : hop'[u] = hop[u]
    BY <1>1, ReplyUpdate
  <1>3. TypeOK'
    BY <1>1, <1>2 DEF TypeOK, auditState
  <1>4. Token(t)'
    BY <1>1, <1>2 DEF Control, Token
  <1>5. ASSUME w = "gateway" PROVE Control(t)'
    BY <1>1, <1>2, <1>4, <1>5, ServiceNames
       DEF Control, AgentControl, GatewayControl, ServerControl, APIControl, WriteOK, auditState
  <1>6. ASSUME w = "server" PROVE Control(t)'
    BY <1>1, <1>2, <1>4, <1>6, ServiceNames
       DEF Control, AgentControl, GatewayControl, ServerControl, APIControl, WriteOK, auditState
  <1>7. ASSUME w = "api" PROVE Control(t)'
    BY <1>1, <1>2, <1>4, <1>7, ServiceNames
       DEF Control, AgentControl, GatewayControl, ServerControl, APIControl, WriteOK, auditState
  <1>8. Control(t)'
    BY <1>5, <1>6, <1>7, ServiceNames
  <1>9. QED
    BY <1>2, <1>3, <1>8, QuietStep

\* The answers the handlers give are typed, and none of them is a transaction's
\* name.
LEMMA AnswerConstants ==
    /\ {0, 200, 401, 403, 500, 502} \subseteq Statuses
    /\ {"none", "output", "error"} \subseteq Results
    /\ \A r \in {"none", "output", "error"} : r \notin Txns
  BY ChainAssumption DEF Statuses, Results

\* The middleware's three refusals answer without a record or an effect.
LEMMA MiddlewareReplies ==
    ASSUME IInv, NEW t \in Txns, NEW w \in Services,
           VerifyFails(t, w) \/ CallerDenied(t, w) \/ Unaudited(t, w)
    PROVE  IInv'
  <1>1. PICK status \in {401, 403, 500} : Reply(t, w, status, "none")
    BY DEF VerifyFails, CallerDenied, Unaudited
  <1>2. status \in Statuses /\ status # 200 /\ "none" \in Results /\ "none" \notin Txns
    BY AnswerConstants
  <1>3. hop[t][w].pc # "idle" /\ UNCHANGED <<agent, write, auditState>>
    BY DEF VerifyFails, CallerDenied, Unaudited, HopAt
  <1>4. QED
    BY <1>1, <1>2, <1>3, ReplySafe

\* The steps of a service's handler that answer its caller.
LEMMA HandlerReplies ==
    ASSUME IInv, NEW t \in Txns,
           \/ RouteDenied(t) \/ DenialReplied(t) \/ ForwardReturns(t) \/ ForwardFails(t)
           \/ CustomerGet(t) \/ WhoAmIReturns(t) \/ WhoAmIFails(t) \/ APIAnswers(t)
    PROVE  IInv'
  <1>0. /\ TypeOK /\ Control(t) /\ UNCHANGED <<agent, write, auditState>>
    BY DEF IInv, RouteDenied, DenialReplied, ForwardReturns, ForwardFails, CustomerGet,
           WhoAmIReturns, WhoAmIFails, APIAnswers
  <1>1. CASE RouteDenied(t) \/ DenialReplied(t)
    BY <1>0, <1>1, ReplySafe, AnswerConstants, ServiceNames
       DEF RouteDenied, DenialReplied, Admitted, HopAt
  <1>2. CASE ForwardFails(t)
    BY <1>0, <1>2, ReplySafe, AnswerConstants, ServiceNames DEF ForwardFails, HopAt
  <1>3. CASE ForwardReturns(t)
    <2> DEFINE status == hop[t]["server"].status
               result == hop[t]["server"].result
    <2>1. hop[t]["server"] \in Request
      BY <1>0, ServiceNames DEF TypeOK
    <2>2. status \in Statuses /\ result \in Results
      BY <2>1 DEF Request
    <2>3. (status = 200 => WriteOK(t, "server")) /\ (result \in Txns => result = t)
      BY <1>0, ServiceNames DEF Control, ServerControl, Token
    <2>4. Reply(t, "gateway", status, result) /\ hop[t]["gateway"].pc # "idle"
      BY <1>3 DEF ForwardReturns, HopAt
    <2> HIDE DEF status, result
    <2>5. QED
      BY <1>0, <2>2, <2>3, <2>4, ReplySafe, ServiceNames
  <1>4. CASE CustomerGet(t)
    <2>1. /\ hop[t]["server"].pc # "idle" /\ WriteOK(t, "server")
          /\ Reply(t, "server", 200, "error")
      BY <1>4 DEF CustomerGet, Admitted, HopAt
    <2>2. QED
      BY <1>0, <2>1, ReplySafe, AnswerConstants, ServiceNames
  <1>5. CASE WhoAmIReturns(t)
    <2> DEFINE result == IF hop[t]["api"].status = 200
                            /\ hop[t]["api"].result = hop[t]["server"].raw
                         THEN "output" ELSE "error"
    <2>1. /\ hop[t]["server"].pc # "idle" /\ WriteOK(t, "server")
          /\ Reply(t, "server", 200, result)
      BY <1>0, <1>5 DEF WhoAmIReturns, HopAt, Control, ServerControl
    <2>2. result \in {"output", "error"} /\ (result = "output" => WriteOK(t, "api"))
      BY <1>0 DEF Control, APIControl
    <2> HIDE DEF result
    <2>3. QED
      BY <1>0, <2>1, <2>2, ReplySafe, AnswerConstants, ServiceNames
  <1>6. CASE WhoAmIFails(t)
    <2>1. /\ hop[t]["server"].pc # "idle" /\ WriteOK(t, "server")
          /\ Reply(t, "server", 200, "error")
      BY <1>0, <1>6 DEF WhoAmIFails, HopAt, Control, ServerControl
    <2>2. QED
      BY <1>0, <2>1, ReplySafe, AnswerConstants, ServiceNames
  <1>7. CASE APIAnswers(t)
    <2> DEFINE raw == hop[t]["api"].raw
    <2>1. /\ hop[t]["api"].pc # "idle" /\ WriteOK(t, "api")
          /\ hop[t]["api"].caller = "server" /\ raw = t
          /\ Reply(t, "api", 200, raw)
      BY <1>0, <1>7 DEF APIAnswers, Admitted, HopAt, Control, APIControl
    <2>2. raw \in Results
      BY <2>1 DEF Results
    <2> HIDE DEF raw
    <2>3. QED
      BY <1>0, <2>1, <2>2, ReplySafe, AnswerConstants, ServiceNames
  <1>8. QED
    BY <1>1, <1>2, <1>3, <1>4, <1>5, <1>6, <1>7

\* A step of a service that begins its audit write, keeping the request.
LEMMA BeginsWrite ==
    ASSUME IInv, NEW t \in Txns, NEW w \in Services,
           NEW pc \in {"audited", "denying", "allowing"}, NEW e,
           HopGoto(t, w, pc), StartWrite(t, w, e), MayWrite(t, w, e),
           UNCHANGED <<agent, auditState>>, hop[t][w].pc # "idle",
           pc = "audited" => hop[t][w].pc = "verify",
           pc # "audited" => hop[t][w].pc = "audited",
           w = "gateway" /\ pc = "audited"  => e = Rung(t, 2),
           w = "gateway" /\ pc = "denying"  => e = Denial(t),
           w = "gateway" /\ pc = "allowing" => e = Rung(t, 3),
           w # "gateway" => pc = "audited",
           w = "api" => hop[t]["api"].caller = "server"
    PROVE  IInv'
  <1>1. TypeOK /\ Control(t) /\ pc \in HopSteps /\ w \in Workloads
    BY ServiceNames DEF IInv, HopSteps
  <1>2. /\ hop' \in [Txns -> [Services -> Request]]
        /\ hop'[t][w].pc = pc
        /\ hop'[t][w].raw = hop[t][w].raw /\ hop'[t][w].caller = hop[t][w].caller
        /\ hop'[t][w].status = hop[t][w].status /\ hop'[t][w].result = hop[t][w].result
        /\ \A v \in Services \ {w} : hop'[t][v] = hop[t][v]
        /\ \A u \in Txns \ {t} : hop'[u] = hop[u]
    BY <1>1, PcUpdate
  <1>5. e \in Event
    BY RungFields DEF MayWrite
  <1>6. /\ write' \in [Txns -> [Workloads -> Writing]]
        /\ write'[t][w].step = "stdout" /\ write'[t][w].event = e
        /\ \A v \in Workloads \ {w} : write'[t][v] = write[t][v]
    BY <1>1, <1>5, StartWriteUpdate
  <1>7. TypeOK'
    BY <1>1, <1>2, <1>6 DEF TypeOK, auditState
  <1>8. Token(t)'
    BY <1>1, <1>2 DEF Control, Token
  <1>9. ASSUME w = "gateway" PROVE Control(t)'
    <2>1. write[t]["server"] = write'[t]["server"] /\ write[t]["api"] = write'[t]["api"]
          /\ write[t]["agent"] = write'[t]["agent"]
          /\ hop[t]["server"] = hop'[t]["server"] /\ hop[t]["api"] = hop'[t]["api"]
      BY <1>2, <1>6, <1>9, ServiceNames
    <2>2. hop[t]["gateway"].pc \notin {"idle", "waiting", "replied"}
          /\ hop'[t]["gateway"].pc = pc /\ pc \notin {"idle", "verify", "waiting"}
      BY <1>2, <1>9
    <2>3. (pc = "audited" => e = Rung(t, 2)) /\ (pc = "denying" => e = Denial(t))
          /\ (pc = "allowing" => e = Rung(t, 3))
      BY <1>9
    <2>4. GatewayControl(t)'
      BY <1>1, <1>2, <1>6, <1>9, <2>1, <2>2, <2>3 DEF Control, GatewayControl, WriteOK
    <2>5. QED
      BY <1>1, <1>2, <1>8, <1>9, <2>1, <2>2, <2>4
         DEF Control, AgentControl, ServerControl, APIControl, WriteOK
  <1>10. ASSUME w = "server" PROVE Control(t)'
    BY <1>1, <1>2, <1>6, <1>8, <1>10, ServiceNames
       DEF Control, AgentControl, GatewayControl, ServerControl, APIControl, WriteOK, MayWrite
  <1>11. ASSUME w = "api" PROVE Control(t)'
    BY <1>1, <1>2, <1>6, <1>8, <1>11, ServiceNames
       DEF Control, AgentControl, GatewayControl, ServerControl, APIControl, WriteOK, MayWrite
  <1>12. Control(t)'
    BY <1>9, <1>10, <1>11, ServiceNames
  <1>13. QED
    BY <1>1, <1>2, <1>7, <1>12, StartWriteStep

\* The middleware has verified token and caller and begins its audit write
\* (Middleware.Handler).
LEMMA VerifySucceedsStep ==
    ASSUME IInv, NEW t \in Txns, NEW w \in Services, VerifySucceeds(t, w)
    PROVE  IInv'
  <1> DEFINE e == [txn |-> hop[t][w].raw, at |-> w, type |-> "verify"]
  <1>1. Control(t) /\ Writes(t) /\ hop[t][w].pc = "verify"
    BY DEF IInv, Sinks, VerifySucceeds, HopAt
  <1>2. hop[t][w].raw = t
    BY <1>1, ServiceNames DEF Control, GatewayControl, ServerControl, APIControl
  <1>3. /\ w = "gateway" => e = Rung(t, 2)
        /\ w = "server" => e = Rung(t, 4)
        /\ w = "api" => e = Rung(t, 5)
    BY <1>2, Rungs
  <1>4. /\ HopGoto(t, w, "audited") /\ StartWrite(t, w, e)
        /\ UNCHANGED <<agent, auditState>>
        /\ w = "api" => hop[t]["api"].caller = "server"
    BY DEF VerifySucceeds, AllowedCaller
  <1>5. \A k \in Workloads : Placed(t, k)
    BY DEF IInv, Sinks
  <1>6. MayWrite(t, w, e)
    <2>1. ASSUME w = "gateway" PROVE MayWrite(t, w, e)
      <3>1. InBoth(Rung(t, 1)) /\ write[t][w].step = "none"
        BY <1>1, <1>5, <2>1, ServiceNames
           DEF Control, GatewayControl, Writes, WriteOK, Placed
      <3>2. QED
        BY <1>3, <2>1, <3>1, RecordedSteps DEF MayWrite
    <2>2. ASSUME w = "server" PROVE MayWrite(t, w, e)
      <3>1. /\ InBoth(Rung(t, 3)) /\ Recorded(t, 2) /\ write[t][w].step = "none"
        BY <1>1, <1>5, <2>2, ServiceNames, RungFields
           DEF Control, ServerControl, Writes, WriteOK, Placed
      <3>2. QED
        BY <1>3, <2>2, <3>1, RecordedSteps DEF MayWrite
    <2>3. ASSUME w = "api" PROVE MayWrite(t, w, e)
      <3>1. /\ InBoth(Rung(t, 4)) /\ Recorded(t, 3) /\ write[t][w].step = "none"
        BY <1>1, <1>4, <1>5, <2>3, ServiceNames
           DEF Control, APIControl, Writes, WriteOK, Placed
      <3>2. QED
        BY <1>3, <2>3, <3>1, RecordedSteps DEF MayWrite
    <2>4. QED
      BY <2>1, <2>2, <2>3, ServiceNames
  <1> HIDE DEF e
  <1>7. QED
    BY <1>1, <1>3, <1>4, <1>6, BeginsWrite

\* The gateway begins the audit write of its decision, whichever it is
\* (Gateway.ServeHTTP).
LEMMA AuthorizeDecidesStep ==
    ASSUME IInv, NEW t \in Txns, NEW decision \in Decisions, AuthorizeDecides(t, decision)
    PROVE  IInv'
  <1> DEFINE e == [txn |-> hop[t]["gateway"].raw, at |-> "gateway", type |-> decision]
             pc == IF decision = "allowed" THEN "allowing" ELSE "denying"
  <1>1. Control(t) /\ hop[t]["gateway"].pc = "audited" /\ WriteOK(t, "gateway")
    BY DEF IInv, AuthorizeDecides, Admitted, HopAt
  <1>2. hop[t]["gateway"].raw = t /\ write[t]["gateway"].event = Rung(t, 2)
    BY <1>1 DEF Control, GatewayControl
  <1>3. \/ decision = "allowed" /\ pc = "allowing" /\ e = Rung(t, 3)
        \/ decision = "denied" /\ pc = "denying" /\ e = Denial(t)
    BY <1>2, Rungs DEF Decisions, Denial
  <1>4. /\ HopGoto(t, "gateway", pc)
        /\ StartWrite(t, "gateway", e) /\ UNCHANGED <<agent, auditState>>
    BY DEF AuthorizeDecides
  <1> HIDE DEF e, pc
  <1>5. MayWrite(t, "gateway", e)
    BY <1>1, <1>2, <1>3 DEF MayWrite
  <1>6. QED
    BY <1>1, <1>3, <1>4, <1>5, BeginsWrite, ServiceNames

\* A service calls the next one, which has not been reached before.
LEMMA ForwardStep ==
    ASSUME IInv, NEW t \in Txns, Forward(t)
    PROVE  IInv'
  <1>1. /\ TypeOK /\ Control(t) /\ UNCHANGED <<agent, write, auditState>>
        /\ hop[t]["gateway"].pc = "allowing" /\ WriteOK(t, "gateway")
    BY DEF IInv, Forward, HopAt
  <1>2. hop[t]["gateway"] \in Request
    BY <1>1, ServiceNames DEF TypeOK
  <1>3. PICK token \in Txns \cup {None}, header \in AllTools \cup {None},
             body \in AllTools \cup {None} :
           token = hop[t]["gateway"].raw /\ CallOn(t, "gateway", "server", token, header, body)
    BY <1>2 DEF Forward, Request
  <1>0. "gateway" \in Services /\ "server" \in Services /\ "gateway" # "server"
    BY ServiceNames
  <1>4. CalledOn(t, "gateway", "server", token)
    BY <1>0, <1>1, <1>3, CallOnUpdate
  <1>5. TypeOK'
    BY <1>1, <1>4 DEF TypeOK, CalledOn, auditState
  <1>6. hop'[t]["api"] = hop[t]["api"] /\ token = t /\ hop[t]["server"].pc = "idle"
        /\ write[t]["gateway"].event = Rung(t, 3)
    BY <1>1, <1>3, <1>4, ServiceNames DEF CalledOn, Control, GatewayControl, ServerControl
  <1>7. Token(t)'
    BY <1>1, <1>4, <1>6, ServiceNames, AnswerConstants DEF CalledOn, Control, Token
  <1>8. Control(t)'
    BY <1>1, <1>4, <1>6, <1>7
       DEF CalledOn, Control, AgentControl, GatewayControl, ServerControl, APIControl, WriteOK, auditState
  <1>9. QED
    BY <1>1, <1>4, <1>5, <1>8, QuietStep DEF CalledOn

\* The server calls the API only behind its own record (callDemoAPI).
LEMMA WhoAmICallsStep ==
    ASSUME IInv, NEW t \in Txns, WhoAmICalls(t)
    PROVE  IInv'
  <1> DEFINE raw == hop[t]["server"].raw
  <1>1. /\ TypeOK /\ Control(t) /\ UNCHANGED <<agent, write, auditState>>
        /\ CallOn(t, "server", "api", raw, None, None)
        /\ hop[t]["server"].pc = "audited" /\ WriteOK(t, "server")
    BY DEF IInv, WhoAmICalls, Admitted, HopAt
  <1>2. raw = t
    BY <1>1 DEF Control, ServerControl
  <1> HIDE DEF raw
  <1>3. "server" \in Services /\ "api" \in Services /\ "server" # "api"
    BY ServiceNames
  <1>4. CalledOn(t, "server", "api", raw)
    BY <1>1, <1>2, <1>3, CallOnUpdate
  <1>5. TypeOK'
    BY <1>1, <1>4 DEF TypeOK, CalledOn, auditState
  <1>6. hop'[t]["gateway"] = hop[t]["gateway"] /\ hop[t]["api"].pc = "idle"
    BY <1>1, <1>4, ServiceNames DEF CalledOn, Control, GatewayControl, ServerControl, APIControl
  <1>7. Token(t)'
    BY <1>1, <1>2, <1>4, <1>6, ServiceNames, AnswerConstants DEF CalledOn, Control, Token
  <1>8. Control(t)'
    BY <1>1, <1>2, <1>4, <1>6, <1>7
       DEF CalledOn, Control, AgentControl, GatewayControl, ServerControl, APIControl, WriteOK, auditState
  <1>9. QED
    BY <1>1, <1>4, <1>5, <1>8, QuietStep DEF CalledOn

-----------------------------------------------------------------------------
(* The theorems *)

\* Nothing is called, written or recorded at first.
LEMMA Start ==
    Init => IInv
  <1> SUFFICES ASSUME Init PROVE IInv
    OBVIOUS
  <1>1. NoRequest \in Request /\ NoRequest.pc = "idle" /\ NoRequest.raw = None
        /\ NoRequest.caller = None /\ NoRequest.status = 0 /\ NoRequest.result = "none"
    <2>1. "idle" \in HopSteps /\ 0 \in Statuses /\ "none" \in Results
      BY DEF HopSteps, Statuses, Results
    <2>2. QED
      BY <2>1 DEF NoRequest, Request
  <1>2. NoWrite \in Writing /\ NoWrite.step = "none"
    BY DEF NoWrite, Writing, WriteSteps
  <1>3. \A t \in Txns : agent[t].pc = "idle"
    BY DEF Init
  <1>4. Collected = {}
    BY DEF Init, Collected
  <1>5. TypeOK
    BY <1>1, <1>2 DEF Init, TypeOK, AgentSteps, AllTools, byTool
  <1>6. ASSUME NEW t \in Txns PROVE Control(t)
    <2>1. \A w \in Services : hop[t][w] = NoRequest
      BY DEF Init
    <2>2. \A w \in Workloads : write[t][w] = NoWrite
      BY DEF Init
    <2>3. Token(t)
      BY <1>1, <2>1, AnswerConstants DEF Token
    <2>4. \A w \in {"gateway", "server", "api"} :
            /\ hop[t][w].pc = "idle" /\ hop[t][w].caller \notin {"agent", "server"}
            /\ hop[t][w].status = 0 /\ hop[t][w].result = "none"
      BY <1>1, <2>1, ServiceNames, ChainAssumption
    <2>5. \A w \in {"agent", "gateway", "server", "api"} : write[t][w].step = "none"
      BY <1>2, <2>2, ServiceNames
    <2>6. QED
      BY <1>3, <2>3, <2>4, <2>5
         DEF Control, AgentControl, GatewayControl, ServerControl, APIControl
  <1>7. Sinks
    <2>1. \A t \in Txns : \A w \in Workloads : write[t][w] = NoWrite
      BY DEF Init
    <2>2. \A t \in Txns : Writes(t) /\ \A w \in Workloads : Placed(t, w)
      BY <1>2, <2>1, ServiceNames DEF Writes, Placed
    <2>3. QED
      BY <1>4, <2>2 DEF Init, Sinks
  <1>8. Ordered
    BY DEF Init, Ordered
  <1>9. QED
    BY <1>5, <1>6, <1>7, <1>8 DEF IInv

\* The inductive invariant: every event is where its write says it is, a
\* workload begins a write only after those of the hops before it are in both
\* sinks (Fanout.Write), and every handler is where its own writes and the
\* state of the handlers around it allow.
THEOREM ChainInvariance ==
    Spec => []IInv
  <1>1. Init => IInv
    BY Start
  <1>2. IInv /\ [Next]_vars => IInv'
    <2> SUFFICES ASSUME IInv, [Next]_vars PROVE IInv'
      OBVIOUS
    <2>1. ASSUME NEW t \in Txns, Invoke(t) \/ AgentStep(t) PROVE IInv'
      BY <2>1, AgentSafe
    <2>2. ASSUME NEW t \in Txns, GatewayStep(t) PROVE IInv'
      BY <2>2, HandlerReplies, AuthorizeDecidesStep, ForwardStep DEF GatewayStep
    <2>3. ASSUME NEW t \in Txns, ServerStep(t) \/ APIAnswers(t) PROVE IInv'
      BY <2>3, HandlerReplies, WhoAmICallsStep DEF ServerStep
    <2>4. ASSUME NEW t \in Txns, NEW w \in Services, MiddlewareStep(t, w) PROVE IInv'
      BY <2>4, MiddlewareReplies, VerifySucceedsStep DEF MiddlewareStep
    <2>5. ASSUME NEW t \in Txns, NEW w \in Workloads, WriteStep(t, w) PROVE IInv'
      BY <2>5, WriteStdoutStep, PostStep, AnswerStep DEF WriteStep
    <2>6. ASSUME NEW e \in inflight, CollectorStores(e) \/ CollectorMisses(e) PROVE IInv'
      BY <2>6, CollectorStoresStep, CollectorMissesStep
    <2>7. CASE UNCHANGED vars
      <3>1. UNCHANGED <<agent, hop, write, auditState>>
        BY <2>7 DEF vars, auditState
      <3>2. Sinks' /\ Ordered'
        BY <3>1, SinksFrame DEF IInv
      <3>3. ASSUME NEW t \in Txns PROVE Control(t)'
        BY <3>1, <3>3, ControlFrame DEF IInv
      <3>4. TypeOK'
        BY <3>1 DEF IInv, TypeOK, auditState
      <3>5. QED
        BY <3>2, <3>3, <3>4 DEF IInv
    <2>8. QED
      BY <2>1, <2>2, <2>3, <2>4, <2>5, <2>6, <2>7 DEF Next, Work, Settled
  <1>3. QED
    BY <1>1, <1>2, PTL DEF Spec

\* The collector's order of a transaction's events is the order of its hops,
\* and nothing reaches the collector that is not on standard output first
\* (Fanout.Write, Remote.Write).
THEOREM ChainTrails ==
    Spec => []TrailsConsistent
  <1>1. IInv => TrailsConsistent
    BY DEF IInv, Sinks, Ordered, TrailsConsistent
  <1>2. QED
    BY <1>1, ChainInvariance, PTL

\* No workload is reached, no effect answered and no completion told unless
\* the events of all hops before it are in both sinks (invoke,
\* Middleware.Handler, Gateway.ServeHTTP).
THEOREM ChainAudited ==
    Spec => []EffectsAudited
  <1>1. IInv => EffectsAudited
    <2> SUFFICES ASSUME IInv, NEW t \in Txns
                 PROVE  /\ ~HopAt(t, "gateway", "idle") => Recorded(t, 1)
                        /\ ~HopAt(t, "server", "idle")  => Recorded(t, 3)
                        /\ hop[t]["api"].caller = "server" => Recorded(t, 4)
                        /\ hop[t]["api"].status = 200   => Recorded(t, 5)
                        /\ AgentAt(t, "completed") => Recorded(t, 4)
                        /\ hop[t]["server"].result = "output" => Recorded(t, 5)
      BY DEF EffectsAudited
    <2>1. /\ AgentControl(t) /\ GatewayControl(t) /\ ServerControl(t) /\ APIControl(t)
          /\ Writes(t) /\ \A w \in Workloads : Placed(t, w)
      BY DEF IInv, Control, Sinks
    <2>2. WriteOK(t, "agent") => Recorded(t, 1)
      BY <2>1, ServiceNames, RecordedSteps DEF WriteOK, Writes, Placed
    <2>3. WriteOK(t, "gateway") /\ write[t]["gateway"].event = Rung(t, 3) => Recorded(t, 3)
      BY <2>1, ServiceNames, RecordedSteps, RungFields DEF WriteOK, Writes, Placed
    <2>4. WriteOK(t, "server") => Recorded(t, 4)
      BY <2>1, ServiceNames, RecordedSteps DEF WriteOK, Writes, Placed
    <2>5. WriteOK(t, "api") => Recorded(t, 5)
      BY <2>1, ServiceNames, RecordedSteps DEF WriteOK, Writes, Placed
    <2>6. QED
      BY <2>1, <2>2, <2>3, <2>4, <2>5
         DEF AgentControl, GatewayControl, ServerControl, APIControl, HopAt, AgentAt
  <1>2. QED
    BY <1>1, ChainInvariance, PTL

\* After a denial there is no allowance, no request to the server and no
\* completion, whether or not the denial could be recorded (Gateway.ServeHTTP).
THEOREM ChainDenial ==
    Spec => []DenialIsFinal
  <1>1. IInv => DenialIsFinal
    <2> SUFFICES ASSUME IInv, NEW t \in Txns,
                        HopAt(t, "gateway", "denying") \/ Denial(t) \in stdout
                 PROVE  /\ HopAt(t, "server", "idle")
                        /\ Rung(t, 3) \notin stdout
                        /\ ~AgentAt(t, "completed")
      BY DEF DenialIsFinal, Denial
    <2>1. /\ AgentControl(t) /\ GatewayControl(t) /\ ServerControl(t)
          /\ Writes(t) /\ Placed(t, "server")
      BY ServiceNames DEF IInv, Control, Sinks
    <2>2. write[t]["gateway"].event = Denial(t)
      <3>1. CASE HopAt(t, "gateway", "denying")
        BY <2>1, <3>1 DEF HopAt, GatewayControl
      <3>2. CASE Denial(t) \in stdout
        <4>1. Written(Denial(t))
          BY <3>2 DEF IInv, Sinks
        <4>2. QED
          BY <4>1, RungFields DEF Written
      <3>3. QED
        BY <3>1, <3>2
    <2>3. Rung(t, 3) \notin stdout
      <3>1. ASSUME Rung(t, 3) \in stdout PROVE FALSE
        <4>1. Written(Rung(t, 3))
          BY <3>1 DEF IInv, Sinks
        <4>2. QED
          BY <2>2, <4>1, RungFields DEF Written
      <3>2. QED
        BY <3>1
    <2>4. HopAt(t, "server", "idle")
      BY <2>1, <2>2, RungFields DEF HopAt, ServerControl
    <2>5. ~ WriteOK(t, "server")
      BY <2>1, <2>3, RecordedSteps DEF WriteOK, Writes, InBoth
    <2>6. QED
      BY <2>1, <2>3, <2>4, <2>5 DEF AgentAt, AgentControl
  <1>2. QED
    BY <1>1, ChainInvariance, PTL

\* Whatever workload is reached for a transaction holds the token issued for
\* it, and an API answer names it, however many transactions run at once
\* (VerifiedTransactionToken, callDemoAPI).
THEOREM ChainToken ==
    Spec => []TokenUnchanged
  <1>1. IInv => TokenUnchanged
    BY DEF IInv, Control, Token, TokenUnchanged
  <1>2. QED
    BY <1>1, ChainInvariance, PTL

=============================================================================
