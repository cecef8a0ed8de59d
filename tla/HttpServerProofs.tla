-------------------------- MODULE HttpServerProofs --------------------------
(***************************************************************************)
(* For any peers, addresses and routes: the HTTP server's OneDriver and    *)
(* the contract of EventContract.                                          *)
(*                                                                         *)
(* What waits splits into three parts that steps change one at a time: the *)
(* drivers of Connections, the steps and deadlines of peers, and accepts.  *)
(* IInv adds to OneDriver what keeps them apart: a peer whose Connection   *)
(* is driven has no step of a Transaction left, and a peer that is not yet *)
(* a Transaction has neither step nor deadline.                            *)
(***************************************************************************)
EXTENDS HttpServer, TLAPS

\* A driven Connection is its peer's only one, and its peer is nowhere else.
ConnPeers == \A c \in Owned \ stale :
    /\ peerOf[c] \in Peers /\ at[peerOf[c]] = "socket"
    /\ \A d \in Owned \ stale : peerOf[d] = peerOf[c] => d = c

ConnInv == ConnectionsDriven /\ ConnPeers /\ stale \subseteq Owned

AcceptedOf(p) == {x \in Waiting : x.kind = "accepted" /\ x.peer = p}

\* What waits for a peer fits the place it is at.
PeerOK(p) ==
    /\ \A x, y \in StepsOf(p) : x = y
    /\ \A x, y \in DeadlinesOf(p) : x = y
    /\ at[p] \in {"new", "backlog", "accepting"} => StepsOf(p) = {} /\ DeadlinesOf(p) = {}
    /\ at[p] = "socket" => StepsOf(p) = {}
    /\ at[p] = "transaction" => DeadlinesOf(p) # {}
    /\ at[p] = "upgrading" => \E x \in StepsOf(p) : x.kind \in {"upgrade", "upgraded"}
    /\ \A x \in StepsOf(p) : x.kind \in {"upgrade", "upgraded"} => asked[p] \in routes
    /\ AcceptedOf(p) # {} => at[p] = "accepting"

PeerInv == \A p \in Peers : PeerOK(p)

\* The ready task comes before everything else, and routes have a destroyed
\* context only until it has run.
ContextInv ==
    /\ [kind |-> "ready"] \in ctxq => ops = {} /\ strand = {}
    /\ \A r \in Routes : context[r] = "dead" => [kind |-> "ready"] \in ctxq
    /\ \A r \in Routes : context[r] # "null" => r \in routes

Core == ConnInv /\ PeerInv /\ OneAccept /\ ContextInv

IInv == TypeOK /\ (crashed \/ Core)

-----------------------------------------------------------------------------
(* Queues and parts.                                                       *)

OpKinds   == {"accept", "frame", "request", "response", "deadline", "upgrade"}
TaskKinds == {"accepted", "framed", "requested", "responded", "expired", "upgraded"}
PostKinds == {"ready", "dispatch", "disconnect", "write"}
PeerKinds == StepKinds \cup {"deadline", "expired", "accepted"}

\* The kind tells the queue, so what is taken from one is not left in another.
LEMMA Kinds ==
    ASSUME TypeOK
    PROVE  /\ \A x \in ops : x.kind \in OpKinds
           /\ \A x \in strand : x.kind \in TaskKinds
           /\ \A x \in ctxq : x.kind \in PostKinds
<1>1. \A x \in Ops : x.kind \in OpKinds
    BY DEF Ops, Accept, Frame, OpKinds
<1>2. \A x \in StrandTasks : x.kind \in TaskKinds
    BY DEF StrandTasks, AcceptTasks, PeerTasks, FrameTasks, TaskKinds
<1>3. \A x \in CtxTasks : x.kind \in PostKinds
    BY DEF CtxTasks, DisconnectTasks, WriteTasks, PostKinds
<1> QED BY <1>1, <1>2, <1>3 DEF TypeOK

\* An operation that completes.
LEMMA CompleteWaiting ==
    ASSUME TypeOK, NEW op, NEW t, Complete(op, t)
    PROVE  op \in Waiting /\ Waiting' = (Waiting \ {op}) \cup {t}
<1>1. op \in ops /\ op \notin strand /\ op \notin ctxq
    BY Kinds DEF Complete, OpKinds, TaskKinds, PostKinds
<1> QED BY <1>1 DEF Complete, Waiting

\* A handler that cancels the operations R and starts the operations A.
LEMMA TakeWaiting ==
    ASSUME TypeOK, NEW t, NEW A, NEW R, Take(t), R \subseteq ops,
           ops' = (ops \ R) \cup A, ctxq' = ctxq,
           \A x \in A : x.kind \in OpKinds
    PROVE  /\ t \in Waiting /\ Waiting' = (Waiting \ ({t} \cup R)) \cup A
           /\ ~(ops = {} /\ strand = {})
<1>1. t \in strand /\ t \notin ops /\ t \notin ctxq
    BY Kinds DEF Take, OpKinds, TaskKinds, PostKinds
<1>2. \A x \in R : x \notin strand /\ x \notin ctxq
    BY Kinds DEF OpKinds, TaskKinds, PostKinds
<1>3. t \notin A
    BY <1>1, Kinds DEF OpKinds, TaskKinds
<1> QED BY <1>1, <1>2, <1>3 DEF Take, Waiting

\* A posted task.
LEMMA PostedWaiting ==
    ASSUME TypeOK, NEW t, NEW A, TakePosted(t), t \notin A,
           ops' = ops \cup A, strand' = strand
    PROVE  t \in Waiting /\ Waiting' = (Waiting \ {t}) \cup A
<1>1. t \in ctxq /\ t \notin ops /\ t \notin strand
    BY Kinds DEF TakePosted, OpKinds, TaskKinds, PostKinds
<1> QED BY <1>1 DEF TakePosted, Waiting

\* A step that touches no driver leaves ConnInv.
LEMMA ConnKept ==
    ASSUME ConnInv, NEW R, NEW A, Waiting' = (Waiting \ R) \cup A,
           \A x \in R \cup A : x.kind \notin DriverKinds,
           UNCHANGED <<connections, stale, peerOf>>,
           \A p \in Peers : at[p] = "socket" => at'[p] = "socket",
           \A x \in ctxq' : x.kind = "disconnect" => x \in ctxq
    PROVE  ConnInv'
<1>1. Owned' = Owned
    BY DEF Owned
<1>2. ASSUME NEW c \in Conns
      PROVE  DriversOf(c)' = DriversOf(c)
    BY DEF DriversOf
<1>3. ConnectionsDriven'
    <2>1. ASSUME NEW c \in Conns
          PROVE  (IF c \in Owned \ stale THEN \E x \in Waiting : DriversOf(c) = {x}
                                         ELSE DriversOf(c) = {})'
        <3>1. CASE c \in Owned \ stale
            <4>1. PICK x \in Waiting : DriversOf(c) = {x}
                BY <3>1 DEF ConnInv, ConnectionsDriven
            <4>2. DriversOf(c)' = {x}
                BY <1>2, <4>1
            <4>3. x \in Waiting'
                BY <4>2 DEF DriversOf
            <4> QED BY <1>1, <3>1, <4>2, <4>3
        <3>2. CASE c \notin Owned \ stale
            BY <1>1, <1>2, <3>2 DEF ConnInv, ConnectionsDriven
        <3> QED BY <3>1, <3>2
    <2> QED BY <2>1 DEF ConnInv, ConnectionsDriven
<1>4. ConnPeers' /\ (stale \subseteq Owned)'
    BY <1>1 DEF ConnInv, ConnPeers
<1> QED BY <1>3, <1>4 DEF ConnInv

\* A step that touches nothing of peer q leaves it.
LEMMA PeerKept ==
    ASSUME NEW q \in Peers, PeerOK(q), NEW R, NEW A, Waiting' = (Waiting \ R) \cup A,
           \A x \in R \cup A : x.kind \in PeerKinds => x.peer # q,
           at'[q] = at[q], asked'[q] = asked[q], routes \subseteq routes'
    PROVE  PeerOK(q)'
<1>1. /\ StepsOf(q)' = StepsOf(q) /\ DeadlinesOf(q)' = DeadlinesOf(q)
      /\ AcceptedOf(q)' = AcceptedOf(q)
    BY DEF StepsOf, DeadlinesOf, AcceptedOf, PeerKinds
<1> QED BY <1>1 DEF PeerOK

\* A step that touches no accept leaves OneAccept.
LEMMA AcceptKept ==
    ASSUME OneAccept, NEW R, NEW A, Waiting' = (Waiting \ R) \cup A,
           \A x \in R \cup A : x.kind \notin {"accept", "accepted", "ready"}
    PROVE  OneAccept'
<1>1. Acceptors' = Acceptors
    BY DEF Acceptors
<1>2. PICK x \in Waiting : Acceptors = {x}
    BY DEF OneAccept
<1>3. x \in Waiting'
    BY <1>1, <1>2 DEF Acceptors
<1> QED BY <1>1, <1>2, <1>3 DEF OneAccept

\* A step that hands the accept on.
LEMMA AcceptMoved ==
    ASSUME OneAccept, NEW a \in Waiting, NEW b, NEW R, NEW A,
           Waiting' = (Waiting \ R) \cup A, a \in R, b \in A,
           a.kind \in {"accept", "accepted", "ready"},
           b.kind \in {"accept", "accepted", "ready"},
           \A x \in A : x.kind \in {"accept", "accepted", "ready"} => x = b
    PROVE  OneAccept'
<1>1. Acceptors = {a}
    BY DEF OneAccept, Acceptors
<1>2. Acceptors' = {b}
    BY <1>1 DEF Acceptors
<1> QED BY <1>2 DEF OneAccept

\* A step that only takes from the posted tasks, or moves operations and handlers,
\* leaves ContextInv.
LEMMA ContextKept ==
    ASSUME ContextInv, UNCHANGED context, routes \subseteq routes',
           [kind |-> "ready"] \in ctxq <=> [kind |-> "ready"] \in ctxq',
           ops = {} /\ strand = {} => ops' = {} /\ strand' = {}
    PROVE  ContextInv'
BY DEF ContextInv

\* A step that concerns one peer only.
LEMMA OnePeer ==
    ASSUME Core, NEW p \in Peers, NEW R, NEW A, Waiting' = (Waiting \ R) \cup A,
           \A x \in R \cup A : x.kind \in PeerKinds \ {"accepted"} /\ x.peer = p,
           UNCHANGED <<own, ctxq>>,
           \A q \in Peers : q # p => at'[q] = at[q] /\ asked'[q] = asked[q],
           at[p] = "socket" => at'[p] = "socket",
           ops = {} /\ strand = {} => ops' = {} /\ strand' = {},
           PeerOK(p)'
    PROVE  Core'
<1>1. ConnInv'
    BY ConnKept DEF Core, own, PeerKinds, StepKinds, DriverKinds
<1>2. PeerInv'
    <2>1. ASSUME NEW q \in Peers, q # p
          PROVE  PeerOK(q)'
        <3>1. PeerOK(q) /\ at'[q] = at[q] /\ asked'[q] = asked[q] /\ routes \subseteq routes'
            BY <2>1 DEF Core, PeerInv, own
        <3>2. \A x \in R \cup A : x.kind \in PeerKinds => x.peer # q
            BY <2>1
        <3> HIDE DEF Core
        <3> QED BY <3>1, <3>2, PeerKept
    <2> QED BY <2>1 DEF PeerInv
<1>3. OneAccept'
    BY AcceptKept DEF Core, PeerKinds, StepKinds
<1>4. ContextInv'
    BY ContextKept DEF Core, own
<1> QED BY <1>1, <1>2, <1>3, <1>4 DEF Core

UpgradeKinds == {"upgrade", "upgraded"}

\* A step of a peer is followed by another.
LEMMA StepMoved ==
    ASSUME Core, NEW p \in Peers, NEW a \in Waiting, NEW b,
           Waiting' = (Waiting \ {a}) \cup {b},
           a.kind \in StepKinds, a.peer = p, b.kind \in StepKinds, b.peer = p,
           b.kind \in UpgradeKinds => asked[p] \in routes,
           a.kind \in UpgradeKinds => b.kind \in UpgradeKinds,
           UNCHANGED <<own, ctxq, asked>>,
           \A q \in Peers : q # p => at'[q] = at[q],
           at'[p] = at[p] \/ (at[p] = "transaction" /\ at'[p] = "upgrading"
                                /\ b.kind \in UpgradeKinds),
           ~(ops = {} /\ strand = {})
    PROVE  Core'
<1>1. PeerOK(p)
    BY DEF Core, PeerInv
<1>2. StepsOf(p) = {a}
    BY <1>1 DEF PeerOK, StepsOf
<1>3. StepsOf(p)' = {b}
    BY <1>2 DEF StepsOf
<1>4. DeadlinesOf(p)' = DeadlinesOf(p) /\ AcceptedOf(p)' = AcceptedOf(p)
    BY DEF DeadlinesOf, AcceptedOf, StepKinds
<1>5. at[p] \notin {"new", "backlog", "accepting", "socket"}
    BY <1>1, <1>2 DEF PeerOK
<1>6. PeerOK(p)'
    BY <1>1, <1>2, <1>3, <1>4, <1>5 DEF PeerOK, UpgradeKinds, own
<1>7. \A x \in {a} \cup {b} : x.kind \in PeerKinds \ {"accepted"} /\ x.peer = p
    BY DEF PeerKinds, StepKinds
<1>8. UNCHANGED <<own, ctxq>> /\ (at[p] = "socket" => at'[p] = "socket")
      /\ \A q \in Peers : q # p => at'[q] = at[q] /\ asked'[q] = asked[q]
    BY <1>5
<1>9. ops = {} /\ strand = {} => ops' = {} /\ strand' = {}
    OBVIOUS
<1> QED BY ONLY Core, p \in Peers, Waiting' = (Waiting \ {a}) \cup {b},
                <1>6, <1>7, <1>8, <1>9, OnePeer

\* The last step of a peer, which may take the deadline with it.
LEMMA StepGone ==
    ASSUME Core, NEW p \in Peers, NEW a \in Waiting, NEW R,
           Waiting' = Waiting \ ({a} \cup R),
           a.kind \in StepKinds, a.peer = p,
           R \subseteq {Deadline(p)},
           UNCHANGED <<own, ctxq, asked>>,
           \A q \in Peers : q # p => at'[q] = at[q],
           at'[p] = "over" \/ (at'[p] = at[p] /\ R = {} /\ a.kind \notin UpgradeKinds),
           ~(ops = {} /\ strand = {})
    PROVE  Core'
<1>1. PeerOK(p)
    BY DEF Core, PeerInv
<1>2. StepsOf(p) = {a}
    BY <1>1 DEF PeerOK, StepsOf
<1>3. StepsOf(p)' = {}
    BY <1>2 DEF StepsOf
<1>4. /\ DeadlinesOf(p)' \subseteq DeadlinesOf(p) /\ AcceptedOf(p)' = AcceptedOf(p)
      /\ R = {} => DeadlinesOf(p)' = DeadlinesOf(p)
    BY DEF DeadlinesOf, AcceptedOf, StepKinds, Deadline
<1>5. at[p] \notin {"new", "backlog", "accepting", "socket"}
    BY <1>1, <1>2 DEF PeerOK
<1>6. PeerOK(p)'
    BY <1>1, <1>2, <1>3, <1>4, <1>5 DEF PeerOK, UpgradeKinds, own
<1> DEFINE gone == {a} \cup R
<1> DEFINE new == {}
<1>7. \A x \in gone \cup new : x.kind \in PeerKinds \ {"accepted"} /\ x.peer = p
    BY DEF PeerKinds, StepKinds, Deadline
<1>8. /\ UNCHANGED <<own, ctxq>> /\ (at[p] = "socket" => at'[p] = "socket")
      /\ Waiting' = (Waiting \ gone) \cup new
      /\ \A q \in Peers : q # p => at'[q] = at[q] /\ asked'[q] = asked[q]
    BY <1>5
<1>9. ops = {} /\ strand = {} => ops' = {} /\ strand' = {}
    OBVIOUS
<1> HIDE DEF gone, new
<1> QED BY ONLY <1>6, <1>7, <1>8, <1>9, Core, p \in Peers, OnePeer

-----------------------------------------------------------------------------
(* Types.                                                                  *)

LEMMA TypeReactor ==
    ASSUME TypeOK, Reactor
    PROVE  TypeOK'
<1> USE DEF Complete, Handler, TypeOK, own, loop
<1>1. CASE AcceptFailed
    BY <1>1 DEF AcceptFailed, StrandTasks, AcceptTasks
<1>2. ASSUME NEW p \in Peers, AcceptDone(p)
      PROVE  TypeOK'
    BY <1>2 DEF AcceptDone, StrandTasks, AcceptTasks, Places
<1>3. ASSUME NEW p \in Peers,
             RequestDone(p) \/ ResponseDone(p) \/ DeadlineDone(p) \/ UpgradeDone(p)
      PROVE  TypeOK'
    <2>1. PICK k \in {"requested", "responded", "expired", "upgraded"}, ok \in BOOLEAN :
              strand' = strand \cup {Handler(k, p, ok)}
        BY <1>3 DEF RequestDone, ResponseDone, DeadlineDone, UpgradeDone
    <2>2. Handler(k, p, ok) \in StrandTasks
        BY DEF StrandTasks, PeerTasks
    <2> QED BY <1>3, <2>1, <2>2 DEF RequestDone, ResponseDone, DeadlineDone, UpgradeDone
<1>4. ASSUME NEW c \in Conns, FrameDone(c)
      PROVE  TypeOK'
    <2>1. PICK r \in Results :
              /\ r \in FrameOutcomes(peerOf[c])
              /\ Complete(Frame(c), [kind |-> "framed", id |-> c, res |-> r])
              /\ inbox' = IF r = "error" THEN inbox ELSE [inbox EXCEPT ![peerOf[c]] = @ - 1]
              /\ UNCHANGED at
        BY <1>4 DEF FrameDone, FrameOutcomes
    <2>2. [kind |-> "framed", id |-> c, res |-> r] \in StrandTasks
        BY DEF StrandTasks, FrameTasks
    <2>3. inbox' \in [Peers -> Nat]
        <3>1. r # "error" => inbox[peerOf[c]] > 0
            BY <2>1 DEF FrameOutcomes
        <3>2. inbox \in [Peers -> Nat] /\ (r = "error" => inbox' = inbox)
              /\ (r # "error" => inbox' = [inbox EXCEPT ![peerOf[c]] = @ - 1])
            BY <2>1
        <3>3. CASE peerOf[c] \in Peers /\ r # "error"
            <4>1. inbox[peerOf[c]] - 1 \in Nat
                BY <3>1, <3>2, <3>3
            <4> QED BY <3>2, <3>3, <4>1
        <3> QED BY <3>2, <3>3
    <2> QED BY <2>1, <2>2, <2>3
<1> QED BY <1>1, <1>2, <1>3, <1>4 DEF Reactor

LEMMA TypeStrand ==
    ASSUME TypeOK, Strand
    PROVE  TypeOK'
<1>1. ops' \subseteq Ops
    <2>1. /\ ops \subseteq Ops /\ Accept \in Ops
          /\ \A p \in Peers : /\ Request(p) \in Ops /\ Response(p) \in Ops
                             /\ Deadline(p) \in Ops /\ Upgrade(p) \in Ops
          /\ \A c \in Conns : Frame(c) \in Ops
        BY DEF Ops, Request, Response, Deadline, Upgrade, TypeOK
    <2>2. CASE AcceptHandler
        BY <2>1, <2>2 DEF AcceptHandler, AcceptError, Accepted, Run
    <2>3. ASSUME NEW p \in Peers, PeerHandler(p)
          PROVE  ops' \subseteq Ops
        <3>1. CASE \E c \in Conns : Upgraded(p, c)
            BY <2>1, <3>1 DEF Upgraded
        <3>2. CASE UpgradeStarts(p) \/ Answered(p)
            <4>1. Upgrade(p) \in Ops /\ Response(p) \in Ops /\ ops \subseteq Ops
                BY <2>1
            <4> QED BY <3>2, <4>1 DEF UpgradeStarts, Answered
        <3>3. CASE Failed(p) \/ Responded(p) \/ Expired(p) \/ UpgradeFailed(p) \/ UpgradedThrow(p)
            BY <2>1, <3>3 DEF Failed, Responded, Expired, UpgradeFailed, UpgradedThrow
        <3> QED BY <2>3, <3>1, <3>2, <3>3 DEF PeerHandler
    <2>4. ASSUME NEW r \in Routes, NEW c \in Conns, Message(r, c) \/ FrameFailed(r, c)
          PROVE  ops' \subseteq Ops
        BY <2>1, <2>4 DEF Message, FrameFailed, DisconnectPosted
    <2> QED BY <2>2, <2>3, <2>4 DEF Strand, FrameHandler
<1>2. strand' \subseteq strand
    BY DEF Strand, AcceptHandler, PeerHandler, FrameHandler, AcceptError, Accepted, Failed,
       UpgradeStarts, Answered, Responded, Expired, UpgradeFailed, UpgradedThrow, Upgraded,
       Message, FrameFailed, TakeOf, TakeFrame, Take
<1>3. CASE AcceptHandler
    <2>1. at' \in [Peers -> Places]
        BY <1>3 DEF AcceptHandler, AcceptError, Accepted, TypeOK, net, Places
    <2>2. UNCHANGED <<line, asked, inbox, own, ctxq, loop>>
        BY <1>3 DEF AcceptHandler, AcceptError, Accepted, net
    <2> QED BY <1>1, <1>2, <2>1, <2>2 DEF TypeOK, own, loop
<1>4. ASSUME NEW p \in Peers, PeerHandler(p)
      PROVE  TypeOK'
    <2>1. at' \in [Peers -> Places]
        <3>1. at \in [Peers -> Places] /\ {"over", "upgrading", "socket"} \subseteq Places
            BY DEF TypeOK, Places
        <3>2. at' = at \/ \E x \in Places : at' = [at EXCEPT ![p] = x]
            <4>1. CASE UpgradeStarts(p) \/ Responded(p)
                <5>1. at[p] \in Places
                    BY <3>1
                <5>2. (IF at[p] = "transaction" THEN "upgrading" ELSE at[p]) \in Places
                      /\ (IF Deadline(p) \in ops THEN "over" ELSE at[p]) \in Places
                    BY <3>1, <5>1
                <5> QED BY <3>1, <4>1, <5>2 DEF UpgradeStarts, Responded
            <4>2. CASE Failed(p) \/ Answered(p) \/ Expired(p) \/ UpgradeFailed(p)
                       \/ UpgradedThrow(p) \/ \E c \in Conns : Upgraded(p, c)
                BY <3>1, <4>2 DEF Failed, Answered, Expired, UpgradeFailed, UpgradedThrow, Upgraded, net
            <4> QED BY <1>4, <4>1, <4>2 DEF PeerHandler
        <3> QED BY <3>1, <3>2
    <2>2. CASE \E c \in Conns : Upgraded(p, c)
        <3>1. PICK c \in Conns : Upgraded(p, c)
            BY <2>2
        <3>2. connections' \in [Routes -> SUBSET Conns]
            <4>1. asked[p] \in Routes => connections[asked[p]] \cup {c} \in SUBSET Conns
                BY DEF TypeOK
            <4> QED BY <3>1, <4>1 DEF Upgraded, TypeOK
        <3>3. peerOf' \in [Conns -> Peers \cup {None}]
            BY <3>1 DEF Upgraded, TypeOK
        <3> QED BY <1>1, <1>2, <2>1, <3>1, <3>2, <3>3 DEF Upgraded, TypeOK, loop
    <2>3. CASE ~(\E c \in Conns : Upgraded(p, c))
        BY <1>1, <1>2, <1>4, <2>1, <2>3
           DEF PeerHandler, Failed, UpgradeStarts, Answered, Responded, Expired,
               UpgradeFailed, UpgradedThrow, TypeOK, net, own, loop
    <2> QED BY <2>2, <2>3
<1>5. ASSUME NEW r \in Routes, NEW c \in Conns, Message(r, c)
      PROVE  TypeOK'
    BY <1>1, <1>2, <1>5 DEF Message, TypeOK, net, own, loop
<1>6. ASSUME NEW r \in Routes, NEW c \in Conns, FrameFailed(r, c)
      PROVE  TypeOK'
    <2>1. Closer(r, c) \in CtxTasks
        BY DEF Closer, CtxTasks, DisconnectTasks
    <2>2. ctxq' \subseteq CtxTasks /\ crashed' \in BOOLEAN
        BY <1>6, <2>1 DEF FrameFailed, DisconnectPosted, PostTo, TypeOK
    <2> QED BY <1>1, <1>2, <1>6, <2>2 DEF FrameFailed, TypeOK, net, own
<1> QED BY <1>3, <1>4, <1>5, <1>6 DEF Strand, FrameHandler

LEMMA TypeStep ==
    ASSUME TypeOK, Next
    PROVE  TypeOK'
<1>1. ASSUME NEW p \in Peers, Peer(p)
      PROVE  TypeOK'
    <2>1. at' \in [Peers -> Places] /\ line' \in [Peers -> {"up", "fin", "rst"}]
        BY <1>1 DEF Peer, PeerConnect, PeerReturn, PeerAsk, PeerSend, PeerClose, PeerReset,
           TypeOK, Places
    <2>2. asked' \in [Peers -> Requests \cup {None}]
        BY <1>1 DEF Peer, PeerConnect, PeerReturn, PeerAsk, PeerSend, PeerClose, PeerReset, TypeOK
    <2>3. inbox' \in [Peers -> Nat]
        BY <1>1 DEF Peer, PeerConnect, PeerReturn, PeerAsk, PeerSend, PeerClose, PeerReset, TypeOK
    <2> QED BY <1>1, <2>1, <2>2, <2>3 DEF Peer, TypeOK, own, asio, loop
<1>2. CASE Posted
    <2>1. CASE Ready
        BY <2>1 DEF Ready, TakePosted, TypeOK, Ops, net, loop
    <2>2. ASSUME NEW r \in Routes, NEW c \in Conns, Disconnect(r, c)
          PROVE  TypeOK'
        BY <2>2 DEF Disconnect, TakePosted, Erased, TypeOK, Places, loop
    <2>3. ASSUME NEW t \in ctxq, Write(t)
          PROVE  TypeOK'
        BY <2>3 DEF Write, TakePosted, TypeOK, net, own
    <2>4. CASE Dispatched
        BY <2>4 DEF Dispatched, TakePosted, TypeOK, net, own, loop
    <2> QED BY <1>2, <2>1, <2>2, <2>3, <2>4 DEF Posted
<1>3. CASE Application
    <2>1. ASSUME NEW r \in Routes, NEW m \in Modes, NEW ids \in SUBSET Conns, Post(r, m, ids)
          PROVE  TypeOK'
        <3> DEFINE t == [kind |-> "write", route |-> r, mode |-> m, ids |-> ids]
        <3>1. t \in CtxTasks
            BY DEF CtxTasks, WriteTasks
        <3>2. ctxq' \subseteq CtxTasks /\ crashed' \in BOOLEAN
            BY <2>1, <3>1 DEF Post, PostTo, TypeOK
        <3> QED BY <2>1, <3>2 DEF Post, TypeOK, net, own
    <2>2. ASSUME NEW r \in Routes, Publish(r) \/ PublishEx(r) \/ Send(r)
          PROVE  TypeOK'
        BY <2>1, <2>2 DEF Publish, PublishEx, Send, Modes, Known
    <2>3. CASE (\E r \in Routes : UseWs(r)) \/ Stop \/ Rerun
        BY <2>3 DEF UseWs, Stop, Rerun, TypeOK, net, own, asio, loop
    <2>4. CASE Dispatch
        BY <2>4 DEF Dispatch, TypeOK, CtxTasks, net, own, loop
    <2>5. CASE Restart
        <3>1. context' \in [Routes -> {"null", "live", "dead"}] /\ restarts' \in Nat
            BY <2>5 DEF Restart, TypeOK
        <3>2. at' \in [Peers -> Places]
            BY <2>5 DEF Restart, TypeOK, Places
        <3>3. stale' \in SUBSET Conns
            BY <2>5 DEF Restart, TypeOK, Owned
        <3>4. ctxq' \subseteq CtxTasks
            BY <2>5 DEF Restart, CtxTasks
        <3> QED BY <2>5, <3>1, <3>2, <3>3, <3>4 DEF Restart, TypeOK
    <2> QED BY <1>3, <2>2, <2>3, <2>4, <2>5 DEF Application
<1> QED BY <1>1, <1>2, <1>3, TypeReactor, TypeStrand DEF Next

-----------------------------------------------------------------------------
(* The initial state, and steps after which nothing waits but a ready task. *)

LEMMA OnlyReady ==
    ASSUME Waiting' = {[kind |-> "ready"]}, ops' = {}, strand' = {},
           [kind |-> "ready"] \in ctxq', ctxq' \subseteq Waiting',
           Owned' \subseteq stale', stale' \subseteq Owned',
           \A p \in Peers : at'[p] \notin {"transaction", "upgrading"},
           \A r, s \in Routes : r # s => (connections[r] \cap connections[s] = {})',
           \A r \in Routes : context'[r] # "null" => r \in routes'
    PROVE  Core'
<1>1. ConnInv'
    BY DEF ConnInv, ConnectionsDriven, ConnPeers, DriversOf, DriverKinds
<1>2. PeerInv'
    <2>1. ASSUME NEW p \in Peers
          PROVE  StepsOf(p)' = {} /\ DeadlinesOf(p)' = {} /\ AcceptedOf(p)' = {}
        BY DEF StepsOf, DeadlinesOf, AcceptedOf, StepKinds
    <2> QED BY <2>1 DEF PeerInv, PeerOK
<1>3. OneAccept'
    BY DEF OneAccept, Acceptors
<1>4. ContextInv'
    BY DEF ContextInv
<1> QED BY <1>1, <1>2, <1>3, <1>4 DEF Core

LEMMA InitIInv == Init => IInv
<1> SUFFICES ASSUME Init PROVE IInv
    OBVIOUS
<1>1. Waiting = {[kind |-> "ready"]} /\ Owned = {}
    BY DEF Init, Waiting, Owned
<1>2. TypeOK
    <2>1. [kind |-> "ready"] \in CtxTasks
        BY DEF CtxTasks
    <2>2. /\ at \in [Peers -> Places] /\ line \in [Peers -> {"up", "fin", "rst"}]
          /\ asked \in [Peers -> Requests \cup {None}] /\ inbox \in [Peers -> Nat]
        BY DEF Init, Places
    <2>3. /\ context \in [Routes -> {"null", "live", "dead"}]
          /\ connections \in [Routes -> SUBSET Conns]
          /\ peerOf \in [Conns -> Peers \cup {None}]
          /\ routes \in SUBSET Routes
        BY DEF Init, FirstRoutes
    <2> QED BY <2>1, <2>2, <2>3 DEF Init, TypeOK
<1>3. ConnInv
    BY <1>1 DEF Init, ConnInv, ConnectionsDriven, ConnPeers, DriversOf, DriverKinds
<1>4. PeerInv
    <2>1. ASSUME NEW p \in Peers
          PROVE  StepsOf(p) = {} /\ DeadlinesOf(p) = {} /\ AcceptedOf(p) = {}
        BY <1>1 DEF StepsOf, DeadlinesOf, AcceptedOf, StepKinds
    <2> QED BY <2>1 DEF Init, PeerInv, PeerOK
<1>5. OneAccept
    BY <1>1 DEF OneAccept, Acceptors
<1>6. ContextInv
    BY DEF Init, ContextInv
<1> QED BY <1>2, <1>3, <1>4, <1>5, <1>6 DEF IInv, Core

LEMMA RestartStep ==
    ASSUME IInv, Core, Restart
    PROVE  Core'
<1>1. Waiting' = {[kind |-> "ready"]} /\ Owned' = Owned
    BY DEF Restart, Waiting, Owned
<1>2. \A p \in Peers : at'[p] \notin {"transaction", "upgrading"}
    BY DEF Restart, IInv, TypeOK
<1>3. \A r \in Routes : context'[r] # "null" => r \in routes'
    BY DEF Restart, IInv, TypeOK, Core, ContextInv
<1>4. \A r, s \in Routes : r # s => (connections[r] \cap connections[s] = {})'
    BY DEF Restart, Core, ConnInv, ConnectionsDriven
<1> QED BY <1>1, <1>2, <1>3, <1>4, OnlyReady DEF Restart

-----------------------------------------------------------------------------
(* Steps of peers and of the application.                                  *)

\* A step that moves nothing that waits, and changes at most one peer.
LEMMA Unmoved ==
    ASSUME Core, UNCHANGED <<ops, strand, ctxq, context, connections, stale, peerOf>>,
           routes \subseteq routes', NEW p \in Peers,
           \A q \in Peers : q # p => at'[q] = at[q] /\ asked'[q] = asked[q],
           at[p] = "socket" => at'[p] = "socket",
           PeerOK(p)'
    PROVE  Core'
<1> DEFINE none == {}
<1>1. Waiting' = (Waiting \ none) \cup none
    BY DEF Waiting
<1>2. \A x \in none \cup none : FALSE
    OBVIOUS
<1> HIDE DEF none
<1>3. ConnInv'
    <2>1. \A q \in Peers : at[q] = "socket" => at'[q] = "socket"
        OBVIOUS
    <2> QED BY <1>1, <1>2, <2>1, ConnKept DEF Core
<1>4. PeerInv'
    <2>1. ASSUME NEW q \in Peers, q # p
          PROVE  PeerOK(q)'
        BY <1>1, <1>2, <2>1, PeerKept DEF Core, PeerInv
    <2> QED BY <2>1 DEF PeerInv
<1>5. OneAccept'
    BY <1>1, <1>2, AcceptKept DEF Core
<1>6. ContextInv'
    BY ContextKept DEF Core
<1> QED BY <1>3, <1>4, <1>5, <1>6 DEF Core

LEMMA PeerStep ==
    ASSUME TypeOK, Core, NEW p \in Peers, Peer(p)
    PROVE  Core'
<1>1. /\ UNCHANGED <<ops, strand, ctxq, context, connections, stale, peerOf, routes>>
      /\ at \in [Peers -> Places] /\ asked \in [Peers -> Requests \cup {None}]
    BY DEF Peer, own, asio, TypeOK
<1>2. /\ StepsOf(p)' = StepsOf(p) /\ DeadlinesOf(p)' = DeadlinesOf(p)
      /\ AcceptedOf(p)' = AcceptedOf(p)
    BY <1>1 DEF StepsOf, DeadlinesOf, AcceptedOf, Waiting
<1>3. PeerOK(p)
    BY DEF Core, PeerInv
<1>4. \A q \in Peers : q # p => at'[q] = at[q] /\ asked'[q] = asked[q]
    BY <1>1 DEF Peer, PeerConnect, PeerReturn, PeerAsk, PeerSend, PeerClose, PeerReset
<1>5. CASE PeerConnect(p)
    <2>1. at[p] = "new" /\ at'[p] = "backlog" /\ asked' = asked
        BY <1>1, <1>5 DEF PeerConnect
    <2>2. PeerOK(p)'
        BY <1>1, <1>2, <1>3, <2>1 DEF PeerOK
    <2> QED BY <1>1, <1>4, <2>1, <2>2, Unmoved
<1>6. CASE PeerReturn(p)
    <2>1. /\ at[p] = "over" /\ at'[p] = "new" /\ asked'[p] = None
          /\ StepsOf(p) = {} /\ DeadlinesOf(p) = {}
        BY <1>1, <1>6 DEF PeerReturn
    <2>2. PeerOK(p)'
        BY <1>1, <1>2, <1>3, <2>1 DEF PeerOK
    <2> QED BY <1>1, <1>4, <2>1, <2>2, Unmoved
<1>7. CASE PeerAsk(p)
    <2>1. at' = at /\ asked[p] = None
        BY <1>7 DEF PeerAsk
    <2>2. asked[p] \notin routes
        BY <2>1, NoneAssumption DEF TypeOK
    <2>3. PeerOK(p)'
        BY <1>1, <1>2, <1>3, <2>1, <2>2 DEF PeerOK
    <2> QED BY <1>1, <1>4, <2>1, <2>3, Unmoved
<1>8. CASE PeerSend(p) \/ PeerClose(p) \/ PeerReset(p)
    <2>1. at' = at /\ asked' = asked
        BY <1>8 DEF PeerSend, PeerClose, PeerReset
    <2>2. PeerOK(p)'
        BY <1>1, <1>2, <1>3, <2>1 DEF PeerOK
    <2> QED BY <1>1, <1>4, <2>1, <2>2, Unmoved
<1> QED BY <1>5, <1>6, <1>7, <1>8 DEF Peer

\* A step that only adds or takes a posted task that drives nothing.
LEMMA PostMoved ==
    ASSUME Core, NEW R, NEW A, Waiting' = (Waiting \ R) \cup A,
           \A x \in R \cup A : x.kind \in {"write", "dispatch"},
           UNCHANGED <<net, own, ops, strand>>,
           \A x \in ctxq' : x \in ctxq \/ x \in A,
           \A x \in ctxq : x \in ctxq' \/ x \in R
    PROVE  Core'
<1>1. ConnInv'
    <2>1. \A x \in ctxq' : x.kind = "disconnect" => x \in ctxq
        OBVIOUS
    <2>2. \A x \in R \cup A : x.kind \notin DriverKinds
        BY DEF DriverKinds
    <2> QED BY <2>1, <2>2, ConnKept DEF Core, net, own
<1>2. PeerInv'
    <2>1. ASSUME NEW q \in Peers
          PROVE  PeerOK(q)'
        BY PeerKept DEF Core, PeerInv, PeerKinds, StepKinds, net, own
    <2> QED BY <2>1 DEF PeerInv
<1>3. OneAccept'
    <2>1. \A x \in R \cup A : x.kind \notin {"accept", "accepted", "ready"}
        OBVIOUS
    <2> QED BY <2>1, AcceptKept DEF Core
<1>4. ContextInv'
    <2>1. [kind |-> "ready"] \in ctxq <=> [kind |-> "ready"] \in ctxq'
        OBVIOUS
    <2> QED BY <2>1, ContextKept DEF Core, own
<1> QED BY <1>1, <1>2, <1>3, <1>4 DEF Core

LEMMA ApplicationStep ==
    ASSUME IInv, Core, Application
    PROVE  crashed' \/ Core'
<1>1. ASSUME NEW r \in Routes, NEW m \in Modes, NEW ids \in SUBSET Conns, Post(r, m, ids)
      PROVE  crashed' \/ Core'
    <2> DEFINE t == [kind |-> "write", route |-> r, mode |-> m, ids |-> ids]
               new == ctxq' \ ctxq
               old == {}
    <2>1. crashed' \/ new \subseteq {t}
        BY <1>1 DEF Post, PostTo, IInv, TypeOK
    <2>2. SUFFICES ASSUME new \subseteq {t} PROVE Core'
        BY <2>1
    <2>3. ctxq \subseteq ctxq' /\ UNCHANGED <<net, own, ops, strand>>
        BY <1>1 DEF Post, PostTo, IInv, TypeOK
    <2>4. Waiting' = (Waiting \ old) \cup new
        BY <2>3 DEF Waiting
    <2>5. \A x \in old \cup new : x.kind \in {"write", "dispatch"}
        BY <2>2
    <2>6. (\A x \in ctxq' : x \in ctxq \/ x \in new) /\ \A x \in ctxq : x \in ctxq' \/ x \in old
        BY <2>3
    <2> HIDE DEF new, old
    <2> QED BY <2>3, <2>4, <2>5, <2>6, PostMoved
<1>2. ASSUME NEW r \in Routes, Publish(r) \/ PublishEx(r) \/ Send(r)
      PROVE  crashed' \/ Core'
    BY <1>1, <1>2 DEF Publish, PublishEx, Send, Modes, Known
<1>3. CASE Dispatch
    <2> DEFINE new == {[kind |-> "dispatch"]}
               old == {}
    <2>1. UNCHANGED <<net, own, ops, strand>> /\ ctxq' = ctxq \cup new
        BY <1>3 DEF Dispatch
    <2>2. Waiting' = (Waiting \ old) \cup new
        BY <2>1 DEF Waiting
    <2>3. \A x \in old \cup new : x.kind \in {"write", "dispatch"}
        OBVIOUS
    <2> HIDE DEF new, old
    <2> QED BY <2>1, <2>2, <2>3, PostMoved
<1>4. CASE (\E r \in Routes : UseWs(r)) \/ Stop \/ Rerun
    <2>1. /\ UNCHANGED <<ops, strand, ctxq, context, connections, stale, peerOf, at, asked>>
          /\ routes \subseteq routes'
        BY <1>4 DEF UseWs, Stop, Rerun, asio, own, net
    <2>2. ASSUME NEW q \in Peers
          PROVE  PeerOK(q)'
        <3>1. /\ StepsOf(q)' = StepsOf(q) /\ DeadlinesOf(q)' = DeadlinesOf(q)
              /\ AcceptedOf(q)' = AcceptedOf(q)
            BY <2>1 DEF StepsOf, DeadlinesOf, AcceptedOf, Waiting
        <3> QED BY <2>1, <3>1 DEF Core, PeerInv, PeerOK
    <2>3. CASE Peers = {}
        <3>1. Waiting' = Waiting /\ Owned' = Owned
            BY <2>1 DEF Waiting, Owned
        <3>2. ConnInv'
            BY <2>1, <3>1 DEF Core, ConnInv, ConnectionsDriven, ConnPeers, DriversOf
        <3>3. OneAccept' /\ ContextInv'
            BY <2>1, <3>1 DEF Core, OneAccept, Acceptors, ContextInv
        <3> QED BY <2>2, <3>2, <3>3 DEF Core, PeerInv
    <2>4. CASE Peers # {}
        <3>1. PICK p \in Peers : TRUE
            BY <2>4
        <3> QED BY <2>1, <2>2, <3>1, Unmoved
    <2> QED BY <2>3, <2>4
<1>5. CASE Restart
    BY <1>5, RestartStep
<1> QED BY <1>2, <1>3, <1>4, <1>5 DEF Application

-----------------------------------------------------------------------------
(* Steps of the loop.                                                      *)

\* The driver of a Connection is followed by another.
LEMMA DriverMoved ==
    ASSUME Core, NEW c \in Conns, NEW a \in Waiting, NEW b,
           Waiting' = (Waiting \ {a}) \cup {b},
           a.kind \in DriverKinds, a.id = c, b.kind \in DriverKinds, b.id = c,
           UNCHANGED <<own, at, asked>>,
           \A x \in ctxq' : x \in ctxq \/ (x = b /\ c \in connections[b.route]),
           [kind |-> "ready"] \in ctxq => [kind |-> "ready"] \in ctxq',
           ~(ops = {} /\ strand = {})
    PROVE  Core'
<1>1. Owned' = Owned /\ connections' = connections /\ stale' = stale
    BY DEF Owned, own
<1>2. c \in Owned \ stale /\ DriversOf(c) = {a}
    <2>1. a \in DriversOf(c)
        BY DEF DriversOf
    <2> QED BY <2>1 DEF Core, ConnInv, ConnectionsDriven
<1>3. DriversOf(c)' = {b} /\ b \in Waiting'
    BY <1>2 DEF DriversOf
<1>4. ASSUME NEW d \in Conns, d # c
      PROVE  DriversOf(d)' = DriversOf(d)
    BY <1>4 DEF DriversOf
<1>5. ConnectionsDriven'
    <2>1. ASSUME NEW d \in Conns, d # c
          PROVE  (IF d \in Owned \ stale THEN \E x \in Waiting : DriversOf(d) = {x}
                                         ELSE DriversOf(d) = {})'
        <3>1. CASE d \in Owned \ stale
            <4>1. PICK x \in Waiting : DriversOf(d) = {x}
                BY <3>1 DEF Core, ConnInv, ConnectionsDriven
            <4>2. DriversOf(d)' = {x}
                BY <1>4, <2>1, <4>1
            <4>3. x \in Waiting'
                BY <4>2 DEF DriversOf
            <4> QED BY <1>1, <3>1, <4>2, <4>3
        <3>2. CASE d \notin Owned \ stale
            BY <1>1, <1>4, <2>1, <3>2 DEF Core, ConnInv, ConnectionsDriven
        <3> QED BY <3>1, <3>2
    <2>2. \A x \in ctxq' : x.kind = "disconnect" => x.id \in connections[x.route]
        BY DEF Core, ConnInv, ConnectionsDriven
    <2>3. \A r, s \in Routes : r # s => connections[r] \cap connections[s] = {}
        BY DEF Core, ConnInv, ConnectionsDriven
    <2> QED BY <1>1, <1>2, <1>3, <2>1, <2>2, <2>3 DEF ConnectionsDriven
<1>6. ConnInv'
    BY <1>1, <1>5 DEF Core, ConnInv, ConnPeers, own
<1> DEFINE old == {a}
           new == {b}
<1>7. /\ Waiting' = (Waiting \ old) \cup new
      /\ \A x \in old \cup new : x.kind \in DriverKinds
    OBVIOUS
<1> HIDE DEF old, new
<1>8. PeerInv'
    <2>1. \A x \in old \cup new : x.kind \notin PeerKinds
        BY <1>7 DEF DriverKinds, PeerKinds, StepKinds
    <2>2. ASSUME NEW q \in Peers
          PROVE  PeerOK(q)'
        <3>1. PeerOK(q) /\ at'[q] = at[q] /\ asked'[q] = asked[q] /\ routes \subseteq routes'
            BY DEF Core, PeerInv, own
        <3>2. \A x \in old \cup new : x.kind \in PeerKinds => x.peer # q
            BY <2>1
        <3> QED BY ONLY <1>7, <3>1, <3>2, q \in Peers, PeerKept
    <2> QED BY <2>2 DEF PeerInv
<1>9. OneAccept'
    <2>1. \A x \in old \cup new : x.kind \notin {"accept", "accepted", "ready"}
        BY <1>7 DEF DriverKinds
    <2> QED BY <1>7, <2>1, AcceptKept DEF Core
<1>10. ContextInv'
    BY <1>3 DEF Core, ContextInv, own, DriverKinds
<1> QED BY <1>6, <1>8, <1>9, <1>10 DEF Core

\* An accept is followed by another, and PeerInv' is shown already.
LEMMA AcceptStep ==
    ASSUME Core, NEW a \in Waiting, NEW b, NEW A,
           Waiting' = (Waiting \ {a}) \cup A, b \in A,
           a.kind \in {"accept", "accepted"}, b.kind \in {"accept", "accepted"},
           \A x \in A \ {b} : x.kind \in {"request", "deadline"},
           UNCHANGED <<own, ctxq, asked>>,
           \A q \in Peers : at[q] = "socket" => at'[q] = "socket",
           PeerInv',
           ~(ops = {} /\ strand = {})
    PROVE  Core'
<1> DEFINE old == {a}
<1>1. /\ Waiting' = (Waiting \ old) \cup A
      /\ \A x \in old \cup A : x.kind \in {"accept", "accepted", "request", "deadline"}
      /\ a \in old
    OBVIOUS
<1> HIDE DEF old
<1>2. ConnInv'
    <2>1. \A x \in old \cup A : x.kind \notin DriverKinds
        BY <1>1 DEF DriverKinds
    <2> QED BY <1>1, <2>1, ConnKept DEF Core, own
<1>3. OneAccept'
    <2>1. \A x \in A : x.kind \in {"accept", "accepted", "ready"} => x = b
        OBVIOUS
    <2>2. OneAccept /\ a \in Waiting
        BY DEF Core
    <2> QED BY <1>1, <2>1, <2>2, AcceptMoved
<1>4. ContextInv'
    BY ContextKept DEF Core, own
<1> QED BY <1>2, <1>3, <1>4 DEF Core

LEMMA ReactorStep ==
    ASSUME TypeOK, Core, Reactor
    PROVE  Core'
<1>1. ASSUME NEW op, NEW t, Complete(op, t)
      PROVE  /\ op \in Waiting /\ Waiting' = (Waiting \ {op}) \cup {t}
             /\ UNCHANGED <<own, ctxq, asked>>
             /\ ~(ops = {} /\ strand = {})
    <2>1. op \in Waiting /\ Waiting' = (Waiting \ {op}) \cup {t}
        BY <1>1, CompleteWaiting
    <2> QED BY <1>1, <2>1 DEF Complete
<1>2. at \in [Peers -> Places]
    BY DEF TypeOK
<1>3. CASE AcceptFailed
    <2> DEFINE t == [kind |-> "accepted", peer |-> None]
               new == {t}
    <2>1. Complete(Accept, t) /\ at' = at
        BY <1>3 DEF AcceptFailed
    <2>2. \A q \in Peers : \A x \in {Accept} \cup new : x.kind \in PeerKinds => x.peer # q
        BY NoneAssumption DEF Accept, PeerKinds, StepKinds
    <2>3. /\ t \in new /\ t.kind = "accepted" /\ Accept.kind = "accept"
          /\ \A x \in new \ {t} : x.kind \in {"request", "deadline"}
          /\ Waiting' = (Waiting \ {Accept}) \cup new
        BY <1>1, <2>1 DEF Accept
    <2> DEFINE old == {Accept}
    <2>4. ASSUME NEW q \in Peers
          PROVE  PeerOK(q)'
        <3>1. PeerOK(q) /\ at'[q] = at[q] /\ asked'[q] = asked[q] /\ routes \subseteq routes'
            BY <1>1, <2>1 DEF Core, PeerInv, own
        <3>2. Waiting' = (Waiting \ old) \cup new
            BY <2>3
        <3>3. \A x \in old \cup new : x.kind \in PeerKinds => x.peer # q
            BY <2>2
        <3> HIDE DEF old, new
        <3> QED BY ONLY <3>1, <3>2, <3>3, q \in Peers, PeerKept
    <2>5. PeerInv'
        BY <2>4 DEF PeerInv
    <2>6. /\ Accept \in Waiting /\ UNCHANGED <<own, ctxq, asked>>
          /\ ~(ops = {} /\ strand = {})
        BY <1>1, <2>1
    <2> HIDE DEF t, new, old
    <2> QED BY <2>1, <2>3, <2>5, <2>6, AcceptStep
<1>4. ASSUME NEW p \in Peers, AcceptDone(p)
      PROVE  Core'
    <2> DEFINE t == [kind |-> "accepted", peer |-> p]
               new == {t}
    <2>1. Complete(Accept, t) /\ at[p] = "backlog" /\ at' = [at EXCEPT ![p] = "accepting"]
        BY <1>4 DEF AcceptDone
    <2>2. PeerOK(p)
        BY DEF Core, PeerInv
    <2>3. StepsOf(p)' = StepsOf(p) /\ DeadlinesOf(p)' = DeadlinesOf(p)
        BY <1>1, <2>1 DEF StepsOf, DeadlinesOf, StepKinds, Accept
    <2>4. PeerOK(p)'
        BY <1>2, <2>1, <2>2, <2>3 DEF PeerOK
    <2>5. /\ t \in new /\ t.kind = "accepted" /\ Accept.kind = "accept"
          /\ \A x \in new \ {t} : x.kind \in {"request", "deadline"}
          /\ Waiting' = (Waiting \ {Accept}) \cup new
        BY <1>1, <2>1 DEF Accept
    <2> DEFINE old == {Accept}
    <2>6. ASSUME NEW q \in Peers, q # p
          PROVE  PeerOK(q)'
        <3>1. PeerOK(q) /\ at'[q] = at[q] /\ asked'[q] = asked[q] /\ routes \subseteq routes'
            BY <1>1, <1>2, <2>1, <2>6 DEF Core, PeerInv, own
        <3>2. Waiting' = (Waiting \ old) \cup new
            BY <2>5
        <3>3. \A x \in old \cup new : x.kind \in PeerKinds => x.peer # q
            BY <2>6 DEF Accept, PeerKinds, StepKinds
        <3> HIDE DEF old, new
        <3> QED BY ONLY <3>1, <3>2, <3>3, q \in Peers, PeerKept
    <2>7. PeerInv'
        BY <2>4, <2>6 DEF PeerInv
    <2>8. \A q \in Peers : at[q] = "socket" => at'[q] = "socket"
        BY <1>2, <2>1
    <2>9. /\ Accept \in Waiting /\ UNCHANGED <<own, ctxq, asked>>
          /\ ~(ops = {} /\ strand = {})
        BY <1>1, <2>1
    <2> HIDE DEF t, new, old
    <2> QED BY <2>5, <2>7, <2>8, <2>9, AcceptStep
<1>5. ASSUME NEW p \in Peers, RequestDone(p) \/ ResponseDone(p)
      PROVE  Core'
    <2>1. PICK a \in {Request(p), Response(p)}, k \in {"requested", "responded"}, ok \in BOOLEAN :
              Complete(a, Handler(k, p, ok)) /\ at' = at
        BY <1>5 DEF RequestDone, ResponseDone
    <2> DEFINE b == Handler(k, p, ok)
    <2>2. /\ a.kind \in {"request", "response"} /\ a.peer = p
          /\ b.kind \in {"requested", "responded"} /\ b.peer = p
        BY <2>1 DEF Request, Response, Handler
    <2>3. Waiting' = (Waiting \ {a}) \cup {b} /\ a \in Waiting
        BY <1>1, <2>1
    <2> HIDE DEF b
    <2> QED BY <1>1, <2>1, <2>2, <2>3, StepMoved DEF StepKinds, UpgradeKinds
<1>6. ASSUME NEW p \in Peers, UpgradeDone(p)
      PROVE  Core'
    <2>1. PICK ok \in BOOLEAN : Complete(Upgrade(p), Handler("upgraded", p, ok)) /\ at' = at
        BY <1>6 DEF UpgradeDone
    <2> DEFINE a == Upgrade(p)
               b == Handler("upgraded", p, ok)
    <2>2. a.kind = "upgrade" /\ a.peer = p /\ b.kind = "upgraded" /\ b.peer = p
        BY DEF Upgrade, Handler
    <2>3. Waiting' = (Waiting \ {a}) \cup {b} /\ a \in Waiting
        BY <1>1, <2>1
    <2> HIDE DEF a, b
    <2>4. asked[p] \in routes
        BY <2>2, <2>3 DEF Core, PeerInv, PeerOK, StepsOf, StepKinds
    <2> QED BY <1>1, <2>1, <2>2, <2>3, <2>4, StepMoved DEF StepKinds, UpgradeKinds
<1>7. ASSUME NEW p \in Peers, DeadlineDone(p)
      PROVE  Core'
    <2> DEFINE a == Deadline(p)
               b == Handler("expired", p, TRUE)
               old == {a}
               new == {b}
    <2>1. Complete(a, b) /\ at' = at
        BY <1>7 DEF DeadlineDone
    <2>2. a.kind = "deadline" /\ a.peer = p /\ b.kind = "expired" /\ b.peer = p
        BY DEF Deadline, Handler
    <2>3. Waiting' = (Waiting \ {a}) \cup {b} /\ a \in Waiting
        BY <1>1, <2>1
    <2> HIDE DEF a, b
    <2>4. PeerOK(p)
        BY DEF Core, PeerInv
    <2>5. DeadlinesOf(p) = {a} /\ DeadlinesOf(p)' = {b}
        BY <2>2, <2>3, <2>4 DEF DeadlinesOf, PeerOK
    <2>6. StepsOf(p)' = StepsOf(p) /\ AcceptedOf(p)' = AcceptedOf(p)
        BY <2>2, <2>3 DEF StepsOf, AcceptedOf, StepKinds
    <2>7. UNCHANGED <<own, ctxq, asked>> /\ ~(ops = {} /\ strand = {})
        BY <1>1, <2>1
    <2>8. PeerOK(p)'
        BY <2>1, <2>4, <2>5, <2>6, <2>7 DEF PeerOK, own
    <2>9. /\ Waiting' = (Waiting \ old) \cup new
          /\ \A x \in old \cup new : x.kind \in PeerKinds \ {"accepted"} /\ x.peer = p
          /\ \A q \in Peers : q # p => at'[q] = at[q] /\ asked'[q] = asked[q]
          /\ ops = {} /\ strand = {} => ops' = {} /\ strand' = {}
          /\ UNCHANGED <<own, ctxq>> /\ (at[p] = "socket" => at'[p] = "socket")
        BY <2>1, <2>2, <2>3, <2>7 DEF PeerKinds
    <2> HIDE DEF old, new
    <2> QED BY ONLY <2>8, <2>9, Core, p \in Peers, OnePeer
<1>8. ASSUME NEW c \in Conns, FrameDone(c)
      PROVE  Core'
    <2>1. PICK r \in Results : /\ Complete(Frame(c), [kind |-> "framed", id |-> c, res |-> r])
                               /\ UNCHANGED at
        BY <1>8 DEF FrameDone, FrameOutcomes
    <2> DEFINE a == Frame(c)
               b == [kind |-> "framed", id |-> c, res |-> r]
    <2>2. a.kind = "frame" /\ a.id = c /\ b.kind = "framed" /\ b.id = c
        BY DEF Frame
    <2>3. Waiting' = (Waiting \ {a}) \cup {b} /\ a \in Waiting
        BY <1>1, <2>1
    <2> HIDE DEF a, b
    <2>4. UNCHANGED <<own, ctxq, asked, at>> /\ ~(ops = {} /\ strand = {})
        BY <1>1, <2>1
    <2>5. a.kind \in DriverKinds /\ b.kind \in DriverKinds
        BY <2>2 DEF DriverKinds
    <2> QED BY <2>2, <2>3, <2>4, <2>5, DriverMoved
<1> QED BY <1>3, <1>4, <1>5, <1>6, <1>7, <1>8 DEF Reactor

\* A handler that cancels nothing.
LEMMA TakeStarts ==
    ASSUME TypeOK, NEW t, NEW A, Take(t), ops' = ops \cup A, ctxq' = ctxq,
           \A x \in A : x.kind \in OpKinds
    PROVE  /\ t \in Waiting /\ Waiting' = (Waiting \ {t}) \cup A
           /\ ~(ops = {} /\ strand = {})
<1> DEFINE none == {}
<1>1. none \subseteq ops /\ ops' = (ops \ none) \cup A
    OBVIOUS
<1>2. /\ t \in Waiting /\ Waiting' = (Waiting \ ({t} \cup none)) \cup A
      /\ ~(ops = {} /\ strand = {})
    <2> HIDE DEF none
    <2> QED BY <1>1, TakeWaiting
<1> QED BY <1>2

LEMMA AcceptHandlerStep ==
    ASSUME TypeOK, Core, AcceptHandler
    PROVE  Core'
<1>1. CASE AcceptError
    <2> DEFINE a == [kind |-> "accepted", peer |-> None]
               new == {Accept}
               old == {a}
    <2>1. Take(a) /\ ops' = ops \cup new /\ UNCHANGED <<own, ctxq, asked, at>>
        BY <1>1 DEF AcceptError, net
    <2>2. \A x \in new : x = Accept /\ x.kind = "accept" /\ x.kind \in OpKinds
        BY DEF Accept, OpKinds
    <2>3. a.kind = "accepted" /\ a.peer \notin Peers /\ Accept \in new /\ Accept.kind = "accept"
        BY NoneAssumption DEF Accept
    <2> HIDE DEF a, new
    <2>4. /\ a \in Waiting /\ Waiting' = (Waiting \ {a}) \cup new
          /\ ~(ops = {} /\ strand = {})
        BY <2>1, <2>2, TakeStarts
    <2>5. ASSUME NEW q \in Peers
          PROVE  PeerOK(q)'
        <3>1. PeerOK(q) /\ at'[q] = at[q] /\ asked'[q] = asked[q] /\ routes \subseteq routes'
            BY <2>1 DEF Core, PeerInv, own
        <3>2. Waiting' = (Waiting \ old) \cup new
            BY <2>4
        <3>3. \A x \in old \cup new : x.kind \in PeerKinds => x.peer # q
            BY <2>2, <2>3 DEF PeerKinds, StepKinds
        <3> HIDE DEF old
        <3> QED BY ONLY <3>1, <3>2, <3>3, q \in Peers, PeerKept
    <2>6. PeerInv'
        BY <2>5 DEF PeerInv
    <2> HIDE DEF old
    <2> QED BY <2>1, <2>2, <2>3, <2>4, <2>6, AcceptStep
<1>2. ASSUME NEW p \in Peers, Accepted(p)
      PROVE  Core'
    <2> DEFINE a == [kind |-> "accepted", peer |-> p]
               new == {Request(p), Deadline(p), Accept}
               old == {a}
    <2>1. /\ Take(a) /\ ops' = ops \cup new /\ UNCHANGED <<own, ctxq, asked>>
          /\ at' = [at EXCEPT ![p] = "transaction"] /\ at \in [Peers -> Places]
        BY <1>2 DEF Accepted, Run, TypeOK
    <2>2. /\ \A x \in new : x.kind \in OpKinds
          /\ \A x \in new \ {Accept} : x.kind \in {"request", "deadline"}
          /\ Accept \in new
        BY DEF Accept, OpKinds, Request, Deadline
    <2>3. a.kind = "accepted" /\ a.peer = p /\ Accept.kind = "accept"
        BY DEF Accept
    <2>4. /\ a \in Waiting /\ Waiting' = (Waiting \ {a}) \cup new
          /\ ~(ops = {} /\ strand = {})
        <3> HIDE DEF a, new
        <3> QED BY <2>1, <2>2, TakeStarts
    <2>5. PeerOK(p)'
        <3>1. /\ at[p] = "accepting" /\ StepsOf(p) = {} /\ DeadlinesOf(p) = {}
            <4>1. a \in AcceptedOf(p)
                BY <2>4 DEF AcceptedOf
            <4> QED BY <4>1 DEF Core, PeerInv, PeerOK
        <3>2. StepsOf(p)' = {Request(p)} /\ DeadlinesOf(p)' = {Deadline(p)}
            BY <2>4, <3>1 DEF StepsOf, DeadlinesOf, StepKinds, Request, Deadline, Accept
        <3>3. AcceptedOf(p)' = {}
            <4>1. \A x \in Waiting : x.kind = "accepted" => x = a
                BY <2>4 DEF Core, OneAccept, Acceptors
            <4> QED BY <2>4, <4>1 DEF AcceptedOf, Request, Deadline, Accept
        <3>4. at'[p] = "transaction" /\ Request(p).kind = "request"
            BY <2>1 DEF Request
        <3> QED BY <3>2, <3>3, <3>4 DEF PeerOK
    <2>6. ASSUME NEW q \in Peers, q # p
          PROVE  PeerOK(q)'
        <3>1. PeerOK(q) /\ at'[q] = at[q] /\ asked'[q] = asked[q] /\ routes \subseteq routes'
            BY <2>1, <2>6 DEF Core, PeerInv, own
        <3>2. Waiting' = (Waiting \ old) \cup new
            BY <2>4
        <3>3. \A x \in old \cup new : x.kind \in PeerKinds => x.peer # q
            BY <2>6 DEF Accept, Request, Deadline, PeerKinds, StepKinds
        <3> HIDE DEF old, new
        <3> QED BY ONLY <3>1, <3>2, <3>3, q \in Peers, PeerKept
    <2>7. PeerInv'
        BY <2>5, <2>6 DEF PeerInv
    <2>8. \A q \in Peers : at[q] = "socket" => at'[q] = "socket"
        <3>1. AcceptedOf(p) # {}
            BY <2>4 DEF AcceptedOf
        <3>2. at[p] # "socket"
            BY <3>1 DEF Core, PeerInv, PeerOK
        <3> QED BY <2>1, <3>2
    <2> HIDE DEF a, new, old
    <2> QED BY <2>1, <2>2, <2>3, <2>4, <2>7, <2>8, AcceptStep
<1> QED BY <1>1, <1>2 DEF AcceptHandler

\* The socket becomes a Connection.
LEMMA UpgradedStep ==
    ASSUME TypeOK, Core, NEW p \in Peers, NEW c \in Conns, Upgraded(p, c)
    PROVE  Core'
<1> DEFINE a == Handler("upgraded", p, TRUE)
           b == Frame(c)
           r == asked[p]
           old == {a}
           new == {b}
<1>1. /\ Take(a) /\ c \notin Owned /\ ops' = ops \cup new
      /\ UNCHANGED <<asked, routes, context, stale, ctxq>>
      /\ at' = [at EXCEPT ![p] = "socket"]
      /\ peerOf' = [peerOf EXCEPT ![c] = p]
      /\ connections' = [connections EXCEPT ![r] = @ \cup {c}]
    BY DEF Upgraded, TakeOf
<1>2. a.kind = "upgraded" /\ a.peer = p /\ b.kind = "frame" /\ b.id = c
    BY DEF Handler, Frame
<1>3. /\ at \in [Peers -> Places] /\ peerOf \in [Conns -> Peers \cup {None}]
      /\ connections \in [Routes -> SUBSET Conns] /\ routes \subseteq Routes
    BY DEF TypeOK
<1>4. /\ a \in Waiting /\ Waiting' = (Waiting \ old) \cup new
      /\ ~(ops = {} /\ strand = {})
    <2>1. \A x \in new : x.kind \in OpKinds
        BY <1>2 DEF OpKinds
    <2> HIDE DEF a, new
    <2>2. /\ a \in Waiting /\ Waiting' = (Waiting \ {a}) \cup new
          /\ ~(ops = {} /\ strand = {})
        BY <1>1, <2>1, TakeStarts
    <2> QED BY <2>2
<1>5. PeerOK(p)
    BY DEF Core, PeerInv
<1> HIDE DEF a, b
<1>6. StepsOf(p) = {a}
    BY <1>2, <1>4, <1>5 DEF PeerOK, StepsOf, StepKinds
<1>7. r \in Routes /\ at[p] \notin {"new", "backlog", "accepting", "socket"}
    <2>1. asked[p] \in routes
        BY <1>2, <1>5, <1>6 DEF PeerOK
    <2> QED BY <1>3, <1>5, <1>6, <2>1 DEF PeerOK
<1>8. PeerOK(p)'
    <2>1. /\ StepsOf(p)' = {} /\ DeadlinesOf(p)' = DeadlinesOf(p)
          /\ AcceptedOf(p)' = AcceptedOf(p)
        BY <1>2, <1>4, <1>6 DEF StepsOf, DeadlinesOf, AcceptedOf, StepKinds
    <2>2. AcceptedOf(p) = {} /\ at'[p] = "socket"
        BY <1>1, <1>3, <1>5, <1>7 DEF PeerOK
    <2> QED BY <1>5, <2>1, <2>2 DEF PeerOK
<1>9. PeerInv'
    <2>1. ASSUME NEW q \in Peers, q # p
          PROVE  PeerOK(q)'
        <3>1. PeerOK(q) /\ at'[q] = at[q] /\ asked'[q] = asked[q] /\ routes \subseteq routes'
            BY <1>1, <1>3, <2>1 DEF Core, PeerInv
        <3>2. \A x \in old \cup new : x.kind \in PeerKinds => x.peer # q
            BY <1>2, <2>1 DEF PeerKinds, StepKinds
        <3> HIDE DEF old, new
        <3> QED BY ONLY <1>4, <3>1, <3>2, q \in Peers, PeerKept
    <2> QED BY <1>8, <2>1 DEF PeerInv
<1>10. /\ Owned' = Owned \cup {c} /\ c \notin stale /\ stale' = stale
       /\ \A s \in Routes : connections'[s] = IF s = r THEN connections[s] \cup {c}
                                                     ELSE connections[s]
    <2>1. \A s \in Routes : connections'[s] = IF s = r THEN connections[s] \cup {c}
                                                    ELSE connections[s]
        BY <1>1, <1>3
    <2>2. Owned' = Owned \cup {c}
        <3>1. ASSUME NEW d
              PROVE  d \in Owned' <=> d \in Owned \cup {c}
            <4>1. d \in Owned' <=> \E s \in Routes : d \in connections'[s]
                BY DEF Owned
            <4>2. d \in Owned <=> \E s \in Routes : d \in connections[s]
                BY DEF Owned
            <4> QED BY <1>7, <2>1, <4>1, <4>2
        <3> QED BY <3>1
    <2> QED BY <1>1, <2>1, <2>2 DEF Core, ConnInv
<1>11. ConnectionsDriven'
    <2>1. DriversOf(c)' = {b}
        <3>1. DriversOf(c) = {}
            BY <1>1 DEF Core, ConnInv, ConnectionsDriven
        <3> QED BY <1>2, <1>4, <3>1 DEF DriversOf, DriverKinds
    <2>2. ASSUME NEW d \in Conns, d # c
          PROVE  DriversOf(d)' = DriversOf(d)
        BY <1>2, <1>4, <2>2 DEF DriversOf, DriverKinds
    <2>3. ASSUME NEW d \in Conns
          PROVE  (IF d \in Owned \ stale THEN \E x \in Waiting : DriversOf(d) = {x}
                                         ELSE DriversOf(d) = {})'
        <3>1. CASE d = c
            BY <1>4, <1>10, <2>1, <3>1
        <3>2. CASE d # c /\ d \in Owned \ stale
            <4>1. PICK x \in Waiting : DriversOf(d) = {x}
                BY <3>2 DEF Core, ConnInv, ConnectionsDriven
            <4>2. DriversOf(d)' = {x}
                BY <2>2, <3>2, <4>1
            <4>3. x \in Waiting'
                BY <4>2 DEF DriversOf
            <4> QED BY <1>10, <3>2, <4>2, <4>3
        <3>3. CASE d # c /\ d \notin Owned \ stale
            BY <1>10, <2>2, <3>3 DEF Core, ConnInv, ConnectionsDriven
        <3> QED BY <3>1, <3>2, <3>3
    <2>4. \A x \in ctxq' : x.kind = "disconnect" => x.id \in connections'[x.route]
        <3>1. ASSUME NEW x \in ctxq, x.kind = "disconnect"
              PROVE  x.id \in connections'[x.route]
            <4>1. x.id \in connections[x.route] /\ x.route \in Routes
                <5>1. x \in DisconnectTasks
                    BY <3>1 DEF TypeOK, CtxTasks, WriteTasks
                <5> QED BY <3>1, <5>1 DEF Core, ConnInv, ConnectionsDriven, DisconnectTasks
            <4> QED BY <1>10, <4>1
        <3> QED BY <1>1, <3>1
    <2>5. ASSUME NEW s \in Routes, NEW t \in Routes, s # t
          PROVE  connections'[s] \cap connections'[t] = {}
        <3>1. connections[s] \cap connections[t] = {}
            BY <2>5 DEF Core, ConnInv, ConnectionsDriven
        <3>2. c \notin connections[s] /\ c \notin connections[t]
            BY <1>1 DEF Owned
        <3> QED BY <1>10, <2>5, <3>1, <3>2
    <2> QED BY <2>3, <2>4, <2>5 DEF ConnectionsDriven
<1>12. ConnPeers'
    <2>1. peerOf'[c] = p /\ at'[p] = "socket"
        BY <1>1, <1>3
    <2>2. ASSUME NEW d \in Owned \ stale
          PROVE  /\ d # c /\ peerOf'[d] = peerOf[d] /\ peerOf[d] \in Peers \ {p}
                 /\ at'[peerOf[d]] = "socket"
        <3>1. d # c /\ d \in Conns /\ peerOf[d] \in Peers /\ at[peerOf[d]] = "socket"
            BY <1>1, <1>3 DEF Core, ConnInv, ConnPeers, Owned
        <3> QED BY <1>1, <1>3, <1>7, <3>1
    <2>3. \A d, e \in Owned \ stale : peerOf[d] = peerOf[e] => d = e
        BY DEF Core, ConnInv, ConnPeers
    <2> QED BY <1>10, <2>1, <2>2, <2>3 DEF ConnPeers
<1>13. ConnInv'
    BY <1>10, <1>11, <1>12 DEF Core, ConnInv
<1>14. OneAccept'
    <2>1. \A x \in old \cup new : x.kind \notin {"accept", "accepted", "ready"}
        BY <1>2
    <2> HIDE DEF old, new
    <2> QED BY <1>4, <2>1, AcceptKept DEF Core
<1>15. ContextInv'
    BY <1>1, <1>4, ContextKept DEF Core
<1> QED BY <1>9, <1>13, <1>14, <1>15 DEF Core

LEMMA PeerHandlerStep ==
    ASSUME TypeOK, Core, NEW p \in Peers, PeerHandler(p)
    PROVE  Core'
<1> USE DEF TakeOf
<1>1. at \in [Peers -> Places]
    BY DEF TypeOK
<1> DEFINE none == {}
<1>2. CASE Failed(p)
    <2>1. PICK a \in {Handler("requested", p, FALSE), Handler("responded", p, FALSE)} :
              Take(a) /\ UNCHANGED <<own, ctxq, asked, at, ops>>
        BY <1>2 DEF Failed, net
    <2>2. a.kind \in {"requested", "responded"} /\ a.peer = p
        BY <2>1 DEF Handler
    <2>3. ops' = ops \cup none /\ \A x \in none : x.kind \in OpKinds
        BY <2>1
    <2>4. /\ a \in Waiting /\ Waiting' = (Waiting \ {a}) \cup none
          /\ ~(ops = {} /\ strand = {})
        <3> HIDE DEF none
        <3> QED BY <2>1, <2>3, TakeStarts
    <2>5. Waiting' = Waiting \ ({a} \cup none) /\ none = {} /\ none \subseteq {Deadline(p)}
        BY <2>4
    <2> HIDE DEF none
    <2> QED BY <2>1, <2>2, <2>4, <2>5, StepGone DEF StepKinds, UpgradeKinds
<1>3. CASE UpgradeFailed(p) \/ UpgradedThrow(p)
    <2>1. PICK a \in {Handler("upgraded", p, FALSE), Handler("upgraded", p, TRUE)} :
              /\ Take(a) /\ UNCHANGED <<own, ctxq, asked, ops>>
              /\ at' = [at EXCEPT ![p] = "over"]
        BY <1>3 DEF UpgradeFailed, UpgradedThrow
    <2>2. a.kind = "upgraded" /\ a.peer = p
        BY <2>1 DEF Handler
    <2>3. ops' = ops \cup none /\ \A x \in none : x.kind \in OpKinds
        BY <2>1
    <2>4. /\ a \in Waiting /\ Waiting' = (Waiting \ {a}) \cup none
          /\ ~(ops = {} /\ strand = {})
        <3> HIDE DEF none
        <3> QED BY <2>1, <2>3, TakeStarts
    <2>5. Waiting' = Waiting \ ({a} \cup none) /\ none \subseteq {Deadline(p)}
        BY <2>4
    <2>6. at'[p] = "over" /\ \A q \in Peers : q # p => at'[q] = at[q]
        BY <1>1, <2>1
    <2> HIDE DEF none
    <2> QED BY <2>1, <2>2, <2>4, <2>5, <2>6, StepGone DEF StepKinds
<1>4. CASE UpgradeStarts(p) \/ Answered(p)
    <2> DEFINE a == Handler("requested", p, TRUE)
    <2>1. PICK b \in {Upgrade(p), Response(p)} :
              /\ Take(a) /\ UNCHANGED <<own, ctxq, asked>> /\ ops' = ops \cup {b}
              /\ b = Upgrade(p) => asked[p] \in routes
              /\ \/ at' = at
                 \/ /\ b = Upgrade(p)
                    /\ at' = [at EXCEPT ![p] = IF @ = "transaction" THEN "upgrading" ELSE @]
        <3>1. CASE UpgradeStarts(p)
            BY <3>1 DEF UpgradeStarts
        <3>2. CASE Answered(p)
            BY <3>2 DEF Answered, net, Upgrade, Response
        <3> QED BY <1>4, <3>1, <3>2
    <2>2. /\ a.kind = "requested" /\ a.peer = p /\ b.kind \in {"upgrade", "response"}
          /\ b.peer = p /\ (b.kind = "upgrade" => b = Upgrade(p))
        BY <2>1 DEF Upgrade, Response, Handler
    <2>3. \A x \in {b} : x.kind \in OpKinds
        BY <2>2 DEF OpKinds
    <2>4. /\ a \in Waiting /\ Waiting' = (Waiting \ {a}) \cup {b}
          /\ ~(ops = {} /\ strand = {})
        <3> HIDE DEF a
        <3> QED BY <2>1, <2>3, TakeStarts
    <2>5. /\ \A q \in Peers : q # p => at'[q] = at[q]
          /\ at'[p] = at[p] \/ (at[p] = "transaction" /\ at'[p] = "upgrading" /\ b.kind = "upgrade")
        BY <1>1, <2>1 DEF Upgrade
    <2> HIDE DEF a
    <2>6. b.kind \in UpgradeKinds => asked[p] \in routes
        BY <2>1, <2>2 DEF UpgradeKinds
    <2> QED BY <2>1, <2>2, <2>4, <2>5, <2>6, StepMoved DEF StepKinds, UpgradeKinds
<1>5. CASE Responded(p)
    <2> DEFINE a == Handler("responded", p, TRUE)
               gone == ops \cap {Deadline(p)}
    <2>1. /\ Take(a) /\ UNCHANGED <<own, ctxq, asked>>
          /\ at' = [at EXCEPT ![p] = IF Deadline(p) \in ops THEN "over" ELSE @]
          /\ ops' = (ops \ gone) \cup none /\ gone \subseteq ops
          /\ \A x \in none : x.kind \in OpKinds
        BY <1>5 DEF Responded
    <2>2. a.kind = "responded" /\ a.peer = p /\ gone \subseteq {Deadline(p)}
        BY DEF Handler
    <2>3. /\ a \in Waiting /\ Waiting' = (Waiting \ ({a} \cup gone)) \cup none
          /\ ~(ops = {} /\ strand = {})
        <3> HIDE DEF a, gone, none
        <3> QED BY <2>1, TakeWaiting
    <2>4. Waiting' = Waiting \ ({a} \cup gone)
        BY <2>3
    <2>5. /\ \A q \in Peers : q # p => at'[q] = at[q]
          /\ at'[p] = "over" \/ (at'[p] = at[p] /\ gone = {})
        BY <1>1, <2>1
    <2> HIDE DEF a, gone, none
    <2> QED BY <2>1, <2>2, <2>3, <2>4, <2>5, StepGone DEF StepKinds, UpgradeKinds
<1>6. CASE Expired(p)
    <2> DEFINE a == Handler("expired", p, TRUE)
               gone == IF at[p] = "transaction" THEN ops \cap {Request(p), Response(p)} ELSE {}
               old == {a} \cup gone
    <2>1. /\ Take(a) /\ UNCHANGED <<own, ctxq, asked>>
          /\ at' = IF at[p] = "transaction" THEN [at EXCEPT ![p] = "over"] ELSE at
          /\ ops' = (ops \ gone) \cup none /\ gone \subseteq ops
          /\ \A x \in none : x.kind \in OpKinds
        BY <1>6 DEF Expired
    <2>2. /\ a.kind = "expired" /\ a.peer = p
          /\ \A x \in gone : x.kind \in {"request", "response"} /\ x.peer = p
        BY DEF Handler, Request, Response
    <2>3. /\ a \in Waiting /\ Waiting' = (Waiting \ ({a} \cup gone)) \cup none
          /\ ~(ops = {} /\ strand = {})
        <3> HIDE DEF a, gone, none
        <3> QED BY <2>1, TakeWaiting
    <2>4. PeerOK(p)
        BY DEF Core, PeerInv
    <2>5. /\ StepsOf(p)' \subseteq StepsOf(p) /\ DeadlinesOf(p)' = {}
          /\ AcceptedOf(p)' = AcceptedOf(p) /\ (gone = {} => StepsOf(p)' = StepsOf(p))
        <3> HIDE DEF a, gone
        <3>1. DeadlinesOf(p) = {a}
            BY <2>2, <2>3, <2>4 DEF PeerOK, DeadlinesOf
        <3> QED BY <2>2, <2>3, <3>1 DEF StepsOf, DeadlinesOf, AcceptedOf, StepKinds
    <2>6. PeerOK(p)'
        <3>1. CASE at[p] = "transaction"
            <4>1. at'[p] = "over" /\ AcceptedOf(p)' = {}
                BY <1>1, <2>1, <2>4, <2>5, <3>1 DEF PeerOK
            <4>2. asked' = asked /\ routes' = routes
                BY <2>1 DEF own
            <4> QED BY <2>4, <2>5, <4>1, <4>2 DEF PeerOK
        <3>2. CASE at[p] # "transaction"
            <4>1. at' = at /\ gone = {} /\ asked' = asked /\ routes' = routes
                BY <2>1, <3>2 DEF own
            <4> QED BY <2>4, <2>5, <3>2, <4>1 DEF PeerOK
        <3> QED BY <3>1, <3>2
    <2>7. /\ Waiting' = (Waiting \ old) \cup none
          /\ \A x \in old \cup none : x.kind \in PeerKinds \ {"accepted"} /\ x.peer = p
          /\ \A q \in Peers : q # p => at'[q] = at[q] /\ asked'[q] = asked[q]
          /\ ops = {} /\ strand = {} => ops' = {} /\ strand' = {}
          /\ UNCHANGED <<own, ctxq>> /\ (at[p] = "socket" => at'[p] = "socket")
        BY <1>1, <2>1, <2>2, <2>3 DEF PeerKinds, StepKinds
    <2> HIDE DEF old, none
    <2> QED BY ONLY <2>6, <2>7, Core, p \in Peers, OnePeer
<1> QED BY <1>2, <1>3, <1>4, <1>5, <1>6, UpgradedStep DEF PeerHandler

LEMMA FrameHandlerStep ==
    ASSUME TypeOK, Core, NEW r \in Routes, NEW c \in Conns, Message(r, c) \/ FrameFailed(r, c)
    PROVE  crashed' \/ Core'
<1>1. CASE Message(r, c)
    <2> DEFINE a == [kind |-> "framed", id |-> c, res |-> "message"]
               new == {Frame(c)}
    <2>1. /\ Take(a) /\ ops' = ops \cup new /\ UNCHANGED <<own, ctxq, at, asked>>
        BY <1>1 DEF Message, TakeFrame, net
    <2>2. /\ \A x \in new : x.kind \in OpKinds
          /\ a.kind = "framed" /\ a.id = c /\ Frame(c).kind = "frame" /\ Frame(c).id = c
        BY DEF Frame, OpKinds
    <2>3. /\ a \in Waiting /\ Waiting' = (Waiting \ {a}) \cup new
          /\ ~(ops = {} /\ strand = {})
        <3> HIDE DEF a, new
        <3> QED BY <2>1, <2>2, TakeStarts
    <2>4. /\ a.kind \in DriverKinds /\ Frame(c).kind \in DriverKinds
          /\ Waiting' = (Waiting \ {a}) \cup {Frame(c)}
        BY <2>2, <2>3 DEF DriverKinds
    <2> HIDE DEF a, new
    <2> QED BY <2>1, <2>2, <2>3, <2>4, DriverMoved
<1>2. CASE FrameFailed(r, c)
    <2> DEFINE b == Closer(r, c)
    <2>1. PICK a \in {[kind |-> "framed", id |-> c, res |-> "oversize"],
                      [kind |-> "framed", id |-> c, res |-> "error"]} :
              /\ c \in connections[r] /\ Take(a) /\ PostTo(r, b)
              /\ UNCHANGED <<own, ops, at, asked>>
        BY <1>2 DEF FrameFailed, TakeFrame, DisconnectPosted, net
    <2>2. /\ a.kind = "framed" /\ a.id = c
          /\ b.kind = "disconnect" /\ b.id = c /\ b.route = r
        BY <2>1 DEF Closer
    <2> HIDE DEF b
    <2>3. a \in strand /\ a \notin ops /\ a \notin ctxq /\ strand' = strand \ {a}
        BY <2>1, Kinds DEF Take, OpKinds, TaskKinds, PostKinds
    <2>4. context[r] # "dead"
        BY <2>3 DEF Core, ContextInv
    <2>5. crashed' \/ ctxq' = ctxq \cup {b}
        BY <2>1, <2>4 DEF PostTo, TypeOK
    <2>6. SUFFICES ASSUME ctxq' = ctxq \cup {b} PROVE Core'
        BY <2>5
    <2>7. a \in Waiting /\ Waiting' = (Waiting \ {a}) \cup {b}
        BY <2>1, <2>2, <2>3, <2>6 DEF Waiting
    <2>8. a.kind \in DriverKinds /\ b.kind \in DriverKinds
        BY <2>2 DEF DriverKinds
    <2>9. \A x \in ctxq' : x \in ctxq \/ (x = b /\ c \in connections[b.route])
        BY <2>1, <2>2, <2>6
    <2> QED BY <2>1, <2>2, <2>3, <2>6, <2>7, <2>8, <2>9, DriverMoved
<1> QED BY <1>1, <1>2

LEMMA ReadyStep ==
    ASSUME TypeOK, Core, Ready
    PROVE  Core'
<1> DEFINE a == [kind |-> "ready"]
           old == {a}
           new == {Accept}
<1>1. /\ TakePosted(a) /\ ops' = ops \cup new /\ strand' = strand
      /\ UNCHANGED <<net, routes, connections, peerOf, stale>>
      /\ context' = [r \in Routes |-> IF r \in routes THEN "live" ELSE context[r]]
    BY DEF Ready
<1>2. a.kind = "ready" /\ Accept.kind = "accept" /\ \A x \in new : x = Accept
    BY DEF Accept
<1>3. a \in Waiting /\ Waiting' = (Waiting \ old) \cup new
    <2>1. a \notin new
        BY <1>2
    <2> HIDE DEF a, new
    <2>2. a \in Waiting /\ Waiting' = (Waiting \ {a}) \cup new
        BY <1>1, <2>1, PostedWaiting
    <2> QED BY <2>2
<1>4. a \in old /\ Accept \in new /\ \A x \in old : x = a
    OBVIOUS
<1>5. ctxq' = ctxq \ old
    BY <1>1 DEF TakePosted
<1>6. ContextInv'
    <2>1. a \notin ctxq'
        BY <1>4, <1>5
    <2>2. ASSUME NEW r \in Routes
          PROVE  context'[r] # "dead" /\ (context'[r] # "null" => r \in routes')
        <3>1. context[r] # "null" => r \in routes
            BY DEF Core, ContextInv
        <3> QED BY <1>1, <3>1 DEF TypeOK
    <2> QED BY <2>1, <2>2 DEF ContextInv
<1> HIDE DEF old, new
<1>7. ConnInv'
    <2>1. \A x \in old \cup new : x.kind \notin DriverKinds
        BY <1>2, <1>4 DEF DriverKinds
    <2>2. UNCHANGED <<connections, stale, peerOf>>
          /\ (\A p \in Peers : at[p] = "socket" => at'[p] = "socket")
          /\ \A x \in ctxq' : x.kind = "disconnect" => x \in ctxq
        BY <1>1, <1>5 DEF net
    <2> QED BY <1>3, <2>1, <2>2, ConnKept DEF Core
<1>8. PeerInv'
    <2>1. ASSUME NEW q \in Peers
          PROVE  PeerOK(q)'
        <3>1. PeerOK(q) /\ at'[q] = at[q] /\ asked'[q] = asked[q] /\ routes \subseteq routes'
            BY <1>1 DEF Core, PeerInv, net
        <3>2. \A x \in old \cup new : x.kind \in PeerKinds => x.peer # q
            BY <1>2, <1>4 DEF PeerKinds, StepKinds
        <3> QED BY ONLY <1>3, <3>1, <3>2, q \in Peers, PeerKept
    <2> QED BY <2>1 DEF PeerInv
<1>9. OneAccept'
    <2>1. OneAccept
        BY DEF Core
    <2>2. \A x \in new : x.kind \in {"accept", "accepted", "ready"} => x = Accept
        BY <1>2
    <2> HIDE DEF a
    <2> QED BY <1>2, <1>3, <1>4, <2>1, <2>2, AcceptMoved
<1> QED BY <1>6, <1>7, <1>8, <1>9 DEF Core

\* The Connection is freed, and nothing that waits is left for it.
LEMMA DisconnectStep ==
    ASSUME TypeOK, Core, NEW r \in Routes, NEW c \in Conns, Disconnect(r, c)
    PROVE  Core'
<1> DEFINE a == Closer(r, c)
           p == peerOf[c]
           old == {a}
           none == {}
<1>1. /\ TakePosted(a) /\ UNCHANGED <<asked, routes, context, peerOf, stale, ops, strand>>
      /\ at' = [at EXCEPT ![p] = "over"]
      /\ connections' = [connections EXCEPT ![r] = @ \ {c}]
    BY DEF Disconnect, Erased
<1>2. a.kind = "disconnect" /\ a.id = c /\ a.route = r
    BY DEF Closer
<1>3. /\ at \in [Peers -> Places] /\ connections \in [Routes -> SUBSET Conns]
    BY DEF TypeOK
<1>4. a \in Waiting /\ Waiting' = (Waiting \ old) \cup none
    <2>1. a \notin none /\ ops' = ops \cup none
        BY <1>1
    <2> HIDE DEF a, none
    <2>2. a \in Waiting /\ Waiting' = (Waiting \ {a}) \cup none
        BY <1>1, <2>1, PostedWaiting
    <2> QED BY <2>2
<1>5. a \in old /\ (\A x \in old : x = a) /\ \A x \in none : FALSE
    OBVIOUS
<1>6. ctxq' = ctxq \ old /\ a \in ctxq
    BY <1>1 DEF TakePosted
<1> HIDE DEF a, old, none
<1>7. c \in connections[r] /\ c \in Owned \ stale /\ DriversOf(c) = {a}
    <2>1. a \in DriversOf(c)
        BY <1>2, <1>4 DEF DriversOf, DriverKinds
    <2>2. c \in connections[r]
        BY <1>2, <1>6 DEF Core, ConnInv, ConnectionsDriven
    <2> QED BY <2>1, <2>2 DEF Core, ConnInv, ConnectionsDriven
<1>8. p \in Peers /\ at[p] = "socket" /\ at'[p] = "over"
    BY <1>1, <1>3, <1>7 DEF Core, ConnInv, ConnPeers
<1>9. \A s \in Routes : connections'[s] = connections[s] \ {c}
    <2>1. ASSUME NEW s \in Routes, s # r
          PROVE  c \notin connections[s]
        BY <1>7, <2>1 DEF Core, ConnInv, ConnectionsDriven
    <2> QED BY <1>1, <1>3, <2>1
<1>10. Owned' = Owned \ {c}
    BY <1>9 DEF Owned
<1>11. ConnectionsDriven'
    <2>1. DriversOf(c)' = {}
        BY <1>4, <1>5, <1>7 DEF DriversOf
    <2>2. ASSUME NEW d \in Conns, d # c
          PROVE  DriversOf(d)' = DriversOf(d)
        BY <1>2, <1>4, <1>5, <2>2 DEF DriversOf
    <2>3. ASSUME NEW d \in Conns
          PROVE  (IF d \in Owned \ stale THEN \E x \in Waiting : DriversOf(d) = {x}
                                         ELSE DriversOf(d) = {})'
        <3>1. CASE d = c
            BY <1>10, <2>1, <3>1
        <3>2. CASE d # c /\ d \in Owned \ stale
            <4>1. PICK x \in Waiting : DriversOf(d) = {x}
                BY <3>2 DEF Core, ConnInv, ConnectionsDriven
            <4>2. DriversOf(d)' = {x}
                BY <2>2, <3>2, <4>1
            <4>3. x \in Waiting'
                BY <4>2 DEF DriversOf
            <4> QED BY <1>1, <1>10, <3>2, <4>2, <4>3
        <3>3. CASE d # c /\ d \notin Owned \ stale
            BY <1>1, <1>10, <2>2, <3>3 DEF Core, ConnInv, ConnectionsDriven
        <3> QED BY <3>1, <3>2, <3>3
    <2>4. ASSUME NEW x \in ctxq', x.kind = "disconnect"
          PROVE  x.id \in connections'[x.route]
        <3>1. x \in ctxq /\ x # a
            BY <1>5, <1>6
        <3>2. x.id \in connections[x.route] /\ x.route \in Routes
            <4>1. x \in DisconnectTasks
                BY <2>4, <3>1 DEF TypeOK, CtxTasks, WriteTasks
            <4> QED BY <2>4, <3>1 , <4>1 DEF Core, ConnInv, ConnectionsDriven, DisconnectTasks
        <3>3. x.id # c
            BY <1>7, <2>4, <3>1 DEF DriversOf, DriverKinds, Waiting
        <3> QED BY <1>9, <3>2, <3>3
    <2>5. \A s, t \in Routes : s # t => connections'[s] \cap connections'[t] = {}
        BY <1>9 DEF Core, ConnInv, ConnectionsDriven
    <2> QED BY <2>3, <2>4, <2>5 DEF ConnectionsDriven
<1>12. ConnPeers'
    <2>1. ASSUME NEW d \in Owned \ stale, d # c
          PROVE  peerOf[d] \in Peers /\ at'[peerOf[d]] = "socket"
        <3>1. peerOf[d] \in Peers /\ at[peerOf[d]] = "socket" /\ peerOf[d] # p
            BY <1>7, <2>1 DEF Core, ConnInv, ConnPeers
        <3> QED BY <1>1, <1>3, <3>1
    <2>2. \A d, e \in Owned \ stale : peerOf[d] = peerOf[e] => d = e
        BY DEF Core, ConnInv, ConnPeers
    <2> QED BY <1>1, <1>10, <2>1, <2>2 DEF ConnPeers
<1>13. ConnInv'
    BY <1>1, <1>7, <1>10, <1>11, <1>12 DEF Core, ConnInv
<1>14. PeerInv'
    <2>1. \A x \in old \cup none : x.kind \notin PeerKinds
        BY <1>2, <1>5 DEF PeerKinds, StepKinds
    <2>2. ASSUME NEW q \in Peers
          PROVE  PeerOK(q)'
        <3>1. PeerOK(q) /\ asked'[q] = asked[q] /\ routes \subseteq routes'
            BY <1>1 DEF Core, PeerInv
        <3>2. CASE q # p
            <4>1. at'[q] = at[q]
                BY <1>1, <1>3, <3>2
            <4>2. \A x \in old \cup none : x.kind \in PeerKinds => x.peer # q
                BY <2>1
            <4> QED BY ONLY <1>4, <3>1, <4>1, <4>2, q \in Peers, PeerKept
        <3>3. CASE q = p
            <4>1. at'[q] = "over"
                BY <1>8, <3>3
            <4>2. /\ StepsOf(q)' = StepsOf(q) /\ DeadlinesOf(q)' = DeadlinesOf(q)
                  /\ AcceptedOf(q)' = AcceptedOf(q)
                BY <1>4, <2>1 DEF StepsOf, DeadlinesOf, AcceptedOf, PeerKinds
            <4>3. AcceptedOf(q) = {} /\ routes' = routes
                BY <1>1, <1>8, <3>1, <3>3 DEF PeerOK
            <4> QED BY <3>1, <4>1, <4>2, <4>3 DEF PeerOK
        <3> QED BY <3>2, <3>3
    <2> QED BY <2>2 DEF PeerInv
<1>15. OneAccept'
    <2>1. \A x \in old \cup none : x.kind \notin {"accept", "accepted", "ready"}
        BY <1>2, <1>5
    <2> QED BY <1>4, <2>1, AcceptKept DEF Core
<1>16. ContextInv'
    <2>1. [kind |-> "ready"] \in ctxq <=> [kind |-> "ready"] \in ctxq'
        BY <1>2, <1>5, <1>6
    <2> QED BY <1>1, <2>1, ContextKept DEF Core
<1> QED BY <1>13, <1>14, <1>15, <1>16 DEF Core

-----------------------------------------------------------------------------
(* The invariant holds.                                                    *)

LEMMA PostedStep ==
    ASSUME IInv, Core, Posted
    PROVE  crashed' \/ Core'
<1>1. TypeOK
    BY DEF IInv
<1>2. ASSUME NEW t, TakePosted(t), UNCHANGED <<net, own, ops, strand>>,
             t.kind \in {"write", "dispatch"}
      PROVE  Core'
    <2> DEFINE old == {t}
               none == {}
    <2>1. t \notin none /\ ops' = ops \cup none /\ strand' = strand
        BY <1>2
    <2>2. Waiting' = (Waiting \ old) \cup none
        <3> HIDE DEF none
        <3> QED BY <1>1, <1>2, <2>1, PostedWaiting
    <2>3. /\ \A x \in old \cup none : x.kind \in {"write", "dispatch"}
          /\ \A x \in ctxq' : x \in ctxq \/ x \in none
          /\ \A x \in ctxq : x \in ctxq' \/ x \in old
        BY <1>2 DEF TakePosted
    <2> HIDE DEF old, none
    <2> QED BY <1>2, <2>2, <2>3, PostMoved
<1>3. ASSUME NEW t \in ctxq, Write(t)
      PROVE  Core'
    <2>1. t.kind = "write"
        BY <1>3 DEF Write, WriteTasks
    <2> QED BY <1>2, <1>3, <2>1 DEF Write
<1>4. CASE Dispatched
    BY <1>2, <1>4 DEF Dispatched, net, own
<1> QED BY <1>1, <1>3, <1>4, ReadyStep, DisconnectStep DEF Posted

LEMMA NextIInv == IInv /\ [Next]_vars => IInv'
<1> SUFFICES ASSUME IInv, [Next]_vars PROVE IInv'
    OBVIOUS
<1>1. CASE Next
    <2>1. TypeOK'
        BY <1>1, TypeStep DEF IInv
    <2>2. TypeOK /\ Core
        <3>1. ~crashed
            BY <1>1 DEF Next, Peer, Reactor, Strand, Posted, Application, Running, Complete,
               AcceptFailed, AcceptDone, RequestDone, ResponseDone, DeadlineDone, UpgradeDone,
               FrameDone, AcceptHandler, PeerHandler, FrameHandler, Take, TakeOf, TakeFrame,
               AcceptError, Accepted, Failed, UpgradeStarts, Answered, Responded, Expired,
               UpgradeFailed, UpgradedThrow, Upgraded, Message, FrameFailed, TakePosted,
               Ready, Dispatched, Disconnect, Write, UseWs, Publish, PublishEx, Send, Post,
               Dispatch, Stop, Rerun, Restart
        <3> QED BY <3>1 DEF IInv
    <2>3. crashed' \/ Core'
        <3>1. CASE Strand
            BY <2>2, <3>1, AcceptHandlerStep, PeerHandlerStep, FrameHandlerStep
               DEF Strand, FrameHandler
        <3>2. CASE (\E p \in Peers : Peer(p)) \/ Reactor
            BY <2>2, <3>2, PeerStep, ReactorStep
        <3>3. CASE Posted \/ Application
            BY <2>2, <3>3, PostedStep, ApplicationStep
        <3> QED BY <1>1, <3>1, <3>2, <3>3 DEF Next
    <2> QED BY <2>1, <2>3 DEF IInv
<1>2. CASE UNCHANGED vars
    <2>1. Waiting' = Waiting /\ Owned' = Owned /\ UNCHANGED vars
        BY <1>2 DEF vars, asio, own, Waiting, Owned
    <2>2. TypeOK'
        BY <2>1 DEF IInv, TypeOK, vars, net, own, asio, loop
    <2>3. ConnInv <=> ConnInv'
        BY <2>1 DEF vars, net, own, asio, ConnInv, ConnectionsDriven, ConnPeers, DriversOf
    <2>4. PeerInv <=> PeerInv'
        BY <2>1 DEF vars, net, own, PeerInv, PeerOK, StepsOf, DeadlinesOf, AcceptedOf
    <2>5. OneAccept <=> OneAccept'
        BY <2>1 DEF OneAccept, Acceptors
    <2>6. ContextInv <=> ContextInv'
        BY <2>1 DEF vars, own, asio, ContextInv
    <2>7. crashed' = crashed
        BY <2>1 DEF vars, loop
    <2> QED BY <2>2, <2>3, <2>4, <2>5, <2>6, <2>7 DEF IInv, Core
<1> QED BY <1>1, <1>2

\* The inductive invariant holds of every behaviour of the server.
LEMMA IInvHolds == Spec => []IInv
BY InitIInv, NextIInv, PTL DEF Spec

\* For any peers, addresses and routes, over every hand-over of a socket, restart
\* and upgrade: a web socket has one driver, a Transaction its deadline, an upgrade
\* its handshake, and there is one accept (or the process has ended).
THEOREM OneDriverAlways == Spec => []OneDriver
<1>1. IInv => OneDriver
    <2> SUFFICES ASSUME IInv, Core PROVE OneDriver
        BY DEF IInv, OneDriver
    <2>1. ASSUME NEW p \in Peers
          PROVE  /\ at[p] = "transaction" => \E x \in Waiting : DeadlinesOf(p) = {x}
                 /\ at[p] = "upgrading" =>
                       \E x \in Waiting : x.kind \in {"upgrade", "upgraded"} /\ StepsOf(p) = {x}
        <3>1. PeerOK(p)
            BY DEF Core, PeerInv
        <3>2. DeadlinesOf(p) \subseteq Waiting /\ StepsOf(p) \subseteq Waiting
            BY DEF DeadlinesOf, StepsOf
        <3>3. ASSUME at[p] = "transaction"
              PROVE  \E x \in Waiting : DeadlinesOf(p) = {x}
            BY <3>1, <3>2, <3>3 DEF PeerOK
        <3>4. ASSUME at[p] = "upgrading"
              PROVE  \E x \in Waiting : x.kind \in {"upgrade", "upgraded"} /\ StepsOf(p) = {x}
            <4>1. PICK x \in StepsOf(p) : x.kind \in {"upgrade", "upgraded"}
                BY <3>1, <3>4 DEF PeerOK
            <4>2. StepsOf(p) = {x}
                BY <3>1, <4>1 DEF PeerOK
            <4> QED BY <3>2, <4>1, <4>2
        <3> QED BY <3>3, <3>4
    <2>2. SocketsBounded
        BY <2>1 DEF SocketsBounded
    <2> QED BY <2>2 DEF IInv, Core, ConnInv, OneDriver
<1> QED BY <1>1, IInvHolds, PTL

-----------------------------------------------------------------------------
(* The contract.                                                           *)

\* What reports on a Connection finds it open.
LEMMA DrivenOpen ==
    ASSUME Core, NEW c \in Conns, NEW x \in Waiting, x.kind \in DriverKinds, x.id = c
    PROVE  c \in Owned \ stale
<1>1. x \in DriversOf(c)
    BY DEF DriversOf
<1> QED BY <1>1 DEF Core, ConnInv, ConnectionsDriven

LEMMA NextImplements == IInv /\ [Next]_vars => [Contract!Next]_(Contract!vars)
<1> SUFFICES ASSUME IInv, [Next]_vars PROVE [Contract!Next]_(Contract!vars)
    OBVIOUS
<1> USE DEF Contract!vars, Contract!Next
<1>1. ASSUME UNCHANGED <<connections, stale, restarts, event>>
      PROVE  [Contract!Next]_(Contract!vars)
    BY <1>1 DEF Open
<1>2. CASE crashed \/ ~Next
    BY <1>1, <1>2 DEF vars, own, loop, Next, Peer, Reactor, Strand, Posted, Application, Running,
       Complete, AcceptFailed, AcceptDone, RequestDone, ResponseDone, DeadlineDone, UpgradeDone,
       FrameDone, AcceptHandler, PeerHandler, FrameHandler, Take, TakeOf, TakeFrame, AcceptError,
       Accepted, Failed, UpgradeStarts, Answered, Responded, Expired, UpgradeFailed,
       UpgradedThrow, Upgraded, Message, FrameFailed, TakePosted, Ready, Dispatched, Disconnect,
       Write, UseWs, Publish, PublishEx, Send, Post, Dispatch, Stop, Rerun, Restart
<1> SUFFICES ASSUME Next, TypeOK, Core PROVE [Contract!Next]_(Contract!vars)
    BY <1>2 DEF IInv
<1>4. CASE (\E p \in Peers : Peer(p)) \/ Reactor
    BY <1>1, <1>4 DEF Peer, Reactor, Complete, AcceptFailed, AcceptDone, RequestDone, ResponseDone,
       DeadlineDone, UpgradeDone, FrameDone, own, loop
<1>5. ASSUME NEW p \in Peers, NEW c \in Conns, Upgraded(p, c)
      PROVE  [Contract!Next]_(Contract!vars)
    <2>1. asked[p] \in Routes /\ c \notin stale /\ c \notin Owned
        <3>1. Handler("upgraded", p, TRUE) \in StepsOf(p)
            BY <1>5 DEF Upgraded, TakeOf, Take, StepsOf, StepKinds, Waiting, Handler
        <3>2. PeerOK(p) /\ stale \subseteq Owned
            BY DEF Core, PeerInv, ConnInv
        <3>3. asked[p] \in routes
            BY <3>1, <3>2 DEF PeerOK, Handler
        <3>4. routes \subseteq Routes
            BY DEF TypeOK
        <3> QED BY <1>5, <3>2, <3>3, <3>4 DEF Upgraded
    <2>2. UNCHANGED <<stale, restarts>> /\ event' = <<"connect", <<asked[p], c>>>>
        BY <1>5 DEF Upgraded, Heard, loop
    <2>3. \A r \in Routes : connections'[r] = IF r = asked[p] THEN connections[r] \cup {c}
                                                            ELSE connections[r]
        <3>1. connections \in [Routes -> SUBSET Conns]
            BY DEF TypeOK
        <3> QED BY <1>5, <3>1 DEF Upgraded
    <2>4. <<asked[p], c>> \notin Open /\ <<asked[p], c>> \in Routes \X Conns
        BY <2>1 DEF Open, Owned
    <2>5. Open' = Open \cup {<<asked[p], c>>}
        <3>1. ASSUME NEW r \in Routes, NEW d \in Conns
              PROVE  <<r, d>> \in Open' <=> <<r, d>> \in Open \cup {<<asked[p], c>>}
            <4>1. <<r, d>> \in Open <=> d \in connections[r] \ stale
                BY DEF Open
            <4>2. <<r, d>> \in Open' <=> d \in connections'[r] \ stale'
                BY DEF Open
            <4>3. <<r, d>> = <<asked[p], c>> <=> r = asked[p] /\ d = c
                OBVIOUS
            <4>4. connections'[r] = IF r = asked[p] THEN connections[r] \cup {c}
                                                   ELSE connections[r]
                BY <2>3
            <4> QED BY <2>1, <2>2, <4>1, <4>2, <4>3, <4>4
        <3>2. Open \subseteq Routes \X Conns /\ Open' \subseteq Routes \X Conns
            BY DEF Open
        <3> QED BY <2>4, <3>1, <3>2
    <2>6. Contract!Connect(<<asked[p], c>>)
        BY <2>2, <2>4, <2>5 DEF Contract!Connect
    <2> QED BY <2>4, <2>6
<1>6. ASSUME NEW r \in Routes, NEW c \in Conns, Message(r, c)
      PROVE  [Contract!Next]_(Contract!vars)
    <2> DEFINE x == [kind |-> "framed", id |-> c, res |-> "message"]
    <2>1. x \in Waiting /\ x.kind \in DriverKinds /\ x.id = c
        BY <1>6 DEF Message, TakeFrame, Take, Waiting, DriverKinds
    <2> HIDE DEF x
    <2>2. c \in Owned \ stale
        BY <2>1, DrivenOpen
    <2>3. c \in connections[r] /\ UNCHANGED <<connections, stale, restarts>>
          /\ event' = <<"message", <<r, c>>>>
        BY <1>6 DEF Message, Heard, own, loop
    <2>4. <<r, c>> \in Open /\ Open' = Open
        BY <2>2, <2>3 DEF Open
    <2>5. Contract!Message(<<r, c>>)
        BY <2>3, <2>4 DEF Contract!Message
    <2> QED BY <2>4, <2>5
<1>7. ASSUME NEW r \in Routes, NEW c \in Conns, Disconnect(r, c)
      PROVE  [Contract!Next]_(Contract!vars)
    <2> DEFINE x == Closer(r, c)
    <2>1. x \in ctxq /\ x \in Waiting /\ x.kind = "disconnect" /\ x.id = c /\ x.route = r
        BY <1>7 DEF Disconnect, TakePosted, Closer, Waiting
    <2> HIDE DEF x
    <2>2. c \in Owned \ stale
        <3>1. x.kind \in DriverKinds
            BY <2>1 DEF DriverKinds
        <3> QED BY <2>1, <3>1, DrivenOpen
    <2>3. c \in connections[r]
        BY <2>1 DEF Core, ConnInv, ConnectionsDriven
    <2>4. /\ UNCHANGED <<stale, restarts>> /\ event' = <<"disconnect", <<r, c>>>>
          /\ connections' = [connections EXCEPT ![r] = @ \ {c}]
        BY <1>7 DEF Disconnect, Erased, Heard, loop
    <2>5. \A s \in Routes : connections'[s] = IF s = r THEN connections[s] \ {c}
                                                       ELSE connections[s]
        <3>1. connections \in [Routes -> SUBSET Conns]
            BY DEF TypeOK
        <3> QED BY <2>4, <3>1
    <2>6. <<r, c>> \in Open /\ Open' = Open \ {<<r, c>>}
        BY <2>2, <2>3, <2>4, <2>5 DEF Open
    <2>7. Contract!Disconnect(<<r, c>>)
        BY <2>4, <2>6 DEF Contract!Disconnect
    <2> QED BY <2>6, <2>7
<1>8. CASE Ready
    <2>1. UNCHANGED <<Open, restarts>> /\ event' = <<"ready">>
        BY <1>8 DEF Ready, Open, loop
    <2> QED BY <2>1 DEF Contract!Ready
<1>9. CASE Restart
    <2>1. Open' \in SUBSET Open
        BY <1>9 DEF Restart, Open, Owned
    <2> QED BY <1>9, <2>1 DEF Restart, Contract!Restart
<1>10. ASSUME NEW p \in Peers, PeerHandler(p) \/ AcceptHandler
       PROVE  [Contract!Next]_(Contract!vars)
    BY <1>1, <1>5, <1>10 DEF PeerHandler, AcceptHandler, AcceptError, Accepted, Failed,
       UpgradeStarts, Answered, Responded, Expired, UpgradeFailed, UpgradedThrow, own, loop
<1>11. CASE AcceptError
    BY <1>1, <1>11 DEF AcceptError, own, loop
<1>12. ASSUME NEW r \in Routes, NEW c \in Conns, FrameFailed(r, c)
       PROVE  [Contract!Next]_(Contract!vars)
    BY <1>1, <1>12 DEF FrameFailed, own
<1>13. CASE Dispatched \/ \E t \in ctxq : Write(t)
    BY <1>1, <1>13 DEF Dispatched, Write, own, loop
<1>14. CASE Application /\ ~Restart
    BY <1>1, <1>14 DEF Application, UseWs, Publish, PublishEx, Send, Post, Dispatch, Stop, Rerun,
       own, loop
<1>15. CASE Strand
    BY <1>6, <1>10, <1>11, <1>12, <1>15 DEF Strand, AcceptHandler, FrameHandler
<1>16. CASE Posted
    BY <1>7, <1>8, <1>13, <1>16 DEF Posted
<1> QED BY <1>4, <1>9, <1>14, <1>15, <1>16 DEF Next

\* Every callback of every route is one that EventContract allows, whatever the
\* peers, the addresses, the routes and the restarts.
THEOREM ServerImplementsContract == Spec => ContractHolds
<1>1. Init => Contract!Init
    BY DEF Init, Open, Contract!Init
<1> QED BY <1>1, IInvHolds, NextImplements, PTL DEF Spec, ContractHolds, Contract!Spec
=============================================================================
