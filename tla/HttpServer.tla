----------------------------- MODULE HttpServer -----------------------------
(***************************************************************************)
(* The HTTP server, src/src/src/http/server/create.cpp, its web sockets    *)
(* (WebSocket.cpp, with the read loop of src/src/src/ws/Connection.cpp),   *)
(* and the web socket server of src/src/src/ws/server/create.cpp, which is *)
(* an HTTP server with one route.                                          *)
(*                                                                         *)
(* An accepted socket belongs to a Transaction, which reads one request    *)
(* and answers it under a deadline of 60 seconds; an upgrade moves the     *)
(* socket into a web socket stream, and after the handshake into a         *)
(* Connection owned by the route.  Acceptor, sockets and deadlines use the *)
(* strand; disconnect tasks and publish/send tasks are posted to the       *)
(* io_context, through a pointer each route is given by the ready task.    *)
(*                                                                         *)
(* One thread is inside run() or poll(): a handler is one step.  With two, *)
(* the upgrade handler (strand) and the posted tasks (io_context) use a    *)
(* route's vector of connections at once, which is undefined.  The queues  *)
(* are sets: they are FIFO, but what is in them comes from operations that *)
(* finish in any order, and no property depends on it.                     *)
(***************************************************************************)
EXTENDS Naturals, FiniteSets

CONSTANTS Peers,        \* remote endpoints, with one connection at a time
          Conns,        \* addresses the allocator can give a Connection
          Routes,       \* keys use_ws may be called with
          None,         \* no peer, no route, no request
          MaxPosts,     \* bound: publish/publish_ex/send/dispatch tasks not yet run
          MaxInbox,     \* bound: frames of a peer not yet read
          MaxRestarts   \* bound: stop/restart rounds

ASSUME NoneAssumption == None \notin Peers \cup Routes \cup {"page", "garbage"}
ASSUME BoundsAssumption == MaxPosts \in Nat /\ MaxInbox \in Nat /\ MaxRestarts \in Nat

VARIABLES
    at,          \* per peer: who has its connection (see Places)
    line,        \* per peer: "up", "fin" (closed, or vanished), "rst" (reset)
    asked,       \* per peer: the request it has sent
    inbox,       \* per peer: web socket frames not yet read
    routes,      \* the keys of Impl::wss
    context,     \* per route: WebSocket::context is "null", "live" or "dead"
    connections, \* per route: the Connections of WebSocket::connections
    peerOf,      \* per address: the peer of its last Connection
    stale,       \* Connections made under an io_context that is gone
    ops,         \* operations pending in the kernel
    strand,      \* handlers of finished operations, waiting for the strand
    ctxq,        \* tasks posted to the io_context
    stopped,     \* io_context::stop was called
    thrown,      \* run() was left by an exception
    restarts,    \* restart() calls that returned
    crashed,     \* a null or destroyed io_context was used, and the process ended
    event        \* the last callback

net  == <<at, line, asked, inbox>>
own  == <<routes, context, connections, peerOf, stale>>
asio == <<ops, strand, ctxq>>
loop == <<stopped, thrown, restarts, crashed>>
vars == <<net, own, asio, loop, event>>

-----------------------------------------------------------------------------
Places   == {"new", "backlog", "accepting", "transaction", "upgrading", "socket", "over"}
\* Anything that is answered at once, what no parser or buffer takes, an upgrade.
Requests == {"page", "garbage"} \cup Routes
Results  == {"message", "oversize", "error"}
Modes    == {"all", "except", "only"}

\* Operations of the kernel, named for what they wait for.
Accept      == [kind |-> "accept"]
Request(p)  == [kind |-> "request", peer |-> p]
Response(p) == [kind |-> "response", peer |-> p]
Deadline(p) == [kind |-> "deadline", peer |-> p]
Upgrade(p)  == [kind |-> "upgrade", peer |-> p]
Frame(c)    == [kind |-> "frame", id |-> c]

Ops == {Accept} \cup {Frame(c) : c \in Conns}
       \cup [kind : {"request", "response", "deadline", "upgrade"}, peer : Peers]

AcceptTasks     == [kind : {"accepted"}, peer : Peers \cup {None}]
PeerTasks       == [kind : {"requested", "responded", "expired", "upgraded"},
                    peer : Peers, ok : BOOLEAN]
FrameTasks      == [kind : {"framed"}, id : Conns, res : Results]
StrandTasks     == AcceptTasks \cup PeerTasks \cup FrameTasks
DisconnectTasks == [kind : {"disconnect"}, route : Routes, id : Conns]
WriteTasks      == [kind : {"write"}, route : Routes, mode : Modes, ids : SUBSET Conns]
CtxTasks        == [kind : {"ready", "dispatch"}] \cup DisconnectTasks \cup WriteTasks

\* An ID names the WebSocket it came from and the Connection.
Owned == UNION {connections[r] : r \in Routes}
Open  == {id \in Routes \X Conns : id[2] \in connections[id[1]] \ stale}

Contract == INSTANCE EventContract WITH Ids <- Routes \X Conns, open <- Open,
                                      round <- restarts

\* An HTTP server starts with no route, a ws server calls use_ws in its constructor.
FirstRoutes == {{}, Routes}

Init == /\ at = [p \in Peers |-> "new"]
        /\ line = [p \in Peers |-> "up"]
        /\ asked = [p \in Peers |-> None]
        /\ inbox = [p \in Peers |-> 0]
        /\ routes \in FirstRoutes
        /\ context = [r \in Routes |-> "null"]
        /\ connections = [r \in Routes |-> {}]
        /\ peerOf = [c \in Conns |-> None]
        /\ stale = {}
        /\ ops = {}
        /\ strand = {}
        /\ ctxq = {[kind |-> "ready"]}
        /\ stopped = FALSE
        /\ thrown = FALSE
        /\ restarts = 0
        /\ crashed = FALSE
        /\ event = Contract!NoEvent

-----------------------------------------------------------------------------
(* What waits, in the kernel or in a queue, and who it is for.             *)

Waiting == ops \cup strand \cup ctxq

StepKinds   == {"request", "requested", "response", "responded", "upgrade", "upgraded"}
DriverKinds == {"frame", "framed", "disconnect"}

Acceptors      == {x \in Waiting : x.kind \in {"accept", "accepted", "ready"}}
StepsOf(p)     == {x \in Waiting : x.kind \in StepKinds /\ x.peer = p}
DeadlinesOf(p) == {x \in Waiting : x.kind \in {"deadline", "expired"} /\ x.peer = p}

-----------------------------------------------------------------------------
(* The peers.                                                              *)

PeerConnect(p) == /\ at[p] = "new"
                  /\ at' = [at EXCEPT ![p] = "backlog"]
                  /\ UNCHANGED <<line, asked, inbox>>

PeerAsk(p) == /\ at[p] # "new" /\ line[p] = "up" /\ asked[p] = None
              /\ \E q \in Requests : asked' = [asked EXCEPT ![p] = q]
              /\ UNCHANGED <<at, line, inbox>>

PeerSend(p) == /\ at[p] = "socket" /\ line[p] = "up" /\ inbox[p] < MaxInbox
               /\ inbox' = [inbox EXCEPT ![p] = @ + 1]
               /\ UNCHANGED <<at, line, asked>>

\* A peer that vanishes looks like one that closes, only later: the stream pings
\* and gives up after 300 seconds, the Transaction after 60.
PeerClose(p) == /\ at[p] # "new" /\ line[p] = "up"
                /\ line' = [line EXCEPT ![p] = "fin"]
                /\ UNCHANGED <<at, asked, inbox>>

PeerReset(p) == /\ at[p] # "new" /\ line[p] # "rst"
                /\ line' = [line EXCEPT ![p] = "rst"]
                /\ UNCHANGED <<at, asked, inbox>>

\* It comes again, with another socket, once nothing waits for the last one.
PeerReturn(p) == /\ at[p] = "over"
                 /\ StepsOf(p) = {} /\ DeadlinesOf(p) = {}
                 /\ at' = [at EXCEPT ![p] = "new"]
                 /\ line' = [line EXCEPT ![p] = "up"]
                 /\ asked' = [asked EXCEPT ![p] = None]
                 /\ inbox' = [inbox EXCEPT ![p] = 0]

Peer(p) == /\ ~crashed
           /\ \/ PeerConnect(p) \/ PeerReturn(p)
              \/ at[p] # "over" /\ (PeerAsk(p) \/ PeerSend(p) \/ PeerClose(p) \/ PeerReset(p))
           /\ UNCHANGED <<own, asio, loop, event>>

-----------------------------------------------------------------------------
(* The reactor turns a finished operation into a handler on the strand.    *)

Running == ~stopped /\ ~thrown /\ ~crashed

Complete(op, t) == /\ Running /\ op \in ops
                   /\ ops' = ops \ {op}
                   /\ strand' = strand \cup {t}
                   /\ UNCHANGED <<line, asked, own, ctxq, loop, event>>

AcceptDone(p) == /\ at[p] = "backlog"
                 /\ Complete(Accept, [kind |-> "accepted", peer |-> p])
                 /\ at' = [at EXCEPT ![p] = "accepting"]
                 /\ UNCHANGED inbox

\* No descriptor left for a waiting peer, for instance: ec is set.
AcceptFailed == /\ \E p \in Peers : at[p] = "backlog"
                /\ Complete(Accept, [kind |-> "accepted", peer |-> None])
                /\ UNCHANGED <<at, inbox>>

Handler(kind, p, ok) == [kind |-> kind, peer |-> p, ok |-> ok]

\* async_read of a request: it parses, or it does not or the stream ends.
RequestRead(p, ok) == IF ok THEN asked[p] \notin {None, "garbage"} /\ line[p] # "rst"
                      ELSE \/ asked[p] = "garbage" \/ line[p] = "rst"
                           \/ asked[p] = None /\ line[p] = "fin"

RequestDone(p) == \E ok \in BOOLEAN :
    /\ RequestRead(p, ok)
    /\ Complete(Request(p), Handler("requested", p, ok))
    /\ UNCHANGED <<at, inbox>>

\* async_write of a response; one to a socket that was closed fails.
ResponseDone(p) == \E ok \in BOOLEAN :
    /\ ok <=> at[p] = "transaction" /\ line[p] # "rst"
    /\ Complete(Response(p), Handler("responded", p, ok))
    /\ UNCHANGED <<at, inbox>>

DeadlineDone(p) == /\ Complete(Deadline(p), Handler("expired", p, TRUE))
                   /\ UNCHANGED <<at, inbox>>

\* async_accept of a web socket; it may fail at any time, after 30 seconds at last.
UpgradeDone(p) == \E ok \in BOOLEAN :
    /\ ok => at[p] = "upgrading" /\ line[p] # "rst"
    /\ Complete(Upgrade(p), Handler("upgraded", p, ok))
    /\ UNCHANGED <<at, inbox>>

\* A whole message, one that flat_buffer's limit refuses, or close and errors.
FrameOutcomes(p) == {r \in Results :
    IF r = "error" THEN line[p] = "rst" \/ (line[p] = "fin" /\ inbox[p] = 0)
                   ELSE inbox[p] > 0}

FrameDone(c) == \E r \in FrameOutcomes(peerOf[c]) :
    /\ Complete(Frame(c), [kind |-> "framed", id |-> c, res |-> r])
    /\ inbox' = IF r = "error" THEN inbox ELSE [inbox EXCEPT ![peerOf[c]] = @ - 1]
    /\ UNCHANGED at

Reactor == \/ AcceptFailed
           \/ \E p \in Peers : \/ AcceptDone(p) \/ RequestDone(p) \/ ResponseDone(p)
                               \/ DeadlineDone(p) \/ UpgradeDone(p)
           \/ \E c \in Conns : c \in Owned /\ FrameDone(c)

-----------------------------------------------------------------------------
(* A handler of the strand runs.                                           *)

Take(t) == /\ Running /\ t \in strand
           /\ strand' = strand \ {t}

\* accept(): with an error, only the next accept.
AcceptError == /\ Take([kind |-> "accepted", peer |-> None])
               /\ ops' = ops \cup {Accept}
               /\ UNCHANGED <<net, own, ctxq, loop, event>>

\* Mutant: the deadline is not set.
ReadOnly(p) == {Request(p)}

\* Transaction::run
Run(p) == {Request(p), Deadline(p)}

\* accept(): a Transaction for the socket, and the next accept.
Accepted(p) == /\ Take([kind |-> "accepted", peer |-> p])
               /\ ops' = ops \cup Run(p) \cup {Accept}
               /\ at' = [at EXCEPT ![p] = "transaction"]
               /\ UNCHANGED <<line, asked, inbox, own, ctxq, loop, event>>

TakeOf(p, kind, ok) == Take(Handler(kind, p, ok))

\* Only the deadline holds on to a Transaction whose read or write has failed.
Failed(p) == /\ TakeOf(p, "requested", FALSE) \/ TakeOf(p, "responded", FALSE)
             /\ UNCHANGED <<net, own, ops, ctxq, loop, event>>

\* process_request() and handle_ws(): an upgrade on a registered route takes the
\* socket out of the Transaction; the deadline goes on without it.
UpgradeStarts(p) == /\ TakeOf(p, "requested", TRUE) /\ asked[p] \in routes
                    /\ ops' = ops \cup {Upgrade(p)}
                    /\ at' = [at EXCEPT ![p] = IF @ = "transaction" THEN "upgrading" ELSE @]
                    /\ UNCHANGED <<line, asked, inbox, own, ctxq, loop, event>>

\* process_request(): everything else is answered, by on_get's handlers or as a
\* bad request.
Answered(p) == /\ TakeOf(p, "requested", TRUE) /\ asked[p] \notin routes
               /\ ops' = ops \cup {Response(p)}
               /\ UNCHANGED <<net, own, ctxq, loop, event>>

\* write_response(): shutdown_send and deadline.cancel(), which frees the
\* Transaction unless the deadline's handler is queued already.
Responded(p) == /\ TakeOf(p, "responded", TRUE)
                /\ ops' = ops \ {Deadline(p)}
                /\ at' = [at EXCEPT ![p] = IF Deadline(p) \in ops THEN "over" ELSE @]
                /\ UNCHANGED <<line, asked, inbox, own, ctxq, loop, event>>

\* The deadline closes the Transaction's socket, if it has one still, and cancels
\* the read or write that is pending; a handler that is queued runs all the same.
Expired(p) == /\ TakeOf(p, "expired", TRUE)
              /\ IF at[p] = "transaction"
                 THEN /\ at' = [at EXCEPT ![p] = "over"]
                      /\ ops' = ops \ {Request(p), Response(p)}
                 ELSE UNCHANGED <<at, ops>>
              /\ UNCHANGED <<line, asked, inbox, own, ctxq, loop, event>>

\* The stream goes with the handler, and its socket with the stream.
UpgradeFailed(p) == /\ TakeOf(p, "upgraded", FALSE)
                    /\ at' = [at EXCEPT ![p] = "over"]
                    /\ UNCHANGED <<line, asked, inbox, own, ops, ctxq, loop, event>>

\* What a callback of route r reports; a ws server hands it on one to one.
Heard(kind, r, c) == <<kind, <<r, c>>>>

\* The Connection is made; on_connect, the first read, and only then push_back.
Upgraded(p, c) == /\ TakeOf(p, "upgraded", TRUE) /\ line[p] # "rst"
                  /\ c \notin Owned
                  /\ at' = [at EXCEPT ![p] = "socket"]
                  /\ peerOf' = [peerOf EXCEPT ![c] = p]
                  /\ event' = Heard("connect", asked[p], c)
                  /\ ops' = ops \cup {Frame(c)}
                  /\ connections' = [connections EXCEPT ![asked[p]] = @ \cup {c}]
                  /\ UNCHANGED <<line, asked, inbox, routes, context, stale, ctxq, loop>>

\* Connection's constructor throws for want of a remote endpoint, out of run();
\* the accept loop does not depend on this handler.
UpgradedThrow(p) == /\ TakeOf(p, "upgraded", TRUE) /\ line[p] = "rst"
                    /\ at' = [at EXCEPT ![p] = "over"]
                    /\ thrown' = TRUE
                    /\ UNCHANGED <<line, asked, inbox, own, ops, ctxq, stopped, restarts,
                                   crashed, event>>

TakeFrame(c, res) == Take([kind |-> "framed", id |-> c, res |-> res])

\* Connection::read of route r: on_message, then the next read.
Message(r, c) == /\ c \in connections[r] /\ TakeFrame(c, "message")
                 /\ event' = Heard("message", r, c)
                 /\ ops' = ops \cup {Frame(c)}
                 /\ UNCHANGED <<net, own, ctxq, loop>>

\* Using an io_context that is destroyed may end the process, or do nothing; a
\* null pointer always ends it.
PostTo(r, t) == CASE context[r] = "live" -> ctxq' = ctxq \cup {t} /\ UNCHANGED crashed
                  [] context[r] = "dead" -> crashed' \in BOOLEAN /\ UNCHANGED ctxq
                  [] context[r] = "null" -> crashed' = TRUE /\ UNCHANGED ctxq

Closer(r, c) == [kind |-> "disconnect", route |-> r, id |-> c]

\* Mutants: no return after disconnect(); a failure that nobody hears of.
ReadOn(r, c) == PostTo(r, Closer(r, c)) /\ ops' = ops \cup {Frame(c)}
Unheard(r, c) == UNCHANGED <<ctxq, crashed, ops>>

\* WebSocket::disconnect posts, whether context is null or not; no next read.
DisconnectPosted(r, c) == PostTo(r, Closer(r, c)) /\ UNCHANGED ops

FrameFailed(r, c) == /\ c \in connections[r]
                     /\ TakeFrame(c, "oversize") \/ TakeFrame(c, "error")
                     /\ DisconnectPosted(r, c)
                     /\ UNCHANGED <<net, own, stopped, thrown, restarts, event>>

AcceptHandler == AcceptError \/ \E p \in Peers : Accepted(p)

PeerHandler(p) == \/ Failed(p) \/ UpgradeStarts(p) \/ Answered(p) \/ Responded(p)
                  \/ Expired(p) \/ UpgradeFailed(p) \/ UpgradedThrow(p)
                  \/ \E c \in Conns : Upgraded(p, c)

FrameHandler(c) == \E r \in Routes : Message(r, c) \/ FrameFailed(r, c)

Strand == \/ AcceptHandler
          \/ \E p \in Peers : PeerHandler(p)
          \/ \E c \in Conns : FrameHandler(c)

-----------------------------------------------------------------------------
(* A task posted to the io_context runs.                                   *)

TakePosted(t) == /\ Running /\ t \in ctxq
                 /\ ctxq' = ctxq \ {t}

\* The ready task: on_ready, the context and on_ready of every route, and accept().
Ready == /\ TakePosted([kind |-> "ready"])
         /\ context' = [r \in Routes |-> IF r \in routes THEN "live" ELSE context[r]]
         /\ ops' = ops \cup {Accept}
         /\ event' = <<"ready">>
         /\ UNCHANGED <<net, routes, connections, peerOf, stale, strand, loop>>

\* Mutant: on_disconnect without the erase.
NotErased(r, c) == connections

Erased(r, c) == [connections EXCEPT ![r] = @ \ {c}]

\* WebSocket::disconnect, the task: on_disconnect, then the Connection is freed.
Disconnect(r, c) == /\ TakePosted(Closer(r, c))
                    /\ event' = Heard("disconnect", r, c)
                    /\ connections' = Erased(r, c)
                    /\ at' = [at EXCEPT ![peerOf[c]] = "over"]
                    /\ UNCHANGED <<line, asked, inbox, routes, context, peerOf, stale,
                                   ops, strand, loop>>

\* The connections a publish, publish_ex or send task writes to.  What a send() names
\* twice it writes to twice, which makes no difference to what is modelled.
Targets(r, mode, ids) == CASE mode = "all"    -> connections[r]
                           [] mode = "except" -> connections[r] \ ids
                           [] mode = "only"   -> connections[r] \cap ids

\* What is written is not modelled; a stale Connection's socket is gone with the
\* io_context it belonged to.
Write(t) == /\ t \in WriteTasks /\ TakePosted(t)
            /\ crashed' \in IF Targets(t.route, t.mode, t.ids) \cap stale = {}
                            THEN {FALSE} ELSE BOOLEAN
            /\ UNCHANGED <<net, own, ops, strand, stopped, thrown, restarts, event>>

Dispatched == /\ TakePosted([kind |-> "dispatch"])
              /\ UNCHANGED <<net, own, ops, strand, loop, event>>

Posted == \/ Ready \/ Dispatched
          \/ \E r \in Routes, c \in Conns : Disconnect(r, c)
          \/ \E t \in ctxq : Write(t)

-----------------------------------------------------------------------------
(* The application.                                                        *)

PendingPosts == {t \in ctxq : t.kind \in {"write", "dispatch"}}

\* The IDs the application has been given by on_connect.
Known == {c \in Conns : peerOf[c] # None}

\* publish, publish_ex and send of a route drop what comes before the context.
Post(r, mode, ids) ==
    /\ ~crashed /\ r \in routes
    /\ context[r] # "null"
    /\ Cardinality(PendingPosts) < MaxPosts
    /\ PostTo(r, [kind |-> "write", route |-> r, mode |-> mode, ids |-> ids])
    /\ UNCHANGED <<net, own, ops, strand, stopped, thrown, restarts, event>>

Publish(r) == Post(r, "all", {})
PublishEx(r) == \E ids \in (SUBSET Known) \ {{}} : Post(r, "except", ids)
Send(r) == \E ids \in (SUBSET Known) \ {{}} : Post(r, "only", ids)

\* use_ws() of an HTTP server, before run() or from a task of the loop.
UseWs(r) == /\ ~crashed /\ r \notin routes
            /\ routes' = routes \cup {r}
            /\ UNCHANGED <<net, context, connections, peerOf, stale, asio, loop,
                           event>>

\* dispatch() from a thread outside the loop.
Dispatch == /\ ~crashed /\ Cardinality(PendingPosts) < MaxPosts
            /\ ctxq' = ctxq \cup {[kind |-> "dispatch"]}
            /\ UNCHANGED <<net, own, ops, strand, loop, event>>

Stop == /\ ~crashed /\ ~stopped /\ restarts < MaxRestarts
        /\ stopped' = TRUE
        /\ UNCHANGED <<net, own, asio, thrown, restarts, crashed, event>>

\* The application calls run() again after an exception left it.
Rerun == /\ ~crashed /\ thrown
         /\ thrown' = FALSE
         /\ UNCHANGED <<net, own, asio, stopped, restarts, crashed, event>>

\* restart() with port 0 (on a fixed port the bind throws and nothing changes): a
\* new Context and a new ready task.  The old context takes its handlers and
\* operations, and the Transactions and streams they own, with it; routes keep
\* their connections and, until the ready task, their pointer.
Restart == /\ ~crashed /\ stopped
           /\ restarts' = restarts + 1
           /\ stopped' = FALSE
           /\ thrown' = FALSE
           /\ ops' = {}
           /\ strand' = {}
           /\ ctxq' = {[kind |-> "ready"]}
           /\ context' = [r \in Routes |-> IF context[r] = "live" THEN "dead" ELSE context[r]]
           /\ stale' = Owned
           /\ at' = [p \in Peers |-> IF at[p] = "new" THEN "new" ELSE "over"]
           /\ UNCHANGED <<line, asked, inbox, routes, connections, peerOf,
                          crashed, event>>

Application == \/ \E r \in Routes : UseWs(r) \/ Publish(r) \/ PublishEx(r) \/ Send(r)
               \/ Dispatch \/ Stop \/ Rerun \/ Restart

-----------------------------------------------------------------------------
Next == (\E p \in Peers : Peer(p)) \/ Reactor \/ Strand \/ Posted \/ Application

Spec == Init /\ [][Next]_vars

\* run() takes every handler and task in its turn; deadlines expire; Beast gives a
\* handshake 30 seconds and an idle stream 300; an accept that is started again and
\* again while a peer waits succeeds at last.  Peers need not ask or take an answer,
\* and the application owes nothing.
Fairness == /\ WF_vars(AcceptHandler) /\ WF_vars(Ready)
            /\ SF_vars(\E p \in Peers : AcceptDone(p))
            /\ \A p \in Peers : /\ WF_vars(PeerHandler(p))
                               /\ WF_vars(DeadlineDone(p))
                               /\ WF_vars(UpgradeDone(p))
            /\ \A c \in Conns : /\ WF_vars(FrameHandler(c))
                               /\ WF_vars(c \in Owned /\ FrameDone(c))
                               /\ WF_vars(\E r \in Routes : Disconnect(r, c))

FairSpec == Spec /\ Fairness

-----------------------------------------------------------------------------
(* Properties.                                                             *)

\* Every variable stays in its type; the one type invariant of the module.
TypeOK == /\ at \in [Peers -> Places]
          /\ line \in [Peers -> {"up", "fin", "rst"}]
          /\ asked \in [Peers -> Requests \cup {None}]
          /\ inbox \in [Peers -> Nat]
          /\ routes \in SUBSET Routes
          /\ context \in [Routes -> {"null", "live", "dead"}]
          /\ connections \in [Routes -> SUBSET Conns]
          /\ peerOf \in [Conns -> Peers \cup {None}]
          /\ stale \in SUBSET Conns
          /\ ops \in SUBSET Ops
          /\ strand \in SUBSET StrandTasks
          /\ ctxq \in SUBSET CtxTasks
          /\ stopped \in BOOLEAN
          /\ thrown \in BOOLEAN
          /\ restarts \in Nat
          /\ crashed \in BOOLEAN

\* A Connection has one driver from on_connect to the end of its disconnect task,
\* and is in one route; one that is gone, or stale, has none.
DriversOf(c) == {x \in Waiting : x.kind \in DriverKinds /\ x.id = c}

ConnectionsDriven ==
    /\ \A c \in Conns : IF c \in Owned \ stale THEN \E x \in Waiting : DriversOf(c) = {x}
                                             ELSE DriversOf(c) = {}
    /\ \A x \in ctxq : x.kind = "disconnect" => x.id \in connections[x.route]
    /\ \A r, s \in Routes : r # s => connections[r] \cap connections[s] = {}

\* A socket outside of connections always has an operation that ends its stay.
SocketsBounded ==
    \A p \in Peers :
        /\ at[p] = "transaction" => \E x \in Waiting : DeadlinesOf(p) = {x}
        /\ at[p] = "upgrading" =>
              \E x \in Waiting : x.kind \in {"upgrade", "upgraded"} /\ StepsOf(p) = {x}

\* There is one accept, its handler, or the ready task that is to start it.
OneAccept == \E x \in Waiting : Acceptors = {x}

\* The hazard of handing a socket on: from Transaction to stream to Connection to
\* disconnect task, with a deadline that outlives the first of them and two queues
\* that do not wait for each other.  Nothing that waits can reach a Connection that
\* is freed, and no socket is left with nobody to close it.
OneDriver == TypeOK /\ (crashed \/ (ConnectionsDriven /\ SocketsBounded /\ OneAccept))

\* The callbacks of every route follow the contract of structs.hpp, over reused
\* addresses, routes added late and restarts.
ContractHolds == Contract!Spec

\* A web socket whose peer closed, vanished or reset is reported by on_disconnect
\* (or the loop was stopped, left by an exception, or the process ended: on a route
\* added after the ready task there is no context to post the report to).
GoneIsReported ==
    \A c \in Conns : c \in Owned \ stale /\ line[peerOf[c]] # "up"
                       ~> c \notin Owned \ stale \/ ~Running

\* Who connects becomes a web socket or is done with at last, whatever it asks, and
\* also if it never asks or never takes its answer: accepts that fail are retried,
\* a Transaction has a deadline and a handshake a timeout.
PeersAreServed ==
    \A p \in Peers : at[p] = "backlog" ~> at[p] \in {"socket", "over"} \/ ~Running
=============================================================================
