----------------------------- MODULE TcpServer -----------------------------
(***************************************************************************)
(* The TCP server service, src/src/tcp/server/create.cpp, with the read    *)
(* loop of src/src/tcp/Connection.cpp.                                     *)
(*                                                                         *)
(* Three parties take steps: the remote peers (connect, send, close,       *)
(* reset), the application (publish, send, dispatch, stop, restart, from   *)
(* any thread, at any time) and the threads that are inside run() or       *)
(* poll(), the Workers.  Between them sit asio's queues: the strand, a     *)
(* FIFO executed by one worker at a time, and the io_context, whose        *)
(* handlers any worker may take in any order.  Accept handlers, disconnect *)
(* tasks and publish/send tasks run on the strand; read handlers do not,   *)
(* because accept() hands the new socket the io_context as its executor.   *)
(*                                                                         *)
(* A handler is two steps: Begin takes it off its queue, End is its whole  *)
(* effect; in between the worker is inside the handler or its callback.    *)
(* The accept handler and send() take more: a new Connection is read from  *)
(* before on_connect is called and before connections owns it, and send()  *)
(* writes once for each of the IDs it was given.                           *)
(* A connection's ID is the address of its Connection object, so a freed   *)
(* ID can be handed out again.                                             *)
(***************************************************************************)
EXTENDS Naturals, Sequences, FiniteSets

CONSTANTS Peers,        \* remote endpoints; each connects at most once
          Conns,        \* addresses the allocator can give a Connection
          Workers,      \* application threads that call run() or poll()
          None,         \* no peer, no task
          Rebind,       \* may a second acceptor bind while the first listens?
          Dispatches,   \* does the application call dispatch()?
          MaxPosts,     \* bound: publish/publish_ex/send calls
          MaxIds,       \* bound: IDs in one call
          MaxInbox,     \* bound: messages of a peer not yet read
          MaxRestarts   \* bound: stop/restart rounds

ASSUME NoneAssumption == None \notin Peers
ASSUME FlagsAssumption == Rebind \in BOOLEAN /\ Dispatches \in BOOLEAN
ASSUME BoundsAssumption == /\ MaxPosts \in Nat
                           /\ MaxIds \in Nat
                           /\ MaxInbox \in Nat
                           /\ MaxRestarts \in Nat

VARIABLES
    sess,        \* per peer: where its one connection stands
    line,        \* per peer: "up", "fin" (peer closed), "rst" (peer reset)
    inbox,       \* per peer: messages in the kernel, not yet read
    accept,      \* the accept operation: "armed", "queued", "lost"
    connections, \* the live Connection objects (Impl::connections)
    peerOf,      \* per address: the peer of its last Connection
    rd,          \* per address: who drives its read loop (see Drivers)
    strand,      \* handlers waiting for the strand, oldest first
    ctxq,        \* other handlers posted to the io_context
    active,      \* per worker: the handler it is inside of
    thrown,      \* workers whose run() was left by an exception
    stopped,     \* io_context::stop was called
    restarts,    \* restart() calls that returned
    restartFailed, \* a restart() call threw
    posts,       \* publish, publish_ex and send calls; numbers the messages
    written,     \* per peer: what was handed to its socket, in order: the message,
                 \*   and which of the IDs of a send() it was for
    event        \* the last callback

net  == <<sess, line, inbox>>
impl == <<accept, connections, peerOf, rd>>
asio == <<strand, ctxq, active, thrown, stopped, restarts, restartFailed>>
hist == <<posts, written, event>>
vars == <<net, impl, asio, hist>>

-----------------------------------------------------------------------------
Results == {"message", "oversize", "error"}  \* outcomes of a read
Drivers == {"none", "armed", "running", "closing"} \cup Results
Modes   == {"all", "except", "only"}         \* publish, publish_ex, send

AcceptTasks     == [kind : {"accept"}, peer : Peers \cup {None}]
DisconnectTasks == [kind : {"disconnect"}, id : Conns]
WriteTasks      == [kind : {"write"}, mode : Modes, ids : Seq(Conns), msg : Nat, next : Nat]
QueuedTasks     == AcceptTasks \cup DisconnectTasks \cup WriteTasks
\* The accept handler with a Connection that connections does not own yet.
HoldTasks       == [kind : {"connect", "keep"}, id : Conns]
StrandTasks     == QueuedTasks \cup HoldTasks
ReadTasks       == [kind : {"read"}, id : Conns, res : Results]
CtxTasks        == [kind : {"ready", "dispatch"}]
Idle            == [kind |-> "idle"]

\* The ID a worker inside the accept handler was at on_connect with, or past it.
Held(kind) == {c \in Conns : \E w \in Workers : active[w] = [kind |-> kind, id |-> c]}

\* The Connection objects there are, and those that on_connect has reported.
Alive    == connections \cup Held("connect") \cup Held("keep")
Reported == connections \cup Held("keep")

Contract == INSTANCE EventContract WITH Ids <- Conns, open <- Reported,
                                      round <- restarts

Init == /\ sess = [p \in Peers |-> "new"]
        /\ line = [p \in Peers |-> "up"]
        /\ inbox = [p \in Peers |-> 0]
        /\ accept = "armed"
        /\ connections = {}
        /\ peerOf = [c \in Conns |-> None]
        /\ rd = [c \in Conns |-> "none"]
        /\ strand = <<>>
        /\ ctxq = {[kind |-> "ready"]}
        /\ active = [w \in Workers |-> Idle]
        /\ thrown = {}
        /\ stopped = FALSE
        /\ restarts = 0
        /\ restartFailed = FALSE
        /\ posts = 0
        /\ written = [p \in Peers |-> <<>>]
        /\ event = Contract!NoEvent

-----------------------------------------------------------------------------
(* The peers.  The kernel completes the TCP handshake by itself, also      *)
(* while nobody is inside run().                                           *)

PeerConnect(p) == /\ sess[p] = "new"
                  /\ sess' = [sess EXCEPT ![p] = "backlog"]
                  /\ UNCHANGED <<line, inbox, impl, asio, hist>>

PeerSend(p) == /\ sess[p] # "new" /\ line[p] = "up"
               /\ inbox[p] < MaxInbox
               /\ inbox' = [inbox EXCEPT ![p] = @ + 1]
               /\ UNCHANGED <<sess, line, impl, asio, hist>>

PeerClose(p) == /\ sess[p] # "new" /\ line[p] = "up"
                /\ line' = [line EXCEPT ![p] = "fin"]
                /\ UNCHANGED <<sess, inbox, impl, asio, hist>>

PeerReset(p) == /\ sess[p] # "new" /\ line[p] # "rst"
                /\ line' = [line EXCEPT ![p] = "rst"]
                /\ UNCHANGED <<sess, inbox, impl, asio, hist>>

Peer(p) == PeerConnect(p) \/ PeerSend(p) \/ PeerClose(p) \/ PeerReset(p)

-----------------------------------------------------------------------------
(* The reactor: some worker polls the kernel and turns a finished          *)
(* operation into a handler.                                               *)

Polled == ~stopped /\ thrown # Workers

AcceptDone(p) == /\ Polled /\ accept = "armed" /\ sess[p] = "backlog"
                 /\ sess' = [sess EXCEPT ![p] = "accepting"]
                 /\ accept' = "queued"
                 /\ strand' = Append(strand, [kind |-> "accept", peer |-> p])
                 /\ UNCHANGED <<line, inbox, connections, peerOf, rd, ctxq, active,
                                thrown, stopped, restarts, restartFailed, hist>>

\* No descriptor left for a waiting peer, for instance: ec is set.
AcceptFailed == /\ Polled /\ accept = "armed"
                /\ \E p \in Peers : sess[p] = "backlog"
                /\ accept' = "queued"
                /\ strand' = Append(strand, [kind |-> "accept", peer |-> None])
                /\ UNCHANGED <<net, connections, peerOf, rd, ctxq, active,
                               thrown, stopped, restarts, restartFailed, hist>>

\* The outcomes a read can have: a complete message, a header that announces
\* more than the buffer holds, or end of stream and errors.
ReadOutcomes(p) == {r \in Results :
    IF r = "error" THEN line[p] = "rst" \/ (line[p] = "fin" /\ inbox[p] = 0)
                   ELSE inbox[p] > 0}

ReadDone(c, r) == /\ Polled /\ rd[c] = "armed"
                  /\ r \in ReadOutcomes(peerOf[c])
                  /\ rd' = [rd EXCEPT ![c] = r]
                  /\ inbox' = IF r = "error" THEN inbox
                              ELSE [inbox EXCEPT ![peerOf[c]] = @ - 1]
                  /\ UNCHANGED <<sess, line, accept, connections, peerOf, asio, hist>>

Reactor == \/ \E p \in Peers : AcceptDone(p)
           \/ AcceptFailed
           \/ \E c \in Conns, r \in Results : ReadDone(c, r)

-----------------------------------------------------------------------------
(* A worker takes a handler off a queue.                                   *)

Free(w) == ~stopped /\ w \notin thrown /\ active[w] = Idle

\* Mutant: tasks are posted to the io_context instead of the strand.
NoStrand == TRUE

\* One worker at a time is inside the strand.
StrandFree == \A w \in Workers : active[w] \notin StrandTasks

BeginStrand(w) == /\ Free(w) /\ StrandFree /\ strand # <<>>
                  /\ active' = [active EXCEPT ![w] = Head(strand)]
                  /\ strand' = Tail(strand)
                  /\ UNCHANGED <<net, impl, ctxq, thrown, stopped, restarts,
                                 restartFailed, hist>>

BeginRead(w, c) == /\ Free(w) /\ rd[c] \in Results
                   /\ active' = [active EXCEPT ![w] =
                                   [kind |-> "read", id |-> c, res |-> rd[c]]]
                   /\ rd' = [rd EXCEPT ![c] = "running"]
                   /\ UNCHANGED <<net, accept, connections, peerOf, strand, ctxq, thrown,
                                  stopped, restarts, restartFailed, hist>>

BeginCtx(w, t) == /\ Free(w) /\ t \in ctxq
                  /\ active' = [active EXCEPT ![w] = t]
                  /\ ctxq' = ctxq \ {t}
                  /\ UNCHANGED <<net, impl, strand, thrown, stopped, restarts,
                                 restartFailed, hist>>

-----------------------------------------------------------------------------
(* A worker completes the handler it is inside of.                         *)

Return(w) == active' = [active EXCEPT ![w] = Idle]

\* Mutant: the handler returns without the accept() at its end.
AcceptForgotten == UNCHANGED accept

\* The accept() at the end of the accept handler.
AcceptAgain == accept' = "armed"

\* accept(): the failed accept is simply started again.
EndAcceptError(w) == /\ active[w].kind = "accept" /\ active[w].peer = None
                     /\ Return(w)
                     /\ AcceptAgain
                     /\ UNCHANGED <<net, connections, peerOf, rd, strand, ctxq, thrown,
                                    stopped, restarts, restartFailed, hist>>

\* accept(): the Connection is made and its first read started.  From here on another
\* worker can be inside its read handler.
Constructed(w, c) ==
    /\ active[w].kind = "accept" /\ active[w].peer # None
    /\ line[active[w].peer] # "rst"
    /\ c \notin connections
    /\ active' = [active EXCEPT ![w] = [kind |-> "connect", id |-> c]]
    /\ sess' = [sess EXCEPT ![active[w].peer] = "served"]
    /\ peerOf' = [peerOf EXCEPT ![c] = active[w].peer]
    /\ rd' = [rd EXCEPT ![c] = "armed"]
    /\ UNCHANGED <<line, inbox, accept, connections, strand, ctxq, thrown, stopped,
                   restarts, restartFailed, hist>>

\* run(): impl.connect(this), which calls on_connect.
CallConnect(w) ==
    /\ active[w].kind = "connect"
    /\ active' = [active EXCEPT ![w] = [kind |-> "keep", id |-> active[w].id]]
    /\ event' = <<"connect", active[w].id>>
    /\ UNCHANGED <<net, impl, strand, ctxq, thrown, stopped, restarts, restartFailed,
                   posts, written>>

\* Only then is the Connection put into connections.
EndAccept(w) == /\ active[w].kind = "keep"
                /\ Return(w)
                /\ connections' = connections \cup {active[w].id}
                /\ AcceptAgain
                /\ UNCHANGED <<net, peerOf, rd, strand, ctxq, thrown, stopped, restarts,
                               restartFailed, hist>>

\* Connection's constructor asks a socket that the peer has reset for its remote
\* endpoint: that throws, out of the handler and out of run(), before the
\* accept() at the end of the handler.
EndAcceptThrow(w) == /\ active[w].kind = "accept" /\ active[w].peer # None
                     /\ line[active[w].peer] = "rst"
                     /\ Return(w)
                     /\ sess' = [sess EXCEPT ![active[w].peer] = "over"]
                     /\ accept' = "lost"
                     /\ thrown' = thrown \cup {w}
                     /\ UNCHANGED <<line, inbox, connections, peerOf, rd, strand, ctxq,
                                    stopped, restarts, restartFailed, hist>>

\* Mutant: on_disconnect without the erase.
NotErased(c) == connections

Erased(c) == connections \ {c}

\* disconnect(): the posted task calls on_disconnect, then frees the Connection.
EndDisconnect(w) == /\ active[w].kind = "disconnect"
                    /\ Return(w)
                    /\ event' = <<"disconnect", active[w].id>>
                    /\ connections' = Erased(active[w].id)
                    /\ rd' = [rd EXCEPT ![active[w].id] = "none"]
                    /\ sess' = [sess EXCEPT ![peerOf[active[w].id]] = "over"]
                    /\ UNCHANGED <<line, inbox, accept, peerOf, strand, ctxq, thrown,
                                   stopped, restarts, restartFailed, posts, written>>

\* A write to a socket whose peer has reset fails; the error is ignored.
WrittenTo(to, m) == written' = [p \in Peers |-> IF p \in {peerOf[c] : c \in to} /\ line[p] # "rst"
                                               THEN Append(written[p], m)
                                               ELSE written[p]]

\* publish and publish_ex go over connections.
EndPublish(w) ==
    /\ active[w].kind = "write" /\ active[w].mode # "only"
    /\ Return(w)
    /\ LET excluded == {active[w].ids[i] : i \in 1..Len(active[w].ids)}
       IN WrittenTo(connections \ excluded, <<active[w].msg, active[w].next>>)
    /\ UNCHANGED <<net, impl, strand, ctxq, thrown, stopped, restarts, restartFailed,
                   posts, event>>

\* send goes over the IDs: one that is there twice is written to twice.
SendNext(w) ==
    /\ active[w].kind = "write" /\ active[w].mode = "only"
    /\ active[w].next <= Len(active[w].ids)
    /\ active' = [active EXCEPT ![w].next = @ + 1]
    /\ WrittenTo(connections \cap {active[w].ids[active[w].next]},
                 <<active[w].msg, active[w].next>>)
    /\ UNCHANGED <<net, impl, strand, ctxq, thrown, stopped, restarts, restartFailed,
                   posts, event>>

EndSend(w) == /\ active[w].kind = "write" /\ active[w].mode = "only"
              /\ active[w].next > Len(active[w].ids)
              /\ Return(w)
              /\ UNCHANGED <<net, impl, strand, ctxq, thrown, stopped, restarts,
                             restartFailed, hist>>

\* readBody(): on_message, then the next header.
EndReadMessage(w) == /\ active[w].kind = "read" /\ active[w].res = "message"
                     /\ Return(w)
                     /\ event' = <<"message", active[w].id>>
                     /\ rd' = [rd EXCEPT ![active[w].id] = "armed"]
                     /\ UNCHANGED <<net, accept, connections, peerOf, strand, ctxq, thrown,
                                    stopped, restarts, restartFailed, posts, written>>

\* Mutants: the failure is posted by both loops, or by none.
PostedTwice(c) == strand \o [i \in 1..2 |-> [kind |-> "disconnect", id |-> c]]
NotPosted(c) == strand

DisconnectPosted(c) == Append(strand, [kind |-> "disconnect", id |-> c])

\* readHeader()/readBody(): impl.disconnect(this), which posts; no new read.
EndReadFailure(w) == /\ active[w].kind = "read" /\ active[w].res # "message"
                     /\ Return(w)
                     /\ rd' = [rd EXCEPT ![active[w].id] = "closing"]
                     /\ strand' = DisconnectPosted(active[w].id)
                     /\ UNCHANGED <<net, accept, connections, peerOf, ctxq, thrown,
                                    stopped, restarts, restartFailed, hist>>

EndCtx(w) == /\ active[w].kind \in {"ready", "dispatch"}
             /\ Return(w)
             /\ event' = IF active[w].kind = "ready" THEN <<"ready">> ELSE event
             /\ UNCHANGED <<net, impl, strand, ctxq, thrown, stopped, restarts,
                            restartFailed, posts, written>>

End(w) == \/ EndAcceptError(w) \/ EndAcceptThrow(w)
          \/ \E c \in Conns : Constructed(w, c)
          \/ CallConnect(w) \/ EndAccept(w)
          \/ EndDisconnect(w) \/ EndPublish(w) \/ SendNext(w) \/ EndSend(w)
          \/ EndReadMessage(w) \/ EndReadFailure(w) \/ EndCtx(w)

Begin(w) == \/ BeginStrand(w)
            \/ \E c \in Conns : BeginRead(w, c)
            \/ \E t \in CtxTasks : BeginCtx(w, t)

-----------------------------------------------------------------------------
(* The application.                                                        *)

\* The IDs the application has been given, by on_connect or by an early on_message.
Known == {c \in Conns : peerOf[c] # None}

\* publish, publish_ex and send: post to the strand and return.
Post(mode, ids) ==
    /\ posts < MaxPosts
    /\ posts' = posts + 1
    /\ strand' = Append(strand, [kind |-> "write", mode |-> mode, ids |-> ids,
                                 msg |-> posts + 1, next |-> 1])
    /\ UNCHANGED <<net, impl, ctxq, active, thrown, stopped, restarts, restartFailed,
                   written, event>>

IdLists == UNION {[1..n -> Known] : n \in 1..MaxIds}

Publish == Post("all", <<>>)
PublishEx == \E ids \in IdLists : Post("except", ids)
Send == \E ids \in IdLists : Post("only", ids)

\* dispatch() from a thread outside the loop; one task at a time is pending.
Dispatch == /\ Dispatches
            /\ [kind |-> "dispatch"] \notin ctxq
            /\ ctxq' = ctxq \cup {[kind |-> "dispatch"]}
            /\ UNCHANGED <<net, impl, strand, active, thrown, stopped, restarts,
                           restartFailed, hist>>

Stop == /\ ~stopped
        /\ stopped' = TRUE
        /\ UNCHANGED <<net, impl, strand, ctxq, active, thrown, restarts,
                       restartFailed, hist>>

\* The application calls run() again after an exception left it.
Rerun(w) == /\ w \in thrown
            /\ thrown' = thrown \ {w}
            /\ UNCHANGED <<net, impl, strand, ctxq, active, stopped, restarts,
                           restartFailed, hist>>

MayRestart == stopped /\ \A w \in Workers : active[w] = Idle

\* restart(): a new Context, whose acceptor binds while the old Context still
\* listens.  The old context takes its handlers and operations with it; the
\* vector of connections is left as it was.
Restart == /\ MayRestart /\ Rebind /\ restarts < MaxRestarts
           /\ restarts' = restarts + 1
           /\ stopped' = FALSE
           /\ thrown' = {}
           /\ strand' = <<>>
           /\ ctxq' = {[kind |-> "ready"]}
           /\ accept' = "armed"
           /\ rd' = [c \in Conns |-> "none"]
           /\ sess' = [p \in Peers |-> IF sess[p] \in {"backlog", "accepting"}
                                       THEN "over" ELSE sess[p]]
           /\ UNCHANGED <<line, inbox, connections, peerOf, active, restartFailed, hist>>

\* The bind fails: make_unique throws and nothing was assigned.
RestartThrow == /\ MayRestart /\ ~Rebind
                /\ restartFailed' = TRUE
                /\ UNCHANGED <<net, impl, strand, ctxq, active, thrown, stopped,
                               restarts, hist>>

Application == \/ Publish \/ PublishEx \/ Send \/ Dispatch
               \/ Stop \/ Restart \/ RestartThrow
               \/ \E w \in Workers : Rerun(w)

-----------------------------------------------------------------------------
Next == \/ \E p \in Peers : Peer(p)
        \/ Reactor
        \/ \E w \in Workers : Begin(w) \/ End(w)
        \/ Application

Spec == Init /\ [][Next]_vars

\* asio's queues are FIFO, so a handler that is ready again and again is taken at
\* last, and a handler returns.  The kernel reports what happened to a socket; an
\* accept that is started again and again while a peer waits succeeds at last.
\* Peers and the application owe nothing.
Fairness == /\ \A w \in Workers : WF_vars(End(w))
            /\ SF_vars(\E w \in Workers : BeginStrand(w))
            /\ \A c \in Conns : SF_vars(\E w \in Workers : BeginRead(w, c))
            /\ \A c \in Conns : WF_vars(\E r \in Results : ReadDone(c, r))
            /\ SF_vars(\E p \in Peers : AcceptDone(p))

FairSpec == Spec /\ Fairness

-----------------------------------------------------------------------------
(* Properties.                                                             *)

\* Every variable stays in its type; the one type invariant of the module.
TypeOK == /\ sess \in [Peers -> {"new", "backlog", "accepting", "served", "over"}]
          /\ line \in [Peers -> {"up", "fin", "rst"}]
          /\ inbox \in [Peers -> Nat]
          /\ accept \in {"armed", "queued", "lost"}
          /\ connections \in SUBSET Conns
          /\ peerOf \in [Conns -> Peers \cup {None}]
          /\ rd \in [Conns -> Drivers]
          /\ strand \in Seq(QueuedTasks)
          /\ ctxq \in SUBSET CtxTasks
          /\ active \in [Workers -> StrandTasks \cup ReadTasks \cup CtxTasks \cup {Idle}]
          /\ thrown \in SUBSET Workers
          /\ stopped \in BOOLEAN
          /\ restarts \in Nat
          /\ restartFailed \in BOOLEAN
          /\ posts \in Nat
          /\ written \in [Peers -> Seq(Nat \X Nat)]

\* A read handler in a worker belongs to a connection whose driver it is, and no
\* two workers are inside read handlers of one connection.
ReadersOwn ==
    \A w \in Workers : active[w] \in ReadTasks =>
        /\ rd[active[w].id] = "running"
        /\ \A v \in Workers : active[v] \in ReadTasks /\ active[v].id = active[w].id => v = w

\* The disconnect task of a closing connection exists once: in the strand's queue
\* or in the one worker the strand runs on.
ClosersOwn ==
    /\ \A i \in 1..Len(strand) : strand[i] \in DisconnectTasks =>
        /\ rd[strand[i].id] = "closing"
        /\ \A j \in 1..Len(strand) : strand[j] = strand[i] => j = i
        /\ \A w \in Workers : active[w] # strand[i]
    /\ \A w \in Workers : active[w] \in DisconnectTasks => rd[active[w].id] = "closing"

\* At most one worker is inside a handler of the strand.
StrandExclusive ==
    \A v, w \in Workers : active[v] \in StrandTasks /\ active[w] \in StrandTasks => v = w

\* Whatever is driven is alive: no handler, queued, running or still to come from
\* the kernel, can reach a Connection that neither connections nor the accept handler
\* that made it owns.
DrivenAreLive == \A c \in Conns : rd[c] # "none" => c \in Alive /\ peerOf[c] \in Peers

\* The hazard of raw "this" captures in Connection.cpp: a Connection is freed by
\* the strand while a read handler of it may be queued or running on another
\* thread.  Each connection has one driver at a time, so it never is; and it is
\* reported disconnected and freed by one task, once.
OneDriver == DrivenAreLive /\ ReadersOwn /\ ClosersOwn /\ StrandExclusive

\* The first read is started before on_connect is called, and its handler is not on
\* the strand: another worker can call on_message before the one inside the accept
\* handler has called on_connect.
EarlyMessage ==
    /\ \E v, w \in Workers, c \in Conns :
          /\ active[v] \in ReadTasks /\ active[v].id = c
          /\ active[w] = [kind |-> "connect", id |-> c]
          /\ event' = <<"message", c>>
    /\ UNCHANGED <<Reported, restarts>>

\* connect, message and disconnect callbacks follow the contract of structs.hpp, over
\* reused IDs and restarts, with one exception: the early messages that two workers
\* make possible.
ContractHolds == Contract!Init /\ [][Contract!Next \/ EarlyMessage]_(Contract!vars)

Before(m, n) == m[1] < n[1] \/ (m[1] = n[1] /\ m[2] < n[2])

\* publish and send return before anything is written; the strand still writes to each
\* socket in the order of the calls and, for a send, of its IDs, and for none of them
\* twice.
WritesInOrder == \A p \in Peers : \A i, j \in 1..Len(written[p]) :
                     i < j => Before(written[p][i], written[p][j])

\* A remote that closed or reset is reported by on_disconnect (or the loop was
\* stopped, or an exception left it).
GoneIsReported ==
    \A c \in Conns : rd[c] # "none" /\ line[peerOf[c]] # "up"
                       ~> rd[c] = "none" \/ stopped \/ thrown = Workers

\* A remote whose TCP handshake is done is taken out of the backlog (or the loop
\* was stopped, or an exception ended the accept loop).
WaitingIsAccepted ==
    \A p \in Peers : sess[p] = "backlog"
                       ~> sess[p] # "backlog" \/ stopped \/ accept = "lost"
=============================================================================
