------------------------------ MODULE WsClient ------------------------------
(***************************************************************************)
(* The web socket client service, src/src/src/ws/client/create.cpp, with   *)
(* the read loop of src/src/src/ws/Connection.cpp.                         *)
(*                                                                         *)
(* Like the TCP client it keeps itself going, over one stage more:         *)
(* connect() -> TCP connect -> web socket handshake -> connection ->       *)
(* disconnect task -> reconnect() -> timer -> connect() ...  Any stage may *)
(* fail, and the server may be one that answers a TCP connect and no       *)
(* handshake.  Socket, stream, timer and posts all use the strand, so its  *)
(* handlers run one at a time, in order, on any number of threads.         *)
(***************************************************************************)
EXTENDS Naturals, Sequences, FiniteSets

CONSTANTS Conns,              \* addresses the allocator can give a Connection
          Dial, Shake, Timer, \* the pending async_connect, async_handshake, async_wait
          New,                \* the socket that connect() makes
          None,               \* no connection
          MaxPosts,           \* bound: publish/publish_ex/send tasks not yet run
          MaxInbox,           \* bound: messages on a socket not yet read
          MaxRestarts         \* bound: stop/restart rounds

Stages == {Dial, Shake, Timer}

ASSUME NamesAssumption == /\ None \notin Conns /\ New \notin Conns
                          /\ Stages \cap Conns = {}
                          /\ Dial # Shake /\ Shake # Timer /\ Dial # Timer
                          /\ (Conns \cup Stages) \cap Nat = {}
ASSUME BoundsAssumption == MaxPosts \in Nat /\ MaxInbox \in Nat /\ MaxRestarts \in Nat

VARIABLES
    serverUp,    \* the remote endpoint listens
    line,        \* per socket: "closed", "up", "fin", "rst"
    inbox,       \* per socket: messages in the kernel, not yet read
    ops,         \* operations pending in the kernel: stages, or the read of c
    connection,  \* Impl::connection
    stale,       \* connection was made under an io_context that is gone
    strand,      \* handlers waiting for the strand, oldest first
    dispatched,  \* a dispatch()ed task waits
    stopped,     \* io_context::stop was called
    lost,        \* an exception left run() out of a handshake handler
    restarts,    \* restart() calls
    seen,        \* IDs the application has been given by on_connect
    event        \* the last callback

remote == <<serverUp, line, inbox>>
loop   == <<dispatched, stopped, lost, restarts>>
vars   == <<remote, ops, connection, stale, strand, loop, seen, event>>

-----------------------------------------------------------------------------
Socks   == Conns \cup {New}
Results == {"message", "oversize", "error"}
Modes   == {"all", "except", "only"}

\* Handlers that are to drive the client on, and posted writes.
StageTasks      == [kind : {"dialed", "shaken"}, ok : BOOLEAN]
TimerTasks      == [kind : {"expired"}, aborted : BOOLEAN]
ReadTasks       == [kind : {"read"}, id : Conns, res : Results]
DisconnectTasks == [kind : {"disconnect"}, id : Conns]
WriteTasks      == [kind : {"write"}, mode : Modes, ids : SUBSET Conns]
DriverTasks     == StageTasks \cup TimerTasks \cup ReadTasks \cup DisconnectTasks
Tasks           == DriverTasks \cup WriteTasks

\* A connection that a restart has left behind is never reported again.
Open == IF connection = None \/ stale THEN {} ELSE {connection}

Contract == INSTANCE EventContract WITH Ids <- Conns, open <- Open, round <- restarts

Init == /\ serverUp = FALSE
        /\ line = [s \in Socks |-> "closed"]
        /\ inbox = [s \in Socks |-> 0]
        /\ ops = {Dial}
        /\ connection = None
        /\ stale = FALSE
        /\ strand = <<>>
        /\ dispatched = FALSE
        /\ stopped = FALSE
        /\ lost = FALSE
        /\ restarts = 0
        /\ seen = {}
        /\ event = Contract!NoEvent

-----------------------------------------------------------------------------
(* The remote side.                                                        *)

local == <<ops, connection, stale, strand, loop, seen, event>>

ServerToggle == /\ serverUp' = ~serverUp
                /\ UNCHANGED <<line, inbox, local>>

\* Frames come only once the handshake is done.
RemoteSend(c) == /\ line[c] = "up" /\ inbox[c] < MaxInbox
                 /\ inbox' = [inbox EXCEPT ![c] = @ + 1]
                 /\ UNCHANGED <<serverUp, line, local>>

\* A close frame or the end of the stream.
RemoteClose(s) == /\ line[s] = "up"
                  /\ line' = [line EXCEPT ![s] = "fin"]
                  /\ UNCHANGED <<serverUp, inbox, local>>

RemoteReset(s) == /\ line[s] \in {"up", "fin"}
                  /\ line' = [line EXCEPT ![s] = "rst"]
                  /\ UNCHANGED <<serverUp, inbox, local>>

Remote == \/ ServerToggle
          \/ \E c \in Conns : RemoteSend(c)
          \/ \E s \in Socks : RemoteClose(s) \/ RemoteReset(s)

-----------------------------------------------------------------------------
(* The reactor turns a finished operation into a handler on the strand.    *)

Complete(op, t) == /\ ~stopped /\ op \in ops
                   /\ ops' = ops \ {op}
                   /\ strand' = Append(strand, t)
                   /\ UNCHANGED <<serverUp, connection, stale, loop, seen, event>>

DialOk == /\ serverUp
          /\ Complete(Dial, [kind |-> "dialed", ok |-> TRUE])
          /\ line' = [line EXCEPT ![New] = "up"]
          /\ UNCHANGED inbox

\* Refused, unreachable or timed out: also a listening server may not answer.
DialFailed == /\ Complete(Dial, [kind |-> "dialed", ok |-> FALSE])
              /\ UNCHANGED <<line, inbox>>

ShakeOk == /\ line[New] = "up"
           /\ Complete(Shake, [kind |-> "shaken", ok |-> TRUE])
           /\ UNCHANGED <<line, inbox>>

\* No web socket there, a connection that ends, or 30 seconds without an answer
\* (the suggested timeout of the client's role).
ShakeFailed == /\ Complete(Shake, [kind |-> "shaken", ok |-> FALSE])
               /\ UNCHANGED <<line, inbox>>

TimerDone == /\ Complete(Timer, [kind |-> "expired", aborted |-> FALSE])
             /\ UNCHANGED <<line, inbox>>

\* Mutant: only a reset is taken for the end of the connection.
EofIgnored(c) == {r \in Results : IF r = "error" THEN line[c] = "rst" ELSE inbox[c] > 0}

\* A whole message, one that flat_buffer's limit refuses, or close and errors.
ReadOutcomes(c) == {r \in Results :
    IF r = "error" THEN line[c] = "rst" \/ (line[c] = "fin" /\ inbox[c] = 0)
                   ELSE inbox[c] > 0}

ReadDone(c, r) == /\ r \in ReadOutcomes(c)
                  /\ Complete(c, [kind |-> "read", id |-> c, res |-> r])
                  /\ inbox' = IF r = "error" THEN inbox ELSE [inbox EXCEPT ![c] = @ - 1]
                  /\ UNCHANGED line

Reactor == \/ DialOk \/ DialFailed \/ ShakeOk \/ ShakeFailed \/ TimerDone
           \/ \E c \in Conns, r \in Results : ReadDone(c, r)

-----------------------------------------------------------------------------
(* A worker runs the oldest handler of the strand.                         *)

task == Head(strand)

AtHead(kind) == ~stopped /\ strand # <<>> /\ task.kind = kind

Take(kind) == AtHead(kind) /\ UNCHANGED <<serverUp, loop>>

\* Mutant: the error branch of the handshake returns without reconnect().
NotRetried == ops' = ops /\ strand' = Tail(strand)

\* reconnect(): expires_after() cancels a wait that is still pending, whose
\* handler then sees operation_aborted; then a new wait is started.
Reconnect == /\ ops' = ops \cup {Timer}
             /\ strand' = IF Timer \in ops
                          THEN Append(Tail(strand), [kind |-> "expired", aborted |-> TRUE])
                          ELSE Tail(strand)

\* The TCP connect is done: the stream takes the socket over and shakes hands.
Dialed == /\ Take("dialed") /\ task.ok
          /\ ops' = ops \cup {Shake}
          /\ strand' = Tail(strand)
          /\ UNCHANGED <<line, inbox, connection, stale, seen, event>>

DialError == /\ Take("dialed") /\ ~task.ok
             /\ Reconnect
             /\ UNCHANGED <<line, inbox, connection, stale, seen, event>>

\* The handler returns, and the stream it owns goes, with its socket.
ShakeError == /\ Take("shaken") /\ ~task.ok
              /\ Reconnect
              /\ line' = [line EXCEPT ![New] = "closed"]
              /\ UNCHANGED <<inbox, connection, stale, seen, event>>

\* The Connection takes the stream over; the one it replaces, if any, is freed.
\* on_ready, on_connect, and only then the first read.
Shaken(c) == /\ Take("shaken") /\ task.ok /\ line[New] # "rst"
             /\ c # connection
             /\ connection' = c
             /\ stale' = FALSE
             /\ line' = [s \in Socks |-> IF s = c THEN line[New] ELSE "closed"]
             /\ inbox' = [s \in Socks |-> 0]
             /\ ops' = ops \cup {c}
             /\ strand' = Tail(strand)
             /\ event' = <<"connect", c>>
             /\ seen' = seen \cup {c}

\* The socket was reset meanwhile: Connection's constructor throws for want of a
\* remote endpoint, out of run(), and nothing was started to go on with.
ShakenThrow == /\ AtHead("shaken") /\ task.ok /\ line[New] = "rst"
               /\ strand' = Tail(strand)
               /\ lost' = TRUE
               /\ line' = [line EXCEPT ![New] = "closed"]
               /\ UNCHANGED <<serverUp, inbox, ops, connection, stale, dispatched, stopped,
                              restarts, seen, event>>

Expired == /\ Take("expired")
           /\ ops' = IF task.aborted THEN ops ELSE ops \cup {Dial}
           /\ strand' = Tail(strand)
           /\ UNCHANGED <<line, inbox, connection, stale, seen, event>>

\* on_message, then the next read.
ReadMessage == /\ Take("read") /\ task.res = "message"
               /\ event' = <<"message", task.id>>
               /\ ops' = ops \cup {task.id}
               /\ strand' = Tail(strand)
               /\ UNCHANGED <<line, inbox, connection, stale, seen>>

\* Mutant: impl.disconnect(this) and no return: the loop reads on.
ReadOn(c) == ops \cup {c}

\* No read is started after impl.disconnect(this).
NoReadAfter(c) == ops

\* impl.disconnect(this) posts.
ReadFailed == /\ Take("read") /\ task.res # "message"
              /\ strand' = Append(Tail(strand), [kind |-> "disconnect", id |-> task.id])
              /\ ops' = NoReadAfter(task.id)
              /\ UNCHANGED <<line, inbox, connection, stale, seen, event>>

\* Mutant: on_disconnect without the reset() of connection.
NotReset == connection

NoConnection == None

\* disconnect(): only the connection it was posted for is reported and freed;
\* reconnect() is called in any case.
Disconnect == /\ Take("disconnect")
              /\ IF connection = task.id
                 THEN /\ event' = <<"disconnect", connection>>
                      /\ connection' = NoConnection
                      /\ stale' = FALSE
                      /\ line' = [line EXCEPT ![task.id] = "closed"]
                      /\ inbox' = [inbox EXCEPT ![task.id] = 0]
                 ELSE UNCHANGED <<event, connection, stale, line, inbox>>
              /\ Reconnect
              /\ UNCHANGED seen

\* has_remote_id() and write_if_connected(): what is written is not modelled.
Write == /\ Take("write")
         /\ strand' = Tail(strand)
         /\ UNCHANGED <<line, inbox, ops, connection, stale, seen, event>>

\* asio::dispatch: in place when called from a handler, otherwise posted to the
\* io_context, next to the strand.
Dispatched == /\ ~stopped /\ dispatched
              /\ dispatched' = FALSE
              /\ UNCHANGED <<remote, ops, connection, stale, strand, stopped, lost, restarts,
                             seen, event>>

Handler == \/ Dialed \/ DialError \/ ShakeError \/ ShakenThrow \/ Expired
           \/ \E c \in Conns : Shaken(c)
           \/ ReadMessage \/ ReadFailed \/ Disconnect \/ Write

-----------------------------------------------------------------------------
(* The application.                                                        *)

PendingWrites == {i \in 1..Len(strand) : strand[i] \in WriteTasks}

\* publish, publish_ex and send: post to the strand and return.
Post(mode, ids) == /\ Cardinality(PendingWrites) < MaxPosts
                   /\ strand' = Append(strand, [kind |-> "write", mode |-> mode, ids |-> ids])
                   /\ UNCHANGED <<remote, ops, connection, stale, loop, seen, event>>

Publish   == Post("all", {})
PublishEx == \E ids \in SUBSET seen \ {{}} : Post("except", ids)
Send      == \E ids \in SUBSET seen \ {{}} : Post("only", ids)

Dispatch == /\ ~dispatched
            /\ dispatched' = TRUE
            /\ UNCHANGED <<remote, ops, connection, stale, strand, stopped, lost, restarts,
                           seen, event>>

Stop == /\ ~stopped
        /\ stopped' = TRUE
        /\ UNCHANGED <<remote, ops, connection, stale, strand, dispatched, lost, restarts,
                       seen, event>>

\* restart(): a new Context and a first connect().  The old context takes its
\* operations and handlers with it; connection is left as it was.
Restart == /\ stopped /\ restarts < MaxRestarts
           /\ restarts' = restarts + 1
           /\ stopped' = FALSE
           /\ lost' = FALSE
           /\ dispatched' = FALSE
           /\ ops' = {Dial}
           /\ strand' = <<>>
           /\ stale' = (connection # None)
           /\ line' = [line EXCEPT ![New] = "closed"]
           /\ UNCHANGED <<serverUp, inbox, connection, seen, event>>

Application == Publish \/ PublishEx \/ Send \/ Dispatch \/ Stop \/ Restart

-----------------------------------------------------------------------------
Next == Remote \/ Reactor \/ Handler \/ Dispatched \/ Application

Spec == Init /\ [][Next]_vars

\* run() takes the handlers in order and polls the kernel until it is stopped;
\* the kernel finishes every dial and every timer, Beast every handshake (it has
\* a timeout), and a socket reports what it has.  A server that keeps listening
\* while the client dials again and again answers at last, and shakes hands.
\* The remote side and the application owe nothing.
Fairness == /\ WF_vars(Handler)
            /\ WF_vars(Dispatched)
            /\ WF_vars(DialOk \/ DialFailed)
            /\ SF_vars(DialOk)
            /\ WF_vars(ShakeOk \/ ShakeFailed)
            /\ SF_vars(ShakeOk)
            /\ WF_vars(TimerDone)
            /\ \A c \in Conns : WF_vars(\E r \in Results : ReadDone(c, r))

FairSpec == Spec /\ Fairness

-----------------------------------------------------------------------------
(* Properties.                                                             *)

\* Every variable stays in its type; the one type invariant of the module.
TypeOK == /\ serverUp \in BOOLEAN
          /\ line \in [Socks -> {"closed", "up", "fin", "rst"}]
          /\ inbox \in [Socks -> Nat]
          /\ ops \in SUBSET (Conns \cup Stages)
          /\ connection \in Conns \cup {None}
          /\ stale \in BOOLEAN
          /\ strand \in Seq(Tasks)
          /\ dispatched \in BOOLEAN
          /\ stopped \in BOOLEAN
          /\ lost \in BOOLEAN
          /\ restarts \in Nat
          /\ seen \in SUBSET Conns

\* What is to drive the client on: pending operations, and the positions of the
\* handlers that do more than write.
DriversOf(o, s) == o \cup {i \in 1..Len(s) : s[i] \in DriverTasks}
Drivers == DriversOf(ops, strand)

\* Reads, their handlers and disconnect tasks are those of the connection.
DriversOwnConnection ==
    /\ \A c \in Conns : c \in ops => connection = c /\ ~stale
    /\ \A i \in 1..Len(strand) :
          strand[i] \in ReadTasks \cup DisconnectTasks =>
              connection = strand[i].id /\ ~stale

\* While the client has a connection (of this context), nothing dials, shakes
\* hands or waits.
NoDialWhileConnected ==
    connection # None /\ ~stale =>
        /\ ops \cap Stages = {}
        /\ \A i \in 1..Len(strand) : strand[i] \notin StageTasks \cup TimerTasks

\* reconnect() never cancels a wait: the cancelled handler drives nothing.
NoWaitCancelled ==
    \A i \in 1..Len(strand) : strand[i] \in TimerTasks => ~strand[i].aborted

\* There is one driver at any time, unless an exception has ended the cycle, and
\* none of a Connection that is gone.
Cycle == /\ IF lost THEN Drivers = {} ELSE \E d \in Drivers : Drivers = {d}
         /\ DriversOwnConnection
         /\ NoDialWhileConnected
         /\ NoWaitCancelled

\* The hazard of the reconnect cycle, which has six places to fork or to die at:
\* two chains of retries would replace, and free, a Connection in the middle of
\* its read; none would leave the client away for ever.
OneDriver == TypeOK /\ Cycle

\* connect, message and disconnect callbacks follow the contract of structs.hpp,
\* over failed handshakes, reconnections, reused IDs and restarts.
ContractHolds == Contract!Spec

\* Whatever stage fails, the client is connected again and again, or the server
\* is away, closes what it is asked to open, the loop was stopped or an exception
\* has ended the cycle.
ComesBack == []<>(Open # {} \/ ~serverUp \/ line[New] \in {"fin", "rst"} \/ stopped \/ lost)

\* A connection whose remote closed or reset is reported by on_disconnect (or the
\* loop was stopped).
GoneIsReported ==
    \A c \in Conns : connection = c /\ ~stale /\ line[c] \in {"fin", "rst"}
                       ~> connection # c \/ line[c] \notin {"fin", "rst"} \/ stopped
=============================================================================
