----------------------------- MODULE TcpClient -----------------------------
(***************************************************************************)
(* The TCP client service, src/src/tcp/client/create.cpp, with the read    *)
(* loop of src/src/tcp/Connection.cpp.                                     *)
(*                                                                         *)
(* The client keeps itself going: connect() -> connection -> disconnect    *)
(* task -> reconnect() -> timer -> connect() ...  At any time exactly one  *)
(* thing is to drive it on: an operation the kernel has not finished (a    *)
(* member of ops) or a handler waiting in the strand.  Socket, timer and   *)
(* posts all use the strand, so its handlers run one at a time, in order,  *)
(* whatever number of threads is inside run().                             *)
(***************************************************************************)
EXTENDS Naturals, Sequences, FiniteSets

CONSTANTS Conns,        \* addresses the allocator can give a Connection
          Dial, Timer,  \* the pending async_connect and async_wait
          New,          \* the socket that connect() makes
          None,         \* no connection
          MaxPosts,     \* bound: publish/publish_ex/send tasks not yet run
          MaxInbox,     \* bound: messages on a socket not yet read
          MaxRestarts   \* bound: stop/restart rounds

ASSUME NamesAssumption == /\ None \notin Conns /\ New \notin Conns
                          /\ Dial \notin Conns /\ Timer \notin Conns /\ Dial # Timer
                          /\ (Conns \cup {Dial, Timer}) \cap Nat = {}
ASSUME BoundsAssumption == MaxPosts \in Nat /\ MaxInbox \in Nat /\ MaxRestarts \in Nat

VARIABLES
    serverUp,    \* the remote endpoint listens
    line,        \* per socket: "closed", "up", "fin", "rst"
    inbox,       \* per socket: messages in the kernel, not yet read
    ops,         \* operations pending in the kernel: Dial, Timer, or the read of c
    connection,  \* Impl::connection
    stale,       \* connection was made under an io_context that is gone
    strand,      \* handlers waiting for the strand, oldest first
    dispatched,  \* a dispatch()ed task waits
    stopped,     \* io_context::stop was called
    lost,        \* an exception left run() out of a connect handler
    restarts,    \* restart() calls
    seen,        \* IDs the application has been given by on_connect
    event        \* the last callback

remote == <<serverUp, line, inbox>>
loop   == <<dispatched, stopped, lost, restarts>>
hist   == <<seen, event>>
vars   == <<remote, ops, connection, stale, strand, loop, hist>>

-----------------------------------------------------------------------------
Socks   == Conns \cup {New}
Results == {"message", "oversize", "error"}
Modes   == {"all", "except", "only"}

DialTasks       == [kind : {"dialed"}, ok : BOOLEAN]
TimerTasks      == [kind : {"expired"}, aborted : BOOLEAN]
ReadTasks       == [kind : {"read"}, id : Conns, res : Results]
DisconnectTasks == [kind : {"disconnect"}, id : Conns]
WriteTasks      == [kind : {"write"}, mode : Modes, ids : SUBSET Conns]
DriverTasks     == DialTasks \cup TimerTasks \cup ReadTasks \cup DisconnectTasks
Tasks           == DriverTasks \cup WriteTasks

\* A connection that a restart has left behind is never reported again.
Open == IF connection = None \/ stale THEN {} ELSE {connection}

Contract == INSTANCE EventContract WITH Ids <- Conns, open <- Open, round <- restarts

Init == /\ serverUp = FALSE
        /\ line = [s \in Socks |-> "closed"]
        /\ inbox = [s \in Socks |-> 0]
        /\ ops = {Dial}
        /\ connection = None
        /\ stale = FALSE
        /\ strand = <<>>
        /\ dispatched = FALSE
        /\ stopped = FALSE
        /\ lost = FALSE
        /\ restarts = 0
        /\ seen = {}
        /\ event = Contract!NoEvent

-----------------------------------------------------------------------------
(* The remote side.                                                        *)

local == <<ops, connection, stale, strand, loop, hist>>

ServerToggle == /\ serverUp' = ~serverUp
                /\ UNCHANGED <<line, inbox, local>>

RemoteSend(s) == /\ line[s] = "up" /\ inbox[s] < MaxInbox
                 /\ inbox' = [inbox EXCEPT ![s] = @ + 1]
                 /\ UNCHANGED <<serverUp, line, local>>

RemoteClose(s) == /\ line[s] = "up"
                  /\ line' = [line EXCEPT ![s] = "fin"]
                  /\ UNCHANGED <<serverUp, inbox, local>>

RemoteReset(s) == /\ line[s] \in {"up", "fin"}
                  /\ line' = [line EXCEPT ![s] = "rst"]
                  /\ UNCHANGED <<serverUp, inbox, local>>

Remote == ServerToggle \/ \E s \in Socks : RemoteSend(s) \/ RemoteClose(s) \/ RemoteReset(s)

-----------------------------------------------------------------------------
(* The reactor turns a finished operation into a handler on the strand.    *)

Complete(op, t) == /\ ~stopped /\ op \in ops
                      /\ ops' = ops \ {op}
                      /\ strand' = Append(strand, t)
                      /\ UNCHANGED <<serverUp, connection, stale, loop, hist>>

DialOk == /\ serverUp
          /\ Complete(Dial, [kind |-> "dialed", ok |-> TRUE])
          /\ line' = [line EXCEPT ![New] = "up"]
          /\ inbox' = [inbox EXCEPT ![New] = 0]

\* Refused, unreachable or timed out: also a listening server may not answer.
DialFailed == /\ Complete(Dial, [kind |-> "dialed", ok |-> FALSE])
              /\ UNCHANGED <<line, inbox>>

TimerDone == /\ Complete(Timer, [kind |-> "expired", aborted |-> FALSE])
             /\ UNCHANGED <<line, inbox>>

\* Mutant: only a reset is taken for the end of the connection.
EofIgnored(c) == {r \in Results : IF r = "error" THEN line[c] = "rst" ELSE inbox[c] > 0}

\* A complete message, a header that announces more than the buffer holds, or
\* end of stream and errors.
ReadOutcomes(c) == {r \in Results :
    IF r = "error" THEN line[c] = "rst" \/ (line[c] = "fin" /\ inbox[c] = 0)
                   ELSE inbox[c] > 0}

ReadDone(c, r) == /\ r \in ReadOutcomes(c)
                  /\ Complete(c, [kind |-> "read", id |-> c, res |-> r])
                  /\ inbox' = IF r = "error" THEN inbox ELSE [inbox EXCEPT ![c] = @ - 1]
                  /\ UNCHANGED line

Reactor == \/ DialOk \/ DialFailed \/ TimerDone
           \/ \E c \in Conns, r \in Results : ReadDone(c, r)

-----------------------------------------------------------------------------
(* A worker runs the oldest handler of the strand.                         *)

task == Head(strand)

AtHead(kind) == ~stopped /\ strand # <<>> /\ task.kind = kind

Take(kind) == AtHead(kind) /\ UNCHANGED <<serverUp, loop>>

\* Mutant: reconnect() without the wait being started.
NotRearmed == ops' = ops /\ strand' = Tail(strand)

\* reconnect(): expires_after() cancels a wait that is still pending, whose
\* handler then sees operation_aborted; then a new wait is started.
Reconnect == /\ ops' = ops \cup {Timer}
             /\ strand' = IF Timer \in ops
                          THEN Append(Tail(strand), [kind |-> "expired", aborted |-> TRUE])
                          ELSE Tail(strand)

\* The Connection takes the socket over; the one it replaces, if any, is freed.
\* on_ready is called, the read is started, on_connect is called.
Dialed(c) == /\ Take("dialed") /\ task.ok /\ line[New] # "rst"
             /\ c # connection
             /\ connection' = c
             /\ stale' = FALSE
             /\ line' = [s \in Socks |-> IF s = c THEN line[New] ELSE "closed"]
             /\ inbox' = [s \in Socks |-> IF s = c THEN inbox[New] ELSE 0]
             /\ ops' = ops \cup {c}
             /\ strand' = Tail(strand)
             /\ event' = <<"connect", c>>
             /\ seen' = seen \cup {c}

\* The socket was reset meanwhile: Connection's constructor throws for want of a
\* remote endpoint, out of run(), and nothing was started to go on with.
DialedThrow == /\ AtHead("dialed") /\ task.ok /\ line[New] = "rst"
               /\ strand' = Tail(strand)
               /\ lost' = TRUE
               /\ line' = [line EXCEPT ![New] = "closed"]
               /\ inbox' = [inbox EXCEPT ![New] = 0]
               /\ UNCHANGED <<serverUp, ops, connection, stale, dispatched, stopped,
                              restarts, hist>>

DialedError == /\ Take("dialed") /\ ~task.ok
               /\ Reconnect
               /\ UNCHANGED <<line, inbox, connection, stale, hist>>

Expired == /\ Take("expired")
           /\ ops' = IF task.aborted THEN ops ELSE ops \cup {Dial}
           /\ strand' = Tail(strand)
           /\ UNCHANGED <<line, inbox, connection, stale, hist>>

\* on_message, then the next header.
ReadMessage == /\ Take("read") /\ task.res = "message"
               /\ event' = <<"message", task.id>>
               /\ ops' = ops \cup {task.id}
               /\ strand' = Tail(strand)
               /\ UNCHANGED <<line, inbox, connection, stale, seen>>

\* Mutant: impl.disconnect(this) and no return: the loop reads on.
ReadOn(c) == ops \cup {c}

\* No read is started after impl.disconnect(this).
NoReadAfter(c) == ops

\* impl.disconnect(this) posts.
ReadFailed == /\ Take("read") /\ task.res # "message"
              /\ strand' = Append(Tail(strand), [kind |-> "disconnect", id |-> task.id])
              /\ ops' = NoReadAfter(task.id)
              /\ UNCHANGED <<line, inbox, connection, stale, hist>>

\* Mutant: on_disconnect without the reset() of connection.
NotReset == connection

NoConnection == None

\* disconnect(): only the connection it was posted for is reported and freed;
\* reconnect() is called in any case.
Disconnect == /\ Take("disconnect")
              /\ IF connection = task.id
                 THEN /\ event' = <<"disconnect", connection>>
                      /\ connection' = NoConnection
                      /\ stale' = FALSE
                      /\ line' = [line EXCEPT ![task.id] = "closed"]
                      /\ inbox' = [inbox EXCEPT ![task.id] = 0]
                 ELSE UNCHANGED <<event, connection, stale, line, inbox>>
              /\ Reconnect
              /\ UNCHANGED seen

\* has_remote_id(), write_if_connected(): what is written is not modelled.  Through a
\* stale connection it goes to a socket of the io_context that is gone.
Write == /\ Take("write")
         /\ strand' = Tail(strand)
         /\ UNCHANGED <<line, inbox, ops, connection, stale, hist>>

Dispatched == /\ ~stopped /\ dispatched
              /\ dispatched' = FALSE
              /\ UNCHANGED <<remote, ops, connection, stale, strand, stopped, lost, restarts,
                             hist>>

Handler == \/ \E c \in Conns : Dialed(c)
           \/ DialedThrow \/ DialedError \/ Expired
           \/ ReadMessage \/ ReadFailed \/ Disconnect \/ Write

-----------------------------------------------------------------------------
(* The application.                                                        *)

PendingWrites == {i \in 1..Len(strand) : strand[i] \in WriteTasks}

\* publish, publish_ex and send: post to the strand and return.
Post(mode, ids) == /\ Cardinality(PendingWrites) < MaxPosts
                   /\ strand' = Append(strand, [kind |-> "write", mode |-> mode, ids |-> ids])
                   /\ UNCHANGED <<remote, ops, connection, stale, loop, hist>>

Publish   == Post("all", {})
PublishEx == \E ids \in SUBSET seen \ {{}} : Post("except", ids)
Send      == \E ids \in SUBSET seen \ {{}} : Post("only", ids)

Dispatch == /\ ~dispatched
            /\ dispatched' = TRUE
            /\ UNCHANGED <<remote, ops, connection, stale, strand, stopped, lost, restarts, hist>>

Stop == /\ ~stopped
        /\ stopped' = TRUE
        /\ UNCHANGED <<remote, ops, connection, stale, strand, dispatched, lost, restarts, hist>>

\* restart(): a new Context and a first connect().  The old context takes its
\* operations and handlers with it; connection is left as it was.
Restart == /\ stopped /\ restarts < MaxRestarts
           /\ restarts' = restarts + 1
           /\ stopped' = FALSE
           /\ lost' = FALSE
           /\ dispatched' = FALSE
           /\ ops' = {Dial}
           /\ strand' = <<>>
           /\ stale' = (connection # None)
           /\ line' = [line EXCEPT ![New] = "closed"]
           /\ inbox' = [inbox EXCEPT ![New] = 0]
           /\ UNCHANGED <<serverUp, connection, hist>>

Application == Publish \/ PublishEx \/ Send \/ Dispatch \/ Stop \/ Restart

-----------------------------------------------------------------------------
Next == Remote \/ Reactor \/ Handler \/ Dispatched \/ Application

Spec == Init /\ [][Next]_vars

\* run() takes the handlers in order and polls the kernel until it is stopped;
\* the kernel finishes every dial and every timer, and reports what a socket has.
\* A server that keeps listening while the client dials again and again answers
\* at last.  The remote side and the application owe nothing.
Fairness == /\ WF_vars(Handler)
            /\ WF_vars(Dispatched)
            /\ WF_vars(DialOk \/ DialFailed)
            /\ SF_vars(DialOk)
            /\ WF_vars(TimerDone)
            /\ \A c \in Conns : WF_vars(\E r \in Results : ReadDone(c, r))

FairSpec == Spec /\ Fairness

-----------------------------------------------------------------------------
(* Properties.                                                             *)

\* Every variable stays in its type; the one type invariant of the module.
TypeOK == /\ serverUp \in BOOLEAN
          /\ line \in [Socks -> {"closed", "up", "fin", "rst"}]
          /\ inbox \in [Socks -> Nat]
          /\ ops \in SUBSET (Conns \cup {Dial, Timer})
          /\ connection \in Conns \cup {None}
          /\ stale \in BOOLEAN
          /\ strand \in Seq(Tasks)
          /\ dispatched \in BOOLEAN
          /\ stopped \in BOOLEAN
          /\ lost \in BOOLEAN
          /\ restarts \in Nat
          /\ seen \in SUBSET Conns

\* What is to drive the client on: pending operations, and the positions of the
\* handlers that do more than write.
DriversOf(o, s) == o \cup {i \in 1..Len(s) : s[i] \in DriverTasks}
Drivers == DriversOf(ops, strand)

\* Reads, their handlers and disconnect tasks are those of the connection.
DriversOwnConnection ==
    /\ \A c \in Conns : c \in ops => connection = c /\ ~stale
    /\ \A i \in 1..Len(strand) :
          strand[i] \in ReadTasks \cup DisconnectTasks =>
              connection = strand[i].id /\ ~stale

\* While the client has a connection (of this context), nothing dials or waits.
NoDialWhileConnected ==
    connection # None /\ ~stale =>
        /\ ops \cap {Dial, Timer} = {}
        /\ \A i \in 1..Len(strand) : strand[i] \notin DialTasks \cup TimerTasks

\* reconnect() never cancels a wait: the cancelled handler drives nothing.
NoWaitCancelled ==
    \A i \in 1..Len(strand) : strand[i] \in TimerTasks => ~strand[i].aborted

\* The hazard of the reconnect cycle: two chains of retries (a second connection
\* would replace, and free, the first in the middle of its read), or none (the
\* client would never come back), or a handler of a Connection that is gone.
\* There is one driver at any time, unless an exception has ended the cycle.
OneDriver == /\ IF lost THEN Drivers = {} ELSE \E d \in Drivers : Drivers = {d}
             /\ DriversOwnConnection
             /\ NoDialWhileConnected
             /\ NoWaitCancelled

\* connect, message and disconnect callbacks follow the contract of structs.hpp,
\* over reconnections, reused IDs and restarts.
ContractHolds == Contract!Spec

\* Whatever the remote does, the client is connected again and again, or the
\* server is away, the loop was stopped or an exception has ended the cycle.
ComesBack == []<>(Open # {} \/ ~serverUp \/ stopped \/ lost)

\* A connection whose remote closed or reset is reported by on_disconnect (or the
\* loop was stopped).
GoneIsReported ==
    \A c \in Conns : connection = c /\ ~stale /\ line[c] \in {"fin", "rst"}
                       ~> connection # c \/ line[c] \notin {"fin", "rst"} \/ stopped
=============================================================================
