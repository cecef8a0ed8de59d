------------------------------ MODULE TcpDuplex ------------------------------
(***************************************************************************)
(* A TCP server and the TCP clients that are connected to it, with kernel  *)
(* buffers that fill up.  Connection::write (src/src/src/tcp/Connection.cpp) *)
(* is a blocking write_some on the strand: while the buffer is full, the   *)
(* strand, and the thread it runs on, wait for the other side to read; and *)
(* when there is some room, but less than the frame needs, the rest of the *)
(* frame is dropped and whatever follows it is read out of step.           *)
(* A client reads on its strand, since its socket was made with it; the    *)
(* server reads on the io_context, since async_accept was given it.        *)
(*                                                                         *)
(* The application publishes to everybody what the server hears, in frames *)
(* of one size.  Who connects later is left to TcpServer.  With one        *)
(* worker, or with a client that stays and does not read, the properties   *)
(* do not hold: nothing in the code bounds a write.                        *)
(***************************************************************************)
EXTENDS Integers, Sequences, FiniteSets, SequencesExt

CONSTANTS Clients,    \* connected clients
          Workers,    \* threads inside the server's run()
          Capacity,   \* per client: bytes the two kernels hold in one direction
          FrameSize,  \* bytes of a message with its header
          MaxMessages \* bound: what the application publishes at each client

ASSUME SizesAssumption == /\ IsFiniteSet(Clients)
                          /\ Workers \in Nat \ {0}
                          /\ Capacity \in [Clients -> Nat \ {0}]
                          /\ FrameSize \in Nat \ {0}
                          /\ MaxMessages \in [Clients -> Nat]

VARIABLES
    connections, \* Impl::connections of the server, a vector
    reading,     \* per client: the server has a read pending for it
    strand,      \* tasks of the server's strand that wait
    writing,     \* the connections a publish that runs has still to write to
    heard,       \* messages the server has given to on_message
    up, down,    \* per client: what is on its way to the server, to the client
    todo,        \* per client: publish tasks that wait for its strand
    busy,        \* per client: its strand is inside write_some
    deaf,        \* per client: it has refused to read on, and will disconnect
    got,         \* per client: messages it has given to on_message
    line         \* per client: "up", "dropped" by the server, "closed" by the client

server     == <<connections, reading, strand, writing, heard>>
client     == <<todo, busy, deaf, got, line>>
duplexVars == <<server, up, down, client>>

-----------------------------------------------------------------------------
(* One direction of a connection: whole frames, then the bytes that follow *)
(* the first frame that was cut.                                           *)

Channel == [whole : Nat, junk : Nat, cut : BOOLEAN]
Empty   == [whole |-> 0, junk |-> 0, cut |-> FALSE]

Free(c, ch) == Capacity[c] - (ch.whole * FrameSize + ch.junk)

\* write_some takes what there is room for, and its count is dropped.
Written(c, ch) == IF Free(c, ch) >= FrameSize
                  THEN IF ch.cut THEN [ch EXCEPT !.junk = @ + FrameSize]
                                 ELSE [ch EXCEPT !.whole = @ + 1]
                  ELSE [ch EXCEPT !.junk = @ + Free(c, ch), !.cut = TRUE]

\* The next read of a channel, and what comes of it.  The bytes behind a cut can pass
\* for (a part of) any message, or for a header whose size is refused.
Reads(ch) == IF ch.whole > 0
             THEN {<<[ch EXCEPT !.whole = @ - 1], "message">>}
             ELSE {<<[ch EXCEPT !.junk = @ - n], o>> :
                       n \in 1..ch.junk, o \in {"part", "message", "refused"}}

PublishTask   == [kind |-> "publish"]
Disconnect(c) == [kind |-> "disconnect", id |-> c]

DuplexInit == /\ connections \in SetToSeqs(Clients)
              /\ reading = [c \in Clients |-> TRUE]
              /\ strand = <<>>
              /\ writing = <<>>
              /\ heard = 0
              /\ up = [c \in Clients |-> Empty]
              /\ down = [c \in Clients |-> Empty]
              /\ todo = MaxMessages
              /\ busy = [c \in Clients |-> FALSE]
              /\ deaf = [c \in Clients |-> FALSE]
              /\ got = [c \in Clients |-> 0]
              /\ line = [c \in Clients |-> "up"]

-----------------------------------------------------------------------------
(* The server.                                                             *)

\* Mutant: the accepted socket's executor is the strand.
StrandFree == writing = <<>>

\* A worker that is not inside a publish can run a read handler.
WorkerFree == Workers > (IF writing = <<>> THEN 0 ELSE 1)

\* Connection's read: on_message, and the publish that the application answers with;
\* or the size of a body is refused: impl.disconnect(this), and no next read.
ServerRead(c) == /\ reading[c] /\ WorkerFree
                 /\ \E r \in Reads(up[c]) :
                       /\ up' = [up EXCEPT ![c] = r[1]]
                       /\ heard' = heard + (IF r[2] = "message" THEN 1 ELSE 0)
                       /\ reading' = [reading EXCEPT ![c] = r[2] # "refused"]
                       /\ strand' = CASE r[2] = "part"    -> strand
                                      [] r[2] = "message" -> Append(strand, PublishTask)
                                      [] r[2] = "refused" -> Append(strand, Disconnect(c))
                 /\ UNCHANGED <<connections, writing, down, client>>

\* The end of the stream: impl.disconnect(this), and no next read.
ServerReadEnd(c) == /\ reading[c] /\ Reads(up[c]) = {} /\ line[c] = "closed" /\ WorkerFree
                    /\ reading' = [reading EXCEPT ![c] = FALSE]
                    /\ strand' = Append(strand, Disconnect(c))
                    /\ UNCHANGED <<connections, writing, heard, up, down, client>>

\* erase(remove_if): a connection is in the vector once.
Erased(c) == RemoveFirst(connections, c)

\* The strand takes its next task: a publish goes over connections, a disconnect
\* erases one, and with it the socket.
StrandTask ==
    /\ strand # <<>> /\ writing = <<>>
    /\ strand' = Tail(strand)
    /\ IF Head(strand) = PublishTask
       THEN writing' = connections /\ UNCHANGED <<connections, line>>
       ELSE LET c == Head(strand).id
            IN /\ connections' = Erased(c)
               /\ line' = [line EXCEPT ![c] = IF @ = "up" THEN "dropped" ELSE @]
               /\ UNCHANGED writing
    /\ UNCHANGED <<reading, heard, up, down, todo, busy, deaf, got>>

\* Mutants: an error ends the publish; an error is tried again.
GivesUp == writing' = <<>> /\ UNCHANGED down
Retries == UNCHANGED <<writing, down>>

\* write() drops the error of a connection that is gone.
WriteFails == writing' = Tail(writing) /\ UNCHANGED down

\* write_some waits until there is some room, or the connection is gone.
ServerWrite ==
    /\ writing # <<>>
    /\ LET c == Head(writing)
       IN \/ line[c] = "closed" /\ WriteFails
          \/ /\ line[c] = "up" /\ Free(c, down[c]) > 0
             /\ down' = [down EXCEPT ![c] = Written(c, @)]
             /\ writing' = Tail(writing)
    /\ UNCHANGED <<connections, reading, strand, heard, up, client>>

-----------------------------------------------------------------------------
(* A client: everything it does is on its strand.                          *)

ClientPublish(c) == /\ ~busy[c] /\ todo[c] > 0
                    /\ todo' = [todo EXCEPT ![c] = @ - 1]
                    /\ busy' = [busy EXCEPT ![c] = TRUE]
                    /\ UNCHANGED <<server, up, down, deaf, got, line>>

\* A write to a socket that the server has closed fails.
ClientWrite(c) == /\ busy[c]
                  /\ \/ line[c] = "dropped" /\ UNCHANGED up
                     \/ /\ line[c] = "up" /\ Free(c, up[c]) > 0
                        /\ up' = [up EXCEPT ![c] = Written(c, @)]
                  /\ busy' = [busy EXCEPT ![c] = FALSE]
                  /\ UNCHANGED <<server, down, todo, deaf, got, line>>

ClientRead(c) == /\ ~busy[c] /\ ~deaf[c]
                 /\ \E r \in Reads(down[c]) :
                       /\ down' = [down EXCEPT ![c] = r[1]]
                       /\ got' = [got EXCEPT ![c] = @ + IF r[2] = "message" THEN 1 ELSE 0]
                       /\ deaf' = [deaf EXCEPT ![c] = r[2] = "refused"]
                 /\ UNCHANGED <<server, up, todo, busy, line>>

\* The client's socket is closed: what it had not read or written is lost, and so may
\* be what is on its way (a reset).
Closed(c) == /\ line' = [line EXCEPT ![c] = "closed"]
             /\ todo' = [todo EXCEPT ![c] = 0]
             /\ busy' = [busy EXCEPT ![c] = FALSE]
             /\ down' = [down EXCEPT ![c] = Empty]
             /\ \E ch \in {Empty, up[c]} : up' = [up EXCEPT ![c] = ch]
             /\ UNCHANGED <<server, deaf, got>>

\* The client ends, at any time.
ClientClose(c) == line[c] # "closed" /\ Closed(c)

\* Its disconnect task: it has refused to read on, or sees that the server has closed.
ClientDisconnect(c) == /\ ~busy[c] /\ line[c] # "closed"
                       /\ deaf[c] \/ line[c] = "dropped"
                       /\ Closed(c)

-----------------------------------------------------------------------------
Server(c) == ServerRead(c) \/ ServerReadEnd(c)
Client(c) == ClientPublish(c) \/ ClientWrite(c) \/ ClientRead(c) \/ ClientDisconnect(c)

DuplexNext == \/ StrandTask \/ ServerWrite
              \/ \E c \in Clients : Server(c) \/ Client(c) \/ ClientClose(c)

\* run() takes every handler in its turn on both sides, and a write that waits goes
\* on when there is room.  No client has to end that was not dropped and reads on.
Fairness == /\ WF_duplexVars(StrandTask) /\ WF_duplexVars(ServerWrite)
            /\ \A c \in Clients : /\ WF_duplexVars(Server(c)) /\ WF_duplexVars(ClientPublish(c))
                                 /\ WF_duplexVars(ClientWrite(c)) /\ WF_duplexVars(ClientRead(c))
                                 /\ WF_duplexVars(ClientDisconnect(c))

DuplexSpec     == DuplexInit /\ [][DuplexNext]_duplexVars
FairDuplexSpec == DuplexSpec /\ Fairness

-----------------------------------------------------------------------------
(* Properties.                                                             *)

\* Every variable stays in its type; the one type invariant of the module.
DuplexTypeOK == /\ connections \in Seq(Clients)
                /\ reading \in [Clients -> BOOLEAN]
                /\ strand \in Seq({PublishTask} \cup {Disconnect(c) : c \in Clients})
                /\ writing \in Seq(Clients)
                /\ heard \in Nat
                /\ up \in [Clients -> Channel]
                /\ down \in [Clients -> Channel]
                /\ todo \in [Clients -> Nat]
                /\ busy \in [Clients -> BOOLEAN]
                /\ deaf \in [Clients -> BOOLEAN]
                /\ got \in [Clients -> Nat]
                /\ line \in [Clients -> {"up", "dropped", "closed"}]

\* The publish tasks that wait.
Waiting == Cardinality({i \in 1..Len(strand) : strand[i] = PublishTask})

\* Whoever comes and goes next to it, and however full its buffers are: as long as no
\* write to it was cut, a client that stays is sent every message once.  Those it has,
\* those on their way and those still to be written are what the server has heard.
NothingLost ==
    /\ DuplexTypeOK
    /\ \A c \in Clients : line[c] = "up" =>
          /\ Contains(connections, c)
          /\ ~down[c].cut => got[c] + down[c].whole + Waiting
                                + (IF Contains(writing, c) THEN 1 ELSE 0) = heard

\* The one deadlock: the server has refused to read on from a client, which waits for
\* it in a write, and so does not read what the server waits to write to it.
Deadlocked(c) == /\ line[c] = "up" /\ ~reading[c]
                 /\ busy[c] /\ Free(c, up[c]) = 0
                 /\ writing # <<>> /\ Head(writing) = c /\ Free(c, down[c]) = 0

AnyDeadlock == \E c \in Clients : Deadlocked(c)

\* Two services that publish to each other while both buffers are full do not wait
\* for one another for ever, unless a cut has led to the one deadlock: what a client
\* publishes gets out, and again and again every client that stays, and to which no
\* write was cut, has got all that the server has heard.
EverythingArrives ==
    \A c \in Clients :
        /\ []<>((todo[c] = 0 /\ ~busy[c]) \/ AnyDeadlock)
        /\ []<>(got[c] >= heard \/ line[c] # "up" \/ down[c].cut \/ AnyDeadlock)

\* The disconnect of a client that ends waits behind writes to others, and to itself,
\* but not for ever, unless there is that deadlock.
GoneIsErased ==
    \A c \in Clients : line[c] = "closed" ~> ~Contains(connections, c) \/ AnyDeadlock
=============================================================================
