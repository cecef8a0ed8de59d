----------------------------- MODULE UdpClient -----------------------------
(***************************************************************************)
(* The UDP client service, src/src/udp/client/create.cpp.                  *)
(*                                                                         *)
(* Three loops share the strand: ping() sends a probe and sets pingtimer,  *)
(* whose handler calls ping(); receive() takes a datagram, whose handler   *)
(* calls receive(); and an answer sets the 50 ms timeout, whose handler    *)
(* reports the remote disconnected and makes a new socket, with a receive  *)
(* of its own.  The strand's handlers run one at a time, in order.         *)
(*                                                                         *)
(* The network may lose, repeat, delay and reorder datagrams.  Time is not *)
(* modelled: a timer that is set may expire at any time.                   *)
(***************************************************************************)
EXTENDS Naturals, Sequences, FiniteSets

CONSTANTS MaxLoops,     \* bound: receive loops (see Receives)
          MaxPosts,     \* bound: publish, publish_ex, send only when fewer handlers wait
          MaxRestarts   \* bound: stop/restart rounds

ASSUME BoundsAssumption == MaxLoops \in Nat \ {0} /\ MaxPosts \in Nat /\ MaxRestarts \in Nat

VARIABLES
    serverUp,    \* the remote endpoint answers probes
    socket,      \* "closed"; "fresh": nothing was sent from it, so nothing can
                 \*   arrive; "asked": a probe waits for its answer; "used"
    reads,       \* receive operations pending in the kernel
    pingtimer,   \* its async_wait is pending
    timeout,     \* its async_wait is pending
    connected,   \* Impl::connected
    carried,     \* connected was set under an io_context that is gone
    strand,      \* handlers waiting for the strand, oldest first
    dispatched,  \* a dispatch()ed task waits
    silent,      \* ping() was left by an exception: nothing will call it again
    deaf,        \* a receive loop has ended with an error, or was not begun
    stopped,     \* io_context::stop was called
    restarts     \* restart() calls

net   == <<serverUp, socket>>
conn  == <<connected, carried>>
loop  == <<dispatched, stopped, restarts>>
flags == <<silent, deaf>>
vars  == <<net, reads, pingtimer, timeout, conn, strand, loop, flags>>

-----------------------------------------------------------------------------
Kinds == {"pong", "data"}   \* first byte above 0; first byte 0, or none
Tasks == [kind : {"received"}, what : Kinds] \cup [kind : {"due", "expired", "write"}]

Init == /\ serverUp = FALSE
        /\ socket = "asked"
        /\ reads = 1
        /\ pingtimer = TRUE
        /\ timeout = FALSE
        /\ connected = FALSE
        /\ carried = FALSE
        /\ strand = <<>>
        /\ dispatched = FALSE
        /\ silent = FALSE
        /\ deaf = FALSE
        /\ stopped = FALSE
        /\ restarts = 0

-----------------------------------------------------------------------------
(* The remote side and the reactor.                                        *)

ServerToggle == /\ serverUp' = ~serverUp
                /\ UNCHANGED <<socket, reads, pingtimer, timeout, conn, strand, loop, flags>>

Waiting(kind) == {i \in 1..Len(strand) : strand[i].kind = kind}

\* Receive loops: a receive is pending, or its handler waits.
Loops == reads + Cardinality(Waiting("received"))

\* The bound: while a timeout's handler waits, no datagram comes that could make
\* it one loop too many.
Receives == /\ ~stopped /\ reads > 0 /\ socket # "closed"
            /\ Waiting("expired") # {} => Loops < MaxLoops
            /\ reads' = reads - 1

PongArrives == /\ Receives /\ socket # "fresh"
               /\ socket' \in {socket, "used"}
               /\ strand' = Append(strand, [kind |-> "received", what |-> "pong"])
               /\ UNCHANGED <<serverUp, pingtimer, timeout, conn, loop, flags>>

DataArrives == /\ Receives /\ socket # "fresh"
               /\ strand' = Append(strand, [kind |-> "received", what |-> "data"])
               /\ UNCHANGED <<net, pingtimer, timeout, conn, loop, flags>>

\* receive(): the handler sees ec and returns.
ReceiveFailed == /\ Receives
                 /\ deaf' = TRUE
                 /\ UNCHANGED <<net, pingtimer, timeout, conn, strand, loop, silent>>

PingDue == /\ ~stopped /\ pingtimer
           /\ pingtimer' = FALSE
           /\ strand' = Append(strand, [kind |-> "due"])
           /\ UNCHANGED <<net, reads, timeout, conn, loop, flags>>

TimeoutFires == /\ ~stopped /\ timeout
                /\ timeout' = FALSE
                /\ strand' = Append(strand, [kind |-> "expired"])
                /\ UNCHANGED <<net, reads, pingtimer, conn, loop, flags>>

Reactor == PongArrives \/ DataArrives \/ ReceiveFailed \/ PingDue \/ TimeoutFires

-----------------------------------------------------------------------------
(* A worker runs the oldest handler of the strand.                         *)

task == Head(strand)

Take(kind) == /\ ~stopped /\ strand # <<>> /\ task.kind = kind
              /\ strand' = Tail(strand)
              /\ UNCHANGED <<serverUp, loop>>

\* receive()
ReceiveAgain == reads' = reads + 1

\* Mutant: expires_after() and no new async_wait.
TimeoutCancelled == timeout' = FALSE

\* expires_after() cancels the wait that is pending; async_wait() starts the next.
TimeoutSet == timeout' = TRUE

\* pong(): on_ready and on_connect, once.
Pong == /\ Take("received") /\ task.what = "pong"
        /\ connected' = TRUE
        /\ carried' = FALSE
        /\ TimeoutSet
        /\ ReceiveAgain
        /\ UNCHANGED <<socket, pingtimer, flags>>

\* usermsg() calls on_message whatever connected is, and whoever the sender: such a
\* message can precede on_connect and follow on_disconnect, so this service is not
\* one that implements EventContract.
Data == /\ Take("received") /\ task.what = "data"
        /\ ReceiveAgain
        /\ UNCHANGED <<socket, pingtimer, timeout, conn, flags>>

\* Mutant: the probe is sent and the timer forgotten.
PingOnce == pingtimer' = FALSE

PingAgain == pingtimer' = TRUE

\* ping(): send_to may throw, and does if there is no socket.
Due == /\ Take("due")
       /\ \/ /\ socket # "closed"
             /\ socket' = "asked"
             /\ PingAgain
             /\ UNCHANGED silent
          \/ /\ silent' = TRUE
             /\ UNCHANGED <<socket, pingtimer>>
       /\ UNCHANGED <<reads, timeout, conn, deaf>>

\* Mutant: the new socket gets no receive.
NoReceive == reads' = 0

\* cancel() ends the pending receives, receive() starts one; handlers that wait
\* already know nothing of it and will receive again.
FirstReceive == reads' = 1

\* recreate_socket(): open_socket() may fail.
RecreateSocket == \/ /\ socket' = "fresh"
                     /\ FirstReceive
                     /\ UNCHANGED deaf
                  \/ /\ socket' = "closed"
                     /\ reads' = 0
                     /\ deaf' = TRUE

\* The timeout's handler.
Expired == /\ Take("expired")
           /\ IF connected
              THEN /\ connected' = FALSE
                   /\ carried' = FALSE
                   /\ RecreateSocket
              ELSE UNCHANGED <<conn, socket, reads, deaf>>
           /\ UNCHANGED <<pingtimer, timeout, silent>>

\* send_external(): sent, or an exception that ends no loop.
Write == /\ Take("write")
         /\ socket' \in {socket} \cup (IF socket = "fresh" THEN {"used"} ELSE {})
         /\ UNCHANGED <<reads, pingtimer, timeout, conn, flags>>

Dispatched == /\ ~stopped /\ dispatched
              /\ dispatched' = FALSE
              /\ UNCHANGED <<net, reads, pingtimer, timeout, conn, strand, stopped,
                             restarts, flags>>

Handler == Pong \/ Data \/ Due \/ Expired \/ Write

-----------------------------------------------------------------------------
(* The application.                                                        *)

\* publish; publish_ex without the remote's ID; send with it.
Publish == /\ Len(strand) < MaxPosts
           /\ strand' = Append(strand, [kind |-> "write"])
           /\ UNCHANGED <<net, reads, pingtimer, timeout, conn, loop, flags>>

Dispatch == /\ ~dispatched
            /\ dispatched' = TRUE
            /\ UNCHANGED <<net, reads, pingtimer, timeout, conn, strand, stopped,
                           restarts, flags>>

Stop == /\ ~stopped
        /\ stopped' = TRUE
        /\ UNCHANGED <<net, reads, pingtimer, timeout, conn, strand, dispatched,
                       restarts, flags>>

\* restart(): a new Context takes the place of the old one with its handlers and
\* timers; connected is left as it was.
NewContext == /\ stopped /\ restarts < MaxRestarts
              /\ restarts' = restarts + 1
              /\ stopped' = FALSE
              /\ dispatched' = FALSE
              /\ strand' = <<>>
              /\ timeout' = FALSE
              /\ carried' = connected
              /\ UNCHANGED <<serverUp, connected>>

Restart == /\ NewContext
           /\ socket' = "asked"
           /\ reads' = 1
           /\ pingtimer' = TRUE
           /\ silent' = FALSE
           /\ deaf' = FALSE

\* open_socket() fails, or ping() throws: neither loop is started.
RestartFails == /\ NewContext
                /\ socket' \in {"closed", "fresh"}
                /\ reads' = 0
                /\ pingtimer' = FALSE
                /\ silent' = TRUE
                /\ deaf' = TRUE

Application == Publish \/ Dispatch \/ Stop \/ Restart \/ RestartFails

-----------------------------------------------------------------------------
Next == ServerToggle \/ Reactor \/ Handler \/ Dispatched \/ Application

Spec == Init /\ [][Next]_vars

\* run() takes the handlers in order and polls the kernel until it is stopped; a
\* timer that is set expires unless it is set again.  A server that is up while
\* probes are sent again and again has one of them answered at last.
Answered == PongArrives /\ serverUp /\ socket = "asked"

Fairness == /\ WF_vars(Handler)
            /\ WF_vars(PingDue)
            /\ WF_vars(TimeoutFires)
            /\ SF_vars(Answered)

FairSpec == Spec /\ Fairness

-----------------------------------------------------------------------------
(* Properties.                                                             *)

\* Every variable stays in its type; the one type invariant of the module.
TypeOK == /\ serverUp \in BOOLEAN
          /\ socket \in {"closed", "fresh", "asked", "used"}
          /\ reads \in Nat
          /\ pingtimer \in BOOLEAN
          /\ timeout \in BOOLEAN
          /\ connected \in BOOLEAN
          /\ carried \in BOOLEAN
          /\ strand \in Seq(Tasks)
          /\ dispatched \in BOOLEAN
          /\ silent \in BOOLEAN
          /\ deaf \in BOOLEAN
          /\ stopped \in BOOLEAN
          /\ restarts \in Nat

\* Probes go out one at a time: the timer runs or its handler waits, never both.
OnePing == Cardinality(Waiting("due")) + (IF pingtimer THEN 1 ELSE 0) =
             IF silent THEN 0 ELSE 1

\* recreate_socket() cancels receives whose handlers may wait already: whatever the
\* order, some receive loop is left.
Listening == deaf \/ Loops > 0

\* A connection of this io_context has a timeout that will end it.
Watched == connected /\ ~carried => timeout \/ Waiting("expired") # {}

\* No order of answers, probes and timeouts leaves the client without one of its
\* three loops, unless an exception or an error has ended it.
LoopsGoOn == TypeOK /\ OnePing /\ Listening /\ Watched

\* README: "probe-based connection detection": while the server answers probes the
\* client is connected again and again, over timeouts and new sockets (unless it
\* was stopped, or has lost a loop for good).
ComesBack == []<>(connected \/ ~serverUp \/ stopped \/ silent \/ deaf)

\* A server that falls silent is reported by on_disconnect (unless the client was
\* stopped; one carried over a restart is watched only from the next answer on).
GoneIsReported == \/ []<><<Pong>>_vars
                  \/ connected /\ ~carried ~> ~connected \/ stopped
=============================================================================
