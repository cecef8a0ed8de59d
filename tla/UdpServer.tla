----------------------------- MODULE UdpServer -----------------------------
(***************************************************************************)
(* The UDP server service, src/src/udp/server/create.cpp.                  *)
(*                                                                         *)
(* A remote endpoint is connected by its first probe ("ping") and stays so *)
(* as long as a probe arrives within the 50 ms of its Connection's timer.  *)
(* Socket, timers and posts all use the strand: its handlers run one at a  *)
(* time, in order, whatever number of threads is inside run().             *)
(*                                                                         *)
(* The network may lose, repeat, delay and reorder datagrams: any datagram *)
(* of any endpoint may arrive at any time.  Time is not modelled: a timer  *)
(* that is set may expire at any time, also while the handler of an        *)
(* earlier expiry still waits for the strand behind the probe that set it. *)
(***************************************************************************)
EXTENDS Naturals, Sequences

CONSTANTS Endpoints,    \* remote endpoints
          Conns,        \* addresses the allocator can give a Connection
          None,         \* no endpoint
          Rebind,       \* may a second socket bind while the first is open?
          MaxPosts,     \* bound: publish, publish_ex, send only when fewer handlers wait
          MaxRestarts   \* bound: stop/restart rounds

ASSUME NoneAssumption == None \notin Endpoints
ASSUME FlagsAssumption == Rebind \in BOOLEAN
ASSUME BoundsAssumption == MaxPosts \in Nat /\ MaxRestarts \in Nat

VARIABLES
    connections, \* the live Connection objects (Impl::connections)
    endpointOf,  \* per address: the endpoint of its last Connection
    wait,        \* connections whose async_wait is pending
    stale,       \* connections left over from an io_context that is gone
    overtaken,   \* history: IDs of which two expiries waited at once, until the
                 \*   last of them has run
    rx,          \* the receive: "armed", "queued" (its handler waits), "over"
    strand,      \* handlers waiting for the strand, oldest first
    ctxq,        \* other handlers posted to the io_context
    lost,        \* a send_to has thrown, out of a handler and out of run()
    stopped,     \* io_context::stop was called
    restarts,    \* restart() calls that returned
    event        \* the last callback

impl == <<connections, endpointOf, wait, stale, overtaken>>
loop == <<ctxq, lost, stopped, restarts>>
vars == <<impl, rx, strand, loop, event>>

-----------------------------------------------------------------------------
Kinds == {"ping", "data", "empty"}    \* first byte 1, first byte 0, no byte at all
Modes == {"all", "except", "only"}    \* publish, publish_ex, send

ReceiveTasks == [kind : {"received"}, from : Endpoints, what : Kinds]
ErrorTasks   == [kind : {"failed"}]
ExpiryTasks  == [kind : {"expired"}, id : Conns]
WriteTasks   == [kind : {"write"}, mode : Modes, ids : SUBSET Conns]
Tasks        == ReceiveTasks \cup ErrorTasks \cup ExpiryTasks \cup WriteTasks

Contract == INSTANCE EventContract WITH Ids <- Conns, open <- connections,
                                        round <- restarts

Init == /\ connections = {}
        /\ endpointOf = [c \in Conns |-> None]
        /\ wait = {}
        /\ stale = {}
        /\ overtaken = {}
        /\ rx = "armed"
        /\ strand = <<>>
        /\ ctxq = {"ready"}
        /\ lost = FALSE
        /\ stopped = FALSE
        /\ restarts = 0
        /\ event = Contract!NoEvent

-----------------------------------------------------------------------------
(* The reactor turns a datagram or an expired timer into a handler.        *)

ReceiveDone(e, k) == /\ ~stopped /\ rx = "armed"
                     /\ rx' = "queued"
                     /\ strand' = Append(strand, [kind |-> "received", from |-> e, what |-> k])
                     /\ UNCHANGED <<impl, loop, event>>

ReceiveFailed == /\ ~stopped /\ rx = "armed"
                 /\ rx' = "queued"
                 /\ strand' = Append(strand, [kind |-> "failed"])
                 /\ UNCHANGED <<impl, loop, event>>

ExpiryQueued(c) == \E i \in 1..Len(strand) : strand[i] \in ExpiryTasks /\ strand[i].id = c

\* The handler captures the raw Connection*; nothing takes back the one of an
\* earlier wait that is queued already.
TimerFires(c) == /\ ~stopped /\ c \in wait
                 /\ wait' = wait \ {c}
                 /\ overtaken' = overtaken \cup {d \in {c} : ExpiryQueued(d)}
                 /\ strand' = Append(strand, [kind |-> "expired", id |-> c])
                 /\ UNCHANGED <<connections, endpointOf, stale, rx, loop, event>>

Reactor == \/ \E e \in Endpoints, k \in Kinds : ReceiveDone(e, k)
           \/ ReceiveFailed
           \/ \E c \in Conns : TimerFires(c)

-----------------------------------------------------------------------------
(* A worker runs the oldest handler of the strand.                         *)

task == Head(strand)

Take(kind) == /\ ~stopped /\ strand # <<>> /\ task.kind = kind
              /\ strand' = Tail(strand)

\* message(): the connection of the endpoint, if it has one.
Known(e) == {c \in connections : endpointOf[c] = e}

\* Mutant: expires_after() and no new async_wait.
WaitCancelled(c) == wait \ {c}

\* Mutant: the first ping of an endpoint starts no wait.
NewNotTimed(c) == IF c \in connections THEN wait \cup {c} ELSE wait

\* expires_after() cancels the wait that is pending, if any, whose handler does
\* nothing then; async_wait() starts the next.  A handler of an earlier wait that
\* is queued already stays queued.
Rearmed(c) == wait \cup {c}

\* The probe is answered, and the next datagram received; or send_to throws.
Answer == \/ /\ rx' = "armed"
             /\ UNCHANGED loop
          \/ /\ rx' = "over"
             /\ lost' = TRUE
             /\ UNCHANGED <<ctxq, stopped, restarts>>

\* ping() of an endpoint that is connected.
PingKnown(c) == /\ Take("received") /\ task.what = "ping"
                /\ c \in Known(task.from) /\ c \notin stale
                /\ wait' = Rearmed(c)
                /\ Answer
                /\ UNCHANGED <<connections, endpointOf, stale, overtaken, event>>

EndpointStored(c, e) == [endpointOf EXCEPT ![c] = e]

\* ping() of an endpoint that is not.
PingNew(c) == /\ Take("received") /\ task.what = "ping"
              /\ Known(task.from) = {} /\ c \notin connections
              /\ connections' = connections \cup {c}
              /\ endpointOf' = EndpointStored(c, task.from)
              /\ event' = <<"connect", c>>
              /\ wait' = Rearmed(c)
              /\ Answer
              /\ UNCHANGED <<stale, overtaken>>

\* ping() of an endpoint whose timer belongs to an io_context that is gone: using
\* it is undefined.  The process ends there, or goes on without that timer.
PingStale(c) == /\ Take("received") /\ task.what = "ping"
                /\ c \in Known(task.from) /\ c \in stale
                /\ \/ Answer
                   \/ /\ rx' = "over" /\ stopped' = TRUE
                      /\ UNCHANGED <<ctxq, lost, restarts>>
                /\ UNCHANGED <<impl, event>>

\* message(): user data of a connected endpoint; anything else is ignored.
Data == /\ Take("received") /\ task.what # "ping"
        /\ event' \in IF task.what = "data" /\ Known(task.from) # {}
                      THEN {<<"message", c>> : c \in Known(task.from)}
                      ELSE {event}
        /\ rx' = "armed"
        /\ UNCHANGED <<impl, loop>>

\* receive(): with ec set there is no next receive.
ReceiveError == /\ Take("failed")
                /\ rx' = "over"
                /\ UNCHANGED <<impl, loop, event>>

\* Mutant: on_disconnect without the erase.
NotErased(c) == connections

\* Mutant: some connection is erased, not the one that expired.
FirstErased(c) == connections \ {CHOOSE d \in connections : TRUE}

Erased(c) == connections \ {c}

\* The wait's handler: on_disconnect with the ID it captured, of a Connection or of
\* what an earlier expiry has freed; then the Connection that has that address now,
\* if any, is freed with its timer, which cancels a wait that is pending.
Expired == /\ Take("expired")
           /\ event' = <<"disconnect", task.id>>
           /\ connections' = Erased(task.id)
           /\ wait' = wait \ {task.id}
           /\ overtaken' = {c \in overtaken : ExpiryQueued(c)'}
           /\ UNCHANGED <<endpointOf, stale, rx, loop>>

Targets(mode, ids) == CASE mode = "all"    -> connections
                        [] mode = "except" -> connections \ ids
                        [] mode = "only"   -> connections \cap ids

\* publish, publish_ex and send tasks: send_to may throw if there is a target.
Write == /\ Take("write")
         /\ \/ UNCHANGED lost
            \/ Targets(task.mode, task.ids) # {} /\ lost' = TRUE
         /\ UNCHANGED <<impl, rx, ctxq, stopped, restarts, event>>

\* on_ready, and what was dispatched, are not on the strand.
Other(t) == /\ ~stopped /\ t \in ctxq
            /\ ctxq' = ctxq \ {t}
            /\ event' = IF t = "ready" THEN <<"ready">> ELSE event
            /\ UNCHANGED <<impl, rx, strand, lost, stopped, restarts>>

Ping(c) == PingKnown(c) \/ PingNew(c) \/ PingStale(c)

Handler == (\E c \in Conns : Ping(c)) \/ Data \/ ReceiveError \/ Expired \/ Write

-----------------------------------------------------------------------------
(* The application.                                                        *)

Post(mode, ids) == /\ Len(strand) < MaxPosts
                   /\ strand' = Append(strand, [kind |-> "write", mode |-> mode, ids |-> ids])
                   /\ UNCHANGED <<impl, rx, loop, event>>

Seen == {c \in Conns : endpointOf[c] # None}

Publish   == Post("all", {})
PublishEx == \E c \in Seen : Post("except", {c})
Send      == \E c \in Seen : Post("only", {c})

Dispatch == /\ "dispatch" \notin ctxq
            /\ ctxq' = ctxq \cup {"dispatch"}
            /\ UNCHANGED <<impl, rx, strand, lost, stopped, restarts, event>>

Stop == /\ ~stopped
        /\ stopped' = TRUE
        /\ UNCHANGED <<impl, rx, strand, ctxq, lost, restarts, event>>

\* restart(): a new Context.  The old one takes its handlers, its receive and the
\* waits with it; connections is left as it was.  (If the bind fails, nothing is
\* assigned and the service stays stopped: no step.)
Restart == /\ stopped /\ Rebind /\ restarts < MaxRestarts
           /\ restarts' = restarts + 1
           /\ stopped' = FALSE
           /\ lost' = FALSE
           /\ strand' = <<>>
           /\ ctxq' = {"ready"}
           /\ rx' = "armed"
           /\ wait' = {}
           /\ stale' = connections
           /\ overtaken' = {}
           /\ UNCHANGED <<connections, endpointOf, event>>

Application == Publish \/ PublishEx \/ Send \/ Dispatch \/ Stop \/ Restart

-----------------------------------------------------------------------------
Next == Reactor \/ Handler \/ (\E t \in {"ready", "dispatch"} : Other(t)) \/ Application

Spec == Init /\ [][Next]_vars

\* run() takes the handlers in order and polls the kernel until it is stopped; a
\* timer that is set fires unless it is set again.  The network owes nothing.
Fairness == /\ WF_vars(Handler)
            /\ \A c \in Conns : WF_vars(TimerFires(c))

FairSpec == Spec /\ Fairness

-----------------------------------------------------------------------------
(* Properties.                                                             *)

\* Every variable stays in its type; the one type invariant of the module.
TypeOK == /\ connections \in SUBSET Conns
          /\ endpointOf \in [Conns -> Endpoints \cup {None}]
          /\ \A c \in connections : endpointOf[c] \in Endpoints
          /\ wait \in SUBSET Conns
          /\ stale \in SUBSET Conns
          /\ overtaken \in SUBSET Conns
          /\ rx \in {"armed", "queued", "over"}
          /\ strand \in Seq(Tasks)
          /\ ctxq \in SUBSET {"ready", "dispatch"}
          /\ lost \in BOOLEAN
          /\ stopped \in BOOLEAN
          /\ restarts \in Nat

\* The hazard of the raw Connection* in the wait's handler.  Pending waits are always
\* those of live connections.  A handler that is queued is that of a live connection,
\* and its only one, unless a probe came between two expiries that both wait: that is
\* the one way to on_disconnect with the ID of a Connection that is freed.
TimersOwn ==
    /\ TypeOK
    /\ wait \subseteq connections \ stale
    /\ \A i \in 1..Len(strand) : strand[i] \in ExpiryTasks =>
          \/ strand[i].id \in overtaken
          \/ /\ strand[i].id \in connections \ stale
             /\ \A j \in 1..Len(strand) : strand[j] = strand[i] => j = i

\* No connection of this io_context is without a timer that will report it, over
\* every race of a probe with its expiry: nobody stays connected for ever.  And a
\* probe that races the expiry finds the old Connection or none: an endpoint has one.
Watched == /\ \A c \in connections \ stale : c \in wait \/ ExpiryQueued(c)
           /\ \A c, d \in connections : endpointOf[c] = endpointOf[d] => c = d

\* An ID is reported disconnected once more, when its expiry was overtaken.
LateDisconnect == /\ \E c \in overtaken \ connections : event' = <<"disconnect", c>>
                  /\ UNCHANGED <<connections, restarts>>

\* connect, message and disconnect callbacks follow the contract of structs.hpp, over
\* lost, repeated and late probes, reused IDs and restarts, with one exception: the
\* second on_disconnect of an ID of which two expiries waited at once.
ContractHolds == Contract!Init /\ [][Contract!Next \/ LateDisconnect]_(Contract!vars)

\* An endpoint that falls silent is reported by on_disconnect, also after an
\* exception or a receive error has ended the receive loop (unless it was stopped).
GoneIsReported ==
    \A c \in Conns : \/ []<><<PingKnown(c) \/ PingNew(c)>>_vars
                     \/ c \in connections \ stale ~> c \notin connections \/ stopped
=============================================================================
