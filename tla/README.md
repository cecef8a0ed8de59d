# nil/service in TLA+

This directory is the verification project of `nil/service`, a C++ toolkit of
small networking services on Boost.Asio. It holds TLA+ modules translated from
the code, TLC configurations that model-check them on small instances, and
theorems checked by TLAPS for every value of the constants. `PROJECT.json` maps
every definition to the lines it stands for.

    tlc -workers 2 -config MCTcpServer.cfg MCTcpServer     # a run
    tlapm TcpProofs.tla                                    # the proofs of a module

Paths below are relative to the repository; `src/src/...` is written `src/...`
where the context makes it clear.

## 1. The system

### 1.1 Components

| component | source | state it keeps | operations |
| --- | --- | --- | --- |
| callback contract | `publish/nil/service/structs.hpp` | none | `on_ready/on_connect/on_message/on_disconnect`, `publish/publish_ex/send`, `run/poll/stop/restart/dispatch` |
| tcp server | `src/tcp/server/create.cpp`, `src/tcp/Connection.cpp`, `ConnectedImpl.hpp` | `Context` (io_context, strand, acceptor), vector of `Connection`s | accept loop, read loop per connection, posted disconnect, posted writes |
| tcp client | `src/tcp/client/create.cpp`, `src/tcp/Connection.cpp` | `Context` (io_context, strand, reconnect timer), one `Connection` | connect / read / disconnect / reconnect cycle, posted writes |
| tcp framing | `src/tcp/Connection.cpp`, `src/utils.hpp` | `r_buffer`, position and size of the running read | `readHeader`, `readBody`, `write` |
| udp server | `src/udp/server/create.cpp` | socket, vector of `Connection`s (endpoint, 50 ms timer) | receive loop, probe answers, expiry, posted writes |
| udp client | `src/udp/client/create.cpp` | socket, `pingtimer`, `timeout`, `connected` | probe loop, receive loop, timeout and socket recreation, posted writes |
| pipe | `src/pipe/create.cpp`, `mfkifo.cpp` | two descriptors, two timers, `connected`, `ready_notified`, `read_loop_active` | read loop, retry, probe, blocking writes |
| self | `src/self/create.cpp` | io_context | a loopback of `publish` and `send` |
| gateway | `src/gateway/create.cpp` | vector of services, its own io_context | forwards calls to every service, and their events to its own handlers |
| http server, web sockets | `src/http/server/*.cpp`, `src/ws/Connection.cpp` | `Context` (io_context, strand, acceptor), a map of routes to `WebSocket`s, the `Connection`s of each | accept loop, a `Transaction` per request with a deadline, upgrade, web socket read loops, posted disconnects and writes |
| ws server | `src/ws/server/create.cpp` | an http server with one route | hands every call and callback on |
| ws client | `src/ws/client/create.cpp`, `src/ws/Connection.cpp` | as the tcp client | connect / handshake / read / disconnect / reconnect cycle, posted writes |
| codec, concat, consume, map | `publish/nil/service/*.hpp`, `src/codec.cpp` | none | serialisation of values, dispatch on a tag |
| adapters, C API, Python, Lua | `publish/.../detail`, `src/c`, `src/ffi` | wrappers | conversions between calling conventions |

### 1.2 How the parts interact

* Every service owns a `Context` with an `io_context`. The application's threads
  enter it by `run()` or `poll()`, several at a time if they like. `restart()`
  replaces the whole `Context`.
* Asynchronous operations complete into *handlers*. An operation on an object
  that was built with the strand completes on the strand: one handler at a time,
  in order. The tcp server's accepted sockets are the exception: `accept()` gives
  them the `io_context` (`tcp/server/create.cpp:201`), so their read handlers run
  on any worker, next to the strand; and a new `Connection` starts its first read before
  `on_connect` is called and before `connections` owns it (`tcp/Connection.cpp:24-25`,
  `tcp/server/create.cpp:206-212`).
* `publish`, `publish_ex` and `send` post a task to the strand and return; the task
  writes to whoever is connected *when it runs*.
* A tcp write is one blocking `write_some`, whose count is dropped: it may take a part of
  the frame.
* A remote is named by an `ID`, which holds the address of its connection object.
  A freed address can be handed out again.
* A tcp `Connection` calls its `ConnectedImpl` (the server or the client) with
  `message` and `disconnect`; `disconnect` posts, so that the connection is not
  freed from within its own handler.
* The gateway and the ws server are services made of services. A gateway's events cross
  from one io_context to another; the ws server's callbacks are called in place.
* An http server's `WebSocket`s post to the `io_context` through a pointer that the ready
  task gives them, and their read handlers run on the strand: two queues.

### 1.3 What is hard

Handlers capture a bare `this` and race the task that frees it; timers whose
handler is queued are not cancelled by `expires_after`; the sockets' streams are
cut anywhere; datagrams are lost, repeated and late; exceptions leave a handler
before the call that continues its loop; `restart()` replaces the `Context` but
keeps connections and flags; addresses are reused. `PROJECT.json` lists these
hazards with their lines and the properties that would catch each, or the reason
why none does.

### 1.4 What makes each component correct

* all: the callbacks of a remote come as connect, messages, one disconnect;
  calls never reach a remote that is gone; the loop lives until `stop()`. Three services do
  not keep the first (section 5): the tcp server with several threads can report a message
  before the connect, the udp server can report a disconnect twice, and the udp client
  reports messages whether it is connected or not.
* tcp server: one driver per connection, freed once, nobody touches it after, also while
  the accept handler is the only owner; posted writes keep their order; a remote that leaves is reported; a waiting one
  is accepted.
* tcp client: exactly one retry chain; it always comes back; nothing is written
  through a connection of a dead context.
* tcp server with its clients: whoever stays is sent every message once as long as no
  write to it is cut, and writes that block on full buffers are over at last.
* framing: payloads arrive whole, in order and once, whatever the cuts; reads stay
  inside the buffer; what was written before a close is delivered.
* udp server: one connection per endpoint; each has a timer that will end it; no
  expiry for a connection that is gone, unless two expiries of it waited at once.
* udp client: its three loops (probe, receive, timeout) never die; it comes back.
* pipe: connect and disconnect alternate; the read loop exists once; the probe goes
  on as long as both directions are open.
* typed messages: a handler sees each message of its tag, whole, once and in order.
* http and ws server: a socket has one owner at a time, which ends its stay; a peer that
  never asks is not kept; a web socket that goes is reported; the accept loop goes on.
* ws client: as the tcp client, with a stage more that can fail.
* gateway: each event is forwarded once, in order, to whoever registered.

## 2. The modules

| module | models | extends |
| --- | --- | --- |
| `EventContract` | the abstract specification: what any service promises through its callbacks | Naturals |
| `TcpServer` | the server, its peers, the application and several worker threads | - |
| `TcpClient`, `TcpClientProofs` | the client and its cycle; three theorems | - |
| `TcpConnection` | framing of one direction of a stream, byte by byte | - |
| `TypedMessages` | `concat` at the writer, `map` and `consume` at the reader, composed with the framing | `TcpConnection` |
| `TcpProofs` | five theorems about the server, six about the framing and the typed messages | `TcpServer`, `TypedMessages`, TLAPS |
| `TcpDuplex` | a tcp server and its clients, composed over kernel buffers that fill up, writes that block and writes that are cut | - |
| `UdpServer`, `UdpServerProofs`, `UdpClient`, `UdpClientProofs` | the two ends of the probe protocol; three theorems and one | - |
| `Pipe`, `PipeProofs` | the pipe service: read loop, retry, probe, blocking writes; two theorems | - |
| `WsClient`, `WsClientProofs` | the web socket client and its cycle; three theorems | - |
| `HttpServer`, `HttpServerProofs` | the http server, its web sockets and the ws server; two theorems | - |
| `Self` | the loopback service | - |
| `Gateway` | the gateway, composed of a `Self` and of other services, given by their contract | `Self` |
| `CompositionProofs` | three theorems about the gateway, one about `TcpDuplex` | `Gateway`, `TcpDuplex`, TLAPS |
| `MC...` | the instances TLC checks | the module of that name |

The names that every module has (`Init`, `Next`, `Spec`, `TypeOK`, `vars`) have a prefix in
`TcpConnection`, `TypedMessages` and `TcpDuplex`, which are extended next to another module.

`EventContract` has the state a listener of a service can reconstruct: which IDs
are open, and the last event. It is instantiated as `Contract` in the tcp server and client,
the udp server, the pipe, the web socket client, the http server and the gateway
(`INSTANCE EventContract WITH Ids <- Conns, open <- connections, ...`), and
`ContractHolds == Contract!Spec` is the refinement: every step of the service is
a contract step or leaves the contract's variables alone. `restart()` is the one
step that may drop open IDs without an event (no service calls `on_disconnect`
from it).

Where the code does not keep the contract, `ContractHolds` names the steps it makes beside
those of the contract, and allows no others:

* `TcpServer`: `Contract!Next \/ EarlyMessage`, a message of a remote whose connect the
  accept handler is about to report, from another thread. With one thread there are none, and
  `OneWorkerKeepsContract` is the refinement without it;
* `UdpServer`: `Contract!Next \/ LateDisconnect`, a second disconnect of an ID of which two
  expiries waited at once;
* `Gateway`: up to the first `restart()`;
* `UdpClient`: not instantiated. Its `on_message` is called whatever `connected` is, and
  without its message clause the contract would only repeat the guards on `connected`.

### 2.1 State and actions of TcpServer

| TLA+ | code |
| --- | --- |
| `connections`, `peerOf` | `Impl::connections`; the socket inside each `Connection` |
| `Held(kind)`, `Alive`, `Reported` | the `Connection` that only the accept handler owns, inside `on_connect` or past it; all `Connection`s there are; those `on_connect` has been called for |
| `accept` | the pending `async_accept`, or its queued handler, or none after an exception |
| `rd[c]` | who drives the read loop of `c`: the kernel (`armed`), a queued handler with its outcome, a worker inside it (`running`), the posted disconnect (`closing`), nobody |
| `strand`, `ctxq`, `active[w]` | asio's strand and io_context queues; the handler worker `w` is in |
| `sess`, `line`, `inbox` | the kernel's side: the listen backlog, the state of the wire, complete messages not read |
| `thrown`, `stopped`, `restarts` | an exception left `run()`; `io_context::stop`; completed `restart()`s |
| `posts`, `written` | history: calls of publish/send, and what was handed to each socket: the call's number and which of its IDs it was for |

`BeginX`/`EndX` take a handler off its queue and complete it; between them the
worker is inside the handler and others go on, which is where a stale pointer or
an unserialised callback would show. The accept handler is three steps more: `Constructed` makes
the Connection and starts its read, `CallConnect` is `on_connect`, `EndAccept` the
`push_back` and the next accept. Between them the read can complete, and another worker can
call `on_message` or post a disconnect (which waits behind the accept handler on the
strand). A `send()` is one step per entry of the IDs it was given, `SendNext`, which may
name one ID several times. `AcceptDone`, `AcceptFailed`, `ReadDone` are the
kernel; `PeerConnect/Send/Close/Reset` the remotes; `Publish`, `PublishEx`, `Send`,
`Dispatch`, `Stop`, `Rerun`, `Restart`, `RestartThrow` the application. The chain
header/body of a read is one step here (`res = "message"`, `"oversize"`, `"error"`):
`TcpConnection` models what is inside it.

### 2.2 State and actions of TcpClient

`ops` is the set of kernel operations pending (`Dial`, `Timer`, the read of a
connection) and `strand` the FIFO of handlers. `Dialed`, `DialedThrow`,
`DialedError` are the three ways of the connect handler; `Expired` the timer's;
`ReadMessage`, `ReadFailed` the read loop's; `Disconnect` the posted task, which
reports and frees the connection only if it is still the current one and calls
`reconnect()` in any case; `Write` the posted writes. All handlers are on the
strand, so a handler is one step.

### 2.3 TcpConnection

A byte is `<<frame, index>>`, so that a misread is visible. `Write(s)` is one
`write_some`: it waits for room, takes what fits and ignores the count. The reader
keeps `pos`, `size` and the bytes read so far; `ReadPart`, `ReadHeader`, `ReadBody`
take any piece the stream can give. Bytes that are not a header's, read where one
is expected, announce any size of `Sizes`.

`TypedMessages` is the layer above, composed with it: `ReadMessage` is `ReadBody` and the
`on_message` callback that `map()` made, in one step, as in the code. `Deserialized`
finds out whose tag the first bytes are; of bytes that are nobody's (garbled, or left in
`r_buffer` behind a payload that is shorter than a tag) it takes any value. `Reduced` is
the subtraction of `consume`, which wraps. `handled` is history: what the mappings'
handlers were called with, one entry for each payload.

### 2.4 UdpServer and UdpClient

Datagrams are not stored: any endpoint's probe or message may arrive at any step,
any number of times, which includes every loss, repetition, delay and reordering.
Timers carry no time: one that is set may fire at any step, so every race of an
expiry with a probe is explored. `expires_after` cancels a pending wait but not one
whose handler waits in the strand; that handler then runs in addition to the next. In the udp
server a second expiry can be queued behind the first in this way (`TimerFires`), with a raw
`Connection*` that the first one frees; `overtaken` is history and holds the IDs of which two
have waited at once. The second one calls `on_disconnect` again, and if the address belongs
to another Connection by then, frees that (`Expired`). The udp client's `Data` calls
`on_message`, whatever `connected` is; none of its state depends on it.
`send_to` may throw (its overload has no error code), which leaves the handler
before the next `receive()` or `pingtimer`; `lost`, `silent` and `deaf` record it.

### 2.5 Pipe

| TLA+ | code |
| --- | --- |
| `answer`, `writer` | `make_read`'s last answer (a descriptor, "later", "no"), and whether `context->writer` has one |
| `pending`, `retry`, `probe` | the pending `async_read_some` and what it reads; the wait of `retry_read` and what it is for; the wait of the probe's timer |
| `strand` | handlers that are queued: results of reads, expired timers, posted writes |
| `connected`, `told` | `connected`; whether `on_ready` has ever reached a handler |
| `line`, `full` | the read end: up or end of file; the write end: no room |

`Header` and `Announced` are the two halves of the handler of a header: the first
reports `on_connect`, the second starts the next read or, when the payload does not
fit, goes the way of a disconnect; they stay at the head of the strand, so nothing runs
between them but the world outside. `Later` is "would block": asio's reactor retries
such reads itself, and the branch is modelled because the code has it. `Resume` and
`Reopen` are the two uses of one timer. Writes (`SendProbe`, `Write`) are enabled only
while the pipe has room and may fill it: while they are not, the strand waits, as the
thread in `::write` does. `GoneIsReported` and `ComesBack` exempt that wait.

### 2.6 WsClient

The variables and names are those of `TcpClient`, with a third stage: `Dial` (the TCP
connect), `Shake` (the handshake) and `Timer`. `Dialed` hands the socket to the stream and
starts the handshake; `DialError` and `ShakeError` are the two error branches, `Shaken` and
`ShakenThrow` the two ways of a handshake that succeeded, and `on_connect` comes before the
first read here (`ws/Connection.cpp:24`), where a tcp connection starts its read first.
`ShakeFailed` is always possible, since Beast gives a handshake 30 seconds.

### 2.7 HttpServer, with the ws server

| TLA+ | code |
| --- | --- |
| `at[p]` | who has the socket of peer `p`: the backlog, the accept handler, a `Transaction`, the stream of an upgrade, a `Connection`, nobody |
| `ops`, `strand`, `ctxq` | operations of the kernel; handlers on the strand; tasks posted to the io_context |
| `routes`, `context`, `connections` | the keys of `wss`; `WebSocket::context` (`"null"`, `"live"` or `"dead"`, its io_context being destroyed); `WebSocket::connections` |
| `stale` | `Connection`s whose socket belongs to an io_context that is destroyed |
| `asked`, `inbox`, `line` | what a peer has sent, and the state of the wire |
| `thrown`, `crashed` | an exception left `run()`; a null or destroyed io_context was used |

`Run` starts a Transaction's read and its deadline. `Answered`, `UpgradeStarts` and `Failed`
are the ways of a request, `Responded` cancels the deadline, `Expired` closes whatever socket
the Transaction still has. `Upgraded` calls `on_connect`, starts the read and pushes the
Connection; `FrameFailed` posts `Disconnect`, which reports and erases it. `PostTo` is the
use of the context pointer; where that is undefined, the model goes on either way.
A ws server is an http server whose one route is there from the constructor, before any
handler runs: `Init` starts with or without the routes. What it hands on it does not change
(`Heard`).

One thread is in `run()`. With two, the upgrade handler pushes into the vector that the
posted tasks walk over and erase from (`http/server/create.cpp:186` on the strand,
`WebSocket.cpp:66` on the io_context): a data race, after which nothing can be said.

### 2.8 TcpDuplex

What `TcpServer`, `TcpClient` and `TcpConnection` leave out is how long a write takes:
`write_some` waits for room in the socket buffer, and so does the strand it runs on. Here
the server and its clients are composed over buffers of `Capacity` bytes, in frames of
`FrameSize` bytes.

| TLA+ | code |
| --- | --- |
| `up[c]`, `down[c]` | the two directions: whole frames, then the bytes that follow the first frame that was cut |
| `Written` | `write_some` on a buffer with some room: it takes the frame, or what there is room for, and the count is dropped |
| `Reads` | the next read: a whole frame, or, behind a cut, some bytes that pass for a part of a message, a message, or a size that is refused |
| `writing`, `busy` | the connections a publish has still to write to; a client inside `write_some` |
| `reading`, `deaf` | the server, the client, goes on reading; after a refused size neither does, and a disconnect is posted |
| `line` | who has closed the socket, the client or the server |

`ServerWrite` and `ClientWrite` are enabled when there is any room, and until then the strand
is busy. The server's reads do not need its strand, only a worker that is not inside a
write (`WorkerFree`); a client's need its strand. The application publishes to everybody what
the server hears. Clients end at any time (`ClientClose`), or because they are dropped or
refuse to read on (`ClientDisconnect`). Accepts and restarts are left to the other modules,
and what is in a frame to `TcpConnection`.

### 2.9 Gateway and Self

`Gateway` EXTENDS `Self` and joins its handlers with the forwarding of what they call
back (`SelfRuns`). Any other service is what its contract allows (`Connects`,
`Messages`, `Disconnects`); that the transports keep it, and where they do not, is what their
own modules show. `queue` is the gateway's io_context, `active` the callbacks its threads are in:
`Take` dequeues, `Done` is the return of the handlers. `fan` is the position of a
publish in its loop over the services, which runs on the caller's thread while all
else goes on. `owed` is history: the numbers of the posts that concern the loopback and have not come
back. The loopback's ID is no other service's (`SelfApart`): an ID holds its service.

## 3. The runs

| run | instance | checks |
| --- | --- | --- |
| `tcp_server` | 2 peers, 2 addresses, 2 workers, 1 message, 1 restart, symmetric | `OneDriver`, `ContractHolds` |
| `tcp_server_live` | 1 peer, 1 address, 2 workers, 1 message, 2 posts of up to 2 IDs | `WritesInOrder`, `GoneIsReported`, `WaitingIsAccepted` under fairness |
| `tcp_client` | 2 addresses, 1 post, 1 message, 1 restart | `OneDriver`, `ContractHolds`, `ComesBack`, `GoneIsReported` |
| `typed_messages` | header 2, tag 2, buffer 4, sizes 0 1 2 4 5, capacity 9, 4 messages, 3 mappings | `ReadsInBounds`, `FramesIntact`, `CloseDrains`, `HandledInOrder` |
| `duplex` | 2 workers, a client with buffers of a frame and a half and 2 messages, a client with buffers of half a frame and 3 | `NothingLost`, `EverythingArrives`, `GoneIsErased` |
| `udp_server` | 2 endpoints, 2 addresses, 1 restart | `TimersOwn`, `Watched`, `ContractHolds`, `GoneIsReported` |
| `udp_client` | 3 receive loops, 1 restart | `LoopsGoOn`, `ComesBack`, `GoneIsReported` |
| `pipe` | 2 probes and 2 posts waiting, 1 restart | `LoopsGoOn`, `ContractHolds`, `GoneIsReported`, `ComesBack` |
| `ws_client` | 2 addresses, 1 post, 1 message, 1 restart | `OneDriver`, `ContractHolds`, `ComesBack`, `GoneIsReported` |
| `http_server` | 1 peer, 1 route, 2 addresses, 1 post, 1 frame, 1 restart | `OneDriver`, `ContractHolds`, `GoneIsReported`, `PeersAreServed` |
| `gateway` | loopback and 1 other service of 1 connection, 1 thread, 2 posts, 1 restart | `CatchesUp`, `EchoesInOrder`, `ContractHolds`, `EventsArrive` |

Each module has one type invariant, `TypeOK`. Where no theorem of its own states it (section 4)
it is a conjunct of an invariant that a run checks and a theorem proves, or of the inductive
invariant.

One run TLC finds violated, a disagreement of the code with a sentence of the repository:

| run | property | what the code does |
| --- | --- | --- |
| `gateway_ids` | `IdsAreValid` | the gateway calls back with an ID whose connection the service has freed. README: `to_string(ID)` "is valid only while handling the callback that supplied that id" |

### 3.1 The properties

* `OneDriver` (tcp server) is about the raw `this` of the read handlers: no handler
  queued, running or pending belongs to a connection that neither `connections` nor the
  accept handler owns, no two workers are in handlers of one connection, and a connection
  is freed by one task, which cannot run before the `push_back`.
* `OneDriver` (tcp and ws client) says the reconnect cycle neither forks nor dies.
* `OneDriver` (http server) follows a socket from the Transaction to the stream, to the
  Connection and to its disconnect task: nothing that waits can reach a Connection that is
  freed (`ConnectionsDriven`), a socket that is no web socket has a deadline or a handshake
  that ends its stay (`SocketsBounded`), and there is one accept (`OneAccept`).
* `ContractHolds` is the refinement of `EventContract`, with the exceptions of section 2.
* `WritesInOrder` (tcp server): what a socket is handed is in the order of the calls and, within
  a `send()`, of its IDs; no entry of a list is written twice. An ID that is twice in
  the list is written to twice, as the code does it.
* `GoneIsReported`: a remote that closed, reset or fell silent is reported.
  `ComesBack`: a client is connected again and again while its server is there.
  `WaitingIsAccepted`: the backlog is served over failing accepts.
  `PeersAreServed` (http server): the same, and whoever is accepted becomes a web socket or
  is done with, also if it never asks.
* `FramesIntact`, `CloseDrains`, `ReadsInBounds`: see 1.4. `HandledInOrder`: what handlers
  are called with is what `concat` was given, for each message whose tag has a mapping.
* `NothingLost` (duplex): for a client that stays, and to which no write was cut, what it has,
  what is on its way and what is still to be written is what the server has heard.
  `EverythingArrives`: all of it gets there, although everybody writes and blocks;
  `GoneIsErased`: a disconnect that waits behind blocked writes runs at last. Both but for
  one state that nothing leaves (`Deadlocked`): after a cut the server has refused to read on
  from a client that waits to write to it, while it waits to write to that client.
* `TimersOwn`, `Watched` (udp server): the pending waits, whose handlers capture a raw
  `Connection*`, are of live connections; a handler that is queued too, and is its only
  one, unless a probe came between two expiries that both wait (`overtaken`);
  without that exception it is false (section 5). Each connection is watched, and an endpoint
  has one.
* `LoopsGoOn` (udp client): exactly one probe chain, at least one receive loop, and
  a timeout for each connection, unless an exception ended the loop.
* `LoopsGoOn` (pipe): one thing drives the reading (a pending read, the timer or a queued
  handler of them), and none is left over from a descriptor that was replaced
  (`OneReader`); as long as both ends are open, the probe's timer runs or its handler waits
  (`ProbesGoOn`).
* `CatchesUp` (gateway): what a listener has been told, with the events on their way (`Line`,
  `Knows`), is what the services have open. `EchoesInOrder`: the numbers of the posts that
  return rise along the gateway's queue and the loopback's, the last one reported is below
  them, and until a restart they are just those that are owed; `EventsArrive`: all of it
  arrives in the end.

### 3.2 Bounds, and why they are enough

* `Peers`, `Conns`, `Endpoints` of size 2: one address more than is needed for a
  stale ID to meet its successor, and as many peers as addresses so that an address
  is reused while the other peer is served. Two `Workers` are needed for a handler
  to race another and are enough for every pair of handlers.
* `MaxInbox = 1`: a message that waits when the close comes. `MaxRestarts = 1`: each
  flag and connection can be carried over once. In the proofs none of them is bounded.
* `MaxPosts` of the tcp server counts calls (they are numbered, for
  `WritesInOrder`); in the client and the udp modules it bounds the writes waiting, so
  any number is made over a run. It is 0 in `tcp_server`, where writes touch nothing
  the properties read, and 2 in `tcp_server_live`: one that runs and one that waits.
  `MaxIds = 2` there: an ID can be in one list twice. `Dispatches` is FALSE there, since what
  is dispatched touches no variable that the run's properties read.
* `MaxLoops = 3` bounds the udp client's receive loops, which the code does not: each
  timeout that meets a queued receive adds one for good. Three lets a second and a
  third come and go; in the proofs it is any number.
* `Rebind` says whether a second socket can bind while the first is open. TRUE is a
  service on port 0; FALSE is a fixed port, where the kernel refuses (asio sets
  `SO_REUSEADDR`, which does not allow two listeners). `tcp_server_live` is on a
  fixed port, the others are not.
* `MaxProbes`, `MaxPosts` (pipe): handlers of the probe and writes that wait. A second
  probe's handler can wait behind the first only if the end was reopened meanwhile.
* `MaxQueue = 2` (gateway): a service calls back only while fewer events are not handled; the
  loopback's greeting makes it three. `Threads = 1` is how the sandbox runs a gateway; with
  two, `CatchesUp` and `ContractHolds` fail, since the io_context is no strand.
* `HeaderSize = 2` stands for the 8 bytes: it can be cut, which is what matters. `Sizes`
  has the empty payload, one shorter than a tag, a tag alone, one that fits exactly and one
  that does not. Three mappings of two tags, and a third tag without one, tell the first
  mapping from the last and from none. `Word` stands for 2^64.
* `Capacity` is per client, `FrameSize = 2` (duplex). With 3, the second write is cut and the
  third one blocks. With 1, every write is cut (a frame that is larger than the buffer) and
  the next one blocks: three messages are then enough for the client and the server
  to block on each other, and for the deadlock of section 5. `Workers = 2` is what
  `EverythingArrives` needs; see section 5 for one.
* `http_server` has one peer and one route: peers meet only in the accept loop, and routes
  not at all. Two addresses let a web socket that a restart left behind stand next to its
  successor. `OneDriver` and `ContractHolds` are proved for any number of all of them, and also
  hold of the instances with two routes (548 277 states) and with two peers and no restart
  (1 399 215 states), which take longer and are not listed.
* Symmetry is used in `tcp_server`, a run without liveness properties.

### 3.3 Fairness, and why the code justifies it

All fairness is conditional on the loop running: actions of workers and of the
reactor are disabled by `stopped`. Handlers return (the callbacks of the
application do). asio takes handlers in order of posting, so a handler that is
ready again and again is taken (`SF` on `BeginStrand`, `BeginRead`: "again and again"
because another worker can be inside the strand, or the worker leaves `run()` by an
exception and is called again). The kernel completes operations on sockets that
have something to say (`WF` on `ReadDone`, `Dial...`, timers). Accepting succeeds at
last if it is tried again and again (`SF` on `AcceptDone`), as does dialling a server
that keeps listening, or probing one that keeps answering (`SF` on `DialOk`,
`Answered`), or opening a pipe (`SF` on `Reopen /\ Opened`) whose other end probes while
it is up. A pipe holds finitely many bytes, so that its end of file is read at last
(`SF` on `ReadDone("gone")`). The loopback behind a gateway takes
its handlers (`SF` on `SelfRuns`, only because the bound on the gateway's queue holds
it up). A Transaction's deadline and Beast's timeouts of a handshake and of an idle stream
expire (`WF` on `DeadlineDone`, `UpgradeDone`, `ShakeOk \/ ShakeFailed`, `FrameDone`); the
ready task and disconnect tasks of the io_context are taken, since its queue is FIFO. A
server that is dialled again and again shakes hands at last (`SF` on `ShakeOk`). In the
duplex a blocked write goes on when there is some room (`WF` on `ServerWrite`, `ClientWrite`),
and clients that have not ended read. Other remotes, network and application are never obliged
to anything.

Three of these assumptions are about the application and the peers rather than the loop.
`WF` on `End` (tcp server) takes for granted that a blocking write returns; what
happens when it does not is the question of `TcpDuplex`, and only asked there. `WF` on
`Handler` (udp server and client) goes on after an exception has left `run()`, that is, the
application calls `run()` again, which nothing obliges it to. The http server and the gateway are
served by one thread (sections 2.7, 3.2).

## 4. What is proved

All theorems hold for every value of the constants that satisfies the modules' named
assumptions; the bounds `Max...` are arbitrary natural numbers there.

| module | theorem | statement |
| --- | --- | --- |
| `TcpProofs` | `TypeCorrect` | `Spec => []TypeOK` |
| | `DriversUnique` | `Spec => []OneDriver` |
| | `ServerImplementsContract` | `Spec => ContractHolds` |
| | `OneWorkerKeepsContract` | `OneWorker => (Spec => Contract!Spec)` |
| | `WritesKeepOrder` | `Spec => []WritesInOrder` |
| | `StreamTypeCorrect` | `StreamSpec => []StreamTypeOK` |
| | `ReadsStayInBounds` | `StreamSpec => []ReadsInBounds` |
| | `FramesStayIntact` | `StreamSpec => []FramesIntact` |
| | `TypedImplementsConnection` | `TypedSpec => StreamSpec` |
| | `TypedReadsStayInBounds` | `TypedSpec => []ReadsInBounds` |
| | `MessagesHandledInOrder` | `TypedSpec => []HandledInOrder` |
| `TcpClientProofs` | `TypeCorrect` | `Spec => []TypeOK` |
| | `OneDriverAlways` | `Spec => []OneDriver` |
| | `ClientImplementsContract` | `Spec => ContractHolds` |
| `UdpServerProofs` | `TimersAlwaysOwn` | `Spec => []TimersOwn` |
| | `AlwaysWatched` | `Spec => []Watched` |
| | `ServerImplementsContract` | `Spec => ContractHolds` |
| `UdpClientProofs` | `LoopsAlwaysGoOn` | `Spec => []LoopsGoOn` |
| `PipeProofs` | `LoopsAlwaysGoOn` | `Spec => []LoopsGoOn` |
| | `PipeImplementsContract` | `Spec => ContractHolds` |
| `WsClientProofs` | `TypeCorrect` | `Spec => []TypeOK` |
| | `OneDriverAlways` | `Spec => []OneDriver` |
| | `ClientImplementsContract` | `Spec => ContractHolds` |
| `HttpServerProofs` | `OneDriverAlways` | `Spec => []OneDriver` |
| | `ServerImplementsContract` | `Spec => ContractHolds` |
| `CompositionProofs` | `AlwaysCatchesUp` | `Threads = 1 /\ Spec => []CatchesUp` |
| | `GatewayImplementsContract` | `Threads = 1 /\ Spec => ContractHolds` |
| | `EchoesAlwaysInOrder` | `Spec => []EchoesInOrder` |
| | `DuplexLosesNothing` | `DuplexSpec => []NothingLost` |

* Server: `TypeOK /\ OneDriver` and one fact more, `HeldApart`: the Connection that the accept
  handler is making is not in `connections` yet. The conjuncts of `OneDriver` need one another: that whatever is driven is alive
  (`DrivenAreLive`) is kept by the disconnect task only because the connection it frees is
  `closing` (`ClosersOwn`), so no worker is in its read handler (`ReadersOwn`); that there is
  one disconnect task, and that it cannot run while the accept handler still holds the
  Connection, needs `StrandExclusive`. The proof has a lemma per action; lemmas say what
  leaves the accept handler's Connection alone (`HoldsStay...`). The refinement follows step
  by step from the invariant: `on_message` comes from a driver, whose connection is alive, so
  it is reported or about to be (`EarlyMessage`); the accept handler takes an address
  that is not in use. With one worker nobody is in a read handler while the accept handler
  runs, so there is no `EarlyMessage`.
* Client: `TypeOK /\ OneDriver` again; the core is that the set of drivers is a
  singleton, and each handler replaces its driver by exactly one other. That the
  disconnect task finds its own connection, that no wait is ever cancelled and that
  a successful dial finds no connection are consequences that the step needs.
* Web socket client: the same argument over one stage more.
* Http server: `OneDriver` is not inductive. That the upgrade handler may push its Connection
  needs that its peer has no other step waiting and is on a registered route (`PeerOK`, an
  invariant per peer that ties what waits for it to the place its socket is at); that a
  disconnect task erases the right Connection, that each Connection has its peer's socket
  (`ConnPeers`); that the ready task starts the only accept and that a destroyed context is
  not posted to, that the ready task runs before any other handler (`ContextInv`). `IInv` is
  `TypeOK` and, unless the process has ended, the conjunction of these with the three parts
  of `OneDriver`. Lemmas say once what a step for one peer leaves of the others
  (`OnePeer`, `PeerKept`, `ConnKept`, `AcceptKept`), and each handler is then about its own
  peer.
* Writes of the server: `WritesInOrder` holds because what is ahead on the way from the call to
  the socket always has the smaller pair of call and position. `WritesOrdered` says so of the
  three places a write can be in: the strand's queue, the one worker inside it with what it
  has still to write (`ToWrite`), `written`. That there is one such worker
  (`StrandExclusive`) is what the steps `EndPublish` and `SendNext` need.
* Framing: `StreamTypeOK` alone is not inductive, since `Len(rbuf) = pos` after a piece needs
  the piece to be inside the stream; `ReadsInBounds` needs `pos < size` before.
* `FramesIntact`: the invariant (`OrderInv`) speaks of the bytes in `r_buffer` and in flight
  together (`Rest`). As long as no write was cut short, each byte of them is followed by the next
  byte of its frame, and the last byte of a frame by the first of the next (`Follows`), and
  the read loop waits for the first of them: the first byte of a header while it reads a header,
  the first byte of a payload of just `size` bytes while it reads a body, all non-empty
  payloads before being delivered (`Aligned`). Lemmas say that dropping bytes at the front and
  appending a frame keep `Follows`, and that a front of a frame's length is that frame.
* Typed messages: each step is one of the framing or leaves its variables alone, so what is
  proved of `StreamSpec` holds of `TypedSpec`. That the right handler is called needs only that
  whole payloads arrive: the tag that is read is then that of its frame (`TagIsRead`).
* Udp server: `TimersOwn /\ Watched` is inductive with two facts more: the Connections
  of an old io_context are still in the vector (`stale \subseteq connections`), so that
  their addresses are not given away, and none of them is one that a second expiry waits for
  (`overtaken \cap stale = {}`). The contract follows from `TimersOwn`: an expiry is of a live
  Connection, or of one that was overtaken, which is the exception `LateDisconnect`.
* Udp client: `LoopsGoOn` is inductive as it stands; the proofs count the handlers of each
  kind that wait.
* Pipe: `LoopsGoOn` needs that a read which the timer resumes still has its descriptor
  (`ReaderOwn`); the contract that what follows a header comes only while `connected` is
  set (`BodyConnected`).
* Duplex: `NothingLost` is an equation between numbers, one of them the number of publishes
  that wait on the strand, so lemmas say what appending a task and taking one do to that number.
  It holds of a client as long as no write to it was cut, which `Written` records in the channel.
  The invariant (`DuplexInv`) adds what keeps the equation true over a publish and an erasure:
  the vector and the rest of the loop hold a connection once, so that a publish sends one
  frame to each, and the only disconnects that wait are of clients that have ended, so that
  a client that stays is not erased. The number of workers does not matter for it.
* Gateway, `CatchesUp`: inductive as it stands. What a listener knows after the first `n`
  callbacks that wait (`Knows`) is stated with quantifiers over their positions; lemmas say what
  one callback more at the end and one less at the front do to it, and each action is
  one of these or moves a callback from `queue` to `active`. `Threads = 1` is a hypothesis of
  the theorem, not an assumption on the code: with two, the callbacks of one connection can
  return in either order and the statement is false.
* Gateway, the contract: every callback that waits is legal after those before it (`Legal`),
  since a service calls back as its contract allows for what it has open, and that is, by
  `CatchesUp`, what the listener will know by then. For the loopback this needs that it greets
  before anything else, and once (`Started`).
* Gateway, `EchoesInOrder`: order is stated of numbers (`Numbered`). Those carried by the
  gateway's queue rise and are below those in the loopback's, which rise too; all are below
  that of a call that has yet to reach the loopback (`ToSelf`), and there is one such call
  because a service is added once. With one thread, what was reported last is below
  them all (`Behind`). With several the rest of it holds just as well, and is proved.

TLC finds the inductive invariants to hold on the runs' instances too,
`Numbered` and `Behind` also with two threads.

What stays with TLC: liveness under fairness (`EverythingArrives`, `EventsArrive`,
`GoneIsReported`, `ComesBack`, ...) and `ENABLED`, which the prover cannot do. Every invariant
that a run checks, and every refinement, is stated by a theorem.

## 5. What the checks show beside the properties

Things the code does that no run shows by itself, most of which no sentence of the repository
excludes, and that the models contain:

* A `Connection`'s constructor asks its socket for the remote endpoint, and throws when the
  peer has reset it meanwhile (`tcp/Connection.cpp:14`, `ws/Connection.cpp:13`). From the accept
  handler of the tcp server (`EndAcceptThrow`) and from the connect and handshake handlers of
  the clients (`DialedThrow`, `ShakenThrow`) the exception leaves `run()` before the next accept or
  reconnect is started, so nothing goes on when `run()` is called again; the http server's
  accept loop does not depend on its upgrade handler (`UpgradedThrow`). The liveness properties
  exempt it by `thrown` and `lost`.
* A `write_some` that takes a part of a frame loses the rest, and the reader takes the next
  header for payload (`truncated`, `cut`). What follows can be refused for its size, and the
  connection is then given up.
* With one worker in the server's `run()`, `EverythingArrives` fails: the worker waits in a
  write to a client that waits in a write to the server. With two it holds, because reads
  are not on the strand, but for one state: after a cut, the server has refused a size and reads
  no more from a client, whose write waits for it, while a publish of the server waits for
  that client (`Deadlocked`). The disconnect that would end it is behind that publish. A
  client that stays and does not read stops all writes of the
  server, and the erasing of others, whatever the number of workers.
* `restart()` of the clients keeps `connection`, and of the servers `connections`: until the
  next connect, or for ever, `publish` and `send` write to sockets of the destroyed
  io_context. No disconnect is reported for them.
* A route that `use_ws` adds after the ready task has no context: its web sockets connect and
  send messages, its publishes are dropped without a word, and when one of its sockets goes,
  `WebSocket::disconnect` uses the null pointer (`PostTo`). Between `restart()` and the ready
  task a publish uses the destroyed io_context.
* With two threads in `run()`, the http server pushes into a route's `connections` on the strand
  while tasks of the io_context use it (section 2.7).
* A payload that is shorter than the tag a `map()` consumes is read past its end, and `size`
  wraps: the handler is told of nearly 2^64 bytes (`Reduced`).
* The udp client can have several receive loops after a timeout met a queued
  receive; they share one `buffer`.
* A udp probe that is handled while the expiry of its endpoint is queued is answered,
  then the endpoint is reported disconnected and its next probe connects it again
  (the README says a probe "resets a 50ms disconnect timer").
* `send_to` errors end the udp server's receive loop, or the client's probe loop.
* A udp client that is connected when it is stopped keeps `connected` over
  `restart()`: neither `on_ready` nor `on_connect` comes again, and without an answer it
  is never reported gone.
* A udp server's `Connection` that outlives a `restart()` keeps a timer of the
  destroyed io_context; a probe of its endpoint uses it (`PingStale`).
* The tcp server's message callbacks do not run on the strand (`tcp/server/create.cpp:201`
  gives the accepted socket the io_context), so with several threads in `run()` two of them
  run at once, although the README makes safety from several threads depend on callbacks being serialised
  through it. Since the first read starts before `on_connect` is called
  (`tcp/Connection.cpp:24-25`), a message can also be reported before, or during, the connect
  of its remote (`EarlyMessage`).
* `send()` with an ID that is in the list twice writes the message twice
  (`tcp/server/create.cpp:127-134`).
* A udp server's probe that comes between two expiries of one endpoint leaves both waiting
  (`udp/server/create.cpp:207-226`). The second uses the raw pointer of what the first has freed:
  it reports the ID once more, or, when the address belongs to a new Connection, reports and
  frees that one while its remote is there (`Expired`, `LateDisconnect`). With the
  first, the ID it supplies is not valid while its callback is handled, which the README says
  of every ID.
* The udp client's `on_message` is called for what arrives before `on_connect` and after
  `on_disconnect` (`udp/client/create.cpp:188-191`), so this service does not keep
  `EventContract`.
* On a fixed port, `restart()` of a tcp server binds the new acceptor while the old one
  listens, and throws; the service stays stopped (`RestartThrow`).
* A gateway's `restart()` drops the events that wait; the services go on, so messages
  come from remotes whose connect was dropped. The loopback's `restart()` greets again,
  without a disconnect. `ContractHolds` of the gateway therefore ends with the first restart.
* A service added to a gateway twice is published to twice and heard twice.
* A pipe never calls an `on_ready` handler: the constructor does, when none can be registered,
  and neither a retry, a reopened end nor `restart()` does it again (`told` stays FALSE).
* A pipe that reopens the same descriptor's file after a payload that did not fit reads
  that payload's bytes as headers.
* `restart()` of a pipe forgets that it is connected and does not call `on_disconnect`.
* A pipe's read end that is opened read-only and has no writer reads end of file at once,
  is reopened at once, and so on: the loop is busy, though each property holds.
* `send(id)` posted for a connection that has gone reaches whoever has its address.

## 6. Not modelled, and the plan

Next:

1. The pipe's two ends composed, as `TcpDuplex` does for tcp: a publish or a probe that blocks
   while the other side blocks too.
2. What the gateway still promises with several threads in `run()`: that no event is lost or
   repeated, though their order is not kept.

Left out: the C API and the Python and Lua bindings (wrappers around one call each, whose
state is the ownership of handles and callbacks), handler adapters (overload selection at
compile time), the content of HTTP requests and responses, the sandbox programs and tests,
the text form of an `ID`. Handlers that are registered, or routes that are added, from another
thread while a service runs are data races of the application and are not modelled.
