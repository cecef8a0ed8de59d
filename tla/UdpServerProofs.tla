--------------------------- MODULE UdpServerProofs ---------------------------
(***************************************************************************)
(* Theorems about UdpServer, for any number of endpoints and addresses and *)
(* every loss, repetition, delay and order of datagrams.                   *)
(*                                                                         *)
(* TimersOwn /\ Watched is almost inductive.  What is missing is that a    *)
(* Connection left over from an old io_context is still in the vector: its *)
(* address is not one that a new Connection can get, nor one that an       *)
(* expiry waits for, not even an overtaken one.                            *)
(***************************************************************************)
EXTENDS UdpServer, TLAPS

IInv == /\ TimersOwn /\ Watched
        /\ stale \subseteq connections /\ overtaken \cap stale = {}

Expiry(c) == [kind |-> "expired", id |-> c]

-----------------------------------------------------------------------------
(* The queue of handlers.                                                  *)

\* The handlers of the timers are told from the others by their kind.
LEMMA ExpiryKind ==
    ASSUME NEW t \in Tasks
    PROVE  t \in ExpiryTasks <=> t.kind = "expired"
BY DEF Tasks, ReceiveTasks, ErrorTasks, ExpiryTasks, WriteTasks

LEMMA ExpiryRecord ==
    ASSUME NEW t \in ExpiryTasks
    PROVE  t.id \in Conns /\ t = Expiry(t.id)
BY DEF ExpiryTasks, Expiry

\* Queueing a handler that is not a timer's changes nothing for the timers.
LEMMA OtherQueued ==
    ASSUME TypeOK, NEW t \in Tasks, t.kind # "expired", strand' = Append(strand, t)
    PROVE  /\ strand' \in Seq(Tasks)
           /\ \A c \in Conns : ExpiryQueued(c)' <=> ExpiryQueued(c)
           /\ \A i \in 1..Len(strand') : strand'[i] \in ExpiryTasks =>
                  i \in 1..Len(strand) /\ strand'[i] = strand[i]
<1>1. strand \in Seq(Tasks) /\ t \notin ExpiryTasks
    BY ExpiryKind DEF TypeOK
<1>2. /\ strand' \in Seq(Tasks) /\ Len(strand') = Len(strand) + 1
      /\ strand'[Len(strand) + 1] = t
      /\ \A i \in 1..Len(strand) : strand'[i] = strand[i]
    BY <1>1
<1>3. \A i \in 1..Len(strand') : strand'[i] \in ExpiryTasks =>
          i \in 1..Len(strand) /\ strand'[i] = strand[i]
    BY <1>1, <1>2
<1>4. ASSUME NEW c \in Conns PROVE ExpiryQueued(c)' <=> ExpiryQueued(c)
    BY <1>1, <1>2, <1>3 DEF ExpiryQueued
<1> QED BY <1>2, <1>3, <1>4

\* A handler leaves the queue: the others move up.
LEMMA HeadTaken ==
    ASSUME TypeOK, strand # <<>>, strand' = Tail(strand)
    PROVE  /\ strand' \in Seq(Tasks) /\ task \in Tasks
           /\ \A i \in 1..Len(strand') : i + 1 \in 1..Len(strand) /\ strand'[i] = strand[i + 1]
           /\ \A c \in Conns : ExpiryQueued(c)' => ExpiryQueued(c)
           /\ \A c \in Conns : ExpiryQueued(c) => ExpiryQueued(c)' \/ task = Expiry(c)
<1>1. strand \in Seq(Tasks)
    BY DEF TypeOK
<1>2. /\ strand' \in Seq(Tasks) /\ task \in Tasks /\ task = strand[1]
      /\ Len(strand') = Len(strand) - 1 /\ Len(strand) \in Nat
    BY <1>1 DEF task
<1>3. \A i \in 1..Len(strand') : i + 1 \in 1..Len(strand) /\ strand'[i] = strand[i + 1]
    BY <1>1, <1>2
<1>4. ASSUME NEW c \in Conns, ExpiryQueued(c)' PROVE ExpiryQueued(c)
    BY <1>3, <1>4 DEF ExpiryQueued
<1>5. ASSUME NEW c \in Conns, ExpiryQueued(c), ~ ExpiryQueued(c)' PROVE task = Expiry(c)
    <2>1. PICK i \in 1..Len(strand) : strand[i] \in ExpiryTasks /\ strand[i].id = c
        BY <1>5 DEF ExpiryQueued
    <2>2. CASE i = 1
        BY <1>2, <2>1, <2>2, ExpiryRecord
    <2>3. CASE i # 1
        <3>1. i - 1 \in 1..Len(strand') /\ strand'[i - 1] = strand[i]
            BY <1>2, <1>3, <2>3
        <3> QED BY <1>5, <2>1, <3>1 DEF ExpiryQueued
    <2> QED BY <2>2, <2>3
<1> QED BY <1>2, <1>3, <1>4, <1>5

-----------------------------------------------------------------------------
(* What a step leaves of the invariant, by what it does with the queue.    *)

\* The conjuncts of TimersOwn and Watched that are about the queue.
QueueOwn == \A i \in 1..Len(strand) : strand[i] \in ExpiryTasks =>
               \/ strand[i].id \in overtaken
               \/ /\ strand[i].id \in connections \ stale
                  /\ \A j \in 1..Len(strand) : strand[j] = strand[i] => j = i

AllWatched == \A c \in connections \ stale : c \in wait \/ ExpiryQueued(c)

Left == stale \subseteq connections /\ overtaken \cap stale = {}

EndpointOnce == \A c, d \in connections : endpointOf[c] = endpointOf[d] => c = d

LEMMA Parts ==
    IInv <=> /\ TypeOK /\ QueueOwn /\ AllWatched /\ EndpointOnce
             /\ wait \subseteq connections \ stale /\ Left
BY DEF IInv, TimersOwn, Watched, QueueOwn, AllWatched, EndpointOnce, Left

LEMMA PartsNext ==
    ASSUME TypeOK', QueueOwn', AllWatched', EndpointOnce',
           wait' \subseteq connections' \ stale', Left'
    PROVE  IInv'
BY DEF IInv, TimersOwn, Watched, QueueOwn, AllWatched, EndpointOnce, Left

\* A handler that is not a timer's is queued.
LEMMA QueuedKept ==
    ASSUME IInv, NEW t \in Tasks, t.kind # "expired", strand' = Append(strand, t),
           UNCHANGED impl
    PROVE  strand' \in Seq(Tasks) /\ QueueOwn' /\ AllWatched'
<1>1. TypeOK /\ QueueOwn /\ AllWatched
    BY Parts
<1>2. connections \in SUBSET Conns
    BY <1>1 DEF TypeOK
<1>3. /\ strand' \in Seq(Tasks)
      /\ \A c \in Conns : ExpiryQueued(c)' <=> ExpiryQueued(c)
      /\ \A i \in 1..Len(strand') : strand'[i] \in ExpiryTasks =>
             i \in 1..Len(strand) /\ strand'[i] = strand[i]
    BY <1>1, OtherQueued
<1>4. QueueOwn'
    BY <1>1, <1>3 DEF QueueOwn, impl
<1>5. AllWatched'
    BY <1>1, <1>2, <1>3 DEF AllWatched, impl
<1> QED BY <1>3, <1>4, <1>5

\* A handler that is not a timer's runs; it can start waits and add connections.
LEMMA TakenKept ==
    ASSUME IInv, strand # <<>>, strand' = Tail(strand), task.kind # "expired",
           UNCHANGED <<stale, overtaken>>, connections \subseteq connections', wait \subseteq wait',
           connections' \subseteq Conns,
           \A c \in connections' \ connections : c \in wait'
    PROVE  strand' \in Seq(Tasks) /\ QueueOwn' /\ AllWatched'
<1>1. TypeOK /\ QueueOwn /\ AllWatched
    BY Parts
<1>2. /\ strand' \in Seq(Tasks)
      /\ \A i \in 1..Len(strand') : i + 1 \in 1..Len(strand) /\ strand'[i] = strand[i + 1]
      /\ \A c \in Conns : ExpiryQueued(c) => ExpiryQueued(c)' \/ task = Expiry(c)
    BY <1>1, HeadTaken
<1>3. QueueOwn'
    BY <1>1, <1>2 DEF QueueOwn
<1>4. ASSUME NEW c \in connections' \ stale' PROVE c \in wait' \/ ExpiryQueued(c)'
    <2>1. CASE c \notin connections
        BY <1>4, <2>1
    <2>2. CASE c \in connections
        <3>1. c \in wait \/ ExpiryQueued(c)
            BY <1>1, <1>4, <2>2 DEF AllWatched
        <3>2. task # Expiry(c)
            BY DEF Expiry
        <3> QED BY <1>2, <1>4, <3>1, <3>2
    <2> QED BY <2>1, <2>2
<1> QED BY <1>2, <1>3, <1>4 DEF AllWatched

-----------------------------------------------------------------------------
(* Each action keeps the invariant.                                        *)

LEMMA InitIInv == Init => IInv
<1> SUFFICES ASSUME Init PROVE IInv
    OBVIOUS
<1>1. TypeOK
    <2>1. strand \in Seq(Tasks) /\ ctxq \in SUBSET {"ready", "dispatch"}
        BY DEF Init
    <2>2. endpointOf \in [Conns -> Endpoints \cup {None}]
        BY DEF Init
    <2> QED BY <2>1, <2>2 DEF Init, TypeOK
<1>2. QueueOwn /\ AllWatched /\ EndpointOnce
    BY DEF Init, QueueOwn, AllWatched, EndpointOnce
<1> QED BY <1>1, <1>2, Parts DEF Init, Left

LEMMA ReceiveStep ==
    ASSUME IInv, ReceiveFailed \/ \E e \in Endpoints, k \in Kinds : ReceiveDone(e, k)
    PROVE  IInv'
<1>1. PICK t \in Tasks : t.kind # "expired" /\ strand' = Append(strand, t)
    BY DEF ReceiveFailed, ReceiveDone, Tasks, ReceiveTasks, ErrorTasks
<1>2. rx' \in {"armed", "queued", "over"} /\ UNCHANGED <<impl, loop, event>>
    BY DEF ReceiveFailed, ReceiveDone
<1>3. strand' \in Seq(Tasks) /\ QueueOwn' /\ AllWatched'
    BY <1>1, <1>2, QueuedKept
<1>4. TypeOK'
    BY <1>2, <1>3, Parts DEF TypeOK, impl, loop
<1>5. EndpointOnce' /\ wait' \subseteq connections' \ stale' /\ Left'
    BY <1>2, Parts DEF EndpointOnce, Left, impl
<1> QED BY <1>3, <1>4, <1>5, PartsNext

\* The one step that queues a timer's handler: if another waits, its ID is overtaken.
LEMMA TimerStep ==
    ASSUME IInv, NEW c \in Conns, TimerFires(c)
    PROVE  IInv'
<1> DEFINE n == Len(strand) + 1
<1>1. /\ TypeOK /\ QueueOwn /\ AllWatched /\ Left /\ strand \in Seq(Tasks)
      /\ connections \in SUBSET Conns /\ wait \subseteq connections \ stale
    BY Parts DEF TypeOK
<1>2. /\ c \in wait /\ wait' = wait \ {c}
      /\ overtaken \subseteq overtaken' /\ overtaken' \subseteq overtaken \cup {c}
      /\ ExpiryQueued(c) => c \in overtaken'
      /\ UNCHANGED <<connections, endpointOf, stale, rx, loop>>
    BY DEF TimerFires
<1>3. Expiry(c) \in ExpiryTasks /\ Expiry(c) \in Tasks /\ Expiry(c).id = c
    BY DEF Expiry, ExpiryTasks, Tasks
<1>4. strand' = Append(strand, Expiry(c))
    BY DEF TimerFires, Expiry
<1>5. /\ strand' \in Seq(Tasks) /\ n \in 1..Len(strand') /\ strand'[n] = Expiry(c)
      /\ \A i \in 1..Len(strand') : i # n => i \in 1..Len(strand) /\ strand'[i] = strand[i]
      /\ \A i \in 1..Len(strand) : i \in 1..Len(strand') /\ strand'[i] = strand[i]
    BY <1>1, <1>3, <1>4
<1> HIDE DEF n
<1>6. c \notin overtaken' => \A i \in 1..Len(strand) : strand[i] # Expiry(c)
    BY <1>2, <1>3 DEF ExpiryQueued
<1>7. QueueOwn'
    <2>1. c \in connections' \ stale'
        BY <1>1, <1>2
    <2>2. ASSUME NEW i \in 1..Len(strand'), strand'[i] \in ExpiryTasks,
                 strand'[i].id \notin overtaken'
          PROVE  /\ strand'[i].id \in connections' \ stale'
                 /\ \A j \in 1..Len(strand') : strand'[j] = strand'[i] => j = i
        <3>1. CASE i = n
            BY <1>3, <1>5, <1>6, <2>1, <2>2, <3>1
        <3>2. CASE i # n
            <4>1. /\ i \in 1..Len(strand) /\ strand'[i] = strand[i]
                  /\ strand[i].id \notin overtaken
                BY <1>2, <1>5, <2>2, <3>2
            <4>2. /\ strand[i].id \in connections \ stale
                  /\ \A j \in 1..Len(strand) : strand[j] = strand[i] => j = i
                BY <1>1, <2>2, <4>1 DEF QueueOwn
            <4>3. strand'[n] # strand'[i]
                BY <1>3, <1>5, <1>6, <2>2, <4>1
            <4> QED BY <1>2, <1>5, <4>1, <4>2, <4>3
        <3> QED BY <3>1, <3>2
    <2> QED BY <2>2 DEF QueueOwn
<1>8. AllWatched'
    <2>1. \A d \in Conns : ExpiryQueued(d) => ExpiryQueued(d)'
        BY <1>5 DEF ExpiryQueued
    <2>2. ExpiryQueued(c)'
        BY <1>3, <1>5 DEF ExpiryQueued
    <2> QED BY <1>1, <1>2, <2>1, <2>2 DEF AllWatched
<1>9. TypeOK'
    BY <1>1, <1>2, <1>5 DEF TypeOK, loop
<1>10. EndpointOnce' /\ wait' \subseteq connections' \ stale' /\ Left'
    <2>1. c \notin stale
        BY <1>1, <1>2
    <2> QED BY <1>1, <1>2, <2>1, Parts DEF EndpointOnce, Left
<1> QED BY <1>7, <1>8, <1>9, <1>10, PartsNext

\* A ping of an endpoint that is connected sets its timer anew, whatever waits.
LEMMA PingKnownStep ==
    ASSUME IInv, NEW c \in Conns, PingKnown(c) \/ PingStale(c)
    PROVE  IInv'
<1>1. /\ TypeOK /\ EndpointOnce /\ wait \subseteq connections \ stale
      /\ Left /\ connections \in SUBSET Conns
    BY Parts DEF TypeOK
<1>2. /\ strand # <<>> /\ strand' = Tail(strand) /\ task.kind # "expired"
      /\ UNCHANGED <<connections, endpointOf, stale, overtaken>>
      /\ rx' \in {"armed", "queued", "over"} /\ ctxq' = ctxq /\ restarts' = restarts
      /\ stopped' \in {stopped, TRUE} /\ lost' \in {lost, TRUE}
    BY DEF PingKnown, PingStale, Take, Answer, impl, loop
<1>3. wait \subseteq wait' /\ wait' \subseteq connections' \ stale'
    BY <1>1 DEF PingKnown, PingStale, Rearmed, Known, impl
<1>4. strand' \in Seq(Tasks) /\ QueueOwn' /\ AllWatched'
    BY <1>1, <1>2, <1>3, TakenKept
<1>5. TypeOK'
    BY <1>1, <1>2, <1>3, <1>4 DEF TypeOK
<1> QED BY <1>1, <1>2, <1>3, <1>4, <1>5, PartsNext DEF EndpointOnce, Left

\* The first ping of an endpoint: no Connection has it, and the address is new.
LEMMA PingNewStep ==
    ASSUME IInv, NEW c \in Conns, PingNew(c)
    PROVE  IInv'
<1> DEFINE e == task.from
<1>1. /\ TypeOK /\ EndpointOnce /\ wait \subseteq connections \ stale
      /\ Left /\ connections \in SUBSET Conns
      /\ strand \in Seq(Tasks)
    BY Parts DEF TypeOK
<1>2. /\ strand # <<>> /\ strand' = Tail(strand) /\ task.kind = "received"
      /\ c \notin connections /\ \A d \in connections : endpointOf[d] # e
      /\ connections' = connections \cup {c} /\ stale' = stale /\ overtaken' = overtaken
      /\ endpointOf' = [endpointOf EXCEPT ![c] = e] /\ wait' = wait \cup {c}
      /\ rx' \in {"armed", "queued", "over"} /\ ctxq' = ctxq /\ restarts' = restarts
      /\ stopped' = stopped /\ lost' \in {lost, TRUE}
    BY DEF PingNew, Take, Answer, loop, EndpointStored, Rearmed, Known
<1>3. e \in Endpoints
    <2>1. task \in Tasks
        BY <1>1, <1>2 DEF task
    <2> QED BY <1>2, <2>1 DEF Tasks, ReceiveTasks, ErrorTasks, ExpiryTasks, WriteTasks
<1> HIDE DEF e
<1>4. strand' \in Seq(Tasks) /\ QueueOwn' /\ AllWatched'
    BY <1>1, <1>2, TakenKept
<1>5. \A d \in Conns : endpointOf'[d] = IF d = c THEN e ELSE endpointOf[d]
    BY <1>1, <1>2 DEF TypeOK
<1>6. EndpointOnce'
    BY <1>1, <1>2, <1>5 DEF EndpointOnce
<1>7. TypeOK'
    <2>1. endpointOf' \in [Conns -> Endpoints \cup {None}]
        BY <1>1, <1>2, <1>3 DEF TypeOK
    <2>2. \A d \in connections' : endpointOf'[d] \in Endpoints
        BY <1>1, <1>2, <1>3, <1>5 DEF TypeOK
    <2> QED BY <1>1, <1>2, <1>4, <2>1, <2>2 DEF TypeOK
<1>8. wait' \subseteq connections' \ stale' /\ Left'
    BY <1>1, <1>2 DEF Left
<1> QED BY <1>4, <1>6, <1>7, <1>8, PartsNext

\* The handlers that touch no connection.
LEMMA OtherHandlerStep ==
    ASSUME IInv, Data \/ ReceiveError \/ Write
    PROVE  IInv'
<1>1. TypeOK /\ connections \in SUBSET Conns
    BY Parts DEF TypeOK
<1>2. /\ strand # <<>> /\ strand' = Tail(strand) /\ task.kind # "expired"
      /\ UNCHANGED <<impl, ctxq, stopped, restarts>> /\ lost' \in {lost, TRUE}
      /\ rx' \in {rx, "armed", "over"}
    BY DEF Data, ReceiveError, Write, Take, loop
<1>3. strand' \in Seq(Tasks) /\ QueueOwn' /\ AllWatched'
    BY <1>1, <1>2, TakenKept DEF impl
<1>4. TypeOK'
    BY <1>1, <1>2, <1>3 DEF TypeOK, impl
<1>5. EndpointOnce' /\ wait' \subseteq connections' \ stale' /\ Left'
    BY <1>2, Parts DEF EndpointOnce, Left, impl
<1> QED BY <1>3, <1>4, <1>5, PartsNext

\* The timer's handler finds the Connection it captured, which is of this io_context,
\* and no other handler of that Connection waits, unless it was overtaken.
LEMMA ExpiredStep ==
    ASSUME IInv, Expired
    PROVE  IInv' /\ task.id \in Conns /\ task.id \in connections \cup overtaken
<1> DEFINE c == task.id
<1>1. /\ TypeOK /\ QueueOwn /\ AllWatched /\ EndpointOnce
      /\ wait \subseteq connections \ stale /\ Left
      /\ connections \in SUBSET Conns /\ strand \in Seq(Tasks)
    BY Parts DEF TypeOK
<1>2. /\ strand # <<>> /\ strand' = Tail(strand) /\ task.kind = "expired"
      /\ connections' = connections \ {c} /\ wait' = wait \ {c}
      /\ overtaken' = {d \in overtaken : ExpiryQueued(d)'}
      /\ UNCHANGED <<endpointOf, stale, rx, loop>>
    BY DEF Expired, Take, Erased
<1>3. /\ strand' \in Seq(Tasks) /\ task \in Tasks
      /\ \A i \in 1..Len(strand') : i + 1 \in 1..Len(strand) /\ strand'[i] = strand[i + 1]
      /\ \A d \in Conns : ExpiryQueued(d) => ExpiryQueued(d)' \/ task = Expiry(d)
    BY <1>1, <1>2, HeadTaken
<1>4. 1 \in 1..Len(strand) /\ task = strand[1]
    BY <1>1, <1>2 DEF task
<1>5. task \in ExpiryTasks /\ task = Expiry(c) /\ c \in Conns
    BY <1>2, <1>3, ExpiryKind, ExpiryRecord
<1>6. c \notin overtaken =>
          /\ c \in connections \ stale
          /\ \A i \in 1..Len(strand) : strand[i] = Expiry(c) => i = 1
    BY <1>1, <1>4, <1>5 DEF QueueOwn
<1> HIDE DEF c
<1>7. QueueOwn'
    <2>1. ASSUME NEW i \in 1..Len(strand'), strand'[i] \in ExpiryTasks,
                 strand'[i].id \notin overtaken'
          PROVE  /\ strand'[i].id \in connections' \ stale'
                 /\ \A j \in 1..Len(strand') : strand'[j] = strand'[i] => j = i
        <3>1. PICK d \in Conns : strand'[i].id = d /\ strand'[i] = Expiry(d)
            BY <2>1, ExpiryRecord
        <3>2. ExpiryQueued(d)'
            BY <2>1, <3>1 DEF ExpiryQueued
        <3>3. d \notin overtaken
            BY <1>2, <2>1, <3>1, <3>2
        <3>4. i + 1 \in 1..Len(strand) /\ strand[i + 1] = Expiry(d) /\ i + 1 # 1
            BY <1>3, <3>1
        <3>5. d # c
            BY <1>6, <3>3, <3>4
        <3>6. /\ d \in connections \ stale
              /\ \A j \in 1..Len(strand) : strand[j] = Expiry(d) => j = i + 1
            BY <1>1, <2>1, <1>3, <3>1, <3>3, <3>4 DEF QueueOwn
        <3>7. \A j \in 1..Len(strand') : strand'[j] = Expiry(d) => j + 1 = i + 1
            BY <1>3, <3>6
        <3> QED BY <1>2, <3>1, <3>5, <3>6, <3>7
    <2> QED BY <2>1 DEF QueueOwn
<1>8. AllWatched'
    <2>1. \A d \in Conns : Expiry(d) = Expiry(c) => d = c
        BY DEF Expiry
    <2> QED BY <1>1, <1>2, <1>3, <1>5, <2>1 DEF AllWatched
<1>9. TypeOK'
    BY <1>1, <1>2, <1>3 DEF TypeOK, loop
<1>10. EndpointOnce' /\ wait' \subseteq connections' \ stale' /\ Left'
    <2>1. c \notin stale
        BY <1>1, <1>6 DEF Left
    <2> QED BY <1>1, <1>2, <2>1 DEF EndpointOnce, Left
<1> QED BY <1>5, <1>6, <1>7, <1>8, <1>9, <1>10, PartsNext DEF c

LEMMA PostStep ==
    ASSUME IInv, Publish \/ PublishEx \/ Send
    PROVE  IInv'
<1>1. PICK mode \in Modes, ids \in SUBSET Conns : Post(mode, ids)
    BY DEF Publish, PublishEx, Send, Seen, Modes
<1> DEFINE t == [kind |-> "write", mode |-> mode, ids |-> ids]
<1>2. t \in Tasks /\ t.kind # "expired"
    BY DEF Tasks, WriteTasks
<1>3. strand' = Append(strand, t) /\ UNCHANGED <<impl, rx, loop>>
    BY <1>1 DEF Post
<1> HIDE DEF t
<1>4. strand' \in Seq(Tasks) /\ QueueOwn' /\ AllWatched'
    BY <1>2, <1>3, QueuedKept
<1>5. TypeOK'
    BY <1>3, <1>4, Parts DEF TypeOK, impl, loop
<1>6. EndpointOnce' /\ wait' \subseteq connections' \ stale' /\ Left'
    BY <1>3, Parts DEF EndpointOnce, Left, impl
<1> QED BY <1>4, <1>5, <1>6, PartsNext

\* restart(): the old io_context takes the waits and the queue with it, and leaves
\* nothing that could run for the connections it leaves behind.
LEMMA RestartStep == ASSUME IInv, Restart PROVE IInv'
<1>1. TypeOK /\ EndpointOnce
    BY Parts
<1>2. TypeOK'
    <2>1. strand' \in Seq(Tasks) /\ ctxq' \in SUBSET {"ready", "dispatch"}
        BY DEF Restart
    <2>2. restarts' \in Nat /\ stale' \in SUBSET Conns
        BY <1>1 DEF Restart, TypeOK
    <2> QED BY <1>1, <2>1, <2>2 DEF Restart, TypeOK
<1>3. QueueOwn' /\ AllWatched'
    BY DEF Restart, QueueOwn, AllWatched
<1>4. EndpointOnce' /\ wait' \subseteq connections' \ stale' /\ Left'
    BY <1>1 DEF Restart, EndpointOnce, Left
<1> QED BY <1>2, <1>3, <1>4, PartsNext

LEMMA IdleStep ==
    ASSUME IInv,
           \/ \E t \in {"ready", "dispatch"} : Other(t)
           \/ Dispatch \/ Stop \/ UNCHANGED vars
    PROVE  IInv'
<1>1. TypeOK /\ UNCHANGED <<impl, rx, strand, restarts>>
    BY Parts DEF Other, Dispatch, Stop, vars, loop
<1>2. TypeOK'
    <2>1. ctxq' \in SUBSET {"ready", "dispatch"} /\ lost' = lost /\ stopped' \in BOOLEAN
        BY <1>1 DEF Other, Dispatch, Stop, vars, loop, TypeOK
    <2> QED BY <1>1, <2>1 DEF TypeOK, impl
<1>3. QueueOwn' /\ AllWatched' /\ EndpointOnce'
    BY <1>1, Parts DEF QueueOwn, AllWatched, EndpointOnce, ExpiryQueued, impl
<1>4. wait' \subseteq connections' \ stale' /\ Left'
    BY <1>1, Parts DEF Left, impl
<1> QED BY <1>2, <1>3, <1>4, PartsNext

LEMMA NextIInv ==
    ASSUME IInv, [Next]_vars
    PROVE  IInv'
<1>1. CASE Reactor
    BY <1>1, ReceiveStep, TimerStep DEF Reactor
<1>2. CASE Handler
    BY <1>2, PingKnownStep, PingNewStep, OtherHandlerStep, ExpiredStep DEF Handler, Ping
<1>3. CASE \/ \E t \in {"ready", "dispatch"} : Other(t)
           \/ Dispatch \/ Stop \/ UNCHANGED vars
    BY <1>3, IdleStep
<1>4. CASE Publish \/ PublishEx \/ Send \/ Restart
    BY <1>4, PostStep, RestartStep
<1> QED BY <1>1, <1>2, <1>3, <1>4 DEF Next, Application

LEMMA IInvHolds == Spec => []IInv
<1>1. IInv /\ [Next]_vars => IInv'
    BY NextIInv
<1> QED BY InitIInv, <1>1, PTL DEF Spec

\* Pending waits and queued handlers of the timers are those of live connections of
\* this io_context, one for each, over every race of probes with expiries, reused
\* addresses and restarts; except where a probe has overtaken an expiry, whose
\* handler then outlives its Connection.
THEOREM TimersAlwaysOwn == Spec => []TimersOwn
<1>1. IInv => TimersOwn
    BY DEF IInv
<1> QED BY <1>1, IInvHolds, PTL

\* Nobody stays connected for ever without a timer, and an endpoint is connected
\* once, however its probes race with the expiries of its timer.
THEOREM AlwaysWatched == Spec => []Watched
<1>1. IInv => Watched
    BY DEF IInv
<1> QED BY <1>1, IInvHolds, PTL

-----------------------------------------------------------------------------
(* The contract of the callbacks.                                          *)

LEMMA NextImplements ==
    IInv /\ [Next]_vars => [Contract!Next \/ LateDisconnect]_(Contract!vars)
<1> SUFFICES ASSUME IInv, [Next]_vars
             PROVE  [Contract!Next \/ LateDisconnect]_(Contract!vars)
    OBVIOUS
<1> USE DEF Contract!vars, Contract!Next
<1>1. CASE Reactor
    BY <1>1 DEF Reactor, ReceiveDone, ReceiveFailed, TimerFires, impl, loop
<1>2. CASE Handler
    <2>1. ASSUME NEW c \in Conns, PingKnown(c) \/ PingStale(c)
          PROVE  UNCHANGED Contract!vars
        BY <2>1 DEF PingKnown, PingStale, Answer, impl, loop
    <2>2. ASSUME NEW c \in Conns, PingNew(c) PROVE Contract!Connect(c)
        BY <2>2 DEF PingNew, Answer, loop, Contract!Connect
    <2>3. ASSUME Data PROVE [Contract!Next]_(Contract!vars)
        <3>1. UNCHANGED <<connections, restarts>>
            BY <2>3 DEF Data, impl, loop
        <3>2. CASE event' = event
            BY <3>1, <3>2
        <3>3. CASE event' # event
            <4>1. PICK c \in Known(task.from) : event' = <<"message", c>>
                BY <2>3, <3>3 DEF Data
            <4>2. c \in connections /\ c \in Conns
                BY Parts DEF Known, TypeOK
            <4>3. Contract!Message(c)
                BY <3>1, <4>1, <4>2 DEF Contract!Message
            <4> QED BY <4>2, <4>3
        <3> QED BY <3>2, <3>3
    <2>4. ASSUME ReceiveError \/ Write PROVE UNCHANGED Contract!vars
        BY <2>4 DEF ReceiveError, Write, impl, loop
    <2>5. ASSUME Expired PROVE [Contract!Next \/ LateDisconnect]_(Contract!vars)
        <3>1. task.id \in Conns /\ task.id \in connections \cup overtaken
            BY <2>5, ExpiredStep
        <3>2. /\ event' = <<"disconnect", task.id>> /\ restarts' = restarts
              /\ connections' = connections \ {task.id}
            BY <2>5 DEF Expired, Erased, loop
        <3>3. CASE task.id \in connections
            <4>1. Contract!Disconnect(task.id)
                BY <3>2, <3>3 DEF Contract!Disconnect
            <4> QED BY <3>1, <4>1
        <3>4. CASE task.id \notin connections
            BY <3>1, <3>2, <3>4 DEF LateDisconnect
        <3> QED BY <3>3, <3>4
    <2> QED BY <1>2, <2>1, <2>2, <2>3, <2>4, <2>5 DEF Handler, Ping
<1>3. ASSUME NEW t \in {"ready", "dispatch"}, Other(t) PROVE [Contract!Next]_(Contract!vars)
    BY <1>3 DEF Other, Contract!Ready, impl
<1>4. CASE Application
    <2>1. CASE Restart
        BY <2>1 DEF Restart, Contract!Restart
    <2>2. CASE Publish \/ PublishEx \/ Send \/ Dispatch \/ Stop
        BY <2>2 DEF Publish, PublishEx, Send, Post, Dispatch, Stop, impl, loop
    <2> QED BY <1>4, <2>1, <2>2 DEF Application
<1>5. CASE UNCHANGED vars
    BY <1>5 DEF vars, impl, loop
<1> QED BY <1>1, <1>2, <1>3, <1>4, <1>5 DEF Next

\* The server's callbacks follow EventContract: connect, then messages, then one
\* disconnect for every ID, over lost, repeated and late probes, IDs used again and
\* restarts; and the second disconnect of an ID is all that overtaken expiries add.
THEOREM ServerImplementsContract == Spec => ContractHolds
<1>1. Init => Contract!Init
    BY DEF Init, Contract!Init
<1> QED BY <1>1, IInvHolds, NextImplements, PTL DEF Spec, ContractHolds
=============================================================================
