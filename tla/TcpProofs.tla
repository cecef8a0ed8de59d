----------------------------- MODULE TcpProofs ------------------------------
(***************************************************************************)
(* Theorems about the TCP server and about what its connections carry.     *)
(*                                                                         *)
(* The server (TcpServer), for any set of peers, addresses and worker      *)
(* threads: its type invariant, OneDriver, the callback contract of        *)
(* EventContract up to early messages, the whole contract for one worker,  *)
(* and the order of the writes. OneDriver is inductive together with the   *)
(* type invariant and the fact that the Connection of the accept handler   *)
(* is not yet in connections. The contract follows: a read handler or      *)
(* disconnect task exists only for its driver, and whatever is driven is   *)
(* in connections or in the accept handler's hands. That messages reach a  *)
(* socket in the order of the calls needs, besides, that the strand runs   *)
(* one handler at a time.                                                  *)
(*                                                                         *)
(* The framing (TcpConnection) and the typed messages over it              *)
(* (TypedMessages), for every header and buffer size, every set of payload *)
(* sizes, every set of mappings and every way the kernel cuts the stream.  *)
(* That reads stay in r_buffer needs that what a header announces is a     *)
(* size that was sent: every byte in flight or in r_buffer belongs to a    *)
(* frame that was written. That frames are intact needs more: as long as   *)
(* no write was cut short, the bytes in r_buffer and in flight follow each *)
(* other as they were written (Follows), from the one the read loop waits  *)
(* for (Aligned). Whole payloads are all the typed handlers need: the tag  *)
(* is then the one that concat wrote, and what is left after it is the     *)
(* text (TypedInv).                                                        *)
(***************************************************************************)
EXTENDS TcpServer, TypedMessages, SequenceTheorems, TLAPS

-----------------------------------------------------------------------------
(* The server's connections, each with one driver.                         *)

\* The Connection that the accept handler holds is not in connections before it is
\* put there.
HeldApart == \A w \in Workers : active[w] \in HoldTasks => active[w].id \notin connections

IInv == TypeOK /\ OneDriver /\ HeldApart

AnyTask == StrandTasks \cup ReadTasks \cup CtxTasks \cup {Idle}

\* A task is recognised by its kind, as the handlers do.
LEMMA Kinds ==
    \A t \in AnyTask :
        /\ t.kind = "accept" <=> t \in AcceptTasks
        /\ t.kind = "disconnect" <=> t \in DisconnectTasks
        /\ t.kind = "write" <=> t \in WriteTasks
        /\ t.kind = "read" <=> t \in ReadTasks
        /\ t.kind \in {"ready", "dispatch"} <=> t \in CtxTasks
        /\ t.kind \in {"connect", "keep"} <=> t \in HoldTasks
        /\ t.kind = "idle" <=> t = Idle
BY DEF AnyTask, StrandTasks, QueuedTasks, HoldTasks, AcceptTasks, DisconnectTasks, WriteTasks, ReadTasks, CtxTasks, Idle

\* The kinds keep tasks of different sets apart.
LEMMA Apart ==
    /\ Idle \notin StrandTasks \cup ReadTasks \cup CtxTasks
    /\ StrandTasks \cap ReadTasks = {}
    /\ StrandTasks \cap CtxTasks = {}
    /\ ReadTasks \cap CtxTasks = {}
    /\ StrandTasks = QueuedTasks \cup HoldTasks
    /\ QueuedTasks \cap HoldTasks = {}
    /\ DisconnectTasks \subseteq QueuedTasks
    /\ \A t \in AcceptTasks \cup WriteTasks : t \in QueuedTasks /\ t \notin DisconnectTasks
    /\ WriteTasks \cap (DisconnectTasks \cup AcceptTasks) = {}
BY DEF StrandTasks, QueuedTasks, HoldTasks, AcceptTasks, DisconnectTasks, WriteTasks, ReadTasks, CtxTasks, Idle

LEMMA InitIInv == Init => IInv
<1> SUFFICES ASSUME Init PROVE IInv
    OBVIOUS
<1>1. TypeOK
    <2>1. /\ strand \in Seq(QueuedTasks) /\ posts \in Nat
          /\ written \in [Peers -> Seq(Nat \X Nat)]
        BY DEF Init
    <2>2. ctxq \in SUBSET CtxTasks
        BY DEF Init, CtxTasks
    <2>3. rd \in [Conns -> Drivers]
        BY DEF Init, Drivers
    <2>4. active \in [Workers -> StrandTasks \cup ReadTasks \cup CtxTasks \cup {Idle}]
        BY DEF Init
    <2> QED BY <2>1, <2>2, <2>3, <2>4 DEF Init, TypeOK
<1>2. OneDriver
    BY Apart DEF Init, OneDriver, DrivenAreLive, ReadersOwn, ClosersOwn, StrandExclusive
<1>3. HeldApart
    BY DEF Init, HeldApart
<1> QED BY <1>1, <1>2, <1>3 DEF IInv

-----------------------------------------------------------------------------
(* Steps that move no driver: OneDriver speaks of none of what they change. *)

Untouched == UNCHANGED <<connections, peerOf, rd, strand, active>>

\* What the accept handler holds and what connections owns stay as they are.
HoldsStay ==
    /\ UNCHANGED connections
    /\ \A v \in Workers : active[v] \in HoldTasks \/ active'[v] \in HoldTasks
                            => active'[v] = active[v]

LEMMA HoldsStayKeeps ==
    ASSUME HoldsStay
    PROVE  /\ UNCHANGED <<Alive, Reported>>
           /\ HeldApart => HeldApart'
<1>1. ASSUME NEW k \in {"connect", "keep"}
      PROVE  Held(k)' = Held(k)
    <2>1. \A c \in Conns : [kind |-> k, id |-> c] \in HoldTasks
        BY DEF HoldTasks
    <2> QED BY <2>1 DEF HoldsStay, Held
<1>2. UNCHANGED <<Alive, Reported>>
    BY <1>1 DEF Alive, Reported, HoldsStay
<1>3. HeldApart => HeldApart'
    BY DEF HeldApart, HoldsStay
<1> QED BY <1>2, <1>3

LEMMA UntouchedKeepsDrivers == OneDriver /\ HeldApart /\ Untouched => OneDriver' /\ HeldApart'
<1> SUFFICES ASSUME OneDriver, HeldApart, Untouched
             PROVE  OneDriver' /\ HeldApart'
    OBVIOUS
<1>1. HoldsStay
    BY DEF Untouched, HoldsStay
<1>2. UNCHANGED Alive /\ HeldApart'
    BY <1>1, HoldsStayKeeps
<1>3. OneDriver'
    BY <1>2 DEF Untouched, OneDriver, DrivenAreLive, ReadersOwn, ClosersOwn, StrandExclusive
<1> QED BY <1>2, <1>3

LEMMA PeerStep ==
    ASSUME IInv, NEW p \in Peers, Peer(p)
    PROVE  IInv'
<1>1. TypeOK'
    <2>1. CASE PeerConnect(p)
        BY <2>1 DEF PeerConnect, IInv, TypeOK, impl, asio, hist
    <2>2. CASE PeerSend(p)
        BY <2>2 DEF PeerSend, IInv, TypeOK, impl, asio, hist
    <2>3. CASE PeerClose(p)
        BY <2>3 DEF PeerClose, IInv, TypeOK, impl, asio, hist
    <2>4. CASE PeerReset(p)
        BY <2>4 DEF PeerReset, IInv, TypeOK, impl, asio, hist
    <2> QED BY <2>1, <2>2, <2>3, <2>4 DEF Peer
<1>2. Untouched
    BY DEF Untouched, Peer, PeerConnect, PeerSend, PeerClose, PeerReset, impl, asio
<1> QED BY <1>1, <1>2, UntouchedKeepsDrivers DEF IInv

\* Appending a task that is not a disconnect task moves no driver either.
LEMMA AppendKeepsDrivers ==
    ASSUME IInv, NEW t \in QueuedTasks \ DisconnectTasks,
           strand' = Append(strand, t),
           UNCHANGED <<connections, peerOf, rd, active>>
    PROVE  OneDriver' /\ HeldApart'
<1>0. UNCHANGED Alive /\ HeldApart'
    BY HoldsStayKeeps DEF HoldsStay, IInv
<1>1. DrivenAreLive' /\ ReadersOwn' /\ StrandExclusive'
    BY <1>0 DEF IInv, OneDriver, DrivenAreLive, ReadersOwn, StrandExclusive
<1>2. ClosersOwn'
    <2>1. strand \in Seq(QueuedTasks)
        BY DEF IInv, TypeOK
    <2>2. \A i \in 1..Len(strand') : strand'[i] \in DisconnectTasks =>
              i \in 1..Len(strand) /\ strand'[i] = strand[i]
        BY <2>1
    <2> QED BY <2>1, <2>2 DEF IInv, OneDriver, ClosersOwn
<1> QED BY <1>0, <1>1, <1>2 DEF OneDriver

LEMMA AcceptReactorStep ==
    ASSUME IInv, AcceptFailed \/ \E p \in Peers : AcceptDone(p)
    PROVE  IInv'
<1>1. PICK q \in Peers \cup {None} :
         strand' = Append(strand, [kind |-> "accept", peer |-> q])
    BY DEF AcceptFailed, AcceptDone
<1> DEFINE t == [kind |-> "accept", peer |-> q]
<1>2. t \in QueuedTasks \ DisconnectTasks
    BY DEF QueuedTasks, AcceptTasks, DisconnectTasks
<1>3. strand' \in Seq(QueuedTasks)
    BY <1>1, <1>2 DEF IInv, TypeOK
<1>4. TypeOK'
    BY <1>3 DEF AcceptFailed, AcceptDone, IInv, TypeOK, net, hist
<1>5. UNCHANGED <<connections, peerOf, rd, active>>
    BY DEF AcceptFailed, AcceptDone
<1> QED BY <1>1, <1>2, <1>4, <1>5, AppendKeepsDrivers DEF IInv

LEMMA ReadReactorStep ==
    ASSUME IInv, NEW c \in Conns, NEW r \in Results, ReadDone(c, r)
    PROVE  IInv'
<1> USE DEF IInv
<1>1. c \in Alive /\ peerOf[c] \in Peers
    BY DEF ReadDone, TypeOK, OneDriver, DrivenAreLive
<1>2. inbox' \in [Peers -> Nat]
    <2>1. CASE r = "error"
        BY <2>1 DEF ReadDone, TypeOK
    <2>2. CASE r # "error"
        <3>1. inbox[peerOf[c]] > 0
            BY <2>2 DEF ReadDone, ReadOutcomes
        <3> QED BY <1>1, <2>2, <3>1 DEF ReadDone, TypeOK
    <2> QED BY <2>1, <2>2
<1>3. rd' \in [Conns -> Drivers] /\ rd' = [rd EXCEPT ![c] = r]
    BY DEF ReadDone, TypeOK, Drivers
<1>4. TypeOK'
    BY <1>2, <1>3 DEF ReadDone, TypeOK, asio, hist
<1>5. rd[c] = "armed" /\ rd'[c] \notin {"running", "closing", "none"}
    BY <1>3 DEF ReadDone, TypeOK, Results
<1>6. OneDriver' /\ HeldApart'
    <2>1. UNCHANGED <<connections, peerOf, strand, active>>
        BY DEF ReadDone, asio
    <2>2. UNCHANGED Alive /\ HeldApart'
        BY <2>1, HoldsStayKeeps DEF HoldsStay
    <2>3. DrivenAreLive'
        BY <1>1, <1>3, <2>2, <2>1 DEF TypeOK, OneDriver, DrivenAreLive
    <2>4. ReadersOwn'
        BY <1>3, <1>5, <2>1 DEF TypeOK, OneDriver, ReadersOwn, ReadTasks
    <2>5. ClosersOwn'
        BY <1>3, <1>5, <2>1 DEF TypeOK, OneDriver, ClosersOwn, DisconnectTasks
    <2>6. StrandExclusive'
        BY <2>1 DEF OneDriver, StrandExclusive
    <2> QED BY <2>2, <2>3, <2>4, <2>5, <2>6 DEF OneDriver
<1> QED BY <1>4, <1>6

-----------------------------------------------------------------------------
(* A worker takes a handler.                                               *)

LEMMA BeginStrandStep ==
    ASSUME IInv, NEW w \in Workers, BeginStrand(w)
    PROVE  IInv'
<1> DEFINE t == Head(strand)
<1> USE DEF IInv
<1>1. /\ strand \in Seq(QueuedTasks) /\ strand # <<>>
      /\ t = strand[1] /\ t \in QueuedTasks
      /\ strand' = Tail(strand) /\ strand' \in Seq(QueuedTasks)
      /\ Len(strand') = Len(strand) - 1
      /\ \A i \in 1..Len(strand') : strand'[i] = strand[i + 1]
    BY DEF BeginStrand, TypeOK
<1>2. active' = [active EXCEPT ![w] = t]
    BY DEF BeginStrand
<1>3. TypeOK'
    BY <1>1, <1>2, Apart DEF BeginStrand, TypeOK, net, impl, hist
<1>4. \A v \in Workers : active[v] \notin StrandTasks
    BY DEF BeginStrand, StrandFree
<1>5. \A v \in Workers : active'[v] = IF v = w THEN t ELSE active[v]
    BY <1>2 DEF TypeOK
<1>6. UNCHANGED <<connections, peerOf, rd>>
    BY DEF BeginStrand, impl
<1>7. UNCHANGED Alive /\ HeldApart'
    BY <1>1, <1>4, <1>5, <1>6, Apart, HoldsStayKeeps DEF HoldsStay
<1>8. DrivenAreLive'
    BY <1>6, <1>7 DEF OneDriver, DrivenAreLive
<1>9. ReadersOwn'
    BY <1>1, <1>5, <1>6, Apart DEF OneDriver, ReadersOwn
<1>10. ClosersOwn'
    <2>1. ASSUME NEW i \in 1..Len(strand'), strand'[i] \in DisconnectTasks
          PROVE  /\ rd'[strand'[i].id] = "closing"
                 /\ \A j \in 1..Len(strand') : strand'[j] = strand'[i] => j = i
                 /\ \A v \in Workers : active'[v] # strand'[i]
        <3>1. i + 1 \in 1..Len(strand) /\ 1 \in 1..Len(strand)
            BY <1>1
        <3>2. strand[i + 1] \in DisconnectTasks
            BY <1>1, <2>1
        <3>3. strand[1] # strand[i + 1]
            BY <3>1, <3>2 DEF OneDriver, ClosersOwn
        <3>4. \A v \in Workers : active'[v] # strand'[i]
            BY <1>1, <1>5, <3>1, <3>2, <3>3 DEF OneDriver, ClosersOwn
        <3>5. \A j \in 1..Len(strand') : strand'[j] = strand'[i] => j = i
            BY <1>1, <3>1, <3>2 DEF OneDriver, ClosersOwn
        <3>6. rd'[strand'[i].id] = "closing"
            BY <1>1, <1>6, <3>1, <3>2 DEF OneDriver, ClosersOwn
        <3> QED BY <3>4, <3>5, <3>6
    <2>2. ASSUME NEW v \in Workers, active'[v] \in DisconnectTasks
          PROVE  rd'[active'[v].id] = "closing"
        <3>1. 1 \in 1..Len(strand)
            BY <1>1
        <3> QED BY <1>1, <1>4, <1>5, <1>6, <2>2, <3>1, Apart DEF OneDriver, ClosersOwn
    <2> QED BY <2>1, <2>2 DEF ClosersOwn
<1>11. StrandExclusive'
    BY <1>4, <1>5 DEF StrandExclusive
<1> QED BY <1>3, <1>8, <1>9, <1>10, <1>11, <1>7 DEF OneDriver

LEMMA BeginReadStep ==
    ASSUME IInv, NEW w \in Workers, NEW c \in Conns, BeginRead(w, c)
    PROVE  IInv'
<1> DEFINE t == [kind |-> "read", id |-> c, res |-> rd[c]]
<1> USE DEF IInv
<1>1. t \in ReadTasks /\ t.id = c
    BY DEF BeginRead, ReadTasks
<1>2. \A v \in Workers : active'[v] = IF v = w THEN t ELSE active[v]
    BY DEF BeginRead, TypeOK
<1>3. \A d \in Conns : rd'[d] = IF d = c THEN "running" ELSE rd[d]
    BY DEF BeginRead, TypeOK
<1>4. TypeOK'
    BY <1>1 DEF BeginRead, TypeOK, net, hist, Drivers
<1>5. rd[c] \in Results /\ UNCHANGED <<connections, peerOf, strand>>
    BY DEF BeginRead
<1>6. rd[c] \notin {"none", "running", "closing"}
    BY <1>5 DEF Results
<1>7. UNCHANGED Alive /\ HeldApart'
    BY <1>1, <1>2, <1>5, Apart, HoldsStayKeeps DEF BeginRead, Free, HoldsStay
<1>8. DrivenAreLive'
    BY <1>3, <1>5, <1>6, <1>7 DEF OneDriver, DrivenAreLive
<1>9. ReadersOwn'
    BY <1>1, <1>2, <1>3, <1>6 DEF OneDriver, ReadersOwn, ReadTasks
<1>10. ClosersOwn'
    BY <1>1, <1>2, <1>3, <1>5, <1>6, Apart DEF OneDriver, ClosersOwn, DisconnectTasks
<1>11. StrandExclusive'
    BY <1>1, <1>2, Apart DEF OneDriver, StrandExclusive
<1> QED BY <1>4, <1>8, <1>9, <1>10, <1>11, <1>7 DEF OneDriver

LEMMA BeginCtxStep ==
    ASSUME IInv, NEW w \in Workers, NEW t \in CtxTasks, BeginCtx(w, t)
    PROVE  IInv'
<1> USE DEF IInv
<1>1. \A v \in Workers : active'[v] = IF v = w THEN t ELSE active[v]
    BY DEF BeginCtx, TypeOK
<1>2. TypeOK'
    BY DEF BeginCtx, TypeOK, net, impl, hist
<1>3. UNCHANGED <<connections, peerOf, rd, strand>>
    BY DEF BeginCtx, impl
<1>4. UNCHANGED Alive /\ HeldApart'
    BY <1>1, <1>3, Apart, HoldsStayKeeps DEF BeginCtx, Free, HoldsStay
<1>5. DrivenAreLive' /\ ReadersOwn' /\ StrandExclusive'
    BY <1>1, <1>3, <1>4, Apart DEF OneDriver, DrivenAreLive, ReadersOwn, StrandExclusive
<1>6. ClosersOwn'
    BY <1>1, <1>3, Apart DEF OneDriver, ClosersOwn
<1> QED BY <1>2, <1>5, <1>6, <1>4 DEF OneDriver

-----------------------------------------------------------------------------
(* A worker completes a handler.                                           *)

LEMMA Returned ==
    ASSUME IInv, NEW w \in Workers, Return(w)
    PROVE  /\ \A v \in Workers : active'[v] = IF v = w THEN Idle ELSE active[v]
           /\ active' \in [Workers -> AnyTask]
           /\ active[w] \in AnyTask
BY DEF Return, IInv, TypeOK, AnyTask

\* A handler that is no connection's driver, and holds none, just goes away.
LEMMA ReturnKeepsDrivers ==
    ASSUME IInv, NEW w \in Workers, Return(w),
           UNCHANGED <<connections, peerOf, rd, strand>>,
           active[w] \notin ReadTasks, active[w] \notin DisconnectTasks,
           active[w] \notin HoldTasks
    PROVE  OneDriver' /\ HeldApart'
<1> USE DEF IInv
<1>1. \A v \in Workers : active'[v] = IF v = w THEN Idle ELSE active[v]
    BY Returned
<1>2. UNCHANGED Alive /\ HeldApart'
    BY <1>1, Apart, HoldsStayKeeps DEF HoldsStay
<1>3. DrivenAreLive' /\ ReadersOwn' /\ StrandExclusive'
    BY <1>1, <1>2, Apart DEF OneDriver, DrivenAreLive, ReadersOwn, StrandExclusive
<1>4. ClosersOwn'
    BY <1>1, Apart DEF OneDriver, ClosersOwn
<1> QED BY <1>2, <1>3, <1>4 DEF OneDriver

LEMMA WrittenTyped ==
    ASSUME IInv, NEW to, NEW m \in Nat \X Nat, WrittenTo(to, m)
    PROVE  written' \in [Peers -> Seq(Nat \X Nat)]
BY DEF WrittenTo, IInv, TypeOK

LEMMA EndPlainStep ==
    ASSUME IInv, NEW w \in Workers,
           EndAcceptError(w) \/ EndAcceptThrow(w) \/ EndPublish(w) \/ EndSend(w) \/ EndCtx(w)
    PROVE  IInv'
<1>1. Return(w)
    BY DEF EndAcceptError, EndAcceptThrow, EndPublish, EndSend, EndCtx
<1>2. active[w] \in AnyTask /\ active' \in [Workers -> AnyTask]
    BY <1>1, Returned
<1>3. /\ active[w] \notin ReadTasks /\ active[w] \notin DisconnectTasks
      /\ active[w] \notin HoldTasks
    BY <1>2, Kinds DEF EndAcceptError, EndAcceptThrow, EndPublish, EndSend, EndCtx
<1>4. UNCHANGED <<connections, peerOf, rd, strand>>
    BY DEF EndAcceptError, EndAcceptThrow, EndPublish, EndSend, EndCtx, impl
<1>5. TypeOK'
    <2>1. CASE EndAcceptError(w)
        BY <1>2, <2>1 DEF EndAcceptError, AcceptAgain, IInv, TypeOK, AnyTask, net, hist
    <2>2. CASE EndAcceptThrow(w)
        BY <1>2, <2>2 DEF EndAcceptThrow, IInv, TypeOK, AnyTask, hist
    <2>3. CASE EndPublish(w)
        <3>1. <<active[w].msg, active[w].next>> \in Nat \X Nat
            BY <1>2, <2>3, Kinds DEF EndPublish, WriteTasks
        <3>2. written' \in [Peers -> Seq(Nat \X Nat)]
            BY <2>3, <3>1, WrittenTyped DEF EndPublish
        <3> QED BY <1>2, <2>3, <3>2 DEF EndPublish, IInv, TypeOK, AnyTask, net, impl
    <2>4. CASE EndSend(w)
        BY <1>2, <2>4 DEF EndSend, IInv, TypeOK, AnyTask, net, impl, hist
    <2>5. CASE EndCtx(w)
        BY <1>2, <2>5 DEF EndCtx, IInv, TypeOK, AnyTask, net, impl
    <2> QED BY <2>1, <2>2, <2>3, <2>4, <2>5
<1> QED BY <1>1, <1>3, <1>4, <1>5, ReturnKeepsDrivers DEF IInv

\* A send() goes on to the next of its IDs.
LEMMA SendNextIs ==
    ASSUME IInv, NEW w \in Workers, SendNext(w)
    PROVE  /\ active[w] \in WriteTasks
           /\ active' = [active EXCEPT ![w] = [active[w] EXCEPT !.next = @ + 1]]
           /\ [active[w] EXCEPT !.next = @ + 1] \in WriteTasks
           /\ active[w].msg \in Nat /\ active[w].next \in Nat
<1>1. active[w] \in WriteTasks
    BY Kinds DEF SendNext, IInv, TypeOK, AnyTask
<1>2. PICK k \in Modes, l \in Seq(Conns), m \in Nat, n \in Nat :
          active[w] = [kind |-> "write", mode |-> k, ids |-> l, msg |-> m, next |-> n]
    BY <1>1 DEF WriteTasks
<1>3. n + 1 \in Nat
    OBVIOUS
<1>4. [active[w] EXCEPT !.next = @ + 1]
          = [kind |-> "write", mode |-> k, ids |-> l, msg |-> m, next |-> n + 1]
    BY <1>2
<1>5. active' = [active EXCEPT ![w] = [active[w] EXCEPT !.next = @ + 1]]
    BY DEF SendNext
<1> QED BY <1>1, <1>2, <1>3, <1>4, <1>5 DEF WriteTasks

LEMMA SendNextStep ==
    ASSUME IInv, NEW w \in Workers, SendNext(w)
    PROVE  IInv'
<1> DEFINE t == [active[w] EXCEPT !.next = @ + 1]
<1> USE DEF IInv
<1>1. /\ active[w] \in WriteTasks /\ t \in WriteTasks
      /\ active' = [active EXCEPT ![w] = t]
      /\ <<active[w].msg, active[w].next>> \in Nat \X Nat
    BY SendNextIs
<1> HIDE DEF t
<1>2. \A v \in Workers : active'[v] = IF v = w THEN t ELSE active[v]
    BY <1>1 DEF TypeOK
<1>3. t \in QueuedTasks /\ t \in StrandTasks /\ active[w] \in QueuedTasks
    BY <1>1, Apart
<1>4. written' \in [Peers -> Seq(Nat \X Nat)]
    BY <1>1, WrittenTyped DEF SendNext
<1>5. UNCHANGED <<net, impl, strand, ctxq, thrown, stopped, restarts, restartFailed, posts>>
    BY DEF SendNext
<1>6. TypeOK'
    BY <1>1, <1>3, <1>4, <1>5 DEF TypeOK, net, impl
<1>7. UNCHANGED <<connections, peerOf, rd, strand>>
    BY <1>5 DEF impl
<1>8. UNCHANGED Alive /\ HeldApart'
    BY <1>2, <1>3, <1>7, Apart, HoldsStayKeeps DEF HoldsStay
<1>9. t \notin ReadTasks /\ t \notin DisconnectTasks
    BY <1>1, <1>3, Apart
<1>10. DrivenAreLive' /\ ReadersOwn' /\ StrandExclusive'
    BY <1>2, <1>3, <1>7, <1>8, <1>9, Apart
       DEF OneDriver, DrivenAreLive, ReadersOwn, StrandExclusive
<1>11. ClosersOwn'
    BY <1>2, <1>7, <1>9 DEF OneDriver, ClosersOwn
<1> QED BY <1>6, <1>8, <1>10, <1>11 DEF OneDriver

\* The accept handler goes on from one of its parts to the next: what it holds is the
\* only Connection outside connections.
LEMMA HeldByOne ==
    ASSUME IInv, NEW w \in Workers, active[w] \in StrandTasks,
           NEW v \in Workers, active[v] \in StrandTasks
    PROVE  v = w
BY DEF IInv, OneDriver, StrandExclusive

LEMMA ConstructedStep ==
    ASSUME IInv, NEW w \in Workers, NEW c \in Conns, Constructed(w, c)
    PROVE  IInv' /\ Reported' = Reported
<1> DEFINE t == [kind |-> "connect", id |-> c]
<1> USE DEF IInv
<1>1. active[w] \in AcceptTasks
    BY Kinds DEF Constructed, TypeOK, AnyTask
<1>2. active[w].peer \in Peers /\ active[w] \in StrandTasks
    BY <1>1, Apart DEF Constructed, AcceptTasks
<1>3. t \in HoldTasks /\ t \in StrandTasks /\ t.id = c
    BY Apart DEF HoldTasks
<1>4. \A v \in Workers : active'[v] = IF v = w THEN t ELSE active[v]
    BY DEF Constructed, TypeOK
<1>5. TypeOK'
    BY <1>2, <1>3 DEF Constructed, TypeOK, Drivers, hist
<1>6. \A v \in Workers : active[v] \notin HoldTasks
    BY <1>1, <1>2, HeldByOne, Apart
<1>7. Alive = connections /\ Reported = connections
    BY <1>6 DEF Alive, Reported, Held, HoldTasks
<1>8. UNCHANGED connections
    BY DEF Constructed
<1>9. Alive' = connections \cup {c} /\ Reported' = connections
    <2>1. Held("connect")' = {c}
        BY <1>4, <1>6 DEF Held, HoldTasks
    <2>2. Held("keep")' = {}
        BY <1>4, <1>6 DEF Held, HoldTasks
    <2> QED BY <1>8, <2>1, <2>2 DEF Alive, Reported
<1>10. HeldApart'
    BY <1>3, <1>4, <1>6, <1>8 DEF HeldApart, Constructed
<1>11. rd[c] = "none"
    BY <1>7 DEF Constructed, OneDriver, DrivenAreLive
<1>12. \A d \in Conns : rd'[d] = IF d = c THEN "armed" ELSE rd[d]
    BY DEF Constructed, TypeOK
<1>13. \A d \in Conns : peerOf'[d] = IF d = c THEN active[w].peer ELSE peerOf[d]
    BY DEF Constructed, TypeOK
<1>14. DrivenAreLive'
    BY <1>2, <1>7, <1>9, <1>12, <1>13 DEF OneDriver, DrivenAreLive
<1>15. ReadersOwn'
    BY <1>3, <1>4, <1>11, <1>12, Apart DEF OneDriver, ReadersOwn, ReadTasks
<1>16. ClosersOwn'
    BY <1>3, <1>4, <1>11, <1>12, Apart DEF Constructed, OneDriver, ClosersOwn, DisconnectTasks
<1>17. StrandExclusive'
    BY <1>2, <1>3, <1>4 DEF OneDriver, StrandExclusive
<1> QED BY <1>5, <1>7, <1>9, <1>10, <1>14, <1>15, <1>16, <1>17 DEF OneDriver

LEMMA CallConnectStep ==
    ASSUME IInv, NEW w \in Workers, CallConnect(w)
    PROVE  IInv' /\ active[w].id \in Conns \ Reported
                 /\ Reported' = Reported \cup {active[w].id}
<1> DEFINE c == active[w].id
           t == [kind |-> "keep", id |-> c]
<1> USE DEF IInv
<1>1. active[w] \in HoldTasks /\ active[w] \in StrandTasks
    BY Kinds, Apart DEF CallConnect, TypeOK, AnyTask
<1>2. c \in Conns /\ active[w] = [kind |-> "connect", id |-> c] /\ c \notin connections
    BY <1>1 DEF CallConnect, HoldTasks, HeldApart
<1>3. t \in HoldTasks /\ t \in StrandTasks /\ t.id = c
    BY <1>2, Apart DEF HoldTasks
<1>4. \A v \in Workers : active'[v] = IF v = w THEN t ELSE active[v]
    BY DEF CallConnect, TypeOK
<1>5. TypeOK'
    BY <1>3 DEF CallConnect, TypeOK, net, impl
<1>6. \A v \in Workers : v # w => active[v] \notin StrandTasks
    BY <1>1, HeldByOne
<1>7. UNCHANGED <<connections, peerOf, rd, strand>>
    BY DEF CallConnect, impl
<1>8. Held("connect") = {c} /\ Held("keep") = {}
    BY <1>2, <1>6, Apart DEF Held, HoldTasks
<1>9. Held("connect")' = {} /\ Held("keep")' = {c}
    BY <1>2, <1>4, <1>6, Apart DEF Held, HoldTasks
<1>10. UNCHANGED Alive /\ Reported = connections /\ Reported' = connections \cup {c}
    BY <1>7, <1>8, <1>9 DEF Alive, Reported
<1>11. HeldApart'
    BY <1>2, <1>3, <1>4, <1>7 DEF HeldApart
<1>12. DrivenAreLive'
    BY <1>7, <1>10 DEF OneDriver, DrivenAreLive
<1>13. ReadersOwn'
    BY <1>3, <1>4, <1>7, Apart DEF OneDriver, ReadersOwn
<1>14. ClosersOwn'
    BY <1>3, <1>4, <1>7, Apart DEF OneDriver, ClosersOwn
<1>15. StrandExclusive'
    BY <1>1, <1>3, <1>4 DEF OneDriver, StrandExclusive
<1> QED BY <1>2, <1>5, <1>10, <1>11, <1>12, <1>13, <1>14, <1>15 DEF OneDriver

LEMMA EndAcceptStep ==
    ASSUME IInv, NEW w \in Workers, EndAccept(w)
    PROVE  IInv' /\ UNCHANGED Reported
<1> DEFINE c == active[w].id
<1> USE DEF IInv
<1>1. \A v \in Workers : active'[v] = IF v = w THEN Idle ELSE active[v]
    BY Returned DEF EndAccept
<1>2. active[w] \in AnyTask /\ active' \in [Workers -> AnyTask]
    BY Returned DEF EndAccept
<1>3. active[w] \in HoldTasks /\ active[w] \in StrandTasks
    BY <1>2, Kinds, Apart DEF EndAccept
<1>4. c \in Conns /\ active[w] = [kind |-> "keep", id |-> c]
    BY <1>3 DEF EndAccept, HoldTasks
<1>5. TypeOK'
    BY <1>2, <1>4 DEF EndAccept, AcceptAgain, TypeOK, AnyTask, net, hist
<1>6. \A v \in Workers : active'[v] \notin HoldTasks
    BY <1>1, <1>3, HeldByOne, Apart
<1>7. UNCHANGED <<peerOf, rd, strand>> /\ connections' = connections \cup {c}
    BY DEF EndAccept
<1>8. Held("connect") = {} /\ Held("keep") = {c}
    <2>1. \A v \in Workers : v # w => active[v] \notin HoldTasks
        BY <1>3, HeldByOne, Apart
    <2> QED BY <1>4, <2>1 DEF Held, HoldTasks
<1>9. Held("connect")' = {} /\ Held("keep")' = {}
    BY <1>6 DEF Held, HoldTasks
<1>10. UNCHANGED <<Alive, Reported>>
    BY <1>7, <1>8, <1>9 DEF Alive, Reported
<1>11. HeldApart'
    BY <1>6 DEF HeldApart
<1>12. DrivenAreLive'
    BY <1>7, <1>10 DEF OneDriver, DrivenAreLive
<1>13. ReadersOwn'
    BY <1>1, <1>7, Apart DEF OneDriver, ReadersOwn
<1>14. ClosersOwn'
    BY <1>1, <1>7, Apart DEF OneDriver, ClosersOwn
<1>15. StrandExclusive'
    BY <1>1, Apart DEF OneDriver, StrandExclusive
<1> QED BY <1>5, <1>10, <1>11, <1>12, <1>13, <1>14, <1>15 DEF OneDriver

LEMMA EndDisconnectStep ==
    ASSUME IInv, NEW w \in Workers, EndDisconnect(w)
    PROVE  IInv' /\ active[w].id \in Reported /\ Reported' = Reported \ {active[w].id}
<1> DEFINE c == active[w].id
<1> USE DEF IInv
<1>1. \A v \in Workers : active'[v] = IF v = w THEN Idle ELSE active[v]
    BY Returned DEF EndDisconnect
<1>2. active[w] \in AnyTask /\ active' \in [Workers -> AnyTask]
    BY Returned DEF EndDisconnect
<1>3. active[w] \in DisconnectTasks /\ active[w] \in StrandTasks
    BY <1>2, Kinds, Apart DEF EndDisconnect
<1>4. c \in Conns /\ active[w] = [kind |-> "disconnect", id |-> c]
    BY <1>3 DEF DisconnectTasks
<1>5. rd[c] = "closing"
    BY <1>3 DEF OneDriver, ClosersOwn
<1>6. TypeOK'
    BY <1>2, <1>4 DEF EndDisconnect, Erased, TypeOK, AnyTask, Drivers
<1>7. \A d \in Conns : rd'[d] = IF d = c THEN "none" ELSE rd[d]
    BY <1>4 DEF EndDisconnect, TypeOK
<1>8. UNCHANGED strand
    BY DEF EndDisconnect
<1>9. \A v \in Workers : active[v] \notin HoldTasks /\ active'[v] \notin HoldTasks
    BY <1>1, <1>3, HeldByOne, Apart
<1>10. /\ Alive = connections /\ Reported = connections
       /\ Alive' = connections' /\ Reported' = connections'
    BY <1>9 DEF Alive, Reported, Held, HoldTasks
<1>11. c \in connections /\ connections' = connections \ {c} /\ UNCHANGED peerOf
    BY <1>4, <1>5, <1>10 DEF EndDisconnect, Erased, OneDriver, DrivenAreLive
<1>12. HeldApart'
    BY <1>9 DEF HeldApart
<1>13. DrivenAreLive'
    BY <1>7, <1>10, <1>11 DEF OneDriver, DrivenAreLive
<1>14. ReadersOwn'
    BY <1>1, <1>5, <1>7, Apart DEF OneDriver, ReadersOwn, ReadTasks
<1>15. ClosersOwn'
    <2>1. \A i \in 1..Len(strand) : strand[i] \in DisconnectTasks => strand[i].id # c
        BY <1>4 DEF OneDriver, ClosersOwn, DisconnectTasks
    <2>2. \A v \in Workers : active'[v] \notin DisconnectTasks
        BY <1>1, <1>3, Apart DEF OneDriver, StrandExclusive
    <2> QED BY <1>7, <1>8, <2>1, <2>2, <1>1, Apart DEF OneDriver, ClosersOwn, DisconnectTasks
<1>16. StrandExclusive'
    BY <1>1, Apart DEF OneDriver, StrandExclusive
<1> QED BY <1>6, <1>13, <1>14, <1>15, <1>16, <1>10, <1>11, <1>12 DEF OneDriver

LEMMA EndReadMessageStep ==
    ASSUME IInv, NEW w \in Workers, EndReadMessage(w)
    PROVE  /\ IInv' /\ UNCHANGED Reported
           /\ active[w] \in ReadTasks /\ active[w].id \in Alive
<1> DEFINE c == active[w].id
<1> USE DEF IInv
<1>1. \A v \in Workers : active'[v] = IF v = w THEN Idle ELSE active[v]
    BY Returned DEF EndReadMessage
<1>2. active[w] \in AnyTask /\ active' \in [Workers -> AnyTask]
    BY Returned DEF EndReadMessage
<1>3. active[w] \in ReadTasks
    BY <1>2, Kinds DEF EndReadMessage
<1>4. c \in Conns /\ rd[c] = "running"
    BY <1>3 DEF ReadTasks, OneDriver, ReadersOwn
<1>5. c \in Alive /\ peerOf[c] \in Peers
    BY <1>4 DEF OneDriver, DrivenAreLive
<1>6. TypeOK'
    BY <1>2, <1>4 DEF EndReadMessage, TypeOK, AnyTask, Drivers, net
<1>7. \A d \in Conns : rd'[d] = IF d = c THEN "armed" ELSE rd[d]
    BY <1>4 DEF EndReadMessage, TypeOK
<1>8. UNCHANGED <<connections, peerOf, strand>>
    BY DEF EndReadMessage
<1>9. UNCHANGED <<Alive, Reported>> /\ HeldApart'
    BY <1>1, <1>3, <1>8, Apart, HoldsStayKeeps DEF HoldsStay
<1>10. DrivenAreLive'
    BY <1>5, <1>7, <1>8, <1>9 DEF OneDriver, DrivenAreLive
<1>11. ReadersOwn'
    BY <1>1, <1>3, <1>7, Apart DEF OneDriver, ReadersOwn, ReadTasks
<1>12. ClosersOwn'
    BY <1>1, <1>4, <1>7, <1>8, Apart DEF OneDriver, ClosersOwn, DisconnectTasks
<1>13. StrandExclusive'
    BY <1>1, Apart DEF OneDriver, StrandExclusive
<1> QED BY <1>3, <1>5, <1>6, <1>10, <1>11, <1>12, <1>13, <1>9 DEF OneDriver

LEMMA EndReadFailureStep ==
    ASSUME IInv, NEW w \in Workers, EndReadFailure(w)
    PROVE  IInv'
<1> DEFINE c == active[w].id
           t == [kind |-> "disconnect", id |-> c]
<1> USE DEF IInv
<1>1. \A v \in Workers : active'[v] = IF v = w THEN Idle ELSE active[v]
    BY Returned DEF EndReadFailure
<1>2. active[w] \in AnyTask /\ active' \in [Workers -> AnyTask]
    BY Returned DEF EndReadFailure
<1>3. active[w] \in ReadTasks
    BY <1>2, Kinds DEF EndReadFailure
<1>4. c \in Conns /\ rd[c] = "running"
    BY <1>3 DEF ReadTasks, OneDriver, ReadersOwn
<1>5. t \in DisconnectTasks /\ t \in QueuedTasks /\ t.id = c
    BY <1>4, Apart DEF DisconnectTasks
<1>6. /\ strand \in Seq(QueuedTasks)
      /\ strand' = Append(strand, t)
      /\ strand' \in Seq(QueuedTasks)
      /\ Len(strand') = Len(strand) + 1
      /\ \A i \in 1..Len(strand') : strand'[i] = IF i = Len(strand') THEN t ELSE strand[i]
    BY <1>5 DEF EndReadFailure, DisconnectPosted, TypeOK
<1>7. TypeOK'
    BY <1>2, <1>4, <1>6 DEF EndReadFailure, TypeOK, AnyTask, Drivers, net, hist
<1>8. \A d \in Conns : rd'[d] = IF d = c THEN "closing" ELSE rd[d]
    BY <1>4 DEF EndReadFailure, TypeOK
<1>9. UNCHANGED <<connections, peerOf>>
    BY DEF EndReadFailure
<1>10. UNCHANGED Alive /\ HeldApart'
    BY <1>1, <1>3, <1>9, Apart, HoldsStayKeeps DEF HoldsStay
<1>11. DrivenAreLive'
    BY <1>4, <1>8, <1>9, <1>10 DEF OneDriver, DrivenAreLive
<1>12. ReadersOwn'
    BY <1>1, <1>3, <1>8, Apart DEF OneDriver, ReadersOwn, ReadTasks
<1>13. ClosersOwn'
    <2>1. \A i \in 1..Len(strand) : strand[i] \in DisconnectTasks =>
              strand[i].id # c /\ strand[i].id \in Conns
        BY <1>4 DEF OneDriver, ClosersOwn, DisconnectTasks
    <2>2. \A v \in Workers : active'[v] \in DisconnectTasks =>
              /\ active'[v] = active[v] /\ active[v].id # c /\ active[v].id \in Conns
              /\ rd[active[v].id] = "closing"
        BY <1>1, <1>4, Apart DEF OneDriver, ClosersOwn, DisconnectTasks
    <2>3. ASSUME NEW i \in 1..Len(strand'), strand'[i] \in DisconnectTasks
          PROVE  /\ rd'[strand'[i].id] = "closing"
                 /\ \A j \in 1..Len(strand') : strand'[j] = strand'[i] => j = i
                 /\ \A v \in Workers : active'[v] # strand'[i]
        <3>1. CASE i = Len(strand')
            <4>1. strand'[i] = t
                BY <1>6, <3>1
            <4>2. \A j \in 1..Len(strand') : strand'[j] = t => j = i
                <5>1. \A j \in 1..Len(strand') : j # i => j \in 1..Len(strand)
                    BY <1>6, <3>1
                <5> QED BY <1>5, <1>6, <2>1, <3>1, <5>1
            <4> QED BY <1>4, <1>5, <1>8, <2>2, <4>1, <4>2
        <3>2. CASE i # Len(strand')
            <4>1. i \in 1..Len(strand) /\ strand'[i] = strand[i]
                BY <1>6, <3>2
            <4>2. strand[i] # t
                BY <1>5, <2>1, <2>3, <4>1
            <4>3. \A j \in 1..Len(strand') : strand'[j] = strand'[i] => j = i
                BY <1>6, <2>3, <4>1, <4>2 DEF OneDriver, ClosersOwn
            <4>4. \A v \in Workers : active'[v] # strand'[i]
                BY <2>2, <2>3, <4>1 DEF OneDriver, ClosersOwn
            <4>5. rd'[strand'[i].id] = "closing"
                BY <1>8, <2>1, <2>3, <4>1 DEF OneDriver, ClosersOwn
            <4> QED BY <4>3, <4>4, <4>5
        <3> QED BY <3>1, <3>2
    <2>4. \A v \in Workers : active'[v] \in DisconnectTasks => rd'[active'[v].id] = "closing"
        BY <1>8, <2>2
    <2> QED BY <2>3, <2>4 DEF ClosersOwn
<1>14. StrandExclusive'
    BY <1>1, Apart DEF OneDriver, StrandExclusive
<1> QED BY <1>7, <1>11, <1>12, <1>13, <1>14, <1>10 DEF OneDriver

-----------------------------------------------------------------------------
(* The application.                                                        *)

LEMMA PostStep ==
    ASSUME IInv, NEW m \in Modes, NEW ids \in Seq(Conns), Post(m, ids)
    PROVE  IInv'
<1> DEFINE t == [kind |-> "write", mode |-> m, ids |-> ids, msg |-> posts + 1, next |-> 1]
<1> USE DEF IInv
<1>1. t \in QueuedTasks \ DisconnectTasks
    BY DEF QueuedTasks, WriteTasks, DisconnectTasks, TypeOK
<1>2. strand' = Append(strand, t) /\ UNCHANGED <<connections, peerOf, rd, active>>
    BY DEF Post, impl
<1>3. OneDriver' /\ HeldApart'
    BY <1>1, <1>2, AppendKeepsDrivers
<1>4. strand' \in Seq(QueuedTasks)
    BY <1>1, <1>2 DEF TypeOK
<1>5. posts' \in Nat
    BY DEF Post, TypeOK
<1>6. TypeOK'
    BY <1>4, <1>5 DEF Post, TypeOK, net, impl
<1> QED BY <1>3, <1>6

\* A list of IDs that the application was given is a sequence of addresses.
LEMMA IdListsTyped ==
    /\ IdLists \subseteq Seq(Conns)
    /\ <<>> \in Seq(Conns)
<1>1. ASSUME NEW n \in 1..MaxIds, NEW ids \in [1..n -> Known]
      PROVE  ids \in Seq(Conns)
    <2>1. n \in Nat /\ Known \subseteq Conns
        BY BoundsAssumption DEF Known
    <2>2. ids \in [1..n -> Conns]
        BY <2>1
    <2> QED BY <2>1, <2>2
<1> QED BY <1>1 DEF IdLists

LEMMA ApplicationStep ==
    ASSUME IInv, Application
    PROVE  IInv'
<1>1. CASE Publish \/ PublishEx \/ Send
    BY <1>1, PostStep, IdListsTyped DEF Publish, PublishEx, Send, Modes
<1>2. CASE Dispatch \/ Stop \/ RestartThrow \/ \E w \in Workers : Rerun(w)
    <2>1. TypeOK'
        <3>1. CASE Dispatch
            BY <3>1 DEF Dispatch, IInv, TypeOK, CtxTasks, net, impl, hist
        <3>2. CASE Stop
            BY <3>2 DEF Stop, IInv, TypeOK, net, impl, hist
        <3>3. CASE RestartThrow
            BY <3>3 DEF RestartThrow, IInv, TypeOK, net, impl, hist
        <3>4. CASE \E w \in Workers : Rerun(w)
            BY <3>4 DEF Rerun, IInv, TypeOK, net, impl, hist
        <3> QED BY <1>2, <3>1, <3>2, <3>3, <3>4
    <2>2. Untouched
        BY <1>2 DEF Untouched, Dispatch, Stop, RestartThrow, Rerun, impl
    <2> QED BY <2>1, <2>2, UntouchedKeepsDrivers DEF IInv
<1>3. CASE Restart
    <2>1. TypeOK'
        <3>1. strand' \in Seq(QueuedTasks) /\ ctxq' \in SUBSET CtxTasks
            BY <1>3 DEF Restart, CtxTasks
        <3>2. rd' \in [Conns -> Drivers]
            BY <1>3 DEF Restart, Drivers
        <3>3. sess' \in [Peers -> {"new", "backlog", "accepting", "served", "over"}]
            BY <1>3 DEF Restart, IInv, TypeOK
        <3>4. restarts' \in Nat
            BY <1>3 DEF Restart, IInv, TypeOK
        <3>5. /\ accept' = "armed" /\ thrown' = {} /\ stopped' = FALSE
              /\ UNCHANGED <<line, inbox, connections, peerOf, active, restartFailed,
                             posts, written>>
            BY <1>3 DEF Restart, hist
        <3> QED BY <3>1, <3>2, <3>3, <3>4, <3>5 DEF IInv, TypeOK
    <2>2. /\ \A w \in Workers : active'[w] = Idle
          /\ \A c \in Conns : rd'[c] = "none"
          /\ strand' = <<>>
        BY <1>3 DEF Restart, MayRestart
    <2>3. OneDriver' /\ HeldApart'
        BY <2>2, Apart DEF OneDriver, DrivenAreLive, ReadersOwn, ClosersOwn, StrandExclusive,
           HeldApart
    <2> QED BY <2>1, <2>3 DEF IInv
<1> QED BY <1>1, <1>2, <1>3 DEF Application

-----------------------------------------------------------------------------
(* The theorems.                                                           *)

LEMMA NextKeepsIInv == IInv /\ [Next]_vars => IInv'
<1> SUFFICES ASSUME IInv, [Next]_vars PROVE IInv'
    OBVIOUS
<1>1. CASE \E p \in Peers : Peer(p)
    BY <1>1, PeerStep
<1>2. CASE Reactor
    BY <1>2, AcceptReactorStep, ReadReactorStep DEF Reactor
<1>3. CASE \E w \in Workers : Begin(w)
    BY <1>3, BeginStrandStep, BeginReadStep, BeginCtxStep DEF Begin
<1>4. CASE \E w \in Workers : End(w)
    BY <1>4, EndPlainStep, SendNextStep, ConstructedStep, CallConnectStep, EndAcceptStep,
       EndDisconnectStep, EndReadMessageStep, EndReadFailureStep DEF End
<1>5. CASE Application
    BY <1>5, ApplicationStep
<1>6. CASE UNCHANGED vars
    <2>1. Untouched /\ TypeOK'
        BY <1>6 DEF Untouched, vars, net, impl, asio, hist, IInv, TypeOK
    <2> QED BY <2>1, UntouchedKeepsDrivers DEF IInv
<1> QED BY <1>1, <1>2, <1>3, <1>4, <1>5, <1>6 DEF Next

LEMMA IInvHolds == Spec => []IInv
BY InitIInv, NextKeepsIInv, PTL DEF Spec

\* Every variable of the server stays in its type (create.cpp's state and the
\* queues of asio), whatever the peers, the application and the threads do.
THEOREM TypeCorrect == Spec => []TypeOK
<1>1. IInv => TypeOK
    BY DEF IInv
<1> QED BY <1>1, IInvHolds, PTL

\* No handler ever runs on a freed Connection, and a Connection is reported
\* disconnected and freed once: for any number of threads inside run(), although
\* the read handlers of Connection.cpp hold a bare "this" and run off the strand.
THEOREM DriversUnique == Spec => []OneDriver
<1>1. IInv => OneDriver
    BY DEF IInv
<1> QED BY <1>1, IInvHolds, PTL

LEMMA NextImplements == IInv /\ [Next]_vars => [Contract!Next \/ EarlyMessage]_(Contract!vars)
<1> SUFFICES ASSUME IInv, [Next]_vars
             PROVE  [Contract!Next \/ EarlyMessage]_(Contract!vars)
    OBVIOUS
<1> USE DEF Contract!vars, Contract!Next
<1>0. ASSUME HoldsStay, UNCHANGED <<restarts, event>>
      PROVE  UNCHANGED Contract!vars
    BY <1>0, HoldsStayKeeps
<1>1. CASE \E p \in Peers : Peer(p)
    BY <1>0, <1>1 DEF Peer, PeerConnect, PeerSend, PeerClose, PeerReset, impl, asio, hist,
       HoldsStay
<1>2. CASE Reactor
    BY <1>0, <1>2 DEF Reactor, AcceptDone, AcceptFailed, ReadDone, asio, hist, HoldsStay
<1>3. ASSUME NEW w \in Workers, Begin(w) PROVE UNCHANGED Contract!vars
    <2>1. UNCHANGED <<connections, restarts, event>> /\ active[w] = Idle
        BY <1>3 DEF Begin, BeginStrand, BeginRead, BeginCtx, Free, impl, hist
    <2>2. PICK t : t \notin HoldTasks /\ active' = [active EXCEPT ![w] = t]
        <3>1. CASE BeginStrand(w)
            <4>1. Head(strand) \in QueuedTasks
                BY <3>1 DEF BeginStrand, IInv, TypeOK
            <4> QED BY <3>1, <4>1, Apart DEF BeginStrand
        <3>2. ASSUME NEW c \in Conns, BeginRead(w, c)
              PROVE  \E t : t \notin HoldTasks /\ active' = [active EXCEPT ![w] = t]
            <4>1. [kind |-> "read", id |-> c, res |-> rd[c]] \notin HoldTasks
                BY DEF HoldTasks
            <4> QED BY <3>2, <4>1 DEF BeginRead
        <3>3. ASSUME NEW t \in CtxTasks, BeginCtx(w, t)
              PROVE  t \notin HoldTasks /\ active' = [active EXCEPT ![w] = t]
            BY <3>3, Apart DEF BeginCtx
        <3> QED BY <1>3, <3>1, <3>2, <3>3 DEF Begin
    <2>3. \A v \in Workers : active'[v] = IF v = w THEN t ELSE active[v]
        BY <2>2 DEF IInv, TypeOK
    <2> QED BY <1>0, <2>1, <2>2, <2>3, Apart DEF HoldsStay
<1>4. ASSUME NEW w \in Workers, End(w)
      PROVE  [Contract!Next \/ EarlyMessage]_(Contract!vars)
    <2>0. ASSUME Return(w), active[w] \notin HoldTasks, UNCHANGED connections
          PROVE  HoldsStay
        BY <2>0, Returned, Apart DEF HoldsStay
    <2>1. CASE EndAcceptError(w) \/ EndAcceptThrow(w) \/ EndPublish(w) \/ EndSend(w)
               \/ EndReadFailure(w)
        <3>1. Return(w) /\ UNCHANGED <<connections, restarts, event>>
            BY <2>1 DEF EndAcceptError, EndAcceptThrow, EndPublish, EndSend, EndReadFailure,
               impl, hist
        <3>2. active[w] \in AnyTask
            BY <3>1, Returned
        <3>3. active[w] \notin HoldTasks
            BY <2>1, <3>2, Kinds DEF EndAcceptError, EndAcceptThrow, EndPublish, EndSend,
               EndReadFailure
        <3> QED BY <1>0, <2>0, <3>1, <3>3
    <2>2. CASE SendNext(w)
        <3>1. \A v \in Workers : active'[v] \in HoldTasks \/ active[v] \in HoldTasks
                                      => active'[v] = active[v]
            BY <2>2, SendNextIs, Apart DEF IInv, TypeOK
        <3> QED BY <1>0, <2>2, <3>1 DEF SendNext, impl, HoldsStay
    <2>3. ASSUME NEW c \in Conns, Constructed(w, c)
          PROVE  UNCHANGED Contract!vars
        BY <2>3, ConstructedStep DEF Constructed, hist
    <2>4. CASE CallConnect(w)
        BY <2>4, CallConnectStep DEF CallConnect, Contract!Connect
    <2>5. CASE EndAccept(w)
        BY <2>5, EndAcceptStep DEF EndAccept, hist
    <2>6. CASE EndDisconnect(w)
        <3>1. active[w] \in DisconnectTasks
            BY <2>6, Returned, Kinds DEF EndDisconnect
        <3>2. active[w].id \in Conns
            BY <3>1 DEF DisconnectTasks
        <3>3. Contract!Disconnect(active[w].id)
            BY <2>6, EndDisconnectStep DEF EndDisconnect, Contract!Disconnect
        <3> QED BY <3>2, <3>3
    <2>7. CASE EndReadMessage(w)
        <3>1. /\ UNCHANGED <<Reported, restarts>> /\ event' = <<"message", active[w].id>>
              /\ active[w] \in ReadTasks /\ active[w].id \in Alive
            BY <2>7, EndReadMessageStep DEF EndReadMessage
        <3>2. active[w].id \in Conns
            BY <3>1 DEF ReadTasks
        <3>3. CASE active[w].id \in Reported
            BY <3>1, <3>2, <3>3 DEF Contract!Message
        <3>4. CASE active[w].id \in Held("connect")
            BY <3>1, <3>2, <3>4 DEF EarlyMessage, Held
        <3> QED BY <3>1, <3>3, <3>4 DEF Alive, Reported
    <2>8. CASE EndCtx(w)
        <3>1. Return(w) /\ UNCHANGED <<connections, restarts>>
            BY <2>8 DEF EndCtx, impl
        <3>2. active[w] \in AnyTask
            BY <3>1, Returned
        <3>3. UNCHANGED Reported
            BY <2>0, <2>8, <3>1, <3>2, Kinds, HoldsStayKeeps DEF EndCtx
        <3> QED BY <2>8, <3>1, <3>3 DEF EndCtx, Contract!Ready
    <2> QED BY <1>4, <2>1, <2>2, <2>3, <2>4, <2>5, <2>6, <2>7, <2>8 DEF End
<1>5. CASE Application
    <2>1. CASE Restart
        <3>1. \A v \in Workers : active[v] = Idle /\ active'[v] = Idle
            BY <2>1 DEF Restart, MayRestart
        <3>2. UNCHANGED Reported
            BY <2>1, <3>1, HoldsStayKeeps DEF Restart, HoldsStay
        <3> QED BY <2>1, <3>2 DEF Restart, Contract!Restart, hist
    <2>2. CASE Application /\ ~Restart
        BY <1>0, <2>2 DEF Application, Publish, PublishEx, Send, Post, Dispatch, Stop, Rerun,
           RestartThrow, impl, hist, HoldsStay
    <2> QED BY <1>5, <2>1, <2>2
<1>6. CASE UNCHANGED vars
    BY <1>0, <1>6 DEF vars, impl, asio, hist, HoldsStay
<1> QED BY <1>1, <1>2, <1>3, <1>4, <1>5, <1>6 DEF Next

\* The server's callbacks follow EventContract, with reused IDs and restarts, for any
\* number of threads: connect, then messages, then one disconnect for every ID, but
\* for messages that a second thread reports while the first is inside the accept
\* handler that is about to report the connection.
THEOREM ServerImplementsContract == Spec => ContractHolds
<1>1. Init => Contract!Init
    BY Apart DEF Init, Contract!Init, Reported, Held, Idle
<1> QED BY <1>1, IInvHolds, NextImplements, PTL DEF Spec, ContractHolds

OneWorker == \A v, w \in Workers : v = w

\* With one thread inside run() there are no such messages: the accept handler and the
\* read handlers never run at the same time, and the contract holds as it stands.
THEOREM OneWorkerKeepsContract ==
    ASSUME OneWorker
    PROVE  Spec => Contract!Spec
<1>1. Init => Contract!Init
    BY Apart DEF Init, Contract!Init, Reported, Held, Idle
<1>2. ~EarlyMessage
    <2> SUFFICES ASSUME EarlyMessage PROVE FALSE
        OBVIOUS
    <2>1. PICK v \in Workers, w \in Workers, c \in Conns :
              active[v] \in ReadTasks /\ active[w] = [kind |-> "connect", id |-> c]
        BY DEF EarlyMessage
    <2>2. v = w
        BY DEF OneWorker
    <2> QED BY <2>1, <2>2 DEF ReadTasks
<1>3. IInv /\ [Next]_vars => [Contract!Next]_(Contract!vars)
    BY <1>2, NextImplements
<1> QED BY <1>1, <1>3, IInvHolds, PTL DEF Spec, Contract!Spec

-----------------------------------------------------------------------------
(* Messages are written in the order of the calls: along the way from the  *)
(* call to the socket, what is ahead has the smaller number; and the task  *)
(* of a send() goes up the list of its IDs.  One worker at a time inside   *)
(* the strand (StrandExclusive) is what keeps it so.                       *)

WritesWaiting == {i \in 1..Len(strand) : strand[i] \in WriteTasks}

WritesRunning == {w \in Workers : active[w] \in WriteTasks}

\* The message numbered n was posted before every write that still waits.
BeforeWaiting(n) == n <= posts /\ \A i \in WritesWaiting : n < strand[i].msg

\* What the task that a worker is inside of writes next.
ToWrite(w) == <<active[w].msg, active[w].next>>

WritesOrdered ==
    /\ \A i, j \in WritesWaiting : i < j => strand[i].msg < strand[j].msg
    /\ \A i \in WritesWaiting : strand[i].msg <= posts
    /\ \A w \in WritesRunning : BeforeWaiting(active[w].msg)
    /\ \A p \in Peers : \A n \in 1..Len(written[p]) :
          /\ BeforeWaiting(written[p][n][1])
          /\ \A w \in WritesRunning : Before(written[p][n], ToWrite(w))

WInv == IInv /\ WritesOrdered /\ WritesInOrder

\* Steps that write nothing: no write is posted, begun or ended, though another
\* task may be posted.
NoWrite == /\ UNCHANGED <<posts, written>>
           /\ \/ UNCHANGED strand
              \/ \E t \in QueuedTasks \ WriteTasks : strand' = Append(strand, t)
           /\ \A w \in Workers : active'[w] \in WriteTasks => active'[w] = active[w]

LEMMA NoWriteKeepsOrder ==
    ASSUME WInv, NoWrite
    PROVE  WritesOrdered' /\ WritesInOrder'
<1>1. strand \in Seq(QueuedTasks)
    BY DEF WInv, IInv, TypeOK
<1>2. WritesWaiting' = WritesWaiting /\ \A i \in WritesWaiting : strand'[i] = strand[i]
    <2>1. CASE UNCHANGED strand
        BY <2>1 DEF WritesWaiting
    <2>2. ASSUME NEW t \in QueuedTasks \ WriteTasks, strand' = Append(strand, t)
          PROVE  /\ WritesWaiting' = WritesWaiting
                 /\ \A i \in WritesWaiting : strand'[i] = strand[i]
        <3>1. /\ Len(strand') = Len(strand) + 1 /\ Len(strand) \in Nat
              /\ \A i \in 1..Len(strand) : strand'[i] = strand[i]
              /\ strand'[Len(strand) + 1] = t
            BY <1>1, <2>2
        <3>2. 1..Len(strand') = (1..Len(strand)) \cup {Len(strand) + 1}
            BY ONLY <3>1
        <3> QED BY <3>1, <3>2 DEF WritesWaiting
    <2> QED BY <2>1, <2>2 DEF NoWrite
<1>3. WritesRunning' \subseteq WritesRunning
      /\ \A w \in WritesRunning' : active'[w] = active[w]
    BY DEF NoWrite, WritesRunning
<1>4. \A n : BeforeWaiting(n) => BeforeWaiting(n)'
    BY <1>2 DEF BeforeWaiting, NoWrite
<1>5. posts' = posts /\ written' = written
    BY DEF NoWrite
<1>6. WritesOrdered'
    BY <1>2, <1>3, <1>4, <1>5 DEF WInv, WritesOrdered, ToWrite
<1>7. WritesInOrder'
    BY <1>5 DEF WInv, WritesInOrder
<1> QED BY <1>6, <1>7

\* The oldest task goes to a worker: what stays behind was posted after it.
LEMMA BeginStrandKeepsOrder ==
    ASSUME WInv, NEW w \in Workers, BeginStrand(w)
    PROVE  WritesOrdered' /\ WritesInOrder'
<1>1. /\ strand \in Seq(QueuedTasks) /\ strand # <<>>
      /\ Len(strand') = Len(strand) - 1 /\ Len(strand) \in Nat \ {0}
      /\ \A i \in 1..Len(strand') : strand'[i] = strand[i + 1]
      /\ Head(strand) = strand[1] /\ strand[1] \in QueuedTasks
    BY DEF BeginStrand, WInv, IInv, TypeOK
<1>2. \A v \in Workers : active'[v] = IF v = w THEN strand[1] ELSE active[v]
    BY <1>1 DEF BeginStrand, WInv, IInv, TypeOK
<1>3. \A v \in Workers : active[v] \notin WriteTasks
    BY Apart DEF BeginStrand, StrandFree
<1>4. \A i \in WritesWaiting' : i \in Nat /\ i + 1 \in WritesWaiting /\ 1 < i + 1
    BY <1>1 DEF WritesWaiting
<1>5. \A i \in WritesWaiting' : strand'[i] = strand[i + 1]
    BY <1>1 DEF WritesWaiting
<1>6. posts' = posts /\ written' = written
    BY DEF BeginStrand, hist
<1>7. \A n : BeforeWaiting(n) => BeforeWaiting(n)'
    BY <1>4, <1>5, <1>6 DEF BeforeWaiting
<1>8. ASSUME NEW v \in WritesRunning'
      PROVE  active'[v] = strand[1] /\ 1 \in WritesWaiting
    BY <1>1, <1>2, <1>3 DEF WritesRunning, WritesWaiting
<1>9. ASSUME NEW i \in WritesWaiting', NEW j \in WritesWaiting', i < j
      PROVE  strand'[i].msg < strand'[j].msg
    <2>1. i + 1 < j + 1
        BY <1>4, <1>9
    <2> QED BY <1>4, <1>5, <2>1 DEF WInv, WritesOrdered
<1>10. \A i \in WritesWaiting' : strand'[i].msg <= posts'
    BY <1>4, <1>5, <1>6 DEF WInv, WritesOrdered
<1>11. \A v \in WritesRunning' : BeforeWaiting(active[v].msg)'
    <2> SUFFICES ASSUME NEW v \in WritesRunning' PROVE BeforeWaiting(active[v].msg)'
        OBVIOUS
    <2>1. active'[v] = strand[1] /\ 1 \in WritesWaiting
        BY <1>8
    <2>2. ASSUME NEW i \in WritesWaiting'
          PROVE  strand[1].msg < strand'[i].msg
        BY <1>4, <1>5, <2>1 DEF WInv, WritesOrdered
    <2> QED BY <1>6, <2>1, <2>2 DEF WInv, WritesOrdered, BeforeWaiting
<1>12. ASSUME NEW p \in Peers, NEW n \in 1..Len(written[p])
       PROVE  /\ BeforeWaiting(written[p][n][1])'
              /\ \A v \in WritesRunning' : Before(written[p][n], ToWrite(v)')
    <2>1. BeforeWaiting(written[p][n][1])
        BY DEF WInv, WritesOrdered
    <2> QED BY <1>6, <1>7, <1>8, <2>1 DEF BeforeWaiting, Before, ToWrite
<1>13. WritesOrdered'
    BY <1>6, <1>9, <1>10, <1>11, <1>12 DEF WritesOrdered, BeforeWaiting
<1>14. WritesInOrder'
    BY <1>6 DEF WInv, WritesInOrder
<1> QED BY <1>13, <1>14

LEMMA BeforeTransitive ==
    ASSUME NEW x \in Nat \X Nat, NEW y \in Nat \X Nat, NEW z \in Nat \X Nat,
           Before(x, y), Before(y, z)
    PROVE  Before(x, z)
<1>1. /\ x[1] \in Nat /\ x[2] \in Nat /\ y[1] \in Nat /\ y[2] \in Nat
      /\ z[1] \in Nat /\ z[2] \in Nat
    OBVIOUS
<1> QED BY <1>1 DEF Before

\* The task writes its message, which is newer than all that was written and older
\* than all that waits.
LEMMA WriteKeepsOrder ==
    ASSUME WInv, NEW w \in Workers, active[w] \in WriteTasks,
           NEW to, WrittenTo(to, ToWrite(w)), UNCHANGED <<strand, posts>>,
           \A v \in WritesRunning' : ToWrite(v)' = <<active[w].msg, active[w].next + 1>>
    PROVE  WritesOrdered' /\ WritesInOrder'
<1> DEFINE m == ToWrite(w)
<1>1. m \in Nat \X Nat /\ m = <<active[w].msg, active[w].next>> /\ m[1] = active[w].msg
    BY DEF WriteTasks, ToWrite
<1>2. WritesWaiting' = WritesWaiting /\ \A n : BeforeWaiting(n)' <=> BeforeWaiting(n)
    BY DEF WritesWaiting, BeforeWaiting
<1>3. w \in WritesRunning /\ BeforeWaiting(m[1])
    BY <1>1 DEF WInv, WritesOrdered, WritesRunning
<1>4. ASSUME NEW p \in Peers
      PROVE  /\ written[p] \in Seq(Nat \X Nat)
             /\ written'[p] \in {written[p], Append(written[p], m)}
    BY DEF WrittenTo, WInv, IInv, TypeOK
<1>5. ASSUME NEW p \in Peers, written'[p] = Append(written[p], m)
      PROVE  /\ \A i \in 1..Len(written[p]) : written'[p][i] = written[p][i]
             /\ Len(written'[p]) = Len(written[p]) + 1 /\ Len(written[p]) \in Nat
             /\ written'[p][Len(written[p]) + 1] = m
             /\ \A i \in 1..Len(written'[p]) :
                   i \in 1..Len(written[p]) \/ i = Len(written[p]) + 1
    <2>1. /\ \A i \in 1..Len(written[p]) : written'[p][i] = written[p][i]
          /\ Len(written'[p]) = Len(written[p]) + 1 /\ Len(written[p]) \in Nat
          /\ written'[p][Len(written[p]) + 1] = m
        BY <1>1, <1>4, <1>5
    <2>2. \A i \in 1..Len(written'[p]) : i \in 1..Len(written[p]) \/ i = Len(written[p]) + 1
        BY ONLY <2>1
    <2> QED BY <2>1, <2>2
<1>6. ASSUME NEW p \in Peers, NEW i \in 1..Len(written[p])
      PROVE  written[p][i] \in Nat \X Nat /\ Before(written[p][i], m)
    BY <1>3, <1>4 DEF WInv, WritesOrdered
<1>7. ASSUME NEW v \in WritesRunning'
      PROVE  ToWrite(v)' \in Nat \X Nat /\ Before(m, ToWrite(v)')
    <2>1. active[w].msg \in Nat /\ active[w].next \in Nat
        BY DEF WriteTasks
    <2>2. active[w].next + 1 \in Nat /\ active[w].next < active[w].next + 1
        BY ONLY <2>1
    <2> QED BY <1>1, <2>1, <2>2 DEF Before
<1> HIDE DEF m
<1>8. ASSUME NEW p \in Peers, NEW n \in 1..Len(written'[p])
      PROVE  /\ BeforeWaiting(written'[p][n][1])
             /\ \A v \in WritesRunning' : Before(written'[p][n], ToWrite(v)')
    <2>1. CASE n \in 1..Len(written[p]) /\ written'[p][n] = written[p][n]
        <3>1. BeforeWaiting(written[p][n][1])
            BY <2>1 DEF WInv, WritesOrdered
        <3>2. \A v \in WritesRunning' : Before(written[p][n], ToWrite(v)')
            BY <1>1, <1>6, <1>7, <2>1, BeforeTransitive
        <3> QED BY <2>1, <3>1, <3>2
    <2>2. CASE written'[p][n] = m
        BY <1>3, <1>7, <2>2
    <2>3. CASE written'[p] = written[p]
        BY <2>1, <2>3
    <2>4. CASE written'[p] = Append(written[p], m)
        BY <1>5, <2>1, <2>2, <2>4
    <2> QED BY <1>4, <2>3, <2>4
<1>9. ASSUME NEW p \in Peers, NEW i \in 1..Len(written'[p]), NEW j \in 1..Len(written'[p]),
             i < j
      PROVE  Before(written'[p][i], written'[p][j])
    <2>1. CASE written'[p] = written[p]
        BY <1>9, <2>1 DEF WInv, WritesInOrder
    <2>2. CASE written'[p] = Append(written[p], m)
        <3>1. /\ i \in 1..Len(written[p])
              /\ j \in 1..Len(written[p]) \/ j = Len(written[p]) + 1
            BY <1>5, <1>9, <2>2
        <3>2. CASE j \in 1..Len(written[p])
            BY <1>5, <1>9, <2>2, <3>1, <3>2 DEF WInv, WritesInOrder
        <3>3. CASE j = Len(written[p]) + 1
            BY <1>5, <1>6, <2>2, <3>1, <3>3
        <3> QED BY <3>1, <3>2, <3>3
    <2> QED BY <1>4, <2>1, <2>2
<1>10. ASSUME NEW v \in WritesRunning'
       PROVE  BeforeWaiting(active[v].msg)'
    <2>1. ToWrite(v)' = <<active[w].msg, active[w].next + 1>>
        BY <1>10
    <2>2. active'[v].msg = active[w].msg
        BY <2>1 DEF ToWrite
    <2> QED BY <1>1, <1>2, <1>3, <2>2 DEF BeforeWaiting
<1>11. /\ \A i, j \in WritesWaiting' : i < j => strand'[i].msg < strand'[j].msg
       /\ \A i \in WritesWaiting' : strand'[i].msg <= posts'
    BY <1>2 DEF WInv, WritesOrdered
<1>12. \A p \in Peers : \A n \in 1..Len(written'[p]) :
           /\ BeforeWaiting(written[p][n][1])'
           /\ \A v \in WritesRunning' : Before(written'[p][n], ToWrite(v)')
    BY <1>2, <1>8 DEF BeforeWaiting
<1>13. WritesOrdered'
    BY <1>10, <1>11, <1>12 DEF WritesOrdered, Before
<1>14. WritesInOrder'
    BY <1>9 DEF WritesInOrder, Before
<1> QED BY <1>13, <1>14

LEMMA EndPublishKeepsOrder ==
    ASSUME WInv, NEW w \in Workers, EndPublish(w)
    PROVE  WritesOrdered' /\ WritesInOrder'
<1>1. active[w] \in WriteTasks /\ active[w] \in StrandTasks
    <2>1. active[w] \in AnyTask
        BY Returned DEF EndPublish, WInv
    <2> QED BY <2>1, Kinds, Apart DEF EndPublish
<1>2. \A v \in Workers : active'[v] = IF v = w THEN Idle ELSE active[v]
    BY Returned DEF EndPublish, WInv
<1>3. WritesRunning' = {}
    BY <1>1, <1>2, HeldByOne, Apart DEF WritesRunning, WInv
<1> QED BY <1>1, <1>3, WriteKeepsOrder DEF EndPublish, ToWrite

LEMMA SendNextKeepsOrder ==
    ASSUME WInv, NEW w \in Workers, SendNext(w)
    PROVE  WritesOrdered' /\ WritesInOrder'
<1> DEFINE t == [active[w] EXCEPT !.next = @ + 1]
<1>1. active[w] \in WriteTasks /\ t \in WriteTasks /\ active' = [active EXCEPT ![w] = t]
    BY SendNextIs DEF WInv
<1>2. t.msg = active[w].msg /\ t.next = active[w].next + 1
    BY <1>1 DEF WriteTasks
<1> HIDE DEF t
<1>3. \A v \in Workers : active'[v] = IF v = w THEN t ELSE active[v]
    BY <1>1 DEF WInv, IInv, TypeOK
<1>4. \A v \in WritesRunning' : v = w
    BY <1>1, <1>3, HeldByOne, Apart DEF WritesRunning, WInv
<1>5. ASSUME NEW v \in WritesRunning'
      PROVE  ToWrite(v)' = <<active[w].msg, active[w].next + 1>>
    BY <1>2, <1>3, <1>4 DEF ToWrite
<1>6. UNCHANGED <<strand, posts>>
    BY DEF SendNext
<1> QED BY <1>1, <1>5, <1>6, WriteKeepsOrder DEF SendNext, ToWrite

\* A call gives its message the next number and a place behind all others.
LEMMA PostKeepsOrder ==
    ASSUME WInv, NEW k \in Modes, NEW ids, Post(k, ids)
    PROVE  WritesOrdered' /\ WritesInOrder'
<1> DEFINE t == [kind |-> "write", mode |-> k, ids |-> ids, msg |-> posts + 1, next |-> 1]
<1>1. strand \in Seq(QueuedTasks) /\ posts \in Nat
    BY DEF WInv, IInv, TypeOK
<1>2. strand' = Append(strand, t) /\ posts' = posts + 1 /\ t.msg = posts + 1
      /\ written' = written /\ active' = active
    BY DEF Post, impl
<1> HIDE DEF t
<1>3. /\ Len(strand') = Len(strand) + 1 /\ Len(strand) \in Nat
      /\ \A i \in 1..Len(strand) : strand'[i] = strand[i]
      /\ strand'[Len(strand) + 1] = t
    BY <1>1, <1>2
<1>4. 1..Len(strand') = (1..Len(strand)) \cup {Len(strand) + 1}
    BY ONLY <1>3
<1>5. \A i \in WritesWaiting' :
          \/ i \in WritesWaiting /\ strand'[i] = strand[i] /\ i < Len(strand) + 1
          \/ i = Len(strand) + 1 /\ strand'[i] = t
    BY <1>3, <1>4 DEF WritesWaiting
<1>6. \A i \in WritesWaiting : strand[i].msg \in Nat /\ strand[i].msg <= posts
    BY DEF WInv, WritesOrdered, WritesWaiting, WriteTasks
<1>7. ASSUME NEW n \in Nat, BeforeWaiting(n)
      PROVE  n <= posts' /\ \A i \in WritesWaiting' : n < strand'[i].msg
    <2>1. n <= posts /\ \A i \in WritesWaiting : n < strand[i].msg
        BY <1>7 DEF BeforeWaiting
    <2>2. n <= posts + 1 /\ n < posts + 1
        BY ONLY <1>1, <2>1, n \in Nat
    <2> QED BY <1>2, <1>5, <2>1, <2>2
<1>8. WritesRunning' = WritesRunning /\ \A w \in WritesRunning : active[w].msg \in Nat
    BY <1>2 DEF WritesRunning, WriteTasks
<1>9. \A p \in Peers : \A n \in 1..Len(written[p]) : written[p][n][1] \in Nat
    <2>1. \A p \in Peers : written[p] \in Seq(Nat \X Nat)
        BY DEF WInv, IInv, TypeOK
    <2> QED BY <2>1
<1>10. ASSUME NEW i \in WritesWaiting', NEW j \in WritesWaiting', i < j
       PROVE  strand'[i].msg < strand'[j].msg
    <2>1. i \in Nat /\ j \in Nat
        BY <1>3 DEF WritesWaiting
    <2>2. i \in WritesWaiting /\ strand'[i] = strand[i]
        BY <1>3, <1>5, <1>10, <2>1 DEF WritesWaiting
    <2>3. CASE j \in WritesWaiting /\ strand'[j] = strand[j]
        BY <1>10, <2>2, <2>3 DEF WInv, WritesOrdered
    <2>4. CASE j = Len(strand) + 1 /\ strand'[j] = t
        BY <1>1, <1>2, <1>6, <2>2, <2>4
    <2> QED BY <1>5, <2>3, <2>4
<1>11. ASSUME NEW i \in WritesWaiting'
       PROVE  strand'[i].msg <= posts'
    <2>1. CASE i \in WritesWaiting /\ strand'[i] = strand[i]
        <3>1. strand[i].msg \in Nat /\ strand[i].msg <= posts
            BY <1>6, <2>1
        <3>2. strand[i].msg <= posts + 1
            BY ONLY <1>1, <3>1
        <3> QED BY <1>2, <2>1, <3>2
    <2>2. CASE strand'[i] = t
        <3>1. posts + 1 <= posts + 1
            BY ONLY <1>1
        <3> QED BY <1>2, <2>2, <3>1
    <2> QED BY <1>5, <2>1, <2>2
<1>12. ASSUME NEW w \in WritesRunning'
       PROVE  BeforeWaiting(active[w].msg)'
    <2>1. active'[w] = active[w] /\ active[w].msg \in Nat /\ BeforeWaiting(active[w].msg)
        BY <1>2, <1>8 DEF WInv, WritesOrdered
    <2> QED BY <1>7, <2>1 DEF BeforeWaiting
<1>13. ASSUME NEW p \in Peers, NEW n \in 1..Len(written[p])
       PROVE  /\ BeforeWaiting(written[p][n][1])'
              /\ \A w \in WritesRunning' : Before(written[p][n], ToWrite(w)')
    <2>1. /\ written[p][n][1] \in Nat /\ BeforeWaiting(written[p][n][1])
          /\ \A w \in WritesRunning : Before(written[p][n], ToWrite(w))
        BY <1>9 DEF WInv, WritesOrdered
    <2> QED BY <1>2, <1>7, <1>8, <2>1 DEF BeforeWaiting, ToWrite
<1>14. WritesOrdered'
    BY <1>2, <1>10, <1>11, <1>12, <1>13 DEF WritesOrdered, BeforeWaiting
<1>15. WritesInOrder'
    BY <1>2 DEF WInv, WritesInOrder
<1> QED BY <1>14, <1>15

LEMMA ReturnedFromOther ==
    ASSUME WInv, NEW w \in Workers, Return(w)
    PROVE  \A v \in Workers : active'[v] \in WriteTasks => active'[v] = active[v]
<1>1. Idle \notin WriteTasks
    BY Apart
<1> QED BY <1>1, Returned DEF WInv

LEMMA EndKeepsOrder ==
    ASSUME WInv, NEW w \in Workers, End(w), ~EndPublish(w), ~SendNext(w)
    PROVE  WritesOrdered' /\ WritesInOrder'
<1>1. UNCHANGED <<posts, written>>
    BY DEF End, EndAcceptError, EndAcceptThrow, Constructed, CallConnect, EndAccept,
       EndDisconnect, EndSend, EndReadMessage, EndReadFailure, EndCtx, hist
<1>2. \/ UNCHANGED strand
      \/ \E t \in QueuedTasks \ WriteTasks : strand' = Append(strand, t)
    <2>1. CASE EndReadFailure(w)
        <3>1. active[w] \in AnyTask
            BY <2>1, Returned DEF EndReadFailure, WInv
        <3>2. active[w].id \in Conns
            BY <2>1, <3>1, Kinds DEF EndReadFailure, ReadTasks
        <3>3. [kind |-> "disconnect", id |-> active[w].id] \in QueuedTasks \ WriteTasks
            BY <3>2 DEF QueuedTasks, DisconnectTasks, WriteTasks
        <3> QED BY <2>1, <3>3 DEF EndReadFailure, DisconnectPosted
    <2>2. CASE ~EndReadFailure(w)
        BY <2>2 DEF End, EndAcceptError, EndAcceptThrow, Constructed, CallConnect, EndAccept,
           EndDisconnect, EndSend, EndReadMessage, EndCtx, impl
    <2> QED BY <2>1, <2>2
<1>3. \A v \in Workers : active'[v] \in WriteTasks => active'[v] = active[v]
    <2>1. CASE Return(w)
        BY <2>1, ReturnedFromOther
    <2>2. ASSUME NEW t, t \notin WriteTasks, active' = [active EXCEPT ![w] = t]
          PROVE  \A v \in Workers : active'[v] \in WriteTasks => active'[v] = active[v]
        BY <2>2 DEF WInv, IInv, TypeOK
    <2>3. CASE CallConnect(w)
        <3>1. [kind |-> "keep", id |-> active[w].id] \notin WriteTasks
            BY DEF WriteTasks
        <3> QED BY <2>2, <2>3, <3>1 DEF CallConnect
    <2>4. ASSUME NEW c \in Conns, Constructed(w, c)
          PROVE  \A v \in Workers : active'[v] \in WriteTasks => active'[v] = active[v]
        <3>1. [kind |-> "connect", id |-> c] \notin WriteTasks
            BY DEF WriteTasks
        <3> QED BY <2>2, <2>4, <3>1 DEF Constructed
    <2> QED BY <2>1, <2>3, <2>4 DEF End, EndAcceptError, EndAcceptThrow, EndAccept,
            EndDisconnect, EndSend, EndReadMessage, EndReadFailure, EndCtx
<1> QED BY <1>1, <1>2, <1>3, NoWriteKeepsOrder DEF NoWrite

LEMMA InitWInv == Init => WInv
<1> SUFFICES ASSUME Init PROVE WInv
    OBVIOUS
<1>1. /\ strand = <<>>
      /\ \A w \in Workers : active[w] = Idle
      /\ \A p \in Peers : written[p] = <<>>
    BY DEF Init
<1>2. WritesWaiting = {} /\ WritesRunning = {}
    BY <1>1, Apart DEF WritesWaiting, WritesRunning
<1>3. \A p \in Peers : 1..Len(written[p]) = {}
    <2> SUFFICES ASSUME NEW p \in Peers PROVE 1..Len(written[p]) = {}
        OBVIOUS
    <2>1. written[p] = <<>>
        BY <1>1
    <2> QED BY ONLY <2>1
<1>4. WritesOrdered /\ WritesInOrder
    BY <1>2, <1>3 DEF WritesOrdered, WritesInOrder
<1> QED BY <1>4, InitIInv DEF WInv

LEMMA NextKeepsWInv == WInv /\ [Next]_vars => WInv'
<1> SUFFICES ASSUME WInv, [Next]_vars PROVE WInv'
    OBVIOUS
<1>1. IInv'
    BY NextKeepsIInv DEF WInv
<1>2. WritesOrdered' /\ WritesInOrder'
    <2>1. CASE \E p \in Peers : Peer(p)
        BY <2>1, NoWriteKeepsOrder DEF NoWrite, Peer, PeerConnect, PeerSend, PeerClose,
           PeerReset, asio, hist
    <2>2. CASE Reactor
        <3>1. UNCHANGED <<posts, written, active>>
            BY <2>2 DEF Reactor, AcceptDone, AcceptFailed, ReadDone, asio, hist
        <3>2. \A p \in Peers \cup {None} :
                  [kind |-> "accept", peer |-> p] \in QueuedTasks \ WriteTasks
            BY DEF QueuedTasks, AcceptTasks, WriteTasks
        <3>3. \/ UNCHANGED strand
              \/ \E t \in QueuedTasks \ WriteTasks : strand' = Append(strand, t)
            BY <2>2, <3>2 DEF Reactor, AcceptDone, AcceptFailed, ReadDone, asio
        <3> QED BY <3>1, <3>3, NoWriteKeepsOrder DEF NoWrite
    <2>3. ASSUME NEW w \in Workers, Begin(w)
          PROVE  WritesOrdered' /\ WritesInOrder'
        <3>1. CASE BeginStrand(w)
            BY <3>1, BeginStrandKeepsOrder
        <3>2. ASSUME NEW t, t \notin WriteTasks, active' = [active EXCEPT ![w] = t],
                     UNCHANGED <<posts, written, strand>>
              PROVE  WritesOrdered' /\ WritesInOrder'
            <4>1. \A v \in Workers : active'[v] = IF v = w THEN t ELSE active[v]
                BY <3>2 DEF WInv, IInv, TypeOK
            <4> QED BY <3>2, <4>1, NoWriteKeepsOrder DEF NoWrite
        <3>3. ASSUME NEW c \in Conns, BeginRead(w, c)
              PROVE  WritesOrdered' /\ WritesInOrder'
            <4>1. [kind |-> "read", id |-> c, res |-> rd[c]] \notin WriteTasks
                BY DEF WriteTasks
            <4> QED BY <3>2, <3>3, <4>1 DEF BeginRead, hist
        <3>4. ASSUME NEW t \in CtxTasks, BeginCtx(w, t)
              PROVE  WritesOrdered' /\ WritesInOrder'
            <4>1. t \notin WriteTasks
                BY DEF CtxTasks, WriteTasks
            <4> QED BY <3>2, <3>4, <4>1 DEF BeginCtx, hist
        <3> QED BY <2>3, <3>1, <3>3, <3>4 DEF Begin
    <2>4. CASE \E w \in Workers : End(w)
        BY <2>4, EndPublishKeepsOrder, SendNextKeepsOrder, EndKeepsOrder
    <2>5. CASE Application
        <3>1. CASE Publish \/ PublishEx \/ Send
            BY <3>1, PostKeepsOrder DEF Publish, PublishEx, Send, Modes
        <3>2. CASE Dispatch \/ Stop \/ RestartThrow \/ \E w \in Workers : Rerun(w)
            <4>1. UNCHANGED <<posts, written, strand, active>>
                BY <3>2 DEF Dispatch, Stop, RestartThrow, Rerun, hist
            <4> QED BY <4>1, NoWriteKeepsOrder DEF NoWrite
        <3>3. CASE Restart
            <4>1. strand' = <<>> /\ UNCHANGED <<posts, written, active>>
                  /\ \A w \in Workers : active'[w] = Idle
                BY <3>3 DEF Restart, MayRestart, hist
            <4>2. WritesWaiting' = {} /\ WritesRunning' = {}
                BY <4>1, Apart DEF WritesWaiting, WritesRunning
            <4> QED BY <4>1, <4>2 DEF WInv, WritesOrdered, WritesInOrder, BeforeWaiting, Before
        <3> QED BY <2>5, <3>1, <3>2, <3>3 DEF Application
    <2>6. CASE UNCHANGED vars
        BY <2>6, NoWriteKeepsOrder DEF NoWrite, vars, asio, hist
    <2> QED BY <2>1, <2>2, <2>3, <2>4, <2>5, <2>6 DEF Next
<1> QED BY <1>1, <1>2 DEF WInv

\* publish, publish_ex and send only post: however many threads are inside run(),
\* every socket is handed its messages in the order of the calls, and those of a
\* send() in the order of its IDs, none of them twice, over stop and restart.  (An ID
\* that is in the list twice is two entries, and its socket is written to twice.)
THEOREM WritesKeepOrder == Spec => []WritesInOrder
<1>1. WInv => WritesInOrder
    BY DEF WInv
<1> QED BY <1>1, InitWInv, NextKeepsWInv, PTL DEF Spec

-----------------------------------------------------------------------------
(* The framing.                                                            *)
-----------------------------------------------------------------------------
(* Types and bounds.                                                       *)

Bytes == (1..Len(sent)) \X Nat

BytesWritten == /\ stream \in Seq(Bytes) /\ rbuf \in Seq(Bytes)
                /\ delivered \in Seq(Seq(Nat \X Nat))

StreamInv == StreamTypeOK /\ BytesWritten /\ ReadsInBounds

LEMMA InitStreamInv == StreamInit => StreamInv
<1> SUFFICES ASSUME StreamInit PROVE StreamInv
    OBVIOUS
<1>1. StreamTypeOK
    <2>1. sent \in Seq(Sizes) /\ Len(rbuf) = 0 /\ Len(stream) = 0
        BY DEF StreamInit
    <2>2. pos = 0 /\ size \in Nat /\ Len(stream) <= Capacity
        BY <2>1, SizesAssumption DEF StreamInit
    <2>3. truncated \in BOOLEAN /\ closed \in BOOLEAN
        BY DEF StreamInit
    <2>4. pos \in Nat /\ Len(rbuf) = pos /\ phase \in {"header", "body", "down"}
        BY <2>1, <2>2 DEF StreamInit
    <2> QED BY <2>1, <2>2, <2>3, <2>4 DEF StreamTypeOK
<1>2. BytesWritten
    BY DEF StreamInit, BytesWritten
<1>3. ReadsInBounds
    BY SizesAssumption DEF StreamInit, ReadsInBounds
<1> QED BY <1>1, <1>2, <1>3 DEF StreamInv

\* Any part of a frame consists of bytes of that frame.
LEMMA FrameTyped ==
    ASSUME NEW n \in Nat, NEW s \in Nat, NEW k \in Nat, k <= HeaderSize + s
    PROVE  /\ SubSeq(Frame(n, s), 1, k) \in Seq({n} \X Nat)
           /\ Len(SubSeq(Frame(n, s), 1, k)) = k
<1>1. HeaderSize + s \in Nat
    BY SizesAssumption
<1>2. Frame(n, s) \in Seq({n} \X Nat) /\ Len(Frame(n, s)) = HeaderSize + s
    BY <1>1 DEF Frame
<1> QED BY <1>1, <1>2

\* sent only grows, so the bytes of written frames stay such.
LEMMA WriteStep == ASSUME StreamInv, NEW s \in Sizes, Write(s) PROVE StreamInv'
<1> DEFINE m == Len(sent) + 1
           taken == Taken(HeaderSize + s)
           part == SubSeq(Frame(m, s), 1, taken)
<1>1. /\ sent \in Seq(Sizes) /\ s \in Nat /\ HeaderSize \in Nat
      /\ stream \in Seq(Bytes) /\ Len(stream) <= Capacity /\ Capacity \in Nat
    BY SizesAssumption DEF StreamInv, StreamTypeOK, BytesWritten
<1>2. sent' \in Seq(Sizes) /\ Len(sent') = m /\ m \in Nat
    BY <1>1 DEF Write
<1>3. taken \in Nat /\ taken <= HeaderSize + s /\ Len(stream) + taken <= Capacity
    BY <1>1 DEF Taken, Room, Write
<1>4. part \in Seq({m} \X Nat) /\ Len(part) = taken
    BY <1>1, <1>2, <1>3, FrameTyped
<1>5. Bytes \subseteq Bytes' /\ {m} \X Nat \subseteq Bytes'
    BY <1>1, <1>2 DEF Bytes
<1>6. stream' = stream \o part
    BY DEF Write
<1>7. stream' \in Seq(Bytes') /\ Len(stream') <= Capacity
    BY <1>1, <1>3, <1>4, <1>5, <1>6
<1>8. rbuf' \in Seq(Bytes')
    BY <1>5 DEF Write, reader, StreamInv, BytesWritten
<1>9. delivered' \in Seq(Seq(Nat \X Nat))
    BY DEF Write, reader, StreamInv, BytesWritten
<1>10. StreamTypeOK'
    BY <1>1, <1>2, <1>3, <1>7 DEF Write, reader, StreamInv, StreamTypeOK
<1>11. ReadsInBounds'
    BY DEF Write, reader, StreamInv, ReadsInBounds
<1> QED BY <1>7, <1>8, <1>9, <1>10, <1>11 DEF StreamInv, BytesWritten

\* A read takes n bytes off the stream and puts them behind those of rbuf.
LEMMA Taking ==
    ASSUME StreamInv, NEW n \in Counts, phase # "down"
    PROVE  /\ n \in Nat \ {0} /\ pos + n <= size
           /\ SubSeq(stream, n + 1, Len(stream)) \in Seq(Bytes)
           /\ Len(SubSeq(stream, n + 1, Len(stream))) <= Capacity
           /\ Received(n) \in Seq(Bytes) /\ Len(Received(n)) = pos + n
<1>1. /\ stream \in Seq(Bytes) /\ rbuf \in Seq(Bytes) /\ Len(rbuf) = pos
      /\ pos \in Nat /\ size \in Nat /\ Len(stream) <= Capacity /\ Capacity \in Nat
    BY SizesAssumption DEF StreamInv, StreamTypeOK, BytesWritten
<1>2. n \in 1..Len(stream) /\ n <= size - pos
    BY DEF Counts
<1>3. SubSeq(stream, 1, n) \in Seq(Bytes) /\ Len(SubSeq(stream, 1, n)) = n
    BY <1>1, <1>2
<1>4. /\ SubSeq(stream, n + 1, Len(stream)) \in Seq(Bytes)
      /\ Len(SubSeq(stream, n + 1, Len(stream))) = Len(stream) - n
    BY <1>1, <1>2
<1> QED BY <1>1, <1>2, <1>3, <1>4 DEF Received

LEMMA ReadPartStep == ASSUME StreamInv, NEW n, ReadPart(n) PROVE StreamInv'
<1>1. n \in Counts /\ phase # "down" /\ pos + n # size
    BY DEF ReadPart
<1>2. Bytes' = Bytes
    BY DEF ReadPart, writer, Bytes
<1>3. BytesWritten'
    BY <1>1, <1>2, Taking DEF ReadPart, StreamInv, BytesWritten
<1>4. StreamTypeOK'
    BY <1>1, Taking DEF ReadPart, writer, StreamInv, StreamTypeOK
<1>5. ReadsInBounds'
    BY <1>1, Taking DEF ReadPart, writer, StreamInv, StreamTypeOK, ReadsInBounds
<1> QED BY <1>3, <1>4, <1>5 DEF StreamInv

\* The effect of readHeader(START_INDEX, TCP_HEADER_SIZE).
LEMMA NextHeaderStep ==
    ASSUME StreamInv, NextHeader, UNCHANGED writer,
           stream' \in Seq(Bytes), Len(stream') <= Capacity,
           delivered' \in Seq(Seq(Nat \X Nat))
    PROVE  StreamInv'
<1>1. Bytes' = Bytes
    BY DEF writer, Bytes
<1>2. BytesWritten'
    BY <1>1 DEF NextHeader, BytesWritten
<1>3. StreamTypeOK'
    BY SizesAssumption DEF NextHeader, writer, StreamInv, StreamTypeOK
<1>4. ReadsInBounds'
    BY SizesAssumption DEF NextHeader, ReadsInBounds
<1> QED BY <1>2, <1>3, <1>4 DEF StreamInv

\* The size a header announces was sent, and what is no header announces any.
LEMMA AnnouncedTyped ==
    ASSUME StreamInv, NEW n \in Counts, phase # "down"
    PROVE  Announced(Received(n)) \subseteq Nat
<1>1. Received(n)[1] \in Bytes
    BY Taking DEF StreamInv, StreamTypeOK
<1>2. Received(n)[1][1] \in 1..Len(sent)
    BY <1>1 DEF Bytes
<1>3. sent[Received(n)[1][1]] \in Sizes
    BY <1>2 DEF StreamInv, StreamTypeOK
<1> QED BY <1>3, SizesAssumption DEF Announced

LEMMA ReadHeaderStep == ASSUME StreamInv, NEW n, ReadHeader(n) PROVE StreamInv'
<1>0. delivered' \in Seq(Seq(Nat \X Nat))
    BY DEF ReadHeader, StreamInv, BytesWritten
<1>1. n \in Counts /\ phase # "down" /\ UNCHANGED writer
    BY DEF ReadHeader
<1>2. stream' \in Seq(Bytes) /\ Len(stream') <= Capacity
    BY <1>1, Taking DEF ReadHeader
<1>3. PICK s \in Announced(Received(n)) : StartBody(s)
    BY DEF ReadHeader
<1>4. s \in Nat
    BY <1>1, <1>3, AnnouncedTyped
<1>5. CASE NextHeader
    BY <1>0, <1>1, <1>2, <1>5, NextHeaderStep
<1>6. CASE s > 0 /\ Fits(s) /\ phase' = "body" /\ pos' = 0 /\ size' = s /\ rbuf' = <<>>
    <2>1. Bytes' = Bytes
        BY <1>1 DEF writer, Bytes
    <2>2. BytesWritten'
        BY <1>0, <1>2, <1>6, <2>1 DEF BytesWritten
    <2>3. StreamTypeOK'
        BY <1>1, <1>2, <1>4, <1>6 DEF writer, StreamInv, StreamTypeOK
    <2>4. ReadsInBounds'
        BY <1>4, <1>6 DEF Fits, ReadsInBounds
    <2> QED BY <2>2, <2>3, <2>4 DEF StreamInv
<1>7. CASE phase' = "down" /\ UNCHANGED <<pos, size, rbuf>>
    <2>1. Bytes' = Bytes
        BY <1>1 DEF writer, Bytes
    <2>2. BytesWritten'
        BY <1>0, <1>2, <1>7, <2>1 DEF BytesWritten, StreamInv
    <2>3. StreamTypeOK'
        BY <1>1, <1>2, <1>7 DEF writer, StreamInv, StreamTypeOK
    <2>4. ReadsInBounds'
        BY <1>7 DEF ReadsInBounds
    <2> QED BY <2>2, <2>3, <2>4 DEF StreamInv
<1> QED BY <1>3, <1>5, <1>6, <1>7 DEF StartBody

LEMMA ReadBodyStep == ASSUME StreamInv, NEW n, ReadBody(n) PROVE StreamInv'
<1>1. n \in Counts /\ phase # "down" /\ UNCHANGED writer /\ NextHeader
    BY DEF ReadBody
<1>2. stream' \in Seq(Bytes) /\ Len(stream') <= Capacity
    BY <1>1, Taking DEF ReadBody
<1>3. delivered' \in Seq(Seq(Nat \X Nat))
    <2>1. delivered \in Seq(Seq(Nat \X Nat))
        BY DEF StreamInv, BytesWritten
    <2>2. Received(n) \in Seq(Bytes) /\ Bytes \subseteq Nat \X Nat
        BY <1>1, Taking DEF Bytes
    <2>3. Received(n) \in Seq(Nat \X Nat)
        BY <2>2
    <2> QED BY <2>1, <2>3 DEF ReadBody, Message
<1> QED BY <1>1, <1>2, <1>3, NextHeaderStep

LEMMA OtherSteps == ASSUME StreamInv, Close \/ ReadError \/ UNCHANGED streamVars PROVE StreamInv'
<1>1. Bytes' = Bytes /\ stream' = stream /\ rbuf' = rbuf /\ delivered' = delivered
    BY DEF Close, ReadError, streamVars, writer, reader, Bytes
<1>2. BytesWritten'
    BY <1>1 DEF StreamInv, BytesWritten
<1>3. StreamTypeOK'
    BY <1>1 DEF Close, ReadError, streamVars, writer, reader, StreamInv, StreamTypeOK
<1>4. ReadsInBounds'
    BY DEF Close, ReadError, streamVars, writer, reader, StreamInv, ReadsInBounds
<1> QED BY <1>2, <1>3, <1>4 DEF StreamInv

LEMMA NextIInv == ASSUME StreamInv, [StreamNext]_streamVars PROVE StreamInv'
<1>1. CASE \E s \in Sizes : Write(s)
    BY <1>1, WriteStep
<1>2. CASE \E n \in 1..Len(stream) : ReadPart(n) \/ ReadHeader(n) \/ ReadBody(n)
    BY <1>2, ReadPartStep, ReadHeaderStep, ReadBodyStep
<1>3. CASE Close \/ ReadError \/ UNCHANGED streamVars
    BY <1>3, OtherSteps
<1> QED BY <1>1, <1>2, <1>3 DEF StreamNext, Read

LEMMA StreamInvHolds == StreamSpec => []StreamInv
<1>1. StreamInv /\ [StreamNext]_streamVars => StreamInv'
    BY NextIInv
<1> QED BY InitStreamInv, <1>1, PTL DEF StreamSpec

\* Every variable of a reachable state is in its type: positions and sizes are
\* natural numbers, and r_buffer holds the pos bytes received of the current part.
THEOREM StreamTypeCorrect == StreamSpec => []StreamTypeOK
<1>1. StreamInv => StreamTypeOK
    BY DEF StreamInv
<1> QED BY StreamInvHolds, <1>1, PTL

\* However the stream is cut, however garbled it is after a short write, and
\* whatever sizes it announces: no read of Connection.cpp leaves its part of
\* r_buffer, and no payload longer than Options::buffer is started.
THEOREM ReadsStayInBounds == StreamSpec => []ReadsInBounds
<1>1. StreamInv => ReadsInBounds
    BY DEF StreamInv
<1> QED BY StreamInvHolds, <1>1, PTL

-----------------------------------------------------------------------------
(* The order of the bytes.                                                 *)

\* The bytes of the n-th of the frames whose payloads have the sizes st.
Ends(st, n) == HeaderSize + st[n]

\* The bytes of r follow each other as those frames were written, up to the last.
Follows(r, st) ==
    /\ r \in Seq(Nat \X Nat)
    /\ \A i \in 1..Len(r) : r[i][1] \in 1..Len(st) /\ r[i][2] \in 1..Ends(st, r[i][1])
    /\ \A i \in 1..Len(r) : \A k \in 1..Ends(st, r[i][1]) :
          i + k - r[i][2] >= 1 => /\ i + k - r[i][2] <= Len(r)
                                  /\ r[i + k - r[i][2]] = <<r[i][1], k>>
    /\ \A i \in 1..Len(r) : r[i][2] = Ends(st, r[i][1]) =>
          IF i = Len(r) THEN r[i][1] = Len(st) ELSE r[i + 1] = <<r[i][1] + 1, 1>>

LEMMA FrameBytes ==
    ASSUME NEW n \in Nat, NEW s \in Nat
    PROVE  /\ Frame(n, s) \in Seq(Nat \X Nat) /\ Len(Frame(n, s)) = HeaderSize + s
           /\ \A k \in 1..HeaderSize + s : Frame(n, s)[k] = <<n, k>>
           /\ Payload(n, s) \in Seq(Nat \X Nat) /\ Len(Payload(n, s)) = s
           /\ \A k \in 1..s : Payload(n, s)[k] = <<n, HeaderSize + k>>
           /\ SubSeq(Frame(n, s), 1, HeaderSize + s) = Frame(n, s)
<1>1. HeaderSize \in Nat /\ HeaderSize + s \in Nat
    BY SizesAssumption
<1>2. /\ Frame(n, s) \in Seq(Nat \X Nat) /\ Len(Frame(n, s)) = HeaderSize + s
      /\ \A k \in 1..HeaderSize + s : Frame(n, s)[k] = <<n, k>>
    BY <1>1 DEF Frame
<1> DEFINE f == Frame(n, s)
<1> HIDE DEF f
<1>3. /\ f \in Seq(Nat \X Nat) /\ Len(f) = HeaderSize + s
      /\ \A k \in 1..HeaderSize + s : f[k] = <<n, k>>
    BY <1>2 DEF f
<1>4. /\ SubSeq(f, HeaderSize + 1, HeaderSize + s) \in Seq(Nat \X Nat)
      /\ Len(SubSeq(f, HeaderSize + 1, HeaderSize + s)) = s
      /\ \A k \in 1..s : SubSeq(f, HeaderSize + 1, HeaderSize + s)[k] = <<n, HeaderSize + k>>
    BY <1>1, <1>3
<1>5. SubSeq(f, 1, HeaderSize + s) = f
    BY <1>1, <1>3
<1> QED BY <1>3, <1>4, <1>5 DEF f, Payload

\* Another frame is written behind the others.
LEMMA FollowsFrame ==
    ASSUME NEW r, NEW st \in Seq(Nat), Follows(r, st), NEW s \in Nat
    PROVE  Follows(r \o Frame(Len(st) + 1, s), Append(st, s))
<1> DEFINE m  == Len(st) + 1
           f  == Frame(m, s)
           st2 == Append(st, s)
           q  == r \o f
<1>1. /\ Len(st) \in Nat /\ m \in Nat /\ Len(st2) = m /\ st2[m] = s
      /\ \A n \in 1..Len(st) : st2[n] = st[n] /\ st[n] \in Nat
    OBVIOUS
<1>2. /\ f \in Seq(Nat \X Nat) /\ Len(f) = HeaderSize + s
      /\ \A k \in 1..HeaderSize + s : f[k] = <<m, k>>
    BY <1>1, FrameBytes
<1>3. HeaderSize \in Nat \ {0}
    BY SizesAssumption
<1> HIDE DEF m, f, st2
<1>4. /\ r \in Seq(Nat \X Nat) /\ Len(r) \in Nat
      /\ q \in Seq(Nat \X Nat) /\ Len(q) = Len(r) + HeaderSize + s
      /\ \A i \in 1..Len(r) : q[i] = r[i]
      /\ \A k \in 1..HeaderSize + s : q[Len(r) + k] = <<m, k>>
    <2>1. r \in Seq(Nat \X Nat) /\ f \in Seq(Nat \X Nat) /\ Len(r) \in Nat
        BY <1>2 DEF Follows
    <2>2. q \in Seq(Nat \X Nat) /\ Len(q) = Len(r) + Len(f)
        BY <2>1
    <2>3. \A i \in 1..Len(r) : q[i] = r[i]
        BY <2>1
    <2>4. \A k \in 1..Len(f) : q[Len(r) + k] = f[k]
        BY <2>1
    <2>5. Len(r) + Len(f) = Len(r) + HeaderSize + s
        <3>1. Len(f) = HeaderSize + s
            BY <1>2
        <3> QED BY ONLY <1>3, <2>1, <3>1, s \in Nat
    <2>6. \A k \in 1..HeaderSize + s : q[Len(r) + k] = <<m, k>>
        BY ONLY <1>2, <2>4
    <2> QED BY ONLY <2>1, <2>2, <2>3, <2>5, <2>6
<1> HIDE DEF q
<1>5. \A n \in 1..Len(st) : Ends(st2, n) = Ends(st, n) /\ Ends(st, n) \in Nat
    BY <1>1, <1>3 DEF Ends
<1>6. Ends(st2, m) = HeaderSize + s
    BY <1>1 DEF Ends
<1>7. ASSUME NEW i \in 1..Len(q)
      PROVE  \/ i \in 1..Len(r) /\ q[i] = r[i]
             \/ i - Len(r) \in 1..HeaderSize + s /\ q[i] = <<m, i - Len(r)>>
    <2>1. i \in 1..Len(r) \/ i - Len(r) \in 1..HeaderSize + s
        BY ONLY <1>3, <1>4, s \in Nat
    <2>2. i = Len(r) + (i - Len(r))
        BY ONLY <1>4
    <2>3. CASE i \in 1..Len(r)
        BY ONLY <1>4, <2>3
    <2>4. CASE i - Len(r) \in 1..HeaderSize + s
        BY ONLY <1>4, <2>2, <2>4
    <2> QED BY ONLY <2>1, <2>3, <2>4
<1>8. ASSUME NEW i \in 1..Len(q)
      PROVE  q[i][1] \in 1..Len(st2) /\ q[i][2] \in 1..Ends(st2, q[i][1])
    <2>1. CASE i \in 1..Len(r) /\ q[i] = r[i]
        <3>1. r[i][1] \in 1..Len(st) /\ r[i][2] \in 1..Ends(st, r[i][1])
            BY <2>1 DEF Follows
        <3> QED BY <1>1, <1>5, <2>1, <3>1 DEF m
    <2>2. CASE i - Len(r) \in 1..HeaderSize + s /\ q[i] = <<m, i - Len(r)>>
        BY <1>1, <1>6, <2>2 DEF m
    <2> QED BY <1>7, <2>1, <2>2
<1>9. ASSUME NEW i \in 1..Len(q), NEW k \in 1..Ends(st2, q[i][1]), i + k - q[i][2] >= 1
      PROVE  i + k - q[i][2] <= Len(q) /\ q[i + k - q[i][2]] = <<q[i][1], k>>
    <2>1. CASE i \in 1..Len(r) /\ q[i] = r[i]
        <3>1. r[i][1] \in 1..Len(st) /\ r[i][2] \in Nat /\ k \in 1..Ends(st, r[i][1])
            BY <1>5, <2>1 DEF Follows
        <3> DEFINE j == i + k - r[i][2]
        <3>2. j <= Len(r) /\ r[j] = <<r[i][1], k>>
            BY <1>9, <2>1, <3>1 DEF Follows
        <3>3. Ends(st, r[i][1]) \in Nat
            BY <1>5, <3>1
        <3>4. k \in Nat /\ i \in Nat
            <4>1. k \in Nat
                BY ONLY <3>1, <3>3
            <4>2. i \in Nat
                BY ONLY <1>4, i \in 1..Len(q)
            <4> QED BY ONLY <4>1, <4>2
        <3>5. j \in Int /\ j >= 1
            BY <1>9, <2>1, <3>1, <3>4
        <3>6. i + k - q[i][2] = j /\ q[i][1] = r[i][1]
            BY <2>1
        <3> HIDE DEF j
        <3>7. j \in 1..Len(r)
            BY ONLY <1>4, <3>2, <3>5
        <3>8. q[j] = r[j] /\ j <= Len(q)
            <4>1. j <= Len(r) + HeaderSize + s
                BY ONLY <1>3, <1>4, <3>7, s \in Nat
            <4> QED BY ONLY <1>4, <3>7, <4>1
        <3> QED BY <3>2, <3>6, <3>8
    <2>2. CASE i - Len(r) \in 1..HeaderSize + s /\ q[i] = <<m, i - Len(r)>>
        <3>1. q[i][1] = m /\ q[i][2] = i - Len(r)
            BY <2>2
        <3>2. k \in 1..HeaderSize + s
            BY <1>6, <3>1
        <3>3. k \in Nat /\ k <= HeaderSize + s
            BY <1>3, <3>2
        <3>4. i + k - q[i][2] = Len(r) + k
            <4>1. i \in Nat /\ Len(r) \in Nat
                BY ONLY <1>4, i \in 1..Len(q)
            <4> QED BY ONLY <3>1, <3>3, <4>1
        <3>5. q[Len(r) + k] = <<m, k>> /\ Len(r) + k <= Len(q)
            <4>1. Len(r) + k <= Len(r) + HeaderSize + s
                BY ONLY <1>3, <1>4, <3>3, s \in Nat
            <4> QED BY ONLY <1>4, <3>2, <4>1
        <3> QED BY ONLY <3>1, <3>4, <3>5
    <2> QED BY <1>7, <2>1, <2>2
<1>10. ASSUME NEW i \in 1..Len(q), q[i][2] = Ends(st2, q[i][1])
       PROVE  IF i = Len(q) THEN q[i][1] = Len(st2) ELSE q[i + 1] = <<q[i][1] + 1, 1>>
    <2>1. CASE i \in 1..Len(r) /\ q[i] = r[i]
        <3>1. r[i][1] \in 1..Len(st) /\ r[i][2] = Ends(st, r[i][1])
            BY <1>5, <1>10, <2>1 DEF Follows
        <3>2. i # Len(q) /\ 1 \in 1..HeaderSize + s
            <4>1. i \in 1..Len(r) /\ Len(r) \in Nat /\ Len(q) = Len(r) + HeaderSize + s
                BY <1>4, <2>1
            <4> QED BY ONLY <1>3, <4>1, s \in Nat
        <3>3. CASE i = Len(r)
            <4>1. r[i][1] = Len(st)
                BY <2>1, <3>1, <3>3 DEF Follows
            <4>2. q[i + 1] = <<m, 1>>
                BY <1>4, <3>2, <3>3
            <4> QED BY <2>1, <3>2, <4>1, <4>2 DEF m
        <3>4. CASE i # Len(r)
            <4>1. r[i + 1] = <<r[i][1] + 1, 1>>
                BY <2>1, <3>1, <3>4 DEF Follows
            <4>2. i + 1 \in 1..Len(r)
                <5>1. i \in 1..Len(r) /\ Len(r) \in Nat
                    BY <1>4, <2>1
                <5> QED BY ONLY <3>4, <5>1
            <4>3. q[i + 1] = r[i + 1] /\ q[i] = r[i]
                BY ONLY <1>4, <2>1, <4>2
            <4> QED BY ONLY <3>2, <4>1, <4>3
        <3> QED BY <3>3, <3>4
    <2>2. CASE i - Len(r) \in 1..HeaderSize + s /\ q[i] = <<m, i - Len(r)>>
        <3>1. q[i][1] = m /\ q[i][2] = i - Len(r)
            BY <2>2
        <3>2. i - Len(r) = HeaderSize + s
            BY <1>6, <1>10, <3>1
        <3>3. i = Len(q)
            BY <1>3, <1>4, <3>2
        <3> QED BY <1>1, <3>1, <3>3
    <2> QED BY <1>7, <2>1, <2>2
<1> QED BY <1>4, <1>8, <1>9, <1>10 DEF Follows, q, f, st2, m

\* What is left of a sequence without its first d elements.
LEMMA Dropped ==
    ASSUME NEW S, NEW r \in Seq(S), NEW d \in Nat, d <= Len(r)
    PROVE  /\ SubSeq(r, d + 1, Len(r)) \in Seq(S)
           /\ Len(SubSeq(r, d + 1, Len(r))) = Len(r) - d
           /\ \A i \in 1..Len(r) - d : SubSeq(r, d + 1, Len(r))[i] = r[i + d]
<1> DEFINE q == SubSeq(r, d + 1, Len(r))
<1>1. Len(r) \in Nat
    OBVIOUS
<1>2. \A i \in d + 1..Len(r) : r[i] \in S
    BY <1>1
<1>3. /\ q \in Seq(S)
      /\ Len(q) = IF d + 1 <= Len(r) THEN Len(r) - (d + 1) + 1 ELSE 0
      /\ \A i \in 1..Len(r) - (d + 1) + 1 : q[i] = r[(d + 1) + i - 1]
    <2>1. d + 1 \in Int /\ Len(r) \in Int
        BY <1>1
    <2> QED BY <1>2, <2>1, SubSeqProperties
<1> HIDE DEF q
<1>4. Len(q) = Len(r) - d
    BY <1>1, <1>3
<1>5. ASSUME NEW i \in 1..Len(r) - d PROVE q[i] = r[i + d]
    <2>1. i \in 1..Len(r) - (d + 1) + 1 /\ (d + 1) + i - 1 = i + d
        BY <1>1
    <2> QED BY <1>3, <2>1
<1> QED BY <1>3, <1>4, <1>5 DEF q

\* A sequence with one more element.
LEMMA OneMore ==
    ASSUME NEW S, NEW s \in Seq(S), NEW e \in S
    PROVE  LET c == Len(s) + 1
               t == Append(s, e)
           IN  /\ Len(t) = c /\ c \in 1..Len(t) /\ t[c] = e
               /\ \A i \in 1..Len(s) : t[i] = s[i] /\ i \in 1..Len(t)
               /\ \A i \in 1..Len(t) : i \in 1..Len(s) \/ i = c
               /\ \A i, j \in 1..Len(t) : i < j => i \in 1..Len(s)
OBVIOUS

\* Bytes are taken from the front.
LEMMA FollowsDrop ==
    ASSUME NEW r, NEW st \in Seq(Nat), Follows(r, st), NEW d \in 0..Len(r)
    PROVE  Follows(SubSeq(r, d + 1, Len(r)), st)
<1> DEFINE q == SubSeq(r, d + 1, Len(r))
<1>1. r \in Seq(Nat \X Nat) /\ Len(r) \in Nat /\ d \in Nat /\ d <= Len(r)
    BY DEF Follows
<1>2. /\ q \in Seq(Nat \X Nat) /\ Len(q) = Len(r) - d
      /\ \A i \in 1..Len(q) : q[i] = r[i + d]
    BY <1>1
<1> HIDE DEF q
<1>3. \A i \in 1..Len(q) : i \in Nat /\ i + d \in 1..Len(r)
    BY <1>1, <1>2
<1>4. ASSUME NEW i \in 1..Len(q)
      PROVE  q[i][1] \in 1..Len(st) /\ q[i][2] \in 1..Ends(st, q[i][1])
    BY <1>2, <1>3 DEF Follows
<1>5. ASSUME NEW i \in 1..Len(q), NEW k \in 1..Ends(st, q[i][1]), i + k - q[i][2] >= 1
      PROVE  i + k - q[i][2] <= Len(q) /\ q[i + k - q[i][2]] = <<q[i][1], k>>
    <2> DEFINE a == q[i][1]
               b == q[i][2]
               j == i + k - b
    <2>1. a \in 1..Len(st) /\ b \in 1..Ends(st, a) /\ r[i + d] = q[i] /\ i \in Nat
        BY ONLY <1>2, <1>3, <1>4, i \in 1..Len(q)
    <2>2. Ends(st, a) \in Nat
        <3> HIDE DEF a, b
        <3>1. st[a] \in Nat
            BY ONLY <2>1, st \in Seq(Nat)
        <3> QED BY <3>1, SizesAssumption DEF Ends
    <2> HIDE DEF a, b
    <2>3. k \in Nat /\ b \in Nat
        BY ONLY <2>1, <2>2, k \in 1..Ends(st, a) DEF a
    <2>4. j \in Int /\ j >= 1 /\ (i + d) + k - b = j + d
        <3>1. i + k - b >= 1
            BY <1>5 DEF b
        <3>2. i \in Nat /\ d \in Nat
            BY <1>1, <2>1
        <3> QED BY ONLY <2>3, <3>1, <3>2
    <2>5. (i + d) + k - b >= 1
        BY ONLY <1>1, <2>4
    <2>6. (i + d) + k - b <= Len(r) /\ r[(i + d) + k - b] = <<a, k>>
        <3>1. r[i + d][1] = a /\ r[i + d][2] = b /\ k \in 1..Ends(st, r[i + d][1])
            BY <2>1 DEF a, b
        <3>2. i + d \in 1..Len(r)
            BY <1>3
        <3> QED BY <2>5, <3>1, <3>2 DEF Follows
    <2>7. j + d <= Len(r) /\ r[j + d] = <<a, k>>
        BY <2>4, <2>6
    <2> HIDE DEF j
    <2>8. j \in 1..Len(q)
        BY ONLY <1>1, <1>2, <2>4, <2>7
    <2>9. j <= Len(q) /\ q[j] = <<a, k>>
        <3>1. q[j] = r[j + d]
            BY <1>2, <2>8
        <3>2. j <= Len(q)
            BY ONLY <1>1, <1>2, <2>8
        <3> QED BY <2>7, <3>1, <3>2
    <2> QED BY <2>9 DEF j, a, b
<1>6. ASSUME NEW i \in 1..Len(q), q[i][2] = Ends(st, q[i][1])
      PROVE  IF i = Len(q) THEN q[i][1] = Len(st) ELSE q[i + 1] = <<q[i][1] + 1, 1>>
    <2>1. i + d \in 1..Len(r) /\ r[i + d] = q[i] /\ i \in Nat
        BY <1>2, <1>3
    <2>2. IF i + d = Len(r) THEN q[i][1] = Len(st)
                            ELSE r[i + d + 1] = <<q[i][1] + 1, 1>>
        BY <1>6, <2>1 DEF Follows
    <2>3. CASE i = Len(q)
        <3>1. i + d = Len(r)
            <4>1. Len(q) = Len(r) - d
                BY <1>2
            <4>2. Len(r) \in Nat /\ d \in Nat
                BY <1>1
            <4> QED BY ONLY <2>3, <4>1, <4>2
        <3> QED BY <2>2, <2>3, <3>1
    <2>4. CASE i # Len(q)
        <3>1. i + 1 \in 1..Len(q) /\ i + d # Len(r) /\ (i + 1) + d = i + d + 1
            <4>1. i \in Nat /\ i <= Len(q) /\ Len(q) \in Nat
                BY ONLY <1>1, <1>2, i \in 1..Len(q)
            <4>2. Len(q) = Len(r) - d /\ Len(r) \in Nat /\ d \in Nat
                BY <1>1, <1>2
            <4> QED BY ONLY <2>4, <4>1, <4>2
        <3>2. q[i + 1] = r[i + d + 1]
            <4>1. q[i + 1] = r[(i + 1) + d]
                BY <1>2, <3>1
            <4> QED BY ONLY <3>1, <4>1
        <3> QED BY <2>2, <2>4, <3>1, <3>2
    <2> QED BY <2>3, <2>4
<1> QED BY <1>2, <1>4, <1>5, <1>6 DEF Follows, q

\* The rest of the first byte's frame comes first, and then the next frame.
LEMMA FollowsFirst ==
    ASSUME NEW r, NEW st \in Seq(Nat), Follows(r, st), r # <<>>
    PROVE  /\ r[1][1] \in 1..Len(st) /\ r[1][2] \in 1..Ends(st, r[1][1])
           /\ Ends(st, r[1][1]) \in Nat
           /\ \A i \in 1..Ends(st, r[1][1]) + 1 - r[1][2] :
                 i <= Len(r) /\ r[i] = <<r[1][1], r[1][2] + i - 1>>
           /\ LET d == Ends(st, r[1][1]) + 1 - r[1][2]
              IN  /\ d \in 1..Len(r)
                  /\ d = Len(r) => r[1][1] = Len(st)
                  /\ d # Len(r) => r[d + 1] = <<r[1][1] + 1, 1>>
<1> DEFINE a == r[1][1]
           b == r[1][2]
           e == Ends(st, a)
           d == e + 1 - b
<1>1. r \in Seq(Nat \X Nat) /\ Len(r) \in Nat /\ 1 \in 1..Len(r)
    BY DEF Follows
<1>2. a \in 1..Len(st) /\ b \in 1..e
    BY <1>1 DEF Follows
<1>3. e \in Nat
    <2>1. st[a] \in Nat
        BY <1>2
    <2> QED BY <2>1, SizesAssumption DEF Ends
<1>4. \A k \in 1..e : 1 + k - b >= 1 => 1 + k - b <= Len(r) /\ r[1 + k - b] = <<a, k>>
    BY <1>1 DEF Follows
<1>5. \A i \in 1..Len(r) : r[i][2] = Ends(st, r[i][1]) =>
          IF i = Len(r) THEN r[i][1] = Len(st) ELSE r[i + 1] = <<r[i][1] + 1, 1>>
    BY DEF Follows
<1> HIDE DEF a, b, e
<1>6. b \in Nat /\ b >= 1 /\ b <= e
    BY <1>2, <1>3
<1>7. ASSUME NEW i \in 1..d PROVE i <= Len(r) /\ r[i] = <<a, b + i - 1>>
    <2>1. i \in Nat /\ b + i - 1 \in 1..e /\ 1 + (b + i - 1) - b = i /\ i >= 1
        BY <1>3, <1>6
    <2> QED BY <1>4, <2>1
<1>8. d \in Nat /\ d >= 1 /\ b + d - 1 = e
    BY <1>3, <1>6
<1>9. d <= Len(r) /\ r[d] = <<a, e>>
    <2>1. d \in 1..d
        BY <1>8
    <2> QED BY <1>7, <1>8, <2>1
<1>10. d \in 1..Len(r) /\ r[d][1] = a /\ r[d][2] = Ends(st, r[d][1])
    BY <1>1, <1>8, <1>9 DEF e
<1>11. IF d = Len(r) THEN a = Len(st) ELSE r[d + 1] = <<a + 1, 1>>
    BY <1>5, <1>10
<1> QED BY <1>2, <1>3, <1>7, <1>10, <1>11 DEF a, b, e

-----------------------------------------------------------------------------
(* Frames arrive as they were written.                                     *)

\* The bytes that are not of a complete part yet, in the order they were written.
Rest == rbuf \o stream

\* The frame that is being read, or the next one to be written.
Current == IF Rest = <<>> THEN Len(sent) + 1 ELSE Rest[1][1]

\* The read loop waits for the first of them, and has delivered what comes before.
Aligned ==
    /\ Follows(Rest, sent)
    /\ phase = "header" => /\ size = HeaderSize
                           /\ Rest # <<>> => Rest[1][2] = 1
    /\ phase = "body" => /\ Rest # <<>> /\ Rest[1][2] = HeaderSize + 1
                         /\ size = sent[Rest[1][1]] /\ size > 0
    /\ \A i \in 1..Len(delivered) : Whose(i) < Current
    /\ \A n \in 1..Len(sent) :
          sent[n] > 0 /\ n < Current => \E j \in 1..Len(delivered) : Whose(j) = n

InOrder == FramesIntact /\ (~truncated /\ phase # "down" => Aligned)

OrderInv == StreamInv /\ InOrder

LEMMA OrderTyped ==
    ASSUME StreamInv
    PROVE  /\ Rest \in Seq(Nat \X Nat) /\ Len(Rest) = Len(rbuf) + Len(stream)
           /\ stream \in Seq(Nat \X Nat) /\ rbuf \in Seq(Nat \X Nat)
           /\ Len(rbuf) = pos /\ pos \in Nat /\ size \in Nat /\ Len(stream) \in Nat
           /\ sent \in Seq(Nat) /\ Len(sent) \in Nat
           /\ delivered \in Seq(Seq(Nat \X Nat)) /\ Len(delivered) \in Nat
           /\ HeaderSize \in Nat \ {0}
<1>1. Bytes \subseteq Nat \X Nat
    BY DEF StreamInv, StreamTypeOK, Bytes
<1>2. stream \in Seq(Nat \X Nat) /\ rbuf \in Seq(Nat \X Nat)
    BY <1>1 DEF StreamInv, BytesWritten
<1>3. sent \in Seq(Nat) /\ Len(sent) \in Nat
    <2>1. sent \in Seq(Sizes) /\ Sizes \subseteq Nat
        BY SizesAssumption DEF StreamInv, StreamTypeOK
    <2>2. sent \in Seq(Nat)
        BY ONLY <2>1, SeqMonotonic
    <2> QED BY ONLY <2>2
<1>4. Rest \in Seq(Nat \X Nat) /\ Len(Rest) = Len(rbuf) + Len(stream) /\ Len(stream) \in Nat
    BY ONLY <1>2 DEF Rest
<1>5. delivered \in Seq(Seq(Nat \X Nat)) /\ Len(delivered) \in Nat
    <2>1. delivered \in Seq(Seq(Nat \X Nat))
        BY DEF StreamInv, BytesWritten
    <2> QED BY ONLY <2>1
<1>6. Len(rbuf) = pos /\ pos \in Nat /\ size \in Nat
    BY DEF StreamInv, StreamTypeOK
<1> QED BY <1>2, <1>3, <1>4, <1>5, <1>6, SizesAssumption

\* What a read takes is the first of the rest.
LEMMA TakesFirst ==
    ASSUME StreamInv, NEW n \in Counts, phase # "down"
    PROVE  LET d == pos + n
               after == SubSeq(stream, n + 1, Len(stream))
           IN  /\ d \in 1..Len(Rest) /\ d <= size /\ d \in Nat
               /\ Received(n) \in Seq(Nat \X Nat) /\ Len(Received(n)) = d
               /\ \A i \in 1..d : Received(n)[i] = Rest[i]
               /\ after = SubSeq(Rest, d + 1, Len(Rest))
               /\ Received(n) \o after = Rest
<1> DEFINE d == pos + n
           after == SubSeq(stream, n + 1, Len(stream))
           piece == SubSeq(stream, 1, n)
           S == Nat \X Nat
<1> USE OrderTyped
<1>1. /\ n \in Nat \ {0} /\ n <= Len(stream) /\ pos + n <= size /\ d \in Nat
    <2>1. n \in 1..Len(stream) /\ n <= size - pos
        BY DEF Counts
    <2>2. pos \in Nat /\ size \in Nat /\ Len(stream) \in Nat
        OBVIOUS
    <2> QED BY ONLY <2>1, <2>2
<1> HIDE DEF S
<1>2. /\ rbuf \in Seq(S) /\ stream \in Seq(S) /\ Len(rbuf) = pos /\ pos \in Nat
      /\ Len(stream) \in Nat
    BY DEF S
<1>3. /\ piece \in Seq(S) /\ Len(piece) = n
      /\ \A i \in 1..n : piece[i] = stream[i]
    BY ONLY <1>1, <1>2
<1>4. /\ after \in Seq(S) /\ Len(after) = Len(stream) - n
      /\ \A i \in 1..Len(stream) - n : after[i] = stream[i + n]
    BY ONLY <1>1, <1>2
<1>5. /\ Rest \in Seq(S) /\ Len(Rest) = pos + Len(stream)
      /\ \A i \in 1..pos : Rest[i] = rbuf[i]
      /\ \A i \in 1..Len(stream) : Rest[pos + i] = stream[i]
    BY ONLY <1>2 DEF Rest
<1>6. /\ Received(n) \in Seq(S) /\ Len(Received(n)) = d
      /\ \A i \in 1..pos : Received(n)[i] = rbuf[i]
      /\ \A i \in 1..n : Received(n)[pos + i] = piece[i]
    <2> HIDE DEF piece
    <2>1. Received(n) = rbuf \o piece
        BY DEF Received, piece
    <2>2. rbuf \in Seq(S) /\ piece \in Seq(S) /\ Len(rbuf) = pos /\ Len(piece) = n
        BY ONLY <1>2, <1>3
    <2>3. /\ rbuf \o piece \in Seq(S) /\ Len(rbuf \o piece) = pos + n
          /\ \A i \in 1..pos : (rbuf \o piece)[i] = rbuf[i]
          /\ \A i \in 1..n : (rbuf \o piece)[pos + i] = piece[i]
        BY ONLY <1>1, <1>2, <2>2
    <2> QED BY <2>1, <2>3
<1> HIDE DEF after, piece
<1>7. ASSUME NEW i \in 1..d PROVE Received(n)[i] = Rest[i]
    <2>1. CASE i \in 1..pos
        BY <1>5, <1>6, <2>1
    <2>2. CASE i \notin 1..pos
        <3>1. i - pos \in 1..n /\ i - pos \in 1..Len(stream) /\ pos + (i - pos) = i
            BY ONLY <1>1, <1>2, <2>2, i \in 1..d
        <3>2. Received(n)[i] = piece[i - pos] /\ Rest[i] = stream[i - pos]
            BY <1>5, <1>6, <3>1
        <3> QED BY <1>3, <3>1, <3>2
    <2> QED BY <2>1, <2>2
<1>8. d \in 1..Len(Rest) /\ Len(Rest) \in Nat
    BY ONLY <1>1, <1>2, <1>5
<1>9. after = SubSeq(Rest, d + 1, Len(Rest))
    <2> DEFINE q == SubSeq(Rest, d + 1, Len(Rest))
    <2>1. /\ q \in Seq(S) /\ Len(q) = Len(Rest) - d
          /\ \A i \in 1..Len(Rest) - d : q[i] = Rest[i + d]
        BY ONLY <1>5, <1>8
    <2> HIDE DEF q
    <2>2. Len(Rest) - d = Len(stream) - n
        BY ONLY <1>1, <1>2, <1>5
    <2>3. ASSUME NEW i \in 1..Len(stream) - n PROVE after[i] = q[i]
        <3>1. i + n \in 1..Len(stream) /\ i + d = pos + (i + n)
            BY ONLY <1>1, <1>2, i \in 1..Len(stream) - n
        <3> QED BY <1>4, <1>5, <2>1, <2>2, <3>1
    <2>4. Len(after) = Len(q) /\ \A i \in 1..Len(after) : after[i] = q[i]
        BY <1>4, <2>1, <2>2, <2>3
    <2>5. after = q
        BY ONLY <1>4, <2>1, <2>4, SeqEqual
    <2> QED BY <2>5 DEF q
<1>10. Received(n) \o after = Rest
    <2> DEFINE q == Received(n) \o after
    <2>1. /\ q \in Seq(S) /\ Len(q) = d + Len(after)
          /\ \A i \in 1..d : q[i] = Received(n)[i]
          /\ \A i \in 1..Len(after) : q[d + i] = after[i]
        BY ONLY <1>4, <1>6
    <2> HIDE DEF q
    <2>2. Len(q) = Len(Rest)
        BY ONLY <1>1, <1>2, <1>4, <1>5, <2>1
    <2>3. ASSUME NEW i \in 1..Len(q) PROVE q[i] = Rest[i]
        <3>1. CASE i \in 1..d
            BY <1>7, <2>1, <3>1
        <3>2. CASE i \notin 1..d
            <4>1. /\ i - d \in 1..Len(stream) - n /\ d + (i - d) = i
                  /\ pos + (i - d + n) = i /\ i - d + n \in 1..Len(stream)
                BY ONLY <1>1, <1>2, <1>5, <2>2, <3>2, i \in 1..Len(q)
            <4>2. q[i] = after[i - d]
                BY <1>4, <2>1, <4>1
            <4> QED BY <1>4, <1>5, <4>1, <4>2
        <3> QED BY <3>1, <3>2
    <2>4. q = Rest
        BY ONLY <1>5, <2>1, <2>2, <2>3, SeqEqual
    <2> QED BY <2>4 DEF q
<1> QED BY <1>1, <1>6, <1>7, <1>8, <1>9, <1>10 DEF S, after

LEMMA OrderInit == StreamInit => InOrder
<1> SUFFICES ASSUME StreamInit PROVE InOrder
    OBVIOUS
<1>1. sent = <<>> /\ delivered = <<>> /\ phase = "header" /\ size = HeaderSize
    BY DEF StreamInit
<1>2. Rest = <<>>
    BY DEF StreamInit, Rest
<1>3. FramesIntact
    BY <1>1 DEF FramesIntact
<1>4. Follows(Rest, sent)
    BY <1>1, <1>2 DEF Follows
<1>5. Aligned
    BY <1>1, <1>2, <1>4 DEF Aligned
<1> QED BY <1>3, <1>5 DEF InOrder

LEMMA OrderWrite == ASSUME OrderInv, NEW s \in Sizes, Write(s) PROVE InOrder'
<1> DEFINE m == Len(sent) + 1
           f == Frame(m, s)
<1>1. StreamInv /\ InOrder /\ s \in Nat
    BY SizesAssumption DEF OrderInv
<1>2. /\ phase # "down" /\ sent' = Append(sent, s) /\ UNCHANGED reader
      /\ truncated' = (truncated \/ Taken(HeaderSize + s) < HeaderSize + s)
      /\ stream' = stream \o SubSeq(Frame(Len(sent) + 1, s), 1, Taken(HeaderSize + s))
    BY DEF Write
<1> SUFFICES ASSUME ~truncated' PROVE FramesIntact' /\ Aligned'
    BY DEF InOrder, FramesIntact
<1>3. Taken(HeaderSize + s) = HeaderSize + s /\ ~truncated
    <2>1. ~truncated /\ ~(Taken(HeaderSize + s) < HeaderSize + s)
        BY <1>2
    <2>2. HeaderSize + s \in Nat /\ Room \in Int
        BY <1>1, SizesAssumption, OrderTyped DEF Room
    <2>3. Taken(HeaderSize + s) = HeaderSize + s
        BY ONLY <2>1, <2>2 DEF Taken
    <2> QED BY <2>1, <2>3
<1>4. FramesIntact /\ Aligned
    BY <1>1, <1>2, <1>3 DEF InOrder
<1>5. /\ m \in Nat /\ Len(sent') = m /\ \A n \in 1..Len(sent) : sent'[n] = sent[n]
      /\ Len(sent) \in Nat /\ sent \in Seq(Nat)
    BY <1>1, <1>2, OrderTyped
<1>6. /\ f \in Seq(Nat \X Nat) /\ Len(f) = HeaderSize + s /\ f[1] = <<m, 1>> /\ f # <<>>
    <2>1. /\ f \in Seq(Nat \X Nat) /\ Len(f) = HeaderSize + s
          /\ \A k \in 1..HeaderSize + s : f[k] = <<m, k>>
        BY <1>1, <1>5, FrameBytes
    <2>2. HeaderSize \in Nat \ {0} /\ s \in Nat
        BY <1>1, SizesAssumption
    <2> HIDE DEF f, m
    <2>3. 1 \in 1..HeaderSize + s /\ HeaderSize + s # 0
        BY ONLY <2>2
    <2>4. f[1] = <<m, 1>>
        <3>1. \A k \in 1..HeaderSize + s : f[k] = <<m, k>>
            BY <2>1
        <3> QED BY ONLY <2>3, <3>1
    <2>5. f # <<>>
        BY ONLY <2>1, <2>3
    <2> QED BY ONLY <2>1, <2>4, <2>5
<1>7. Rest' = Rest \o f
    <2>1. stream' = stream \o f /\ rbuf' = rbuf
        <3>1. SubSeq(f, 1, HeaderSize + s) = f
            BY <1>1, <1>5, FrameBytes
        <3>2. stream' = stream \o SubSeq(f, 1, HeaderSize + s) /\ rbuf' = rbuf
            BY <1>2, <1>3 DEF reader
        <3> QED BY ONLY <3>1, <3>2
    <2>2. stream \in Seq(Nat \X Nat) /\ rbuf \in Seq(Nat \X Nat)
        BY <1>1, OrderTyped
    <2>3. rbuf \o (stream \o f) = (rbuf \o stream) \o f
        <3> DEFINE S == Nat \X Nat
        <3> HIDE DEF f, S
        <3>1. rbuf \in Seq(S) /\ stream \in Seq(S) /\ f \in Seq(S)
            BY ONLY <1>6, <2>2 DEF S
        <3> QED BY ONLY <3>1, ConcatAssociative
    <2> QED BY <2>1, <2>3 DEF Rest
<1>8. Follows(Rest', sent')
    BY <1>1, <1>2, <1>4, <1>5, <1>7, FollowsFrame DEF Aligned
<1>9. /\ Rest' # <<>> /\ Rest'[1] = IF Rest = <<>> THEN <<m, 1>> ELSE Rest[1]
    <2>1. Rest \in Seq(Nat \X Nat)
        BY <1>1, OrderTyped
    <2> HIDE DEF f
    <2>2. Len(f) \in Nat /\ Len(f) >= 1
        BY ONLY <1>6
    <2>3. /\ Len(Rest \o f) = Len(Rest) + Len(f) /\ Rest \o f \in Seq(Nat \X Nat)
          /\ \A i \in 1..Len(Rest) + Len(f) :
                (Rest \o f)[i] = IF i <= Len(Rest) THEN Rest[i] ELSE f[i - Len(Rest)]
        BY ONLY <1>6, <2>1, ConcatProperties
    <2>4. Len(Rest) \in Nat /\ (Rest = <<>> <=> Len(Rest) = 0)
        BY ONLY <2>1
    <2>5. Rest \o f # <<>> /\ 1 \in 1..Len(Rest) + Len(f)
        BY ONLY <2>2, <2>3, <2>4
    <2>6. (Rest \o f)[1] = IF Len(Rest) = 0 THEN f[1] ELSE Rest[1]
        <3>1. CASE Len(Rest) = 0
            BY <2>3, <2>5, <3>1
        <3>2. CASE Len(Rest) # 0
            BY <2>3, <2>4, <2>5, <3>2
        <3> QED BY <3>1, <3>2
    <2> QED BY <1>6, <1>7, <2>4, <2>5, <2>6
<1>10. Current' = Current
    BY <1>9 DEF Current
<1>11. /\ UNCHANGED <<phase, size, delivered>>
       /\ \A i \in 1..Len(delivered) : Whose(i)' = Whose(i)
    BY <1>2 DEF reader, Whose
<1>12. Current \in Nat /\ Current <= m
    <2>1. CASE Rest = <<>>
        BY <1>5, <2>1 DEF Current
    <2>2. CASE Rest # <<>>
        <3>1. Rest[1][1] \in 1..Len(sent)
            BY <1>4, <1>5, <2>2, FollowsFirst DEF Aligned
        <3> QED BY <1>5, <2>2, <3>1 DEF Current
    <2> QED BY <2>1, <2>2
<1>13. FramesIntact'
    <2>1. \A i \in 1..Len(delivered') : /\ Whose(i)' \in 1..Len(sent')
                                        /\ delivered'[i] = Payload(Whose(i)', sent'[Whose(i)'])
        BY <1>3, <1>4, <1>5, <1>11 DEF FramesIntact
    <2>2. \A i, j \in 1..Len(delivered') : i < j => Whose(i)' < Whose(j)'
        BY <1>3, <1>4, <1>11 DEF FramesIntact
    <2>3. ASSUME NEW i \in 1..Len(delivered'), NEW n \in 1..Whose(i)', sent'[n] > 0
          PROVE  \E j \in 1..Len(delivered') : Whose(j)' = n
        <3>1. Whose(i) \in 1..Len(sent) /\ n \in 1..Whose(i) /\ i \in 1..Len(delivered)
            BY <1>3, <1>4, <1>11 DEF FramesIntact
        <3>2. n \in 1..Len(sent) /\ sent[n] > 0
            BY <1>5, <2>3, <3>1
        <3> QED BY <1>3, <1>4, <1>11, <3>1, <3>2 DEF FramesIntact
    <2> QED BY <2>1, <2>2, <2>3 DEF FramesIntact
<1>14. Aligned'
    <2>1. phase' = "header" => size' = HeaderSize /\ (Rest' # <<>> => Rest'[1][2] = 1)
        BY <1>4, <1>9, <1>11 DEF Aligned
    <2>2. phase' = "body" => /\ Rest' # <<>> /\ Rest'[1][2] = HeaderSize + 1
                             /\ size' = sent'[Rest'[1][1]] /\ size' > 0
        <3> SUFFICES ASSUME phase' = "body"
                     PROVE  /\ Rest' # <<>> /\ Rest'[1][2] = HeaderSize + 1
                            /\ size' = sent'[Rest'[1][1]] /\ size' > 0
            OBVIOUS
        <3>1. /\ Rest # <<>> /\ Rest[1][2] = HeaderSize + 1
              /\ size = sent[Rest[1][1]] /\ size > 0
            BY <1>4, <1>11 DEF Aligned
        <3>2. Rest[1][1] \in 1..Len(sent)
            BY <1>4, <1>5, <3>1, FollowsFirst DEF Aligned
        <3> QED BY <1>5, <1>9, <1>11, <3>1, <3>2
    <2>3. \A i \in 1..Len(delivered') : Whose(i)' < Current'
        BY <1>4, <1>10, <1>11 DEF Aligned
    <2>4. ASSUME NEW n \in 1..Len(sent'), sent'[n] > 0, n < Current'
          PROVE  \E j \in 1..Len(delivered') : Whose(j)' = n
        <3>1. n \in 1..Len(sent)
            BY <1>5, <1>10, <1>12, <2>4
        <3> QED BY <1>4, <1>5, <1>10, <1>11, <2>4, <3>1 DEF Aligned
    <2> QED BY <1>8, <2>1, <2>2, <2>3, <2>4 DEF Aligned
<1> QED BY <1>13, <1>14

\* What is left when d bytes have been taken.
LEMMA LeftOver ==
    ASSUME StreamInv, Aligned, Rest # <<>>, NEW d \in 1..Len(Rest),
           Rest' = SubSeq(Rest, d + 1, Len(Rest)), sent' = sent
    PROVE  LET m == Rest[1][1]
           IN  /\ Follows(Rest', sent') /\ m \in 1..Len(sent) /\ Current = m
               /\ d = Ends(sent, m) + 1 - Rest[1][2] =>
                     Current' = m + 1 /\ (Rest' # <<>> => Rest'[1][2] = 1)
               /\ d < Ends(sent, m) + 1 - Rest[1][2] =>
                     /\ Rest' # <<>> /\ Current' = m
                     /\ Rest'[1] = <<m, Rest[1][2] + d>>
<1> DEFINE m == Rest[1][1]
           b == Rest[1][2]
           e == Ends(sent, m) + 1 - b
<1>1. /\ Rest \in Seq(Nat \X Nat) /\ Len(Rest) \in Nat /\ sent \in Seq(Nat)
      /\ Len(sent) \in Nat /\ Follows(Rest, sent)
    BY OrderTyped DEF Aligned
<1>2. /\ m \in 1..Len(sent) /\ b \in 1..Ends(sent, m) /\ Ends(sent, m) \in Nat
      /\ \A i \in 1..e : i <= Len(Rest) /\ Rest[i] = <<m, b + i - 1>>
      /\ e \in 1..Len(Rest)
      /\ e = Len(Rest) => m = Len(sent)
      /\ e # Len(Rest) => Rest[e + 1] = <<m + 1, 1>>
    BY <1>1, FollowsFirst
<1> DEFINE q == SubSeq(Rest, d + 1, Len(Rest))
<1>3. d \in Nat /\ d >= 1 /\ d <= Len(Rest)
    BY ONLY <1>1, d \in 1..Len(Rest)
<1>4. /\ q \in Seq(Nat \X Nat) /\ Len(q) = Len(Rest) - d
      /\ (q # <<>> => q[1] = Rest[d + 1]) /\ (q = <<>> <=> d = Len(Rest))
    <2>1. /\ q \in Seq(Nat \X Nat) /\ Len(q) = Len(Rest) - d
          /\ \A i \in 1..Len(q) : q[i] = Rest[i + d]
        <3>1. \A i \in 1..Len(Rest) - d : q[i] = Rest[i + d]
            BY <1>1, <1>3, Dropped
        <3>2. q \in Seq(Nat \X Nat) /\ Len(q) = Len(Rest) - d
            BY <1>1, <1>3, Dropped
        <3> QED BY <3>1, <3>2
    <2> HIDE DEF q
    <2>2. q = <<>> <=> Len(q) = 0
        BY ONLY <2>1
    <2>3. q = <<>> <=> d = Len(Rest)
        BY ONLY <1>1, <1>3, <2>1, <2>2
    <2>4. ASSUME q # <<>> PROVE q[1] = Rest[d + 1]
        <3>1. 1 \in 1..Len(q) /\ 1 + d = d + 1
            BY ONLY <1>1, <1>3, <2>1, <2>3, <2>4
        <3> QED BY <2>1, <3>1
    <2> QED BY <2>1, <2>3, <2>4
<1>5. Follows(q, sent)
    <2>1. d \in 0..Len(Rest)
        BY ONLY <1>1, <1>3
    <2> QED BY <1>1, <2>1, FollowsDrop
<1>6. Current = m
    BY DEF Current
<1>7. Rest' = q /\ sent' = sent
    OBVIOUS
<1> HIDE DEF q, b, e
<1>8. ASSUME d = e PROVE Current' = m + 1 /\ (Rest' # <<>> => Rest'[1][2] = 1)
    <2>1. CASE q = <<>>
        BY <1>2, <1>4, <1>7, <1>8, <2>1 DEF Current
    <2>2. CASE q # <<>>
        <3>1. q[1] = <<m + 1, 1>>
            BY <1>2, <1>4, <1>8, <2>2
        <3> DEFINE k == m + 1
        <3>2. Rest'[1] = <<k, 1>>
            BY <1>7, <3>1
        <3> HIDE DEF k
        <3>3. Rest'[1][1] = k /\ Rest'[1][2] = 1
            BY ONLY <3>2
        <3> USE DEF k
        <3> QED BY <1>7, <2>2, <3>3 DEF Current
    <2> QED BY <2>1, <2>2
<1>9. ASSUME d < e PROVE Rest' # <<>> /\ Current' = m /\ Rest'[1] = <<m, b + d>>
    <2>1. e \in Nat /\ e <= Len(Rest) /\ d + 1 \in 1..e
        <3>1. e \in Nat /\ e <= Len(Rest)
            BY ONLY <1>1, <1>2
        <3> QED BY ONLY <1>3, <1>9, <3>1
    <2>2. b \in Nat
        BY ONLY <1>2
    <2>3. Rest[d + 1] = <<m, b + d>>
        <3>1. b + (d + 1) - 1 = b + d
            BY ONLY <1>3, <2>2
        <3> QED BY <1>2, <2>1, <3>1
    <2>4. q # <<>> /\ q[1] = <<m, b + d>>
        <3>1. d # Len(Rest)
            BY ONLY <1>3, <1>9, <2>1, <1>1
        <3> QED BY <1>4, <2>3, <3>1
    <2>5. Rest' # <<>> /\ Rest'[1] = <<m, b + d>>
        BY <1>7, <2>4
    <2>6. Rest'[1][1] = m
        BY <2>5
    <2> QED BY <2>5, <2>6 DEF Current
<1> QED BY <1>2, <1>5, <1>6, <1>7, <1>8, <1>9 DEF b, e

LEMMA OrderReadPart == ASSUME OrderInv, NEW n, ReadPart(n) PROVE InOrder'
<1>1. /\ StreamInv /\ InOrder /\ n \in Counts /\ phase # "down"
      /\ UNCHANGED <<sent, truncated, phase, size, delivered>>
      /\ rbuf' = Received(n) /\ stream' = SubSeq(stream, n + 1, Len(stream))
    BY DEF OrderInv, ReadPart, writer
<1>2. Rest' = Rest
    BY <1>1, TakesFirst DEF Rest
<1>3. Current' = Current
    BY <1>1, <1>2 DEF Current
<1>4. FramesIntact'
    BY <1>1 DEF InOrder, FramesIntact, Whose
<1>5. Aligned => Aligned'
    BY <1>1, <1>2, <1>3 DEF Aligned, Whose
<1> QED BY <1>1, <1>4, <1>5 DEF InOrder

LEMMA OrderReadHeader == ASSUME OrderInv, NEW n, ReadHeader(n) PROVE InOrder'
<1>1. /\ StreamInv /\ InOrder /\ n \in Counts /\ phase = "header" /\ pos + n = size
      /\ UNCHANGED <<sent, truncated, delivered>>
      /\ stream' = SubSeq(stream, n + 1, Len(stream))
    BY DEF OrderInv, ReadHeader, writer
<1>2. FramesIntact'
    BY <1>1 DEF InOrder, FramesIntact, Whose
<1> SUFFICES ASSUME ~truncated', phase' # "down" PROVE Aligned'
    BY <1>2 DEF InOrder
<1>3. Aligned /\ size = HeaderSize
    BY <1>1 DEF InOrder, Aligned
<1>4. /\ HeaderSize \in Nat \ {0} /\ sent \in Seq(Nat) /\ Len(sent) \in Nat
    BY <1>1, OrderTyped
<1>5. /\ HeaderSize \in 1..Len(Rest) /\ Len(Received(n)) = HeaderSize
      /\ Received(n) \in Seq(Nat \X Nat)
      /\ \A i \in 1..HeaderSize : Received(n)[i] = Rest[i]
      /\ stream' = SubSeq(Rest, HeaderSize + 1, Len(Rest))
    BY <1>1, <1>3, TakesFirst
<1>6. Rest # <<>> /\ Rest[1][2] = 1
    <2>1. Rest # <<>>
        BY <1>5
    <2> QED BY <1>1, <1>3, <2>1 DEF Aligned
<1> DEFINE m == Rest[1][1]
<1>7. /\ m \in 1..Len(sent) /\ m \in Nat /\ sent[m] \in Nat
      /\ Ends(sent, m) + 1 - 1 = HeaderSize + sent[m]
      /\ \A i \in 1..HeaderSize + sent[m] : Rest[i] = <<m, 1 + i - 1>>
    <2>1. m \in 1..Len(sent)
        BY <1>3, <1>4, <1>6, FollowsFirst DEF Aligned
    <2>2. m \in Nat /\ sent[m] \in Nat
        BY <1>4, <2>1
    <2>3. Ends(sent, m) + 1 - 1 = HeaderSize + sent[m]
        BY <1>4, <2>2 DEF Ends
    <2>4. \A i \in 1..Ends(sent, m) + 1 - Rest[1][2] :
             Rest[i] = <<m, Rest[1][2] + i - 1>>
        BY <1>3, <1>4, <1>6, FollowsFirst DEF Aligned
    <2> QED BY <1>6, <2>1, <2>2, <2>3, <2>4
<1> HIDE DEF m
<1>8. Received(n) = SubSeq(Frame(m, 0), 1, HeaderSize)
    <2> DEFINE h == SubSeq(Frame(m, 0), 1, HeaderSize)
    <2>1. h \in Seq(Nat \X Nat) /\ Len(h) = HeaderSize /\ \A k \in 1..HeaderSize : h[k] = <<m, k>>
        <3>1. HeaderSize + 0 = HeaderSize /\ 0 \in Nat
            BY <1>4
        <3> DEFINE f == Frame(m, 0)
        <3>2. /\ f \in Seq(Nat \X Nat) /\ Len(f) = HeaderSize + 0
              /\ \A k \in 1..HeaderSize + 0 : f[k] = <<m, k>>
              /\ SubSeq(f, 1, HeaderSize + 0) = f
            BY <1>7, <3>1, FrameBytes
        <3> HIDE DEF f
        <3>3. SubSeq(f, 1, HeaderSize) = f
            BY <3>1, <3>2
        <3> QED BY <3>1, <3>2, <3>3 DEF f
    <2> HIDE DEF h
    <2>2. ASSUME NEW i \in 1..HeaderSize PROVE Received(n)[i] = h[i]
        <3>1. i \in 1..HeaderSize + sent[m] /\ 1 + i - 1 = i
            BY ONLY <1>4, <1>7, i \in 1..HeaderSize
        <3>2. Rest[i] = <<m, i>>
            BY <1>7, <3>1
        <3> QED BY <1>5, <2>1, <3>2
    <2>3. Received(n) = h
        BY ONLY <1>5, <2>1, <2>2, SeqEqual
    <2> QED BY <2>3 DEF h
<1>9. Announced(Received(n)) = {sent[m]}
    <2>1. Received(n)[1][1] = m
        <3>1. 1 \in 1..HeaderSize
            BY <1>4
        <3> QED BY <1>5, <3>1 DEF m
    <2> QED BY <1>8, <2>1 DEF Announced
<1>10. StartBody(sent[m]) /\ rbuf' = <<>>
    BY <1>9 DEF ReadHeader, StartBody, NextHeader
<1>11. Rest' = SubSeq(Rest, HeaderSize + 1, Len(Rest))
    <2>1. Rest' = <<>> \o stream'
        BY <1>10 DEF Rest
    <2>2. stream' \in Seq(Nat \X Nat)
        <3>1. Rest \in Seq(Nat \X Nat)
            BY <1>1, OrderTyped
        <3> QED BY ONLY <1>5, <3>1, <1>4
    <2>3. <<>> \o stream' = stream'
        BY ONLY <2>2, ConcatEmptySeq
    <2> QED BY <1>5, <2>1, <2>3
<1>12. /\ Follows(Rest', sent') /\ Current = m
       /\ HeaderSize = Ends(sent, m) + 1 - 1 =>
             Current' = m + 1 /\ (Rest' # <<>> => Rest'[1][2] = 1)
       /\ HeaderSize < Ends(sent, m) + 1 - 1 =>
             Rest' # <<>> /\ Current' = m /\ Rest'[1] = <<m, 1 + HeaderSize>>
    BY <1>1, <1>3, <1>5, <1>6, <1>11, LeftOver DEF m
<1>13. \A i \in 1..Len(delivered) : Whose(i)' = Whose(i) /\ Whose(i) < m
    BY <1>1, <1>3, <1>12 DEF Aligned, Whose
<1>14. \A k \in 1..Len(sent) : sent[k] > 0 /\ k < m => \E j \in 1..Len(delivered) : Whose(j) = k
    BY <1>3, <1>12 DEF Aligned
<1>15. \A i \in 1..Len(delivered) : Whose(i) \in 1..Len(sent)
    BY <1>1 DEF InOrder, FramesIntact
<1>16. CASE sent[m] = 0
    <2>1. NextHeader
        BY <1>10, <1>16 DEF StartBody
    <2>2. Current' = m + 1 /\ (Rest' # <<>> => Rest'[1][2] = 1)
        <3>1. HeaderSize = Ends(sent, m) + 1 - 1
            BY <1>4, <1>7, <1>16
        <3> QED BY <1>12, <3>1
    <2>3. \A i \in 1..Len(delivered') : Whose(i)' < Current'
        BY <1>1, <1>7, <1>13, <1>15, <2>2
    <2>4. ASSUME NEW k \in 1..Len(sent'), sent'[k] > 0, k < Current'
          PROVE  \E j \in 1..Len(delivered') : Whose(j)' = k
        <3>1. k \in 1..Len(sent) /\ k # m /\ k < m
            BY <1>1, <1>4, <1>7, <1>16, <2>2, <2>4
        <3> QED BY <1>1, <1>13, <1>14, <2>4, <3>1
    <2> QED BY <1>12, <2>1, <2>2, <2>3, <2>4 DEF Aligned, NextHeader
<1>17. CASE sent[m] > 0
    <2>1. phase' = "body" /\ size' = sent[m]
        BY <1>7, <1>10, <1>17 DEF StartBody
    <2>2. Rest' # <<>> /\ Current' = m /\ Rest'[1] = <<m, 1 + HeaderSize>>
        <3>1. HeaderSize < Ends(sent, m) + 1 - 1
            BY <1>4, <1>7, <1>17
        <3> QED BY <1>12, <3>1
    <2>3. Rest'[1][1] = m /\ Rest'[1][2] = HeaderSize + 1
        BY <1>4, <2>2
    <2>4. \A i \in 1..Len(delivered') : Whose(i)' < Current'
        BY <1>1, <1>13, <2>2
    <2>5. \A k \in 1..Len(sent') : sent'[k] > 0 /\ k < Current' =>
             \E j \in 1..Len(delivered') : Whose(j)' = k
        BY <1>1, <1>13, <1>14, <2>2
    <2> QED BY <1>1, <1>12, <1>17, <2>1, <2>2, <2>3, <2>4, <2>5 DEF Aligned
<1> QED BY <1>7, <1>16, <1>17

\* What is complete is the payload of the frame that is being read.
LEMMA BodyIsPayload ==
    ASSUME StreamInv, Aligned, NEW n \in Counts, phase = "body", pos + n = size
    PROVE  LET m == Rest[1][1]
           IN  /\ m \in 1..Len(sent) /\ Current = m /\ size = sent[m]
               /\ size > 0 /\ size <= Buffer
               /\ Received(n) = Payload(m, sent[m])
               /\ Received(n)[1][1] = m
               /\ size \in 1..Len(Rest) /\ Ends(sent, m) + 1 - Rest[1][2] = size
               /\ SubSeq(stream, n + 1, Len(stream)) = SubSeq(Rest, size + 1, Len(Rest))
<1> DEFINE m == Rest[1][1]
<1>1. /\ HeaderSize \in Nat \ {0} /\ sent \in Seq(Nat) /\ Len(sent) \in Nat
      /\ size \in Nat
    BY OrderTyped
<1>2. Rest # <<>> /\ Rest[1][2] = HeaderSize + 1 /\ size = sent[m] /\ size > 0
    BY DEF Aligned
<1>3. /\ size \in 1..Len(Rest) /\ Len(Received(n)) = size
      /\ Received(n) \in Seq(Nat \X Nat)
      /\ \A i \in 1..size : Received(n)[i] = Rest[i]
      /\ SubSeq(stream, n + 1, Len(stream)) = SubSeq(Rest, size + 1, Len(Rest))
    BY TakesFirst
<1>4. size <= Buffer
    BY DEF StreamInv, ReadsInBounds
<1>5. /\ m \in 1..Len(sent) /\ m \in Nat
      /\ Ends(sent, m) + 1 - (HeaderSize + 1) = size
      /\ \A i \in 1..size : Rest[i] = <<m, HeaderSize + 1 + i - 1>>
    <2>1. m \in 1..Len(sent)
        BY <1>1, <1>2, FollowsFirst DEF Aligned
    <2>2. m \in Nat
        BY <1>1, <2>1
    <2>3. Ends(sent, m) + 1 - (HeaderSize + 1) = size
        <3>1. Ends(sent, m) = HeaderSize + size
            BY <1>2 DEF Ends
        <3> QED BY ONLY <1>1, <3>1
    <2>4. \A i \in 1..Ends(sent, m) + 1 - Rest[1][2] :
             Rest[i] = <<m, Rest[1][2] + i - 1>>
        BY <1>1, <1>2, FollowsFirst DEF Aligned
    <2> QED BY <1>2, <2>1, <2>2, <2>3, <2>4
<1>6. Current = m
    BY <1>2 DEF Current
<1> HIDE DEF m
<1> DEFINE p == Payload(m, size)
<1>7. p \in Seq(Nat \X Nat) /\ Len(p) = size /\ \A k \in 1..size : p[k] = <<m, HeaderSize + k>>
    BY <1>1, <1>5, FrameBytes
<1> HIDE DEF p
<1>8. ASSUME NEW i \in 1..size PROVE Received(n)[i] = p[i]
    <2>1. HeaderSize + 1 + i - 1 = HeaderSize + i
        BY ONLY <1>1, i \in 1..size
    <2>2. Rest[i] = <<m, HeaderSize + i>>
        BY <1>5, <2>1
    <2> QED BY <1>3, <1>7, <2>2
<1>9. Received(n) = p
    BY ONLY <1>3, <1>7, <1>8, SeqEqual
<1>10. Received(n)[1][1] = m
    <2>1. 1 \in 1..size
        BY <1>1, <1>2
    <2> QED BY <1>3, <2>1 DEF m
<1> QED BY <1>2, <1>3, <1>4, <1>5, <1>6, <1>9, <1>10 DEF m, p

LEMMA OrderReadBody == ASSUME OrderInv, NEW n, ReadBody(n) PROVE InOrder'
<1>1. /\ StreamInv /\ InOrder /\ n \in Counts /\ phase = "body" /\ pos + n = size
      /\ UNCHANGED <<sent, truncated>> /\ NextHeader
      /\ stream' = SubSeq(stream, n + 1, Len(stream))
      /\ delivered' = Append(delivered, Received(n))
    BY DEF OrderInv, ReadBody, Message, writer
<1> SUFFICES ASSUME ~truncated' PROVE FramesIntact' /\ Aligned'
    BY DEF InOrder, FramesIntact
<1>2. Aligned /\ FramesIntact /\ ~truncated
    BY <1>1 DEF InOrder
<1> DEFINE m == Rest[1][1]
<1> PICK c : c = Len(delivered) + 1
    OBVIOUS
<1>3. /\ m \in 1..Len(sent) /\ Current = m /\ size = sent[m] /\ size > 0
      /\ Received(n) = Payload(m, sent[m]) /\ Received(n)[1][1] = m
      /\ size \in 1..Len(Rest) /\ Ends(sent, m) + 1 - Rest[1][2] = size
      /\ stream' = SubSeq(Rest, size + 1, Len(Rest))
    BY <1>1, <1>2, BodyIsPayload
<1>4. /\ HeaderSize \in Nat \ {0} /\ Len(sent) \in Nat /\ Len(delivered) \in Nat
      /\ Rest \in Seq(Nat \X Nat) /\ delivered \in Seq(Seq(Nat \X Nat))
    BY <1>1, OrderTyped
<1>5. Rest' = SubSeq(Rest, size + 1, Len(Rest))
    <2>1. Rest' = <<>> \o stream'
        BY <1>1 DEF NextHeader, Rest
    <2>2. stream' \in Seq(Nat \X Nat)
        <3>1. size \in Nat /\ size <= Len(Rest)
            BY ONLY <1>3, <1>4
        <3> QED BY <1>3, <1>4, <3>1, Dropped
    <2>3. <<>> \o stream' = stream'
        BY ONLY <2>2, ConcatEmptySeq
    <2> QED BY <1>3, <2>1, <2>3
<1>6. /\ Follows(Rest', sent') /\ Current' = m + 1
      /\ Rest' # <<>> => Rest'[1][2] = 1
    <2>1. Rest # <<>>
        BY <1>1, <1>2 DEF Aligned
    <2> QED BY <1>1, <1>2, <1>3, <1>5, <2>1, LeftOver
<1>7. m \in Nat
    BY ONLY <1>3, <1>4
<1> HIDE DEF m
<1>8. /\ c \in 1..Len(delivered')
      /\ delivered'[c] = Payload(m, sent[m]) /\ Whose(c)' = m
      /\ \A i \in 1..Len(delivered) : /\ delivered'[i] = delivered[i] /\ Whose(i)' = Whose(i)
                                      /\ i \in 1..Len(delivered')
      /\ \A i \in 1..Len(delivered') : i \in 1..Len(delivered) \/ i = c
      /\ \A i, j \in 1..Len(delivered') : i < j => i \in 1..Len(delivered)
    <2>1. Received(n) \in Seq(Nat \X Nat)
        BY <1>1, TakesFirst
    <2>2. /\ c \in 1..Len(delivered') /\ delivered'[c] = Received(n)
          /\ \A i \in 1..Len(delivered) : delivered'[i] = delivered[i] /\ i \in 1..Len(delivered')
          /\ \A i \in 1..Len(delivered') : i \in 1..Len(delivered) \/ i = c
          /\ \A i, j \in 1..Len(delivered') : i < j => i \in 1..Len(delivered)
        BY <1>1, <1>4, <2>1, OneMore
    <2> QED BY <1>3, <2>2 DEF Whose, m
<1>9. /\ \A i \in 1..Len(delivered) : /\ Whose(i) \in 1..Len(sent) /\ Whose(i) < m
                                      /\ delivered[i] = Payload(Whose(i), sent[Whose(i)])
      /\ \A i, j \in 1..Len(delivered) : i < j => Whose(i) < Whose(j)
      /\ \A k \in 1..Len(sent) : sent[k] > 0 /\ k < m =>
             \E j \in 1..Len(delivered) : Whose(j) = k
    BY <1>2, <1>3 DEF FramesIntact, Aligned
<1>10. ASSUME NEW k \in 1..Len(sent), sent[k] > 0, k <= m
       PROVE  \E j \in 1..Len(delivered') : Whose(j)' = k
    <2>1. CASE k = m
        BY <1>8, <2>1
    <2>2. CASE k < m
        <3>1. PICK j \in 1..Len(delivered) : Whose(j) = k
            BY <1>9, <1>10, <2>2
        <3> QED BY <1>8, <3>1
    <2>3. k = m \/ k < m
        BY ONLY <1>7, <1>4, <1>10, k \in 1..Len(sent)
    <2> QED BY <2>1, <2>2, <2>3
<1>11. FramesIntact'
    <2>1. ASSUME NEW i \in 1..Len(delivered')
          PROVE  /\ Whose(i)' \in 1..Len(sent') /\ Whose(i)' <= m
                 /\ delivered'[i] = Payload(Whose(i)', sent'[Whose(i)'])
        <3>1. CASE i = c
            BY <1>7, <1>1, <1>3, <1>8, <3>1
        <3>2. CASE i \in 1..Len(delivered)
            <4>1. Whose(i)' = Whose(i) /\ Whose(i) \in 1..Len(sent) /\ Whose(i) < m
                BY <1>8, <1>9, <3>2
            <4>2. Whose(i) <= m
                BY ONLY <1>7, <1>4, <4>1
            <4> QED BY <1>1, <1>8, <1>9, <3>2, <4>1, <4>2
        <3> QED BY <1>8, <3>1, <3>2
    <2>2. ASSUME NEW i \in 1..Len(delivered'), NEW j \in 1..Len(delivered'), i < j
          PROVE  Whose(i)' < Whose(j)'
        <3>1. i \in 1..Len(delivered)
            BY <1>8, <2>2
        <3>2. CASE j = c
            BY <1>8, <1>9, <3>1, <3>2
        <3>3. CASE j \in 1..Len(delivered)
            BY <1>8, <1>9, <2>2, <3>1, <3>3
        <3> QED BY <1>8, <3>2, <3>3
    <2>3. ASSUME NEW i \in 1..Len(delivered'), NEW k \in 1..Whose(i)', sent'[k] > 0
          PROVE  \E j \in 1..Len(delivered') : Whose(j)' = k
        <3>1. k \in 1..Len(sent) /\ k <= m
            <4>1. Whose(i)' \in 1..Len(sent) /\ Whose(i)' <= m
                BY <1>1, <2>1
            <4> DEFINE w == Whose(i)'
            <4>2. w \in 1..Len(sent) /\ w <= m /\ k \in 1..w
                BY <2>3, <4>1
            <4> HIDE DEF w
            <4> QED BY ONLY <1>7, <1>4, <4>2
        <3> QED BY <1>1, <1>10, <2>3, <3>1
    <2> QED BY <2>1, <2>2, <2>3 DEF FramesIntact
<1>12. Aligned'
    <2>1. phase' = "header" /\ size' = HeaderSize
        BY <1>1 DEF NextHeader
    <2>2. ASSUME NEW i \in 1..Len(delivered') PROVE Whose(i)' < Current'
        <3>1. CASE i = c
            BY <1>7, <1>6, <1>8, <3>1
        <3>2. CASE i \in 1..Len(delivered)
            <4>1. Whose(i)' = Whose(i) /\ Whose(i) \in 1..Len(sent) /\ Whose(i) < m
                BY <1>8, <1>9, <3>2
            <4>2. Whose(i) < m + 1
                BY ONLY <1>7, <1>4, <4>1
            <4> QED BY <1>6, <4>1, <4>2
        <3> QED BY <1>8, <3>1, <3>2
    <2>3. ASSUME NEW k \in 1..Len(sent'), sent'[k] > 0, k < Current'
          PROVE  \E j \in 1..Len(delivered') : Whose(j)' = k
        <3>1. k \in 1..Len(sent) /\ k <= m
            <4>1. k \in 1..Len(sent) /\ k < m + 1
                BY <1>1, <1>6, <2>3
            <4> QED BY ONLY <1>7, <1>4, <4>1
        <3> QED BY <1>1, <1>10, <2>3, <3>1
    <2> QED BY <1>6, <2>1, <2>2, <2>3 DEF Aligned
<1> QED BY <1>11, <1>12

LEMMA OrderOther == ASSUME OrderInv, Close \/ ReadError \/ UNCHANGED streamVars PROVE InOrder'
<1>1. /\ InOrder /\ UNCHANGED <<sent, truncated, stream, pos, size, rbuf, delivered>>
      /\ phase' \in {phase, "down"}
    BY DEF OrderInv, Close, ReadError, streamVars, writer, reader
<1>2. Rest' = Rest /\ Current' = Current
    BY <1>1 DEF Rest, Current
<1>3. FramesIntact'
    BY <1>1 DEF InOrder, FramesIntact, Whose
<1>4. phase' = phase /\ Aligned => Aligned'
    BY <1>1, <1>2 DEF Aligned, Whose
<1> QED BY <1>1, <1>3, <1>4 DEF InOrder

LEMMA OrderNext == ASSUME OrderInv, [StreamNext]_streamVars PROVE OrderInv'
<1>1. StreamInv'
    BY NextIInv DEF OrderInv
<1>2. InOrder'
    <2>1. CASE \E s \in Sizes : Write(s)
        BY <2>1, OrderWrite
    <2>2. CASE \E n \in 1..Len(stream) : ReadPart(n) \/ ReadHeader(n) \/ ReadBody(n)
        BY <2>2, OrderReadPart, OrderReadHeader, OrderReadBody
    <2>3. CASE Close \/ ReadError \/ UNCHANGED streamVars
        BY <2>3, OrderOther
    <2> QED BY <2>1, <2>2, <2>3 DEF StreamNext, Read
<1> QED BY <1>1, <1>2 DEF OrderInv

LEMMA OrderHolds == StreamSpec => []OrderInv
<1>1. StreamInit => OrderInv
    BY InitStreamInv, OrderInit DEF OrderInv
<1>2. OrderInv /\ [StreamNext]_streamVars => OrderInv'
    BY OrderNext
<1> QED BY <1>1, <1>2, PTL DEF StreamSpec

\* However the kernel cuts the stream, and whatever sizes the payloads have: if no
\* write was cut short, on_message sees the payloads that were sent, whole, in order,
\* none twice and none left out.
THEOREM FramesStayIntact == StreamSpec => []FramesIntact
<1>1. OrderInv => FramesIntact
    BY DEF OrderInv, InOrder
<1> QED BY OrderHolds, <1>1, PTL

-----------------------------------------------------------------------------
(* Handling messages takes nothing away from the framing.                  *)

\* A step of TypedMessages is one of TcpConnection, or leaves its variables alone.
LEMMA TypedStep ==
    ASSUME [TypedNext]_typedVars
    PROVE  [StreamNext]_streamVars
<1>1. CASE \E s \in Sizes : PublishFrame(s)
    BY <1>1 DEF PublishFrame, StreamNext
<1>2. CASE CloseWriter
    BY <1>2 DEF CloseWriter, StreamNext
<1>3. CASE TypedRead
    <2>1. Read
        BY <1>3 DEF TypedRead, ReadEnd, ReadMessage, ReadMore, Read
    <2> QED BY <2>1 DEF StreamNext
<1>4. CASE UNCHANGED typedVars
    BY <1>4 DEF typedVars
<1> QED BY <1>1, <1>2, <1>3, <1>4 DEF TypedNext

\* concat, consume and map, called from within the read loop, implement the framing
\* of Connection.cpp: they neither delay nor repeat any of its reads.
THEOREM TypedImplementsConnection == TypedSpec => StreamSpec
<1>1. TypedInit => StreamInit
    BY DEF TypedInit
<1>2. [TypedNext]_typedVars => [StreamNext]_streamVars
    BY TypedStep
<1> QED BY <1>1, <1>2, PTL DEF TypedSpec, StreamSpec

\* No read of Connection.cpp leaves its part of r_buffer, whatever the messages are
\* and whatever their handlers are called with.
THEOREM TypedReadsStayInBounds == TypedSpec => []ReadsInBounds
BY TypedImplementsConnection, ReadsStayInBounds, PTL
-----------------------------------------------------------------------------
(* Messages are handled as they were published.                            *)

Calls == SUBSET [handler : Nat, data : Seq(Nat \X Nat), size : Int]

HandledTyped == handled \in Seq(Calls)

TypedInv == OrderInv /\ HandledTyped /\ HandledInOrder

\* Every message was made by concat, or is empty.
AllTagged == \A n \in 1..Len(sent) : sent[n] >= TagSize \/ sent[n] = 0

LEMMA CallTyped ==
    ASSUME NEW tag, NEW data \in Seq(Nat \X Nat), NEW k \in Int
    PROVE  Call(tag, data, k) \in Calls
<1>1. Mappings(tag) \subseteq Nat
    BY TagsAssumption DEF Mappings
<1> QED BY <1>1 DEF Call, Calls

\* The tag that is read from a whole payload is that of its message, and what is
\* left is its text.
LEMMA TagIsRead ==
    ASSUME StreamTypeOK, NEW m \in 1..Len(sent), sent[m] >= TagSize, sent[m] <= Buffer,
           NEW data, data = Payload(m, sent[m])
    PROVE  /\ Deserialized(data) = {TagOf[m]}
           /\ Advanced(data) = TextBytes(m)
           /\ Reduced(Len(data)) = sent[m] - TagSize
<1>1. TagSize \in Nat \ {0} /\ Word \in Nat \ {0} /\ Buffer < Word /\ Buffer \in Nat
    BY TagsAssumption, WordAssumption, SizesAssumption
<1>2. HeaderSize \in Nat
    BY SizesAssumption
<1>3. \A n \in 1..Len(sent) : n \in Nat /\ sent[n] \in Nat
    <2>1. sent \in Seq(Sizes) /\ Sizes \subseteq Nat
        BY SizesAssumption DEF StreamTypeOK
    <2>2. sent \in Seq(Nat)
        BY ONLY <2>1, SeqMonotonic
    <2> QED BY ONLY <2>2
<1>4. \A n \in 1..Len(sent) :
          LET p == Payload(n, sent[n])
          IN  /\ p \in Seq(Nat \X Nat) /\ Len(p) = sent[n]
              /\ \A k \in 1..sent[n] : p[k] = <<n, HeaderSize + k>>
    BY <1>3, FrameBytes
<1>5. Len(data) = sent[m]
    BY <1>4
<1>6. ASSUME NEW n \in 1..Len(sent), sent[n] >= TagSize
      PROVE  SubSeq(Payload(n, sent[n]), 1, TagSize)[1] = <<n, HeaderSize + 1>>
    <2> DEFINE p == Payload(n, sent[n])
    <2>1. p \in Seq(Nat \X Nat) /\ Len(p) = sent[n] /\ sent[n] \in Nat
        BY <1>3, <1>4
    <2>2. p[1] = <<n, HeaderSize + 1>>
        <3>1. 1 \in 1..sent[n]
            BY <1>1, <1>6, <2>1
        <3> QED BY <1>4, <3>1
    <2> HIDE DEF p
    <2>3. SubSeq(p, 1, TagSize)[1] = p[1]
        <3>1. \A i \in 1..TagSize : p[i] \in Nat \X Nat
            BY <1>1, <1>6, <2>1
        <3>2. 1 \in Int /\ TagSize \in Int
            BY <1>1
        <3>3. \A i \in 1..TagSize - 1 + 1 : SubSeq(p, 1, TagSize)[i] = p[1 + i - 1]
            BY <3>1, <3>2, SubSeqProperties
        <3>4. 1 \in 1..TagSize - 1 + 1 /\ 1 + 1 - 1 = 1
            BY <1>1
        <3>5. SubSeq(p, 1, TagSize)[1] = p[1 + 1 - 1]
            BY ONLY <3>3, <3>4
        <3> QED BY ONLY <3>4, <3>5
    <2> QED BY <2>2, <2>3 DEF p
<1>7. ASSUME NEW n \in 1..Len(sent), sent[n] >= TagSize,
             SubSeq(data, 1, TagSize) = TagBytes(n)
      PROVE  n = m
    <2>1. SubSeq(data, 1, TagSize)[1] = <<m, HeaderSize + 1>>
        BY <1>6
    <2>2. TagBytes(n)[1] = <<n, HeaderSize + 1>>
        BY <1>6, <1>7 DEF TagBytes
    <2>3. <<m, HeaderSize + 1>> = <<n, HeaderSize + 1>>
        BY <1>7, <2>1, <2>2
    <2> QED BY ONLY <2>3
<1>8. Deserialized(data) = {TagOf[m]}
    <2> DEFINE whose == {n \in 1..Len(sent) : /\ sent[n] >= TagSize /\ Len(data) >= TagSize
                                              /\ SubSeq(data, 1, TagSize) = TagBytes(n)}
    <2>1. SubSeq(data, 1, TagSize) = TagBytes(m)
        BY DEF TagBytes
    <2>2. whose = {m}
        BY <1>5, <1>7, <2>1
    <2>3. Deserialized(data) = IF whose = {} THEN Tags ELSE {TagOf[n] : n \in whose}
        BY DEF Deserialized
    <2> HIDE DEF whose
    <2> QED BY <2>2, <2>3
<1>9. Advanced(data) = TextBytes(m)
    BY <1>5 DEF Advanced, TextBytes
<1>10. Reduced(Len(data)) = sent[m] - TagSize
    <2>1. sent[m] \in Nat
        BY <1>3
    <2>2. (sent[m] - TagSize) \in 0..Word - 1
        BY ONLY <1>1, <2>1, sent[m] >= TagSize, sent[m] <= Buffer
    <2>3. (sent[m] - TagSize) % Word = sent[m] - TagSize
        BY <1>1, <2>2
    <2> QED BY <1>5, <2>3 DEF Reduced
<1> QED BY <1>8, <1>9, <1>10

LEMMA TypedInitInv == TypedInit => TypedInv
<1> SUFFICES ASSUME TypedInit PROVE TypedInv
    OBVIOUS
<1>1. OrderInv
    BY InitStreamInv, OrderInit DEF TypedInit, OrderInv
<1>2. handled = <<>> /\ delivered = <<>>
    BY DEF TypedInit, StreamInit
<1> QED BY <1>1, <1>2 DEF TypedInv, HandledTyped, HandledInOrder

\* A message that is complete is handled with the payload of its frame.
LEMMA MessageStep == ASSUME TypedInv, NEW n, ReadMessage(n) PROVE HandledTyped' /\ HandledInOrder'
<1> DEFINE data == Received(n)
<1>1. /\ OrderInv /\ StreamInv /\ InOrder /\ n \in Counts /\ phase = "body" /\ pos + n = size
      /\ UNCHANGED <<sent, truncated>> /\ delivered' = Append(delivered, data)
    BY DEF TypedInv, OrderInv, ReadMessage, ReadBody, Message, writer
<1>2. PICK tag \in Deserialized(data) :
          handled' = Append(handled, Call(tag, Advanced(data), Reduced(Len(data))))
    BY DEF ReadMessage, Handle, Message
<1>3. data \in Seq(Nat \X Nat) /\ Len(data) \in Nat
    BY <1>1, TakesFirst
<1> DEFINE call == Call(tag, Advanced(data), Reduced(Len(data)))
<1>4. call \in Calls /\ handled \in Seq(Calls)
    <2>1. TagSize \in Nat \ {0} /\ Word \in Nat \ {0}
        BY TagsAssumption, WordAssumption
    <2>2. Reduced(Len(data)) \in Int
        <3>1. Len(data) - TagSize \in Int
            BY <1>3, <2>1
        <3> QED BY <2>1, <3>1 DEF Reduced
    <2>3. Advanced(data) \in Seq(Nat \X Nat)
        <3> HIDE DEF data
        <3>1. \A i \in TagSize + 1..Len(data) : data[i] \in Nat \X Nat
            BY <1>3, <2>1
        <3>2. TagSize + 1 \in Int /\ Len(data) \in Int
            BY <1>3, <2>1
        <3> QED BY <3>1, <3>2, SubSeqProperties DEF Advanced
    <2> QED BY <2>2, <2>3, CallTyped DEF TypedInv, HandledTyped
<1>5. handled' \in Seq(Calls)
    <2> HIDE DEF call
    <2> QED BY <1>2, <1>4 DEF call
<1> SUFFICES ASSUME ~truncated', AllTagged' PROVE HandledInOrder'
    BY <1>5 DEF HandledTyped, HandledInOrder, AllTagged
<1>6. /\ ~truncated /\ AllTagged /\ Aligned /\ FramesIntact /\ Len(handled) = Len(delivered)
      /\ \A i \in 1..Len(handled) :
            handled[i] = Call(TagOf[Whose(i)], TextBytes(Whose(i)), sent[Whose(i)] - TagSize)
    BY <1>1 DEF TypedInv, HandledInOrder, AllTagged, InOrder
<1>7. PICK m \in 1..Len(sent) : /\ size = sent[m] /\ size > 0 /\ size <= Buffer
                                /\ data = Payload(m, sent[m]) /\ data[1][1] = m
    BY <1>1, <1>6, BodyIsPayload
<1>8. sent[m] >= TagSize
    <2>1. sent[m] # 0
        BY <1>7
    <2> QED BY <1>6, <2>1 DEF AllTagged
<1>9. /\ Deserialized(data) = {TagOf[m]} /\ Advanced(data) = TextBytes(m)
      /\ Reduced(Len(data)) = sent[m] - TagSize
    <2> HIDE DEF data
    <2> QED BY <1>1, <1>7, <1>8, TagIsRead DEF StreamInv
<1>10. call = Call(TagOf[m], TextBytes(m), sent[m] - TagSize)
    BY <1>2, <1>9
<1> PICK c : c = Len(delivered) + 1
    OBVIOUS
<1>11. /\ Len(handled') = c /\ handled'[c] = call /\ Len(delivered') = c
       /\ delivered'[c] = data
       /\ \A i \in 1..Len(handled) : handled'[i] = handled[i]
       /\ \A i \in 1..Len(handled') : i \in 1..Len(handled) \/ i = c
       /\ \A i \in 1..Len(delivered) : delivered'[i] = delivered[i]
    <2> HIDE DEF call, data
    <2>1. delivered \in Seq(Seq(Nat \X Nat))
        BY <1>1, OrderTyped
    <2>2. handled' = Append(handled, call)
        BY <1>2 DEF call
    <2>3. /\ Len(handled') = c /\ handled'[c] = call
          /\ \A i \in 1..Len(handled) : handled'[i] = handled[i]
          /\ \A i \in 1..Len(handled') : i \in 1..Len(handled) \/ i = c
        BY <1>4, <1>6, <2>2, OneMore
    <2>4. /\ Len(delivered') = c /\ delivered'[c] = data
          /\ \A i \in 1..Len(delivered) : delivered'[i] = delivered[i]
        BY <1>1, <1>3, <2>1, OneMore
    <2> QED BY <2>3, <2>4
<1>12. \A k : TextBytes(k)' = TextBytes(k)
    BY <1>1 DEF TextBytes
<1>13. ASSUME NEW i \in 1..Len(handled')
       PROVE  handled'[i] = Call(TagOf[Whose(i)'], TextBytes(Whose(i))', sent'[Whose(i)'] - TagSize)
    <2>1. CASE i = c
        <3>1. Whose(i)' = m
            BY <1>7, <1>11, <2>1 DEF Whose
        <3>2. TextBytes(Whose(i))' = TextBytes(m)
            BY <1>1, <3>1 DEF TextBytes
        <3> QED BY <1>1, <1>10, <1>11, <2>1, <3>1, <3>2
    <2>2. CASE i \in 1..Len(handled)
        <3>1. Whose(i)' = Whose(i) /\ handled'[i] = handled[i]
            BY <1>6, <1>11, <2>2 DEF Whose
        <3>2. TextBytes(Whose(i))' = TextBytes(Whose(i))
            BY <1>1, <3>1 DEF TextBytes
        <3> QED BY <1>1, <1>6, <2>2, <3>1, <3>2
    <2> QED BY <1>11, <2>1, <2>2
<1> QED BY <1>11, <1>13 DEF HandledInOrder

LEMMA PublishStep ==
    ASSUME TypedInv, NEW s \in Sizes, PublishFrame(s) PROVE HandledTyped' /\ HandledInOrder'
<1>1. /\ InOrder /\ sent \in Seq(Nat) /\ s \in Nat
    BY OrderTyped, SizesAssumption DEF TypedInv, OrderInv
<1>2. /\ sent' = Append(sent, s) /\ UNCHANGED <<delivered, handled>>
      /\ truncated => truncated'
    BY DEF PublishFrame, Write, reader
<1>3. HandledTyped'
    BY <1>2 DEF TypedInv, HandledTyped
<1> SUFFICES ASSUME ~truncated', AllTagged' PROVE HandledInOrder'
    BY <1>3 DEF HandledInOrder, AllTagged
<1>4. /\ \A k \in 1..Len(sent) : k \in 1..Len(sent') /\ sent'[k] = sent[k]
    BY <1>1, <1>2, OneMore
<1>5. AllTagged /\ ~truncated
    BY <1>2, <1>4 DEF AllTagged
<1>6. /\ Len(handled) = Len(delivered)
      /\ \A i \in 1..Len(handled) :
            handled[i] = Call(TagOf[Whose(i)], TextBytes(Whose(i)), sent[Whose(i)] - TagSize)
      /\ \A i \in 1..Len(delivered) : Whose(i) \in 1..Len(sent)
    BY <1>1, <1>5 DEF TypedInv, HandledInOrder, AllTagged, InOrder, FramesIntact
<1>7. ASSUME NEW i \in 1..Len(handled')
      PROVE  handled'[i] = Call(TagOf[Whose(i)'], TextBytes(Whose(i))', sent'[Whose(i)'] - TagSize)
    <2>1. i \in 1..Len(handled) /\ Whose(i)' = Whose(i) /\ handled'[i] = handled[i]
        BY <1>2 DEF Whose
    <2>2. Whose(i) \in 1..Len(sent) /\ sent'[Whose(i)] = sent[Whose(i)]
        BY <1>4, <1>6, <2>1
    <2>3. TextBytes(Whose(i))' = TextBytes(Whose(i))
        BY <2>1, <2>2 DEF TextBytes
    <2> QED BY <1>6, <2>1, <2>2, <2>3
<1> QED BY <1>2, <1>6, <1>7 DEF HandledInOrder

LEMMA TypedOther ==
    ASSUME TypedInv, UNCHANGED <<sent, delivered, handled>>, truncated' = truncated
    PROVE  HandledTyped' /\ HandledInOrder'
BY DEF TypedInv, HandledTyped, HandledInOrder, Whose, TextBytes

LEMMA TypedNextInv == ASSUME TypedInv, [TypedNext]_typedVars PROVE TypedInv'
<1>1. OrderInv'
    BY TypedStep, OrderNext DEF TypedInv
<1>2. CASE \E s \in Sizes : PublishFrame(s)
    BY <1>1, <1>2, PublishStep DEF TypedInv
<1>3. CASE \E n \in 1..Len(stream) : ReadMessage(n)
    BY <1>1, <1>3, MessageStep DEF TypedInv
<1>4. CASE \/ CloseWriter \/ ReadEnd \/ UNCHANGED typedVars
           \/ \E n \in 1..Len(stream) : ReadMore(n)
    <2>1. UNCHANGED <<sent, delivered, handled>> /\ truncated' = truncated
        BY <1>4 DEF CloseWriter, Close, ReadEnd, ReadError, typedVars, streamVars, writer, reader,
           ReadMore, ReadPart, ReadHeader
    <2> QED BY <1>1, <2>1, TypedOther DEF TypedInv
<1> QED BY <1>2, <1>3, <1>4 DEF TypedNext, TypedRead

LEMMA TypedInvHolds == TypedSpec => []TypedInv
<1>1. TypedInv /\ [TypedNext]_typedVars => TypedInv'
    BY TypedNextInv
<1> QED BY TypedInitInv, <1>1, PTL DEF TypedSpec

\* For any tags, mappings and texts, however the stream is cut: each message that was
\* published with a tag is handled once, in order, by the first mapping of its tag,
\* with its text and its size.
THEOREM MessagesHandledInOrder == TypedSpec => []HandledInOrder
<1>1. TypedInv => HandledInOrder
    BY DEF TypedInv
<1> QED BY TypedInvHolds, <1>1, PTL
=============================================================================
