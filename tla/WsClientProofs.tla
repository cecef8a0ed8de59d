-------------------------- MODULE WsClientProofs --------------------------
(***************************************************************************)
(* For any set of addresses and any number of restarts: the web socket     *)
(* client's type invariant, OneDriver, and the contract of EventContract.  *)
(*                                                                         *)
(* TypeOK /\ Cycle is inductive, along the argument of TcpClientProofs: a  *)
(* handler at the head of the strand that is the one driver leaves nothing *)
(* else pending, so what it starts is the only driver again.               *)
(***************************************************************************)
EXTENDS WsClient, TLAPS

IInv == TypeOK /\ Cycle

\* A task is recognised by its kind, as the handlers do.
LEMMA Kinds ==
    \A t \in Tasks :
        /\ t.kind \in {"dialed", "shaken"} <=> t \in StageTasks
        /\ t.kind = "expired" <=> t \in TimerTasks
        /\ t.kind = "read" <=> t \in ReadTasks
        /\ t.kind = "disconnect" <=> t \in DisconnectTasks
        /\ t.kind = "write" <=> t \in WriteTasks
BY DEF Tasks, DriverTasks, StageTasks, TimerTasks, ReadTasks, DisconnectTasks, WriteTasks

\* The kinds keep tasks of different sets apart.
LEMMA Apart ==
    /\ WriteTasks \cap DriverTasks = {}
    /\ StageTasks \cap (TimerTasks \cup ReadTasks \cup DisconnectTasks) = {}
    /\ TimerTasks \cap (ReadTasks \cup DisconnectTasks) = {}
    /\ ReadTasks \cap DisconnectTasks = {}
BY DEF DriverTasks, StageTasks, TimerTasks, ReadTasks, DisconnectTasks, WriteTasks

\* No task of s does more than write.
Quiet(s) == \A i \in 1..Len(s) : s[i] \notin DriverTasks

OpNames == Conns \cup Stages

\* One pending operation is the one driver.
LEMMA OpDrives ==
    ASSUME NEW s \in Seq(Tasks), Quiet(s), NEW x
    PROVE  DriversOf({x}, s) = {x}
BY DEF DriversOf, Quiet

\* One appended handler is the one driver.
LEMMA AppendDrives ==
    ASSUME NEW s \in Seq(Tasks), Quiet(s), NEW t \in DriverTasks
    PROVE  /\ DriversOf({}, Append(s, t)) = {Len(s) + 1}
           /\ Append(s, t) \in Seq(Tasks)
           /\ \A i \in 1..Len(Append(s, t)) : Append(s, t)[i] \in DriverTasks =>
                  Append(s, t)[i] = t
<1>1. t \in Tasks
    BY DEF Tasks
<1>2. /\ Append(s, t) \in Seq(Tasks) /\ Len(Append(s, t)) = Len(s) + 1
      /\ \A i \in 1..Len(s) : Append(s, t)[i] = s[i]
      /\ Append(s, t)[Len(s) + 1] = t
    BY <1>1
<1>3. \A i \in 1..Len(s) + 1 : Append(s, t)[i] \in DriverTasks <=> i = Len(s) + 1
    BY <1>2 DEF Quiet
<1> QED BY <1>2, <1>3 DEF DriversOf

\* While an operation is pending, it is the only one, and the strand only writes.
LEMMA OpPending ==
    ASSUME IInv, NEW op \in ops
    PROVE  ~lost /\ ops = {op} /\ Quiet(strand)
<1> USE DEF IInv, Cycle
<1>1. op \in Drivers /\ op \in OpNames
    BY DEF Drivers, DriversOf, TypeOK, OpNames
<1>2. ~lost /\ Drivers = {op}
    BY <1>1
<1>3. ops = {op}
    BY <1>2 DEF Drivers, DriversOf
<1>4. Quiet(strand)
    <2>1. SUFFICES ASSUME NEW i \in 1..Len(strand), strand[i] \in DriverTasks PROVE FALSE
        BY DEF Quiet
    <2>2. i = op
        BY <1>2, <2>1 DEF Drivers, DriversOf
    <2>3. i \in Nat
        BY DEF TypeOK
    <2> QED BY <1>1, <2>2, <2>3, NamesAssumption DEF OpNames
<1> QED BY <1>2, <1>3, <1>4

\* While a handler that drives is at the head of the strand, no operation is
\* pending and the rest of the strand only writes.
LEMMA HeadDrives ==
    ASSUME IInv, strand # <<>>, Head(strand) \in DriverTasks
    PROVE  ~lost /\ ops = {} /\ Quiet(Tail(strand)) /\ Tail(strand) \in Seq(Tasks)
<1> USE DEF IInv, Cycle
<1>1. /\ strand \in Seq(Tasks) /\ 1 \in 1..Len(strand) /\ strand[1] = Head(strand)
      /\ Tail(strand) \in Seq(Tasks) /\ Len(Tail(strand)) = Len(strand) - 1
      /\ \A i \in 1..Len(Tail(strand)) : Tail(strand)[i] = strand[i + 1]
    BY DEF TypeOK
<1>2. 1 \in Drivers
    BY <1>1 DEF Drivers, DriversOf
<1>3. ~lost /\ Drivers = {1}
    BY <1>2
<1>4. ops = {}
    <2>1. SUFFICES ASSUME NEW op \in ops PROVE FALSE
        OBVIOUS
    <2>2. op = 1
        BY <1>3 DEF Drivers, DriversOf
    <2> QED BY <2>1, <2>2, NamesAssumption DEF TypeOK
<1>5. Quiet(Tail(strand))
    <2>1. SUFFICES ASSUME NEW i \in 1..Len(Tail(strand)), Tail(strand)[i] \in DriverTasks
                   PROVE  FALSE
        BY DEF Quiet
    <2>2. i + 1 \in 1..Len(strand) /\ strand[i + 1] \in DriverTasks
        BY <1>1, <2>1
    <2>3. i + 1 = 1
        BY <1>3, <2>2 DEF Drivers, DriversOf
    <2> QED BY <1>1, <2>3
<1> QED BY <1>1, <1>3, <1>4, <1>5

\* What a step that starts an operation has to establish.
LEMMA OpStarted ==
    ASSUME NEW x \in OpNames, ops' = {x}, ~lost', strand' \in Seq(Tasks), Quiet(strand'),
           x \in Conns => connection' = x /\ ~stale',
           x \in Stages => connection' = None \/ stale'
    PROVE  Cycle'
<1>1. Drivers' = {x}
    BY OpDrives DEF Drivers
<1>2. DriversOwnConnection'
    BY DEF DriversOwnConnection, Quiet, DriverTasks
<1>3. NoDialWhileConnected'
    <2>1. x \in Conns => ops' \cap Stages = {}
        BY NamesAssumption
    <2>2. \A i \in 1..Len(strand') : strand'[i] \notin StageTasks \cup TimerTasks
        BY DEF Quiet, DriverTasks
    <2> QED BY <2>1, <2>2 DEF NoDialWhileConnected, OpNames
<1>4. NoWaitCancelled'
    BY DEF NoWaitCancelled, Quiet, DriverTasks
<1> QED BY <1>1, <1>2, <1>3, <1>4 DEF Cycle

\* What a step that queues a handler has to establish.
LEMMA TaskQueued ==
    ASSUME NEW s \in Seq(Tasks), Quiet(s), NEW t \in DriverTasks,
           strand' = Append(s, t), ops' = {}, ~lost',
           t \in ReadTasks \cup DisconnectTasks => connection' = t.id /\ ~stale',
           t \in StageTasks \cup TimerTasks => connection' = None \/ stale',
           t \in TimerTasks => ~t.aborted
    PROVE  Cycle' /\ strand' \in Seq(Tasks)
<1>1. /\ Drivers' = {Len(s) + 1}
      /\ strand' \in Seq(Tasks)
      /\ \A i \in 1..Len(strand') : strand'[i] \in DriverTasks => strand'[i] = t
    BY AppendDrives DEF Drivers
<1>2. DriversOwnConnection'
    BY <1>1 DEF DriversOwnConnection, DriverTasks
<1>3. NoDialWhileConnected'
    BY <1>1 DEF NoDialWhileConnected, DriverTasks
<1>4. NoWaitCancelled'
    BY <1>1 DEF NoWaitCancelled, DriverTasks
<1> QED BY <1>1, <1>2, <1>3, <1>4 DEF Cycle

LEMMA InitIInv == Init => IInv
<1> SUFFICES ASSUME Init PROVE IInv
    OBVIOUS
<1>1. Quiet(strand) /\ strand \in Seq(Tasks)
    BY DEF Init, Quiet
<1>2. TypeOK
    <2>1. line \in [Socks -> {"closed", "up", "fin", "rst"}] /\ inbox \in [Socks -> Nat]
        BY DEF Init
    <2>2. ops \in SUBSET (Conns \cup Stages)
        BY DEF Init, Stages
    <2> QED BY <1>1, <2>1, <2>2 DEF Init, TypeOK
<1>3. Drivers = {Dial}
    BY <1>1, OpDrives DEF Init, Drivers
<1>4. Cycle
    BY <1>1, <1>3, NamesAssumption
       DEF Init, Cycle, DriversOwnConnection, NoDialWhileConnected, NoWaitCancelled, Quiet,
           Stages
<1> QED BY <1>2, <1>4 DEF IInv

-----------------------------------------------------------------------------
(* Steps that move no driver.                                              *)

\* Cycle speaks of the strand's driving handlers only.
LEMMA UntouchedKeepsDrivers ==
    ASSUME Cycle, UNCHANGED <<ops, connection, stale, strand, lost>>
    PROVE  Cycle'
BY DEF Cycle, Drivers, DriversOf, DriversOwnConnection, NoDialWhileConnected,
   NoWaitCancelled

LEMMA RemoteStep ==
    ASSUME IInv, Remote
    PROVE  IInv'
<1> USE DEF IInv
<1>1. TypeOK'
    <2>1. CASE ServerToggle
        BY <2>1 DEF ServerToggle, local, loop, TypeOK
    <2>2. ASSUME NEW c \in Conns, RemoteSend(c)
          PROVE  TypeOK'
        BY <2>2 DEF RemoteSend, local, loop, Socks, TypeOK
    <2>3. ASSUME NEW s \in Socks, RemoteClose(s) \/ RemoteReset(s)
          PROVE  TypeOK'
        BY <2>3 DEF RemoteClose, RemoteReset, local, loop, TypeOK
    <2> QED BY <2>1, <2>2, <2>3 DEF Remote
<1>2. UNCHANGED <<ops, connection, stale, strand, lost>>
    BY DEF Remote, ServerToggle, RemoteSend, RemoteClose, RemoteReset, local, loop
<1> QED BY <1>1, <1>2, UntouchedKeepsDrivers

LEMMA PostStep ==
    ASSUME IInv, NEW m \in Modes, NEW ids \in SUBSET Conns, Post(m, ids)
    PROVE  IInv'
<1> DEFINE t == [kind |-> "write", mode |-> m, ids |-> ids]
<1> USE DEF IInv
<1>1. t \in WriteTasks /\ t \in Tasks /\ t \notin DriverTasks
    <2>1. t \in WriteTasks
        BY DEF WriteTasks
    <2> QED BY <2>1, Apart DEF Tasks
<1>2. strand \in Seq(Tasks) /\ strand' = Append(strand, t) /\ strand' \in Seq(Tasks)
    BY <1>1 DEF Post, TypeOK
<1>3. TypeOK'
    BY <1>2 DEF Post, TypeOK, remote, loop
<1>4. /\ Len(strand') = Len(strand) + 1
      /\ \A i \in 1..Len(strand) : strand'[i] = strand[i]
      /\ strand'[Len(strand) + 1] = t
    BY <1>1, <1>2
<1>5. \A i \in Nat : i \in 1..Len(strand') /\ strand'[i] \in DriverTasks
                     <=> i \in 1..Len(strand) /\ strand[i] \in DriverTasks
    BY <1>1, <1>2, <1>4
<1>6. UNCHANGED <<ops, connection, stale, lost>>
    BY DEF Post, loop
<1>7. Drivers' = Drivers
    <2>1. {i \in 1..Len(strand') : strand'[i] \in DriverTasks}
            = {i \in 1..Len(strand) : strand[i] \in DriverTasks}
        BY <1>2, <1>5
    <2> QED BY <1>6, <2>1 DEF Drivers, DriversOf
<1>8. \A i \in 1..Len(strand') : strand'[i] \in DriverTasks =>
          i \in 1..Len(strand) /\ strand'[i] = strand[i]
    BY <1>2, <1>4, <1>5
<1>9. DriversOwnConnection' /\ NoDialWhileConnected' /\ NoWaitCancelled'
    BY <1>6, <1>8 DEF Cycle, DriversOwnConnection, NoDialWhileConnected, NoWaitCancelled,
       DriverTasks
<1> QED BY <1>3, <1>6, <1>7, <1>9 DEF Cycle

LEMMA ApplicationStep ==
    ASSUME IInv, Application \/ Dispatched
    PROVE  IInv'
<1> USE DEF IInv
<1>1. CASE Publish \/ PublishEx \/ Send
    BY <1>1, PostStep DEF Publish, PublishEx, Send, Modes, TypeOK
<1>2. CASE Dispatch \/ Dispatched \/ Stop
    <2>1. TypeOK'
        BY <1>2 DEF Dispatch, Dispatched, Stop, TypeOK, remote
    <2>2. UNCHANGED <<ops, connection, stale, strand, lost>>
        BY <1>2 DEF Dispatch, Dispatched, Stop
    <2> QED BY <2>1, <2>2, UntouchedKeepsDrivers
<1>3. CASE Restart
    <2>1. strand' = <<>> /\ strand' \in Seq(Tasks) /\ Quiet(strand')
        BY <1>3 DEF Restart, Quiet
    <2>2. restarts' \in Nat
        BY <1>3 DEF Restart, TypeOK
    <2>3. line' \in [Socks -> {"closed", "up", "fin", "rst"}] /\ inbox' \in [Socks -> Nat]
        BY <1>3 DEF Restart, TypeOK
    <2>4. stale' \in BOOLEAN /\ ops' \in SUBSET (Conns \cup Stages)
        BY <1>3 DEF Restart, Stages
    <2>5. TypeOK'
        BY <1>3, <2>1, <2>2, <2>3, <2>4 DEF Restart, TypeOK
    <2>6. Cycle'
        BY <1>3, <2>1, OpStarted, NamesAssumption DEF Restart, OpNames, Stages, TypeOK
    <2> QED BY <2>5, <2>6
<1> QED BY <1>1, <1>2, <1>3 DEF Application

-----------------------------------------------------------------------------
(* The reactor: an operation becomes a handler.                            *)

LEMMA CompleteStep ==
    ASSUME IInv, NEW op \in OpNames, NEW t \in DriverTasks, Complete(op, t),
           t \in ReadTasks => op \in Conns /\ t.id = op,
           t \in StageTasks \cup TimerTasks => op \in Stages,
           t \in TimerTasks => ~t.aborted,
           t \notin DisconnectTasks,
           line' \in [Socks -> {"closed", "up", "fin", "rst"}],
           inbox' \in [Socks -> Nat]
    PROVE  IInv'
<1> USE DEF IInv
<1>1. ~lost /\ ops = {op} /\ Quiet(strand) /\ strand \in Seq(Tasks)
    BY OpPending DEF Complete, TypeOK
<1>2. ops' = {} /\ strand' = Append(strand, t) /\ UNCHANGED <<connection, stale, lost>>
    BY <1>1 DEF Complete, loop
<1>3. op \in Conns => connection = op /\ ~stale
    BY <1>1 DEF Cycle, DriversOwnConnection
<1>4. op \in Stages => connection = None \/ stale
    BY <1>1 DEF Cycle, NoDialWhileConnected
<1>5. t \in ReadTasks \cup DisconnectTasks => connection' = t.id /\ ~stale'
    BY <1>2, <1>3, Apart
<1>6. t \in StageTasks \cup TimerTasks => connection' = None \/ stale'
    BY <1>2, <1>4, Apart
<1>7. ~lost'
    BY <1>1, <1>2
<1>8. Cycle' /\ strand' \in Seq(Tasks)
    BY <1>1, <1>2, <1>5, <1>6, <1>7, TaskQueued
<1>9. TypeOK'
    BY <1>2, <1>8 DEF Complete, TypeOK, loop
<1> QED BY <1>8, <1>9

LEMMA ReactorStep ==
    ASSUME IInv, Reactor
    PROVE  IInv'
<1> USE DEF IInv
<1>1. CASE DialOk \/ DialFailed \/ ShakeOk \/ ShakeFailed
    <2>1. PICK op \in {Dial, Shake}, k \in {"dialed", "shaken"}, b \in BOOLEAN :
              Complete(op, [kind |-> k, ok |-> b])
        BY <1>1 DEF DialOk, DialFailed, ShakeOk, ShakeFailed
    <2> DEFINE t == [kind |-> k, ok |-> b]
    <2>2. t \in StageTasks /\ t \in DriverTasks
          /\ t \notin ReadTasks \cup DisconnectTasks \cup TimerTasks
        BY DEF StageTasks, DriverTasks, ReadTasks, DisconnectTasks, TimerTasks
    <2>3. line' \in [Socks -> {"closed", "up", "fin", "rst"}] /\ inbox' \in [Socks -> Nat]
        BY <1>1 DEF DialOk, DialFailed, ShakeOk, ShakeFailed, TypeOK
    <2>4. op \in OpNames /\ op \in Stages
        BY DEF OpNames, Stages
    <2> QED BY <2>1, <2>2, <2>3, <2>4, CompleteStep
<1>2. CASE TimerDone
    <2> DEFINE t == [kind |-> "expired", aborted |-> FALSE]
    <2>1. t \in TimerTasks /\ t \in DriverTasks /\ t \notin ReadTasks /\ t \notin DisconnectTasks
        BY DEF TimerTasks, DriverTasks, ReadTasks, DisconnectTasks
    <2>2. line' \in [Socks -> {"closed", "up", "fin", "rst"}] /\ inbox' \in [Socks -> Nat]
        BY <1>2 DEF TimerDone, TypeOK
    <2> QED BY <1>2, <2>1, <2>2, CompleteStep DEF TimerDone, OpNames, Stages
<1>3. ASSUME NEW c \in Conns, NEW r \in Results, ReadDone(c, r)
      PROVE  IInv'
    <2> DEFINE t == [kind |-> "read", id |-> c, res |-> r]
    <2>1. /\ t \in ReadTasks /\ t \in DriverTasks /\ t.id = c
          /\ t \notin StageTasks \cup TimerTasks /\ t \notin DisconnectTasks
        BY DEF ReadTasks, DriverTasks, StageTasks, TimerTasks, DisconnectTasks
    <2>2. r # "error" => inbox[c] > 0
        BY <1>3 DEF ReadDone, ReadOutcomes
    <2>3. line' \in [Socks -> {"closed", "up", "fin", "rst"}] /\ inbox' \in [Socks -> Nat]
        BY <1>3, <2>2 DEF ReadDone, TypeOK, Socks
    <2> QED BY <1>3, <2>1, <2>3, CompleteStep DEF ReadDone, OpNames
<1> QED BY <1>1, <1>2, <1>3 DEF Reactor

-----------------------------------------------------------------------------
(* The handlers.                                                           *)

\* The handler at the head is the task of its kind.
LEMMA HeadTask ==
    ASSUME IInv, NEW k \in {"dialed", "shaken", "expired", "read", "disconnect", "write"}, AtHead(k)
    PROVE  /\ strand # <<>> /\ task = strand[1] /\ task \in Tasks
           /\ 1 \in 1..Len(strand)
           /\ k \in {"dialed", "shaken"} => task \in StageTasks
           /\ k = "expired" => task \in TimerTasks
           /\ k = "read" => task \in ReadTasks
           /\ k = "disconnect" => task \in DisconnectTasks
           /\ k = "write" => task \in WriteTasks
           /\ k # "write" => task \in DriverTasks
<1>1. strand \in Seq(Tasks) /\ strand # <<>> /\ task.kind = k
    BY DEF AtHead, IInv, TypeOK
<1>2. task = strand[1] /\ task \in Tasks /\ 1 \in 1..Len(strand)
    BY <1>1 DEF task
<1> QED BY <1>1, <1>2, Kinds DEF DriverTasks

\* When a driving handler is at the head, nothing else drives the client.
LEMMA AtDriver ==
    ASSUME IInv, NEW k \in {"dialed", "shaken", "expired", "read", "disconnect"}, AtHead(k)
    PROVE  /\ ~lost /\ ops = {} /\ Quiet(Tail(strand)) /\ Tail(strand) \in Seq(Tasks)
           /\ k \in {"dialed", "shaken", "expired"} => connection = None \/ stale
           /\ k = "expired" => ~task.aborted
           /\ k \in {"read", "disconnect"} =>
                  connection = task.id /\ task.id \in Conns /\ ~stale
<1>1. /\ strand # <<>> /\ task = strand[1] /\ 1 \in 1..Len(strand)
      /\ task \in DriverTasks
      /\ k \in {"dialed", "shaken"} => task \in StageTasks
      /\ k = "expired" => task \in TimerTasks
      /\ k = "read" => task \in ReadTasks
      /\ k = "disconnect" => task \in DisconnectTasks
    BY HeadTask
<1>2. ~lost /\ ops = {} /\ Quiet(Tail(strand)) /\ Tail(strand) \in Seq(Tasks)
    BY <1>1, HeadDrives DEF task
<1>3. k \in {"dialed", "shaken", "expired"} => connection = None \/ stale
    BY <1>1 DEF IInv, Cycle, NoDialWhileConnected
<1>4. k \in {"read", "disconnect"} => connection = task.id /\ task.id \in Conns /\ ~stale
    BY <1>1 DEF IInv, Cycle, DriversOwnConnection, ReadTasks, DisconnectTasks
<1>5. k = "expired" => ~task.aborted
    BY <1>1 DEF IInv, Cycle, NoWaitCancelled
<1> QED BY <1>2, <1>3, <1>4, <1>5

LEMMA ShakenStep ==
    ASSUME IInv, NEW c \in Conns, Shaken(c)
    PROVE  IInv' /\ (connection = None \/ stale)
<1> USE DEF IInv
<1>1. /\ ~lost /\ ops = {} /\ Quiet(Tail(strand)) /\ Tail(strand) \in Seq(Tasks)
      /\ connection = None \/ stale
    BY AtDriver DEF Shaken, Take
<1>2. ops' = {c} /\ strand' = Tail(strand) /\ connection' = c /\ ~stale' /\ ~lost'
    BY <1>1 DEF Shaken, Take, loop
<1>3. Cycle'
    BY <1>1, <1>2, OpStarted, NamesAssumption DEF OpNames
<1>4. line' \in [Socks -> {"closed", "up", "fin", "rst"}] /\ inbox' \in [Socks -> Nat]
    BY DEF Shaken, TypeOK, Socks
<1>5. TypeOK'
    BY <1>1, <1>2, <1>4 DEF Shaken, Take, TypeOK, loop
<1> QED BY <1>1, <1>3, <1>5

LEMMA ShakenThrowStep ==
    ASSUME IInv, ShakenThrow
    PROVE  IInv'
<1> USE DEF IInv
<1>1. ops = {} /\ Quiet(Tail(strand)) /\ Tail(strand) \in Seq(Tasks)
    BY AtDriver DEF ShakenThrow
<1>2. ops' = {} /\ strand' = Tail(strand) /\ lost'
    BY <1>1 DEF ShakenThrow
<1>3. Drivers' = {}
    BY <1>1, <1>2 DEF Drivers, DriversOf, Quiet
<1>4. DriversOwnConnection' /\ NoDialWhileConnected' /\ NoWaitCancelled'
    BY <1>1, <1>2 DEF DriversOwnConnection, NoDialWhileConnected, NoWaitCancelled, Quiet,
       DriverTasks
<1>5. TypeOK'
    BY <1>1, <1>2 DEF ShakenThrow, TypeOK
<1> QED BY <1>2, <1>3, <1>4, <1>5 DEF Cycle

\* With nothing pending, reconnect() starts the wait and cancels none.
LEMMA ReconnectStarts ==
    ASSUME ops = {}, ~lost, Quiet(Tail(strand)), Tail(strand) \in Seq(Tasks), Reconnect,
           UNCHANGED lost, connection' = None \/ stale'
    PROVE  Cycle' /\ ops' = {Timer} /\ strand' = Tail(strand)
<1>1. ops' = {Timer} /\ strand' = Tail(strand)
    BY DEF Reconnect
<1> QED BY <1>1, OpStarted, NamesAssumption DEF OpNames, Stages

LEMMA RetryStep ==
    ASSUME IInv, Dialed \/ DialError \/ ShakeError \/ Expired
    PROVE  IInv'
<1> USE DEF IInv
<1>1. CASE DialError \/ ShakeError
    <2>1. /\ ~lost /\ ops = {} /\ Quiet(Tail(strand)) /\ Tail(strand) \in Seq(Tasks)
          /\ connection = None \/ stale
        BY <1>1, AtDriver DEF DialError, ShakeError, Take
    <2>2. UNCHANGED <<connection, stale, lost>> /\ Reconnect
        BY <1>1 DEF DialError, ShakeError, Take, loop
    <2>3. Cycle' /\ ops' = {Timer} /\ strand' = Tail(strand)
        BY <2>1, <2>2, ReconnectStarts
    <2>4. line' \in [Socks -> {"closed", "up", "fin", "rst"}]
        BY <1>1 DEF DialError, ShakeError, TypeOK
    <2>5. TypeOK'
        BY <1>1, <2>1, <2>3, <2>4 DEF DialError, ShakeError, Take, TypeOK, Stages, loop
    <2> QED BY <2>3, <2>5
<1>3. CASE Dialed
    <2>1. /\ ~lost /\ ops = {} /\ Quiet(Tail(strand)) /\ Tail(strand) \in Seq(Tasks)
          /\ connection = None \/ stale
        BY <1>3, AtDriver DEF Dialed, Take
    <2>2. ops' = {Shake} /\ strand' = Tail(strand) /\ UNCHANGED <<connection, stale, lost>>
        BY <1>3, <2>1 DEF Dialed, Take, loop
    <2>3. Cycle'
        BY <2>1, <2>2, OpStarted, NamesAssumption DEF OpNames, Stages
    <2>4. TypeOK'
        BY <1>3, <2>1, <2>2 DEF Dialed, Take, TypeOK, Stages, loop
    <2> QED BY <2>3, <2>4
<1>2. CASE Expired
    <2>1. /\ ~lost /\ ops = {} /\ Quiet(Tail(strand)) /\ Tail(strand) \in Seq(Tasks)
          /\ connection = None \/ stale
        BY <1>2, AtDriver DEF Expired, Take
    <2>2. ~task.aborted
        BY <1>2, AtDriver DEF Expired, Take
    <2>3. ops' = {Dial} /\ strand' = Tail(strand) /\ UNCHANGED <<connection, stale, lost>>
        BY <1>2, <2>1, <2>2 DEF Expired, Take, loop
    <2>4. Cycle'
        BY <2>1, <2>3, OpStarted, NamesAssumption DEF OpNames, Stages
    <2>5. TypeOK'
        BY <1>2, <2>1, <2>3 DEF Expired, Take, TypeOK, Stages, loop
    <2> QED BY <2>4, <2>5
<1> QED BY <1>1, <1>2, <1>3

LEMMA ReadMessageStep ==
    ASSUME IInv, ReadMessage
    PROVE  IInv' /\ connection = task.id /\ task.id \in Conns /\ ~stale
<1> USE DEF IInv
<1>1. /\ ~lost /\ ops = {} /\ Quiet(Tail(strand)) /\ Tail(strand) \in Seq(Tasks)
      /\ connection = task.id /\ task.id \in Conns /\ ~stale
    BY AtDriver DEF ReadMessage, Take
<1>2. ops' = {task.id} /\ strand' = Tail(strand) /\ UNCHANGED <<connection, stale, lost>>
    BY <1>1 DEF ReadMessage, Take, loop
<1>3. Cycle'
    BY <1>1, <1>2, OpStarted, NamesAssumption DEF OpNames
<1>4. TypeOK'
    BY <1>1, <1>2 DEF ReadMessage, Take, TypeOK, loop
<1> QED BY <1>1, <1>3, <1>4

LEMMA ReadFailedStep ==
    ASSUME IInv, ReadFailed
    PROVE  IInv'
<1> DEFINE t == [kind |-> "disconnect", id |-> task.id]
<1> USE DEF IInv
<1>1. /\ ~lost /\ ops = {} /\ Quiet(Tail(strand)) /\ Tail(strand) \in Seq(Tasks)
      /\ connection = task.id /\ task.id \in Conns /\ ~stale
    BY AtDriver DEF ReadFailed, Take
<1>2. /\ t \in DriverTasks /\ t.id = task.id
      /\ t \notin StageTasks \cup TimerTasks
    BY <1>1 DEF DriverTasks, DisconnectTasks, StageTasks, TimerTasks
<1>3. /\ ops' = {} /\ strand' = Append(Tail(strand), t)
      /\ UNCHANGED <<connection, stale, lost>>
    BY <1>1 DEF ReadFailed, NoReadAfter, Take, loop
<1>4. Cycle' /\ strand' \in Seq(Tasks)
    BY <1>1, <1>2, <1>3, TaskQueued
<1>5. TypeOK'
    BY <1>3, <1>4 DEF ReadFailed, Take, TypeOK, loop
<1> QED BY <1>4, <1>5

LEMMA DisconnectStep ==
    ASSUME IInv, Disconnect
    PROVE  IInv' /\ connection = task.id /\ task.id \in Conns /\ ~stale
<1> USE DEF IInv
<1>1. /\ ~lost /\ ops = {} /\ Quiet(Tail(strand)) /\ Tail(strand) \in Seq(Tasks)
      /\ connection = task.id /\ task.id \in Conns /\ ~stale
    BY AtDriver DEF Disconnect, Take
<1>2. connection' = None /\ stale' = FALSE /\ UNCHANGED lost /\ Reconnect
    BY <1>1 DEF Disconnect, NoConnection, Take, loop
<1>3. Cycle' /\ ops' = {Timer} /\ strand' = Tail(strand)
    BY <1>1, <1>2, ReconnectStarts
<1>4. line' \in [Socks -> {"closed", "up", "fin", "rst"}] /\ inbox' \in [Socks -> Nat]
    <2>1. line' = [line EXCEPT ![task.id] = "closed"] /\ inbox' = [inbox EXCEPT ![task.id] = 0]
        BY <1>1 DEF Disconnect
    <2>2. line \in [Socks -> {"closed", "up", "fin", "rst"}] /\ inbox \in [Socks -> Nat]
        BY DEF TypeOK
    <2> QED BY <2>1, <2>2
<1>5. TypeOK'
    <2>1. UNCHANGED <<serverUp, seen, dispatched, stopped, restarts>>
        BY DEF Disconnect, Take, loop
    <2>2. ops' \in SUBSET (Conns \cup Stages)
        BY <1>3 DEF Stages
    <2> QED BY <1>1, <1>2, <1>3, <1>4, <2>1, <2>2 DEF TypeOK
<1> QED BY <1>1, <1>3, <1>5

\* A write task drives nothing: taking it off shifts the one driver by one place.
LEMMA WriteStep ==
    ASSUME IInv, Write
    PROVE  IInv'
<1> USE DEF IInv
<1>1. /\ strand \in Seq(Tasks) /\ strand # <<>> /\ strand[1] \notin DriverTasks
      /\ strand' = Tail(strand) /\ strand' \in Seq(Tasks)
      /\ Len(strand') = Len(strand) - 1
      /\ \A i \in 1..Len(strand') : strand'[i] = strand[i + 1]
      /\ UNCHANGED <<ops, connection, stale, lost>>
    BY HeadTask, Apart DEF Write, Take, TypeOK, loop
<1>2. TypeOK'
    BY <1>1 DEF Write, Take, TypeOK, loop
<1>3. DriversOwnConnection' /\ NoDialWhileConnected' /\ NoWaitCancelled'
    <2>1. \A i \in 1..Len(strand') : i + 1 \in 1..Len(strand) /\ strand'[i] = strand[i + 1]
        BY <1>1
    <2> QED BY <1>1, <2>1
            DEF Cycle, DriversOwnConnection, NoDialWhileConnected, NoWaitCancelled
<1>4. CASE lost
    <2>1. ops = {} /\ Quiet(strand)
        BY <1>4 DEF Cycle, Drivers, DriversOf, Quiet
    <2>2. Quiet(strand')
        BY <1>1, <2>1 DEF Quiet
    <2>3. Drivers' = {}
        BY <1>1, <2>1, <2>2 DEF Drivers, DriversOf, Quiet
    <2> QED BY <1>1, <1>2, <1>3, <1>4, <2>3 DEF Cycle
<1>5. CASE ~lost
    <2>1. PICK d \in Drivers : Drivers = {d}
        BY <1>5 DEF Cycle
    <2>2. CASE d \in ops
        <3>1. Drivers = {d} /\ ops = {d} /\ Quiet(strand)
            BY <2>1, <2>2, OpPending
        <3>2. Quiet(strand')
            BY <1>1, <3>1 DEF Quiet
        <3>3. Drivers' = {d}
            BY <1>1, <3>1, <3>2, OpDrives DEF Drivers
        <3> QED BY <1>1, <1>2, <1>3, <1>5, <3>3 DEF Cycle
    <2>3. CASE d \notin ops
        <3>1. d \in 1..Len(strand) /\ strand[d] \in DriverTasks /\ ops = {}
            BY <2>1, <2>3 DEF Drivers, DriversOf
        <3>2. \A i \in 1..Len(strand) : strand[i] \in DriverTasks <=> i = d
            BY <2>1, <3>1 DEF Drivers, DriversOf
        <3>3. d - 1 \in 1..Len(strand') /\ strand'[d - 1] = strand[d]
            BY <1>1, <3>1
        <3>4. \A i \in 1..Len(strand') : strand'[i] \in DriverTasks <=> i = d - 1
            BY <1>1, <3>1, <3>2
        <3>5. Drivers' = {d - 1}
            BY <1>1, <3>1, <3>3, <3>4 DEF Drivers, DriversOf
        <3> QED BY <1>1, <1>2, <1>3, <1>5, <3>5 DEF Cycle
    <2> QED BY <2>2, <2>3
<1> QED BY <1>4, <1>5

-----------------------------------------------------------------------------
(* The theorems.                                                           *)

LEMMA NextKeepsIInv == IInv /\ [Next]_vars => IInv'
<1> SUFFICES ASSUME IInv, [Next]_vars PROVE IInv'
    OBVIOUS
<1>1. CASE Remote
    BY <1>1, RemoteStep
<1>2. CASE Reactor
    BY <1>2, ReactorStep
<1>3. CASE Handler
    BY <1>3, ShakenStep, ShakenThrowStep, RetryStep, ReadMessageStep, ReadFailedStep,
       DisconnectStep, WriteStep DEF Handler
<1>4. CASE Dispatched \/ Application
    BY <1>4, ApplicationStep
<1>5. CASE UNCHANGED vars
    <2>1. TypeOK' /\ UNCHANGED <<ops, connection, stale, strand, lost>>
        BY <1>5 DEF vars, remote, loop, IInv, TypeOK
    <2> QED BY <2>1, UntouchedKeepsDrivers DEF IInv
<1> QED BY <1>1, <1>2, <1>3, <1>4, <1>5 DEF Next

LEMMA IInvHolds == Spec => []IInv
BY InitIInv, NextKeepsIInv, PTL DEF Spec

\* Every variable of the client stays in its type (create.cpp's state and the
\* strand), whatever the remote side and the application do.
THEOREM TypeCorrect == Spec => []TypeOK
<1>1. IInv => TypeOK
    BY DEF IInv
<1> QED BY <1>1, IInvHolds, PTL

\* The client's reconnect cycle never forks and never stops by itself: there is
\* one pending operation or queued handler that drives it on, it belongs to the
\* connection there is, and only an exception out of run() leaves none.
THEOREM OneDriverAlways == Spec => []OneDriver
<1>1. IInv => OneDriver
    BY DEF IInv, OneDriver
<1> QED BY <1>1, IInvHolds, PTL

LEMMA NextImplements == IInv /\ [Next]_vars => [Contract!Next]_(Contract!vars)
<1> SUFFICES ASSUME IInv, [Next]_vars PROVE [Contract!Next]_(Contract!vars)
    OBVIOUS
<1> USE DEF Contract!vars, Contract!Next
<1>1. CASE Remote \/ Dispatched
    <2>1. UNCHANGED <<connection, stale, restarts, event>>
        BY <1>1 DEF Remote, ServerToggle, RemoteSend, RemoteClose, RemoteReset, Dispatched,
           local, loop
    <2> QED BY <2>1 DEF Open
<1>2. CASE Reactor
    <2>1. UNCHANGED <<connection, stale, restarts, event>>
        BY <1>2 DEF Reactor, DialOk, DialFailed, ShakeOk, ShakeFailed, TimerDone, ReadDone,
           Complete, loop
    <2> QED BY <2>1 DEF Open
<1>3. CASE Handler
    <2>1. ASSUME NEW c \in Conns, Shaken(c) PROVE [Contract!Next]_(Contract!vars)
        <3>1. Open = {}
            BY <2>1, ShakenStep DEF Open
        <3>2. Open' = {c}
            BY <2>1, NamesAssumption DEF Shaken, Open
        <3>3. Contract!Connect(c)
            BY <2>1, <3>1, <3>2 DEF Shaken, Take, loop, Contract!Connect
        <3> QED BY <3>3
    <2>2. CASE \/ Dialed \/ DialError \/ ShakeError \/ ShakenThrow \/ Expired
              \/ ReadFailed \/ Write
        <3>1. UNCHANGED <<connection, stale, restarts, event>>
            BY <2>2 DEF Dialed, DialError, ShakeError, ShakenThrow, Expired, ReadFailed, Write,
               Take, loop
        <3> QED BY <3>1 DEF Open
    <2>3. CASE ReadMessage
        <3>1. task.id \in Open /\ task.id \in Conns
            BY <2>3, ReadMessageStep, NamesAssumption DEF Open
        <3>2. UNCHANGED <<Open, restarts>> /\ event' = <<"message", task.id>>
            BY <2>3 DEF ReadMessage, Take, loop, Open
        <3>3. Contract!Message(task.id)
            BY <3>1, <3>2 DEF Contract!Message
        <3> QED BY <3>1, <3>3
    <2>4. CASE Disconnect
        <3>1. /\ connection = task.id /\ task.id \in Conns /\ ~stale
            BY <2>4, DisconnectStep
        <3>2. Open = {task.id} /\ Open' = {}
            BY <2>4, <3>1, NamesAssumption DEF Disconnect, NoConnection, Open
        <3>3. Contract!Disconnect(task.id)
            BY <2>4, <3>1, <3>2 DEF Disconnect, Take, loop, Contract!Disconnect
        <3> QED BY <3>1, <3>3
    <2> QED BY <1>3, <2>1, <2>2, <2>3, <2>4 DEF Handler
<1>4. CASE Application
    <2>1. CASE Restart
        <3>1. Open' = {}
            BY <2>1 DEF Restart, Open
        <3> QED BY <2>1, <3>1 DEF Restart, Contract!Restart
    <2>2. CASE Application /\ ~Restart
        <3>1. UNCHANGED <<connection, stale, restarts, event>>
            BY <2>2 DEF Application, Publish, PublishEx, Send, Post, Dispatch, Stop, loop
        <3> QED BY <3>1 DEF Open
    <2> QED BY <1>4, <2>1, <2>2
<1>5. CASE UNCHANGED vars
    BY <1>5 DEF vars, loop, Open
<1> QED BY <1>1, <1>2, <1>3, <1>4, <1>5 DEF Next

\* The client's callbacks follow EventContract: connect, then messages, then one
\* disconnect, over reconnections, reused IDs and restarts.
THEOREM ClientImplementsContract == Spec => ContractHolds
<1>1. Init => Contract!Init
    BY DEF Init, Open, Contract!Init
<1> QED BY <1>1, IInvHolds, NextImplements, PTL DEF Spec, ContractHolds, Contract!Spec
=============================================================================
