----------------------------- MODULE PipeProofs -----------------------------
(***************************************************************************)
(* Theorems about Pipe: its two loops go on whatever the order of reads,   *)
(* timers and reopenings, and its callbacks follow EventContract.          *)
(*                                                                         *)
(* LoopsGoOn is not inductive.  That a read which is resumed by the timer  *)
(* finds a descriptor needs that the descriptor is not replaced while the  *)
(* timer runs (ReaderOwn): only what drives the reading replaces it, and   *)
(* there is one driver.  That a payload comes only while connected needs   *)
(* to know which operations are of a payload (BodyConnected).              *)
(***************************************************************************)
EXTENDS Pipe, FiniteSetTheorems, TLAPS

DriverKinds == {"read", "announced", "retry"}

\* Handlers that go on with the descriptor of reader.
OfReader(t) == t.kind \in {"read", "announced"} \/ (t.kind = "retry" /\ t.what \in Parts)

\* Handlers that come after a header.
OfBody(t) == \/ t.kind = "announced"
             \/ t.kind = "read" /\ (t.of = "body" \/ t.res = "whole")
             \/ t.kind = "retry" /\ t.what = "body"

\* The handlers of a queue.
Held(s) == {s[i] : i \in 1..Len(s)}

ReaderOwn == /\ retry \in Parts => reader
             /\ \A t \in Held(strand) : OfReader(t) => reader

BodyConnected == /\ pending = "body" \/ retry = "body" => connected
                 /\ \A t \in Held(strand) : OfBody(t) => connected

IInv == LoopsGoOn /\ ReaderOwn /\ BodyConnected

-----------------------------------------------------------------------------
(* The queue of handlers.                                                  *)

\* The positions of a queue's handlers that drive the reading.
Positions(s) == {i \in 1..Len(s) : s[i].kind \in DriverKinds}
InQueue(s)   == Cardinality(Positions(s))

LEMMA PositionsFinite ==
    ASSUME NEW s \in Seq(Tasks)
    PROVE  /\ IsFiniteSet(Positions(s)) /\ InQueue(s) \in Nat
           /\ InQueue(s) = 0 <=> Positions(s) = {}
<1>1. Len(s) \in Nat
    OBVIOUS
<1>2. IsFiniteSet(1..Len(s))
    BY <1>1, FS_Interval
<1>3. IsFiniteSet(Positions(s))
    BY <1>2, FS_Subset DEF Positions
<1>4. InQueue(s) \in Nat
    BY <1>3, FS_CardinalityType DEF InQueue
<1> QED BY <1>3, <1>4, FS_EmptySet DEF InQueue

LEMMA PositionsAppend ==
    ASSUME NEW s \in Seq(Tasks), NEW t \in Tasks
    PROVE  InQueue(Append(s, t)) = InQueue(s) + Count(t.kind \in DriverKinds)
<1> DEFINE n == Len(s) + 1
<1>1. /\ Append(s, t) \in Seq(Tasks) /\ Len(Append(s, t)) = n /\ n \notin 1..Len(s)
      /\ Append(s, t)[n] = t /\ \A i \in 1..Len(s) : Append(s, t)[i] = s[i]
      /\ 1..n = (1..Len(s)) \cup {n}
    OBVIOUS
<1> HIDE DEF n
<1>2. Positions(Append(s, t)) =
          Positions(s) \cup (IF t.kind \in DriverKinds THEN {n} ELSE {})
    BY <1>1 DEF Positions
<1>3. n \notin Positions(s)
    BY <1>1 DEF Positions
<1>4. IsFiniteSet(Positions(s)) /\ InQueue(s) \in Nat
    BY PositionsFinite
<1>5. CASE t.kind \in DriverKinds
    BY <1>2, <1>3, <1>4, <1>5, FS_AddElement DEF InQueue, Count
<1>6. CASE t.kind \notin DriverKinds
    <2>1. Positions(Append(s, t)) = Positions(s)
        BY <1>2, <1>6
    <2> QED BY <1>4, <1>6, <2>1 DEF InQueue, Count
<1> QED BY <1>5, <1>6

LEMMA PositionsTail ==
    ASSUME NEW s \in Seq(Tasks), s # <<>>
    PROVE  InQueue(Tail(s)) = InQueue(s) - Count(Head(s).kind \in DriverKinds)
<1> DEFINE S == Positions(s) \ {1}
           T == Positions(Tail(s))
           f == [i \in S |-> i - 1]
<1>1. /\ Tail(s) \in Seq(Tasks) /\ Len(Tail(s)) = Len(s) - 1 /\ Len(s) \in Nat \ {0}
      /\ \A i \in 1..Len(Tail(s)) : Tail(s)[i] = s[i + 1]
    OBVIOUS
<1>2. f \in Bijection(S, T)
    <2>1. \A i \in S : i \in Nat /\ i - 1 \in T
        BY <1>1 DEF Positions
    <2>2. \A j \in T : j + 1 \in S /\ (j + 1) - 1 = j
        BY <1>1 DEF Positions
    <2>3. \A a, b \in S : f[a] = f[b] => a = b
        BY <2>1
    <2>4. f \in [S -> T]
        BY <2>1
    <2>5. \A j \in T : \E i \in S : f[i] = j
        BY <2>2
    <2> QED BY <2>3, <2>4, <2>5 DEF Bijection, Injection, Surjection, IsInjective
<1>3. IsFiniteSet(Positions(s)) /\ InQueue(s) \in Nat
    BY PositionsFinite
<1>4. 1 \in Positions(s) <=> Head(s).kind \in DriverKinds
    BY <1>1 DEF Positions
<1>5. IsFiniteSet(S) /\ Cardinality(S) = InQueue(s) - Count(Head(s).kind \in DriverKinds)
    <2>1. /\ IsFiniteSet(S)
          /\ Cardinality(S) = IF 1 \in Positions(s) THEN Cardinality(Positions(s)) - 1
                                                   ELSE Cardinality(Positions(s))
        BY <1>3, FS_RemoveElement DEF InQueue
    <2> QED BY <1>3, <1>4, <2>1 DEF InQueue, Count
<1>6. Cardinality(T) = Cardinality(S)
    <2>1. ExistsBijection(S, T)
        BY <1>2 DEF ExistsBijection
    <2> HIDE DEF S, T
    <2> QED BY <1>5, <2>1, FS_Bijection
<1> QED BY <1>5, <1>6 DEF InQueue

LEMMA HeldAppend ==
    ASSUME NEW s \in Seq(Tasks), NEW t \in Tasks
    PROVE  Held(Append(s, t)) = Held(s) \cup {t}
<1>1. /\ Len(Append(s, t)) = Len(s) + 1 /\ Len(s) \in Nat
      /\ Append(s, t)[Len(s) + 1] = t
      /\ \A i \in 1..Len(s) : Append(s, t)[i] = s[i]
    OBVIOUS
<1> QED BY <1>1 DEF Held

LEMMA HeldTail ==
    ASSUME NEW s \in Seq(Tasks), s # <<>>
    PROVE  /\ Tail(s) \in Seq(Tasks) /\ Head(s) \in Tasks /\ Head(s) \in Held(s)
           /\ Held(s) = Held(Tail(s)) \cup {Head(s)}
<1>1. /\ Tail(s) \in Seq(Tasks) /\ Len(Tail(s)) = Len(s) - 1 /\ Len(s) \in Nat \ {0}
      /\ \A i \in 1..Len(Tail(s)) : Tail(s)[i] = s[i + 1]
      /\ Head(s) = s[1] /\ Head(s) \in Tasks
    OBVIOUS
<1>2. Head(s) \in Held(s)
    BY <1>1 DEF Held
<1>3. Held(Tail(s)) \subseteq Held(s)
    BY <1>1 DEF Held
<1>4. ASSUME NEW i \in 1..Len(s), i # 1 PROVE s[i] \in Held(Tail(s))
    <2>1. i - 1 \in 1..Len(Tail(s)) /\ s[i] = Tail(s)[i - 1]
        BY <1>1, <1>4
    <2> QED BY <2>1 DEF Held
<1>5. Held(s) \subseteq Held(Tail(s)) \cup {Head(s)}
    BY <1>1, <1>4 DEF Held
<1> QED BY <1>1, <1>2, <1>3, <1>5

\* A handler that takes the place of the first one.
LEMMA HeldReplace ==
    ASSUME NEW s \in Seq(Tasks), s # <<>>, NEW t \in Tasks,
           t.kind \in DriverKinds, Head(s).kind \in DriverKinds
    PROVE  /\ <<t>> \o Tail(s) \in Seq(Tasks)
           /\ Held(<<t>> \o Tail(s)) \subseteq {t} \cup Held(s)
           /\ Held(Tail(s)) \subseteq Held(<<t>> \o Tail(s))
           /\ InQueue(<<t>> \o Tail(s)) = InQueue(s)
<1> DEFINE r == <<t>> \o Tail(s)
<1>1. /\ r \in Seq(Tasks) /\ Len(r) = Len(s) /\ r[1] = t /\ Len(s) \in Nat \ {0}
      /\ \A i \in 1..Len(s) : i # 1 => r[i] = s[i]
      /\ Head(s) = s[1] /\ Len(Tail(s)) = Len(s) - 1
      /\ \A i \in 1..Len(Tail(s)) : Tail(s)[i] = r[i + 1]
    OBVIOUS
<1> HIDE DEF r
<1>2. Positions(r) = Positions(s)
    BY <1>1 DEF Positions
<1>3. Held(r) \subseteq {t} \cup Held(s)
    BY <1>1 DEF Held
<1>4. Held(Tail(s)) \subseteq Held(r)
    BY <1>1 DEF Held
<1> QED BY <1>1, <1>2, <1>3, <1>4 DEF r, InQueue

LEMMA NoDrivers ==
    ASSUME NEW s \in Seq(Tasks), InQueue(s) = 0
    PROVE  \A t \in Held(s) : t.kind \notin DriverKinds
<1>1. Positions(s) = {}
    BY PositionsFinite
<1> QED BY <1>1 DEF Positions, Held

-----------------------------------------------------------------------------
(* The invariant, in terms of the queue's handlers and their number.       *)

\* What drives the reading, outside the queue.
Set == Count(pending # "none") + Count(retry # "none")

Driven == /\ Set + InQueue(strand) <= 1
          /\ ~stopped => Set + InQueue(strand) = Count(answer # "no")
          /\ pending # "none" => reader

Probed == reader /\ writer /\ ~stopped => probe \/ \E t \in Held(strand) : t.kind = "probe"

LEMMA DriversAre ==
    /\ Drivers = Set + InQueue(strand)
    /\ Drivers' = Set' + InQueue(strand')
<1>1. Waiting("read") \cup Waiting("announced") \cup Waiting("retry") = Positions(strand)
    BY DEF Waiting, Positions, DriverKinds
<1>2. (Waiting("read") \cup Waiting("announced") \cup Waiting("retry"))' = Positions(strand')
    BY DEF Waiting, Positions, DriverKinds
<1> QED BY <1>1, <1>2 DEF Drivers, Set, InQueue

LEMMA Parted ==
    IInv <=> TypeOK /\ Driven /\ ReaderOwn /\ BodyConnected /\ Probed
<1>1. ProbesGoOn <=> Probed
    BY DEF ProbesGoOn, Probed, Waiting, Held
<1> QED BY <1>1, DriversAre
        DEF IInv, LoopsGoOn, OneReader, Driven, ReaderOwn, OfReader, Held

LEMMA PartedNext ==
    ASSUME TypeOK', Driven', ReaderOwn', BodyConnected', Probed'
    PROVE  IInv'
<1>1. ProbesGoOn'
    BY DEF ProbesGoOn, Probed, Waiting, Held
<1> QED BY <1>1, DriversAre
        DEF IInv, LoopsGoOn, OneReader, Driven, ReaderOwn, OfReader, Held

LEMMA CountTyped == \A b : Count(b) \in {0, 1} /\ (Count(b) = 0 <=> ~b)
BY DEF Count

-----------------------------------------------------------------------------
(* Each action keeps the invariant.                                        *)

LEMMA InitIInv == Init => IInv
<1> SUFFICES ASSUME Init PROVE IInv
    OBVIOUS
<1>1. strand = <<>> /\ strand \in Seq(Tasks) /\ Held(strand) = {} /\ InQueue(strand) = 0
    <2>1. strand = <<>>
        BY DEF Init
    <2>2. strand \in Seq(Tasks) /\ Held(strand) = {} /\ Positions(strand) = {}
        BY <2>1 DEF Held, Positions
    <2> QED BY <2>1, <2>2, FS_EmptySet DEF InQueue
<1>2. TypeOK
    BY <1>1 DEF Init, TypeOK, reader, Parts
<1>3. Driven
    BY <1>1 DEF Init, Driven, Set, Count, reader
<1>4. ReaderOwn /\ BodyConnected /\ Probed
    BY <1>1 DEF Init, ReaderOwn, BodyConnected, Probed, reader, Parts
<1> QED BY <1>2, <1>3, <1>4, Parted

\* What the handler of a driver finds when it runs: it is the only one.
LEMMA DriverTaken ==
    ASSUME IInv, strand # <<>>, task.kind \in DriverKinds
    PROVE  /\ Tail(strand) \in Seq(Tasks) /\ InQueue(Tail(strand)) = 0
           /\ InQueue(strand) = 1 /\ pending = "none" /\ retry = "none"
           /\ \A t \in Held(Tail(strand)) : ~OfReader(t) /\ ~OfBody(t)
           /\ OfReader(task) => reader
           /\ OfBody(task) => connected
           /\ ~stopped => answer # "no"
           /\ (\E t \in Held(strand) : t.kind = "probe")
                => \E t \in Held(Tail(strand)) : t.kind = "probe"
           /\ task \in Tasks
<1>1. TypeOK /\ Driven /\ ReaderOwn /\ BodyConnected /\ strand \in Seq(Tasks)
    BY Parted DEF TypeOK
<1>2. /\ Tail(strand) \in Seq(Tasks) /\ task \in Held(strand) /\ task \in Tasks
      /\ Held(strand) = Held(Tail(strand)) \cup {task}
    BY <1>1, HeldTail DEF task
<1>3. InQueue(Tail(strand)) = InQueue(strand) - 1
    BY <1>1, PositionsTail DEF task, Count
<1>4. InQueue(strand) \in Nat /\ InQueue(Tail(strand)) \in Nat
    BY <1>1, <1>2, PositionsFinite
<1>5. /\ InQueue(strand) = 1 /\ InQueue(Tail(strand)) = 0 /\ pending = "none"
      /\ retry = "none" /\ (~stopped => answer # "no")
    BY <1>1, <1>3, <1>4 DEF Driven, Set, Count
<1>6. \A t \in Held(Tail(strand)) : t.kind \notin DriverKinds
    BY <1>2, <1>5, NoDrivers
<1>7. \A t \in Held(Tail(strand)) : ~OfReader(t) /\ ~OfBody(t)
    BY <1>6 DEF OfReader, OfBody, DriverKinds
<1>8. (OfReader(task) => reader) /\ (OfBody(task) => connected)
    BY <1>1, <1>2 DEF ReaderOwn, BodyConnected
<1>9. (\E t \in Held(strand) : t.kind = "probe")
          => \E t \in Held(Tail(strand)) : t.kind = "probe"
    BY <1>2 DEF DriverKinds
<1> QED BY <1>2, <1>5, <1>7, <1>8, <1>9

\* An operation ends, and its handler takes its place.
LEMMA ReadDoneStep == ASSUME IInv, NEW r \in Results, ReadDone(r) PROVE IInv'
<1> DEFINE t == [kind |-> "read", of |-> pending, res |-> r]
<1>1. TypeOK /\ Driven /\ ReaderOwn /\ BodyConnected /\ Probed /\ strand \in Seq(Tasks)
    BY Parted DEF TypeOK
<1>2. /\ ~stopped /\ pending \in Parts /\ pending' = "none" /\ strand' = Append(strand, t)
      /\ UNCHANGED <<ends, retry, probe, conn, loop>>
      /\ r = "whole" => pending = "body"
    <2>1. pending \in Parts
        BY <1>1 DEF ReadDone, TypeOK
    <2>2. r = "whole" => pending = "body"
        BY <2>1 DEF ReadDone, ReadOutcomes, Headers, Parts
    <2> QED BY <2>1, <2>2 DEF ReadDone
<1>3. t \in Tasks /\ t.kind = "read" /\ t.kind \in DriverKinds
    BY <1>2 DEF Tasks, ReadTasks, DriverKinds
<1>4. /\ strand' \in Seq(Tasks) /\ Held(strand') = Held(strand) \cup {t}
      /\ InQueue(strand') = InQueue(strand) + 1 /\ InQueue(strand) \in Nat
    <2> HIDE DEF t
    <2>1. strand' \in Seq(Tasks) /\ Held(strand') = Held(strand) \cup {t}
        BY <1>1, <1>2, <1>3, HeldAppend
    <2>2. InQueue(strand') = InQueue(strand) + 1 /\ InQueue(strand) \in Nat
        BY <1>1, <1>2, <1>3, PositionsAppend, PositionsFinite DEF Count
    <2> QED BY <2>1, <2>2
<1>5. TypeOK'
    BY <1>1, <1>2, <1>4 DEF TypeOK, ends, conn, loop
<1>6. Driven'
    BY <1>1, <1>2, <1>4, CountTyped DEF Driven, Set, ends, loop, reader, Count, Parts
<1>7. ReaderOwn'
    <2>1. reader /\ reader' = reader
        BY <1>1, <1>2 DEF Driven, ends, reader, Parts
    <2> QED BY <2>1 DEF ReaderOwn
<1>8. BodyConnected'
    <2>1. OfBody(t) => connected
        BY <1>1, <1>2 DEF OfBody, BodyConnected
    <2> HIDE DEF t
    <2> QED BY <1>1, <1>2, <1>4, <2>1 DEF BodyConnected, conn
<1>9. Probed'
    BY <1>1, <1>2, <1>4 DEF Probed, ends, loop, reader
<1> QED BY ONLY PartedNext, <1>5, <1>6, <1>7, <1>8, <1>9

LEMMA RetryDueStep == ASSUME IInv, RetryDue PROVE IInv'
<1> DEFINE t == [kind |-> "retry", what |-> retry]
<1>1. TypeOK /\ Driven /\ ReaderOwn /\ BodyConnected /\ Probed /\ strand \in Seq(Tasks)
    BY Parted DEF TypeOK
<1>2. /\ ~stopped /\ retry \in Parts \cup {"reopen"} /\ retry' = "none"
      /\ strand' = Append(strand, t) /\ UNCHANGED <<ends, pending, probe, conn, loop>>
    BY <1>1 DEF RetryDue, TypeOK
<1>3. t \in Tasks /\ t.kind \in DriverKinds
    BY <1>2 DEF Tasks, RetryTasks, DriverKinds
<1>4. /\ strand' \in Seq(Tasks) /\ Held(strand') = Held(strand) \cup {t}
      /\ InQueue(strand') = InQueue(strand) + 1 /\ InQueue(strand) \in Nat
    <2> HIDE DEF t
    <2>1. strand' \in Seq(Tasks) /\ Held(strand') = Held(strand) \cup {t}
        BY <1>1, <1>2, <1>3, HeldAppend
    <2>2. InQueue(strand') = InQueue(strand) + 1 /\ InQueue(strand) \in Nat
        BY <1>1, <1>2, <1>3, PositionsAppend, PositionsFinite DEF Count
    <2> QED BY <2>1, <2>2
<1>5. TypeOK'
    BY <1>1, <1>2, <1>4 DEF TypeOK, ends, conn, loop
<1>6. Driven'
    BY <1>1, <1>2, <1>4, CountTyped DEF Driven, Set, ends, loop, reader, Count, Parts
<1>7. ReaderOwn'
    <2>1. OfReader(t) => reader
        BY <1>1, <1>2 DEF OfReader, ReaderOwn
    <2> HIDE DEF t
    <2> QED BY <1>1, <1>2, <1>4, <2>1 DEF ReaderOwn, ends, reader, Parts
<1>8. BodyConnected'
    <2>1. OfBody(t) => connected
        BY <1>1, <1>2 DEF OfBody, BodyConnected
    <2> HIDE DEF t
    <2> QED BY <1>1, <1>2, <1>4, <2>1 DEF BodyConnected, conn
<1>9. Probed'
    BY <1>1, <1>2, <1>4 DEF Probed, ends, loop, reader
<1> QED BY ONLY PartedNext, <1>5, <1>6, <1>7, <1>8, <1>9

\* Handlers that do not read: the probe's timer, and what the application posts.
LEMMA QueuedStep == ASSUME IInv, ProbeDue \/ Publish \/ PublishEx \/ Send PROVE IInv'
<1>1. TypeOK /\ Driven /\ ReaderOwn /\ BodyConnected /\ Probed /\ strand \in Seq(Tasks)
    BY Parted DEF TypeOK
<1>2. PICK t \in ProbeTasks \cup WriteTasks :
          /\ strand' = Append(strand, t)
          /\ UNCHANGED <<ends, pending, retry, conn, loop>>
          /\ probe' \in BOOLEAN /\ (probe => probe' \/ t.kind = "probe")
    <2>1. CASE ProbeDue
        <3>1. [kind |-> "probe"] \in ProbeTasks \cup WriteTasks
            BY DEF ProbeTasks
        <3> WITNESS [kind |-> "probe"] \in ProbeTasks \cup WriteTasks
        <3> QED BY <2>1 DEF ProbeDue
    <2>2. CASE Publish \/ PublishEx \/ Send
        <3>1. PICK mode \in Modes, mine \in BOOLEAN : Post(mode, mine)
            BY <2>2 DEF Publish, PublishEx, Send, Modes
        <3>2. [kind |-> "write", mode |-> mode, mine |-> mine] \in WriteTasks
            BY DEF WriteTasks
        <3> QED BY <1>1, <3>1, <3>2 DEF Post, ops, TypeOK
    <2> QED BY <2>1, <2>2
<1>3. t \in Tasks /\ t.kind \notin DriverKinds
    BY DEF Tasks, ProbeTasks, WriteTasks, DriverKinds
<1>4. /\ strand' \in Seq(Tasks) /\ Held(strand') = Held(strand) \cup {t}
      /\ InQueue(strand') = InQueue(strand) /\ InQueue(strand) \in Nat
    <2>1. strand' \in Seq(Tasks) /\ Held(strand') = Held(strand) \cup {t}
        BY <1>1, <1>2, <1>3, HeldAppend
    <2>2. InQueue(strand') = InQueue(strand) /\ InQueue(strand) \in Nat
        BY <1>1, <1>2, <1>3, PositionsAppend, PositionsFinite DEF Count
    <2> QED BY <2>1, <2>2
<1>5. TypeOK'
    BY <1>1, <1>2, <1>4 DEF TypeOK, ends, conn, loop
<1>6. Driven'
    BY <1>1, <1>2, <1>4 DEF Driven, Set, ends, loop, reader
<1>7. ReaderOwn' /\ BodyConnected'
    <2>1. ~OfReader(t) /\ ~OfBody(t)
        BY <1>3 DEF OfReader, OfBody, DriverKinds
    <2> QED BY <1>1, <1>2, <1>4, <2>1 DEF ReaderOwn, BodyConnected, ends, conn, reader
<1>8. Probed'
    BY <1>1, <1>2, <1>4 DEF Probed, ends, loop, reader
<1> QED BY ONLY PartedNext, <1>5, <1>6, <1>7, <1>8

\* The handler of a header runs in two steps, the second also after stop().
LEMMA HeaderStep == ASSUME IInv, Header PROVE IInv'
<1> DEFINE t == [kind |-> "announced", res |-> task.res]
<1>1. TypeOK /\ Driven /\ ReaderOwn /\ BodyConnected /\ Probed /\ strand \in Seq(Tasks)
    BY Parted DEF TypeOK
<1>2. /\ strand # <<>> /\ task.kind = "read" /\ task.res \in Headers
      /\ strand' = <<t>> \o Tail(strand) /\ connected' = TRUE
      /\ UNCHANGED <<ends, ops, told, loop>>
    BY DEF Header, Runs
<1>3. t \in Tasks /\ t.kind \in DriverKinds /\ task.kind \in DriverKinds
    BY <1>2 DEF Tasks, AnnouncedTasks, DriverKinds
<1>4. /\ strand' \in Seq(Tasks) /\ Held(strand') \subseteq {t} \cup Held(strand)
      /\ Held(Tail(strand)) \subseteq Held(strand')
      /\ InQueue(strand') = InQueue(strand)
    <2> HIDE DEF t
    <2> QED BY <1>1, <1>2, <1>3, HeldReplace DEF task
<1>5. TypeOK'
    BY <1>1, <1>2, <1>4 DEF TypeOK, ends, ops, loop
<1>6. Driven'
    BY <1>1, <1>2, <1>4 DEF Driven, Set, ends, ops, loop, reader
<1>7. ReaderOwn'
    <2>1. reader
        BY <1>2, <1>3, DriverTaken DEF OfReader
    <2> QED BY <1>2, <2>1 DEF ReaderOwn, ends, reader
<1>8. BodyConnected'
    BY <1>2 DEF BodyConnected
<1>9. Probed'
    BY <1>1, <1>2, <1>3, <1>4, DriverTaken DEF Probed, ends, ops, loop, reader
<1> QED BY ONLY PartedNext, <1>5, <1>6, <1>7, <1>8, <1>9

\* The handlers that go on reading with the descriptor they have.
LEMMA GoesOnStep == ASSUME IInv, Announced \/ Whole \/ Later \/ Resume PROVE IInv'
<1>1. TypeOK /\ Driven /\ Probed /\ strand \in Seq(Tasks)
    BY Parted DEF TypeOK
<1>2. /\ strand # <<>> /\ task.kind \in DriverKinds /\ strand' = Tail(strand)
      /\ UNCHANGED <<ends, probe, connected, told, loop>>
    BY DEF Announced, Whole, Later, Resume, Take, Runs, DriverKinds, conn
<1>3. /\ Tail(strand) \in Seq(Tasks) /\ InQueue(Tail(strand)) = 0
      /\ pending = "none" /\ retry = "none"
      /\ \A t \in Held(Tail(strand)) : ~OfReader(t) /\ ~OfBody(t)
      /\ OfReader(task) => reader
      /\ OfBody(task) => connected
      /\ ~stopped => answer # "no"
      /\ (\E t \in Held(strand) : t.kind = "probe")
           => \E t \in Held(Tail(strand)) : t.kind = "probe"
      /\ task \in Tasks
    BY <1>2, DriverTaken
<1>4. /\ reader
      /\ \/ pending' \in Parts /\ retry' = "none"
         \/ pending' = "none" /\ retry' \in Parts
      /\ pending' = "body" \/ retry' = "body" => connected
    <2>1. CASE Announced
        <3>1. reader /\ connected
            BY <1>3, <2>1 DEF Announced, OfReader, OfBody
        <3> QED BY <1>3, <2>1, <3>1 DEF Announced, Parts
    <2>2. CASE Whole
        <3>1. reader
            BY <1>3, <2>2 DEF Whole, Take, Runs, OfReader
        <3> QED BY <1>3, <2>2, <3>1 DEF Whole, Parts
    <2>3. CASE Later
        <3>1. task.kind = "read" /\ reader /\ task.of \in Parts
            BY <1>3, <2>3 DEF Later, Take, Runs, OfReader, Tasks, ReadTasks,
               AnnouncedTasks, RetryTasks, ProbeTasks, WriteTasks
        <3>2. task.of = "body" => connected
            BY <1>3, <3>1 DEF OfBody
        <3> QED BY <1>3, <2>3, <3>1, <3>2 DEF Later, ResumedLater
    <2>4. CASE Resume
        <3>1. task.kind = "retry" /\ task.what \in Parts
            BY <2>4 DEF Resume, Take, Runs
        <3>2. reader /\ (task.what = "body" => connected)
            BY <1>3, <3>1 DEF OfReader, OfBody
        <3> QED BY <1>3, <2>4, <3>1, <3>2 DEF Resume
    <2> QED BY <2>1, <2>2, <2>3, <2>4
<1>5. TypeOK'
    BY <1>1, <1>2, <1>3, <1>4 DEF TypeOK, ends, loop
<1>6. Driven'
    BY <1>2, <1>3, <1>4 DEF Driven, Set, Count, ends, loop, reader, Parts
<1>7. ReaderOwn' /\ BodyConnected'
    BY <1>2, <1>3, <1>4 DEF ReaderOwn, BodyConnected, ends, reader
<1>8. Probed'
    BY <1>1, <1>2, <1>3 DEF Probed, ends, loop, reader
<1> QED BY ONLY PartedNext, <1>5, <1>6, <1>7, <1>8

\* reconnect_read() when nothing drives the reading: it is driven again, or make_read
\* has said no.
LEMMA Reopened ==
    ASSUME TypeOK, ReconnectRead(FALSE),
           strand' \in Seq(Tasks), InQueue(strand') = 0,
           \A t \in Held(strand') : ~OfReader(t) /\ ~OfBody(t),
           full' \in BOOLEAN, writer' \in BOOLEAN, connected' \in BOOLEAN,
           registered' \in BOOLEAN, dispatched' \in BOOLEAN, stopped' \in BOOLEAN,
           restarts' \in Nat
    PROVE  IInv'
<1>1. /\ \/ answer' = "fd" /\ line' \in {"up", "eof"} /\ pending' = "header" /\ retry' = "none"
         \/ answer' = "later" /\ line' = "up" /\ pending' = "none" /\ retry' = "reopen"
         \/ answer' = "no" /\ line' = "up" /\ pending' = "none" /\ retry' = "none"
      /\ told' \in BOOLEAN /\ probe' = (reader' /\ writer')
    BY DEF ReconnectRead, Opened, OpensLater, NotOpened, Closed, NotifyReady,
       ScheduleProbe, TypeOK
<1>2. TypeOK'
    <2>1. probe' \in BOOLEAN
        BY <1>1
    <2>2. /\ line' \in {"up", "eof"} /\ answer' \in {"fd", "later", "no"}
          /\ pending' \in Parts \cup {"none"} /\ retry' \in Parts \cup {"reopen", "none"}
        BY <1>1 DEF Parts
    <2> QED BY <1>1, <2>1, <2>2 DEF TypeOK
<1>3. Driven'
    BY <1>1 DEF Driven, Set, Count, reader
<1>4. ReaderOwn' /\ BodyConnected'
    BY <1>1 DEF ReaderOwn, BodyConnected, Parts
<1>5. Probed'
    BY <1>1 DEF Probed
<1> QED BY ONLY PartedNext, <1>2, <1>3, <1>4, <1>5

LEMMA ReopenStep == ASSUME IInv, Gone \/ Oversize \/ Reopen PROVE IInv'
<1>1. TypeOK
    BY Parted
<1>2. /\ strand # <<>> /\ task.kind \in DriverKinds /\ strand' = Tail(strand)
      /\ ReconnectRead(FALSE)
      /\ UNCHANGED <<full, writer, registered, dispatched, restarts>>
      /\ connected' \in BOOLEAN /\ stopped' \in BOOLEAN
    <2>1. CASE Gone \/ Oversize
        BY <1>1, <2>1 DEF Gone, Oversize, Take, Runs, ReadDisconnect, NotifyDisconnected,
           DriverKinds, TypeOK
    <2>2. CASE Reopen
        BY <1>1, <2>2 DEF Reopen, Take, Runs, DriverKinds, TypeOK, loop
    <2> QED BY <2>1, <2>2
<1>3. /\ strand' \in Seq(Tasks) /\ InQueue(strand') = 0
      /\ \A t \in Held(strand') : ~OfReader(t) /\ ~OfBody(t)
    BY <1>2, DriverTaken
<1> QED BY <1>1, <1>2, <1>3, Reopened DEF TypeOK

LEMMA RestartStep == ASSUME IInv, Restart PROVE IInv'
<1>1. TypeOK
    BY Parted
<1>2. /\ strand' = <<>> /\ restarts' = restarts + 1 /\ stopped' = FALSE
      /\ dispatched' = FALSE /\ connected' = FALSE /\ full' = FALSE /\ writer' \in BOOLEAN
      /\ registered' = registered /\ ReconnectRead(FALSE)
    BY DEF Restart
<1>3. /\ strand' \in Seq(Tasks) /\ InQueue(strand') = 0
      /\ \A t \in Held(strand') : ~OfReader(t) /\ ~OfBody(t)
    <2>1. /\ strand' \in Seq(Tasks) /\ Positions(strand') = {} /\ Held(strand') = {}
        BY <1>2 DEF Positions, Held
    <2> QED BY <2>1, FS_EmptySet DEF InQueue
<1>4. restarts' \in Nat
    BY <1>1, <1>2 DEF TypeOK
<1> QED BY <1>1, <1>2, <1>3, <1>4, Reopened DEF TypeOK

\* Handlers that write: the next probe is set, or an end is missing.
LEMMA WriteStep == ASSUME IInv, SendProbe \/ Write PROVE IInv'
<1>1. TypeOK /\ Driven /\ ReaderOwn /\ BodyConnected /\ Probed /\ strand \in Seq(Tasks)
    BY Parted DEF TypeOK
<1>2. /\ strand # <<>> /\ task.kind \in {"probe", "write"} /\ strand' = Tail(strand)
      /\ UNCHANGED <<line, answer, writer, pending, retry, conn, loop>>
      /\ full' \in BOOLEAN /\ probe' \in BOOLEAN
      /\ reader /\ writer /\ (probe \/ task.kind = "probe") => probe'
    BY <1>1 DEF SendProbe, Write, Writes, Take, Runs, ops, TypeOK
<1>3. /\ strand' \in Seq(Tasks) /\ Held(strand) = Held(strand') \cup {task}
      /\ InQueue(strand') = InQueue(strand)
    <2>1. strand' \in Seq(Tasks) /\ Held(strand) = Held(strand') \cup {task}
        BY <1>1, <1>2, HeldTail DEF task
    <2>2. InQueue(strand') = InQueue(strand) /\ InQueue(strand) \in Nat
        <3>1. task.kind \notin DriverKinds
            BY <1>2 DEF DriverKinds
        <3>2. InQueue(strand) \in Nat
            BY <1>1, PositionsFinite
        <3> QED BY <1>1, <1>2, <3>1, <3>2, PositionsTail DEF Count, task
    <2> QED BY <2>1, <2>2
<1>4. TypeOK'
    BY <1>1, <1>2, <1>3 DEF TypeOK, conn, loop
<1>5. Driven'
    BY <1>1, <1>2, <1>3 DEF Driven, Set, loop, reader
<1>6. ReaderOwn' /\ BodyConnected'
    BY <1>1, <1>2, <1>3 DEF ReaderOwn, BodyConnected, conn, reader
<1>7. Probed'
    BY <1>1, <1>2, <1>3 DEF Probed, loop, reader
<1> QED BY ONLY PartedNext, <1>4, <1>5, <1>6, <1>7

LEMMA StopStep == ASSUME IInv, Stop PROVE IInv'
<1>1. TypeOK /\ Driven /\ ReaderOwn /\ BodyConnected /\ strand \in Seq(Tasks)
    BY Parted DEF TypeOK
<1>2. /\ stopped' = TRUE /\ retry' = "none" /\ probe' = FALSE
      /\ UNCHANGED <<ends, pending, strand, conn, registered, dispatched, restarts>>
    BY DEF Stop
<1>3. TypeOK'
    BY <1>1, <1>2 DEF TypeOK, ends, conn
<1>4. Driven'
    <2>1. InQueue(strand) \in Nat
        BY <1>1, PositionsFinite
    <2> QED BY <1>1, <1>2, <2>1 DEF Driven, Set, Count, ends, reader
<1>5. ReaderOwn' /\ BodyConnected'
    BY <1>1, <1>2 DEF ReaderOwn, BodyConnected, ends, conn, reader, Parts
<1>6. Probed'
    BY <1>2 DEF Probed
<1> QED BY ONLY PartedNext, <1>3, <1>4, <1>5, <1>6

LEMMA IdleStep ==
    ASSUME IInv, RemoteToggles \/ RemoteReads \/ Dispatched \/ Register \/ Dispatch
                   \/ UNCHANGED vars
    PROVE  IInv'
<1>1. TypeOK /\ Driven /\ ReaderOwn /\ BodyConnected /\ Probed
    BY Parted
<1>2. /\ UNCHANGED <<answer, writer, ops, strand, conn, stopped, restarts>>
      /\ line' \in {"up", "eof"} /\ full' \in BOOLEAN
      /\ registered' \in BOOLEAN /\ dispatched' \in BOOLEAN
    BY <1>1 DEF RemoteToggles, RemoteReads, Dispatched, Register, Dispatch, vars, ends,
       loop, TypeOK
<1>3. TypeOK'
    BY <1>1, <1>2 DEF TypeOK, ops, conn
<1>4. Driven' /\ ReaderOwn' /\ BodyConnected'
    BY <1>1, <1>2 DEF Driven, Set, ReaderOwn, BodyConnected, ops, conn, reader
<1>5. Probed'
    BY <1>1, <1>2 DEF Probed, ops, reader
<1> QED BY ONLY PartedNext, <1>3, <1>4, <1>5

LEMMA NextIInv == ASSUME IInv, [Next]_vars PROVE IInv'
<1>1. CASE Reactor
    BY <1>1, ReadDoneStep, RetryDueStep, QueuedStep DEF Reactor
<1>2. CASE Handler
    BY <1>2, HeaderStep, GoesOnStep, ReopenStep, WriteStep DEF Handler
<1>3. CASE Application
    BY <1>3, QueuedStep, RestartStep, StopStep, IdleStep DEF Application
<1>4. CASE RemoteToggles \/ RemoteReads \/ Dispatched \/ UNCHANGED vars
    BY <1>4, IdleStep
<1> QED BY <1>1, <1>2, <1>3, <1>4 DEF Next

LEMMA IInvHolds == Spec => []IInv
<1>1. IInv /\ [Next]_vars => IInv'
    BY NextIInv
<1> QED BY InitIInv, <1>1, PTL DEF Spec

\* No order of reads, retries, reopenings and stops leaves the service with two reads
\* into its one buffer, with none while make_read has not said no, or without the
\* probe while it has both ends.
THEOREM LoopsAlwaysGoOn == Spec => []LoopsGoOn
<1>1. IInv => LoopsGoOn
    BY DEF IInv
<1> QED BY <1>1, IInvHolds, PTL

-----------------------------------------------------------------------------
(* The contract of the callbacks.                                          *)

LEMMA NextImplements == IInv /\ [Next]_vars => [Contract!Next]_(Contract!vars)
<1> DEFINE Open == IF connected THEN {Self} ELSE {}
<1> SUFFICES ASSUME IInv, [Next]_vars PROVE [Contract!Next]_(Contract!vars)
    OBVIOUS
<1>0. connected \in BOOLEAN
    BY Parted DEF TypeOK
<1>1. ASSUME Header PROVE [Contract!Next]_(Contract!vars)
    <2>1. /\ connected' = TRUE /\ restarts' = restarts
          /\ report' = IF connected THEN report ELSE <<"connect", Self>>
        BY <1>1 DEF Header, loop
    <2>2. CASE connected
        BY <2>1, <2>2 DEF Contract!vars
    <2>3. CASE ~connected
        BY <2>1, <2>3 DEF Contract!Next, Contract!Connect
    <2> QED BY <2>2, <2>3
<1>2. ASSUME Whole PROVE Contract!Message(Self)
    <2>1. connected
        <3>1. strand # <<>> /\ task.kind \in DriverKinds /\ OfBody(task)
            BY <1>2 DEF Whole, Take, Runs, DriverKinds, OfBody
        <3> QED BY <3>1, DriverTaken
    <2> QED BY <1>2, <2>1 DEF Whole, loop, Contract!Message
<1>3. ASSUME Gone \/ Oversize PROVE [Contract!Next]_(Contract!vars)
    <2>1. /\ connected' = FALSE /\ restarts' = restarts
          /\ report' = IF connected THEN <<"disconnect", Self>> ELSE report
        BY <1>3 DEF Gone, Oversize, ReadDisconnect, NotifyDisconnected
    <2>2. CASE connected
        BY <2>1, <2>2 DEF Contract!Next, Contract!Disconnect
    <2>3. CASE ~connected
        BY <2>1, <2>3 DEF Contract!vars
    <2> QED BY <2>2, <2>3
<1>4. ASSUME Restart PROVE Contract!Restart
    BY <1>4 DEF Restart, Contract!Restart
<1>5. ASSUME Reactor PROVE UNCHANGED <<connected, report, restarts>>
    BY <1>5 DEF Reactor, ReadDone, RetryDue, ProbeDue, conn, loop
<1>6. ASSUME Announced \/ Later \/ Resume \/ Reopen \/ SendProbe \/ Write
      PROVE  UNCHANGED <<connected, report, restarts>>
    BY <1>6 DEF Announced, Later, Resume, Reopen, SendProbe, Write, conn, loop
<1>7. ASSUME \/ RemoteToggles \/ RemoteReads \/ Dispatched \/ Register \/ Publish
             \/ PublishEx \/ Send \/ Dispatch \/ Stop \/ UNCHANGED vars
      PROVE  UNCHANGED <<connected, report, restarts>>
    BY <1>7 DEF RemoteToggles, RemoteReads, Dispatched, Register, Publish, PublishEx,
       Send, Post, Dispatch, Stop, vars, conn, loop
<1>8. UNCHANGED <<connected, report, restarts>> => UNCHANGED Contract!vars
    BY DEF Contract!vars
<1> QED BY <1>1, <1>2, <1>3, <1>4, <1>5, <1>6, <1>7, <1>8
        DEF Next, Handler, Application, Contract!Next

\* on_connect, on_message and on_disconnect follow the contract of structs.hpp, over
\* reopened descriptors, resumed reads and restarts.
THEOREM PipeImplementsContract == Spec => ContractHolds
<1>1. Init => Contract!Init
    BY DEF Init, Contract!Init
<1>2. IInv /\ [Next]_vars => [Contract!Next]_(Contract!vars)
    BY NextImplements
<1> QED BY <1>1, <1>2, IInvHolds, PTL DEF Spec, ContractHolds, Contract!Spec
=============================================================================
