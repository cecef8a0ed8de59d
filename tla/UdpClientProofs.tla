--------------------------- MODULE UdpClientProofs ---------------------------
(***************************************************************************)
(* Theorems about UdpClient: its three loops go on whatever the order of   *)
(* answers, probes and timeouts.                                           *)
(*                                                                         *)
(* LoopsGoOn is inductive.  What takes an argument is the number of        *)
(* handlers of a kind that wait: the lemmas say what queueing a handler    *)
(* and taking one do to it.                                                *)
(***************************************************************************)
EXTENDS UdpClient, FiniteSetTheorems, TLAPS

-----------------------------------------------------------------------------
(* The queue of handlers.                                                  *)

\* The positions of a queue's handlers of one kind.
Positions(s, kind) == {i \in 1..Len(s) : s[i].kind = kind}

LEMMA WaitingPositions ==
    \A kind : /\ Waiting(kind) = Positions(strand, kind)
              /\ Waiting(kind)' = Positions(strand', kind)
BY DEF Waiting, Positions

LEMMA PositionsFinite ==
    ASSUME NEW s \in Seq(Tasks), NEW kind
    PROVE  /\ IsFiniteSet(Positions(s, kind)) /\ Cardinality(Positions(s, kind)) \in Nat
           /\ Positions(s, kind) # {} <=> Cardinality(Positions(s, kind)) > 0
<1>1. Len(s) \in Nat
    OBVIOUS
<1>2. IsFiniteSet(1..Len(s))
    BY <1>1, FS_Interval
<1>3. IsFiniteSet(Positions(s, kind))
    BY <1>2, FS_Subset DEF Positions
<1>4. Cardinality(Positions(s, kind)) \in Nat
    BY <1>3, FS_CardinalityType
<1> QED BY <1>3, <1>4, FS_EmptySet

\* One more, of its own kind.
LEMMA PositionsAppend ==
    ASSUME NEW s \in Seq(Tasks), NEW t \in Tasks, NEW kind
    PROVE  Cardinality(Positions(Append(s, t), kind)) =
               Cardinality(Positions(s, kind)) + (IF t.kind = kind THEN 1 ELSE 0)
<1> DEFINE n == Len(s) + 1
<1>1. /\ Append(s, t) \in Seq(Tasks) /\ Len(Append(s, t)) = n /\ n \notin 1..Len(s)
      /\ Append(s, t)[n] = t /\ \A i \in 1..Len(s) : Append(s, t)[i] = s[i]
      /\ 1..n = (1..Len(s)) \cup {n}
    OBVIOUS
<1> HIDE DEF n
<1>2. Positions(Append(s, t), kind) =
          Positions(s, kind) \cup (IF t.kind = kind THEN {n} ELSE {})
    BY <1>1 DEF Positions
<1>3. n \notin Positions(s, kind)
    BY <1>1 DEF Positions
<1>4. IsFiniteSet(Positions(s, kind)) /\ Cardinality(Positions(s, kind)) \in Nat
    BY PositionsFinite
<1>5. CASE t.kind = kind
    BY <1>2, <1>3, <1>4, <1>5, FS_AddElement
<1>6. CASE t.kind # kind
    <2>1. Positions(Append(s, t), kind) = Positions(s, kind)
        BY <1>2, <1>6
    <2> QED BY <1>4, <1>6, <2>1
<1> QED BY <1>5, <1>6

\* One less, of the kind of the first; the others move up.
LEMMA PositionsTail ==
    ASSUME NEW s \in Seq(Tasks), s # <<>>, NEW kind
    PROVE  Cardinality(Positions(Tail(s), kind)) =
               Cardinality(Positions(s, kind)) - (IF Head(s).kind = kind THEN 1 ELSE 0)
<1> DEFINE S == Positions(s, kind) \ {1}
           T == Positions(Tail(s), kind)
           f == [i \in S |-> i - 1]
<1>1. /\ Tail(s) \in Seq(Tasks) /\ Len(Tail(s)) = Len(s) - 1 /\ Len(s) \in Nat \ {0}
      /\ \A i \in 1..Len(Tail(s)) : Tail(s)[i] = s[i + 1]
    OBVIOUS
<1>2. f \in Bijection(S, T)
    <2>1. \A i \in S : i \in Nat /\ i - 1 \in T
        BY <1>1 DEF Positions
    <2>2. \A j \in T : j + 1 \in S /\ (j + 1) - 1 = j
        BY <1>1 DEF Positions
    <2>3. \A a, b \in S : f[a] = f[b] => a = b
        BY <2>1
    <2>4. f \in [S -> T]
        BY <2>1
    <2>5. \A j \in T : \E i \in S : f[i] = j
        BY <2>2
    <2> QED BY <2>3, <2>4, <2>5 DEF Bijection, Injection, Surjection, IsInjective
<1>3. IsFiniteSet(Positions(s, kind)) /\ Cardinality(Positions(s, kind)) \in Nat
    BY PositionsFinite
<1>4. 1 \in Positions(s, kind) <=> Head(s).kind = kind
    BY <1>1 DEF Positions
<1>5. /\ IsFiniteSet(S)
      /\ Cardinality(S) = Cardinality(Positions(s, kind))
                            - (IF Head(s).kind = kind THEN 1 ELSE 0)
    <2>1. /\ IsFiniteSet(S)
          /\ Cardinality(S) = IF 1 \in Positions(s, kind)
                              THEN Cardinality(Positions(s, kind)) - 1
                              ELSE Cardinality(Positions(s, kind))
        BY <1>3, FS_RemoveElement
    <2> QED BY <1>3, <1>4, <2>1
<1>6. Cardinality(T) = Cardinality(S)
    <2>1. ExistsBijection(S, T)
        BY <1>2 DEF ExistsBijection
    <2> HIDE DEF S, T
    <2> QED BY <1>5, <2>1, FS_Bijection
<1> QED BY <1>5, <1>6

\* How many handlers of a kind wait.
Count(kind) == Cardinality(Waiting(kind))

LEMMA CountTyped ==
    ASSUME strand \in Seq(Tasks)
    PROVE  \A kind : Count(kind) \in Nat /\ (Waiting(kind) # {} <=> Count(kind) > 0)
BY WaitingPositions, PositionsFinite DEF Count

LEMMA CountQueued ==
    ASSUME strand \in Seq(Tasks), NEW t \in Tasks, strand' = Append(strand, t)
    PROVE  /\ strand' \in Seq(Tasks)
           /\ \A kind : Count(kind)' = Count(kind) + (IF t.kind = kind THEN 1 ELSE 0)
<1>1. strand' \in Seq(Tasks)
    OBVIOUS
<1>2. ASSUME NEW kind
      PROVE  Count(kind)' = Count(kind) + (IF t.kind = kind THEN 1 ELSE 0)
    BY WaitingPositions, PositionsAppend DEF Count
<1> QED BY <1>1, <1>2

LEMMA CountTaken ==
    ASSUME strand \in Seq(Tasks), strand # <<>>, strand' = Tail(strand)
    PROVE  /\ strand' \in Seq(Tasks)
           /\ \A kind : Count(kind)' = Count(kind) - (IF task.kind = kind THEN 1 ELSE 0)
<1>1. strand' \in Seq(Tasks)
    OBVIOUS
<1>2. ASSUME NEW kind
      PROVE  Count(kind)' = Count(kind) - (IF task.kind = kind THEN 1 ELSE 0)
    BY WaitingPositions, PositionsTail DEF Count, task
<1> QED BY <1>1, <1>2

LEMMA CountSame ==
    ASSUME strand' = strand
    PROVE  \A kind : Count(kind)' = Count(kind)
BY WaitingPositions DEF Count

-----------------------------------------------------------------------------
(* Each action keeps the three loops.                                      *)

\* LoopsGoOn in numbers.
Loop3 ==
    /\ Count("due") + (IF pingtimer THEN 1 ELSE 0) = IF silent THEN 0 ELSE 1
    /\ deaf \/ reads + Count("received") > 0
    /\ connected /\ ~carried => timeout \/ Count("expired") > 0

LEMMA InNumbers == LoopsGoOn <=> TypeOK /\ Loop3
<1>1. TypeOK => \A kind : Count(kind) \in Nat /\ (Waiting(kind) # {} <=> Count(kind) > 0)
    BY CountTyped DEF TypeOK
<1> QED BY <1>1 DEF LoopsGoOn, OnePing, Listening, Watched, Loops, Loop3, Count

LEMMA InNumbersNext == ASSUME TypeOK', Loop3' PROVE LoopsGoOn'
<1>1. \A kind : Count(kind)' \in Nat /\ ((Waiting(kind) # {})' <=> Count(kind)' > 0)
    BY WaitingPositions, PositionsFinite DEF TypeOK, Count
<1> QED BY <1>1 DEF LoopsGoOn, OnePing, Listening, Watched, Loops, Loop3, Count

LEMMA InitLoops == Init => LoopsGoOn
<1> SUFFICES ASSUME Init PROVE LoopsGoOn
    OBVIOUS
<1>1. TypeOK
    <2>1. strand \in Seq(Tasks)
        BY DEF Init
    <2> QED BY <2>1 DEF Init, TypeOK
<1>2. \A kind : Waiting(kind) = {}
    BY DEF Init, Waiting
<1>3. \A kind : Count(kind) = 0
    BY <1>2, FS_EmptySet DEF Count
<1>4. Loop3
    BY <1>3 DEF Init, Loop3
<1> QED BY <1>1, <1>4, InNumbers

LEMMA ReactorStep == ASSUME LoopsGoOn, Reactor PROVE LoopsGoOn'
<1>1. TypeOK /\ Loop3 /\ strand \in Seq(Tasks)
    BY InNumbers DEF TypeOK
<1>2. \A kind : Count(kind) \in Nat
    BY <1>1, CountTyped
<1>3. ASSUME PongArrives \/ DataArrives PROVE LoopsGoOn'
    <2>1. PICK t \in Tasks : t.kind = "received" /\ strand' = Append(strand, t)
        BY <1>3 DEF PongArrives, DataArrives, Tasks, Kinds
    <2>2. /\ reads > 0 /\ reads' = reads - 1
          /\ UNCHANGED <<serverUp, pingtimer, timeout, conn, loop, flags>>
          /\ socket' \in {socket, "used"}
        BY <1>3 DEF PongArrives, DataArrives, Receives, net
    <2>3. TypeOK'
        BY <1>1, <2>1, <2>2 DEF TypeOK, conn, loop, flags
    <2>4. Loop3'
        <3>1. /\ Count("received")' = Count("received") + 1
              /\ Count("due")' = Count("due") /\ Count("expired")' = Count("expired")
            BY <1>1, <1>2, <2>1, CountQueued
        <3> QED BY <1>1, <1>2, <2>2, <3>1 DEF Loop3, TypeOK, conn, flags
    <2> QED BY <2>3, <2>4, InNumbersNext
<1>4. ASSUME ReceiveFailed PROVE LoopsGoOn'
    <2>1. TypeOK'
        BY <1>1, <1>4 DEF ReceiveFailed, Receives, TypeOK, net, conn, loop
    <2>2. Loop3'
        BY <1>1, <1>4, CountSame DEF ReceiveFailed, Receives, Loop3, conn
    <2> QED BY <2>1, <2>2, InNumbersNext
<1>5. ASSUME PingDue PROVE LoopsGoOn'
    <2>1. [kind |-> "due"] \in Tasks
        BY DEF Tasks
    <2>2. /\ strand' \in Seq(Tasks) /\ Count("due")' = Count("due") + 1
          /\ Count("received")' = Count("received") /\ Count("expired")' = Count("expired")
        BY <1>1, <1>2, <1>5, <2>1, CountQueued DEF PingDue
    <2>3. TypeOK'
        BY <1>1, <1>5, <2>2 DEF PingDue, TypeOK, net, conn, loop, flags
    <2>4. Loop3'
        BY <1>1, <1>2, <1>5, <2>2 DEF PingDue, Loop3, TypeOK, conn, flags
    <2> QED BY <2>3, <2>4, InNumbersNext
<1>6. ASSUME TimeoutFires PROVE LoopsGoOn'
    <2>1. [kind |-> "expired"] \in Tasks
        BY DEF Tasks
    <2>2. /\ strand' \in Seq(Tasks) /\ Count("expired")' = Count("expired") + 1
          /\ Count("received")' = Count("received") /\ Count("due")' = Count("due")
        BY <1>1, <1>2, <1>6, <2>1, CountQueued DEF TimeoutFires
    <2>3. TypeOK'
        BY <1>1, <1>6, <2>2 DEF TimeoutFires, TypeOK, net, conn, loop, flags
    <2>4. Loop3'
        BY <1>1, <1>2, <1>6, <2>2 DEF TimeoutFires, Loop3, TypeOK, conn, flags
    <2> QED BY <2>3, <2>4, InNumbersNext
<1> QED BY <1>3, <1>4, <1>5, <1>6 DEF Reactor

\* An answer, or user data: its handler receives again.
LEMMA ReceivedStep == ASSUME LoopsGoOn, Pong \/ Data PROVE LoopsGoOn'
<1>1. TypeOK /\ Loop3 /\ strand \in Seq(Tasks)
    BY InNumbers DEF TypeOK
<1>2. \A kind : Count(kind) \in Nat
    BY <1>1, CountTyped
<1>3. /\ strand # <<>> /\ strand' = Tail(strand) /\ task.kind = "received"
      /\ reads' = reads + 1 /\ UNCHANGED <<serverUp, loop, socket, pingtimer, flags>>
      /\ \/ connected' = TRUE /\ carried' = FALSE /\ timeout' = TRUE
         \/ UNCHANGED <<connected, carried, timeout>>
    BY DEF Pong, Data, Take, ReceiveAgain, TimeoutSet, conn
<1>4. /\ strand' \in Seq(Tasks) /\ Count("received")' = Count("received") - 1
      /\ Count("due")' = Count("due") /\ Count("expired")' = Count("expired")
    BY <1>1, <1>2, <1>3, CountTaken
<1>5. TypeOK'
    <2>1. connected' \in BOOLEAN /\ carried' \in BOOLEAN /\ timeout' \in BOOLEAN
        BY <1>1, <1>3 DEF TypeOK
    <2>2. reads' \in Nat
        BY <1>1, <1>3 DEF TypeOK
    <2> QED BY <1>1, <1>3, <1>4, <2>1, <2>2 DEF TypeOK, loop, flags
<1>6. Loop3'
    BY <1>1, <1>2, <1>3, <1>4 DEF Loop3, TypeOK, flags
<1> QED BY <1>5, <1>6, InNumbersNext

\* The timer of the probes: the next probe is due, unless send_to throws.
LEMMA DueStep == ASSUME LoopsGoOn, Due PROVE LoopsGoOn'
<1>1. TypeOK /\ Loop3 /\ strand \in Seq(Tasks)
    BY InNumbers DEF TypeOK
<1>2. \A kind : Count(kind) \in Nat
    BY <1>1, CountTyped
<1>3. /\ strand # <<>> /\ strand' = Tail(strand) /\ task.kind = "due"
      /\ UNCHANGED <<serverUp, loop, reads, timeout, conn, deaf>>
      /\ socket' \in {socket, "asked"}
      /\ \/ pingtimer' = TRUE /\ silent' = silent
         \/ pingtimer' = pingtimer /\ silent' = TRUE
    BY DEF Due, Take, PingAgain
<1>4. /\ strand' \in Seq(Tasks) /\ Count("due")' = Count("due") - 1
      /\ Count("received")' = Count("received") /\ Count("expired")' = Count("expired")
      /\ Count("due")' \in Nat
    <2>1. /\ strand' \in Seq(Tasks) /\ Count("due")' = Count("due") - 1
          /\ Count("received")' = Count("received") /\ Count("expired")' = Count("expired")
        BY <1>1, <1>2, <1>3, CountTaken
    <2>2. Count("due")' \in Nat
        BY <2>1, WaitingPositions, PositionsFinite DEF Count
    <2> QED BY <2>1, <2>2
<1>5. TypeOK'
    BY <1>1, <1>3, <1>4 DEF TypeOK, conn, loop
<1>6. Loop3'
    BY <1>1, <1>2, <1>3, <1>4 DEF Loop3, TypeOK, conn
<1> QED BY <1>5, <1>6, InNumbersNext

\* The timeout: a new socket, with a receive of its own beside those whose handlers
\* wait, or none at all.
LEMMA ExpiredStep == ASSUME LoopsGoOn, Expired PROVE LoopsGoOn'
<1>1. TypeOK /\ Loop3 /\ strand \in Seq(Tasks)
    BY InNumbers DEF TypeOK
<1>2. \A kind : Count(kind) \in Nat
    BY <1>1, CountTyped
<1>3. /\ strand # <<>> /\ strand' = Tail(strand) /\ task.kind = "expired"
      /\ UNCHANGED <<serverUp, loop, pingtimer, timeout, silent>> /\ connected' = FALSE
      /\ carried' \in BOOLEAN /\ socket' \in {socket, "fresh", "closed"}
      /\ \/ reads' = 1 /\ deaf' = deaf
         \/ reads' = 0 /\ deaf' = TRUE
         \/ reads' = reads /\ deaf' = deaf
    BY <1>1 DEF Expired, Take, RecreateSocket, FirstReceive, conn, TypeOK
<1>4. /\ strand' \in Seq(Tasks) /\ Count("due")' = Count("due")
      /\ Count("received")' = Count("received")
    BY <1>1, <1>2, <1>3, CountTaken
<1>5. TypeOK'
    <2>1. deaf' \in BOOLEAN /\ connected' \in BOOLEAN
        BY <1>1, <1>3 DEF TypeOK
    <2>2. reads' \in Nat
        BY <1>1, <1>3 DEF TypeOK
    <2> QED BY <1>1, <1>3, <1>4, <2>1, <2>2 DEF TypeOK, loop
<1>6. Loop3'
    BY <1>1, <1>2, <1>3, <1>4 DEF Loop3, TypeOK
<1> QED BY <1>5, <1>6, InNumbersNext

LEMMA WriteStep == ASSUME LoopsGoOn, Write \/ Publish PROVE LoopsGoOn'
<1>1. TypeOK /\ Loop3 /\ strand \in Seq(Tasks)
    BY InNumbers DEF TypeOK
<1>2. \A kind : Count(kind) \in Nat
    BY <1>1, CountTyped
<1>3. /\ UNCHANGED <<serverUp, loop, reads, pingtimer, timeout, conn, flags>>
      /\ socket' \in {socket, "used"}
    BY DEF Write, Publish, Take, net
<1>4. /\ strand' \in Seq(Tasks) /\ Count("due")' = Count("due")
      /\ Count("received")' = Count("received") /\ Count("expired")' = Count("expired")
    <2>1. CASE Write
        BY <1>1, <1>2, <2>1, CountTaken DEF Write, Take
    <2>2. CASE Publish
        <3>1. [kind |-> "write"] \in Tasks
            BY DEF Tasks
        <3> QED BY <1>1, <1>2, <2>2, <3>1, CountQueued DEF Publish
    <2> QED BY <2>1, <2>2
<1>5. TypeOK'
    BY <1>1, <1>3, <1>4 DEF TypeOK, conn, loop, flags
<1>6. Loop3'
    BY <1>1, <1>3, <1>4 DEF Loop3, conn, flags
<1> QED BY <1>5, <1>6, InNumbersNext

\* restart(), which starts both loops or throws.
LEMMA RestartStep == ASSUME LoopsGoOn, Restart \/ RestartFails PROVE LoopsGoOn'
<1>1. TypeOK
    BY InNumbers
<1>2. /\ strand' = <<>> /\ restarts' = restarts + 1 /\ stopped' = FALSE
      /\ dispatched' = FALSE /\ timeout' = FALSE /\ carried' = connected
      /\ UNCHANGED <<serverUp, connected>> /\ socket' \in {"asked", "closed", "fresh"}
      /\ \/ reads' = 1 /\ pingtimer' = TRUE /\ silent' = FALSE /\ deaf' = FALSE
         \/ reads' = 0 /\ pingtimer' = FALSE /\ silent' = TRUE /\ deaf' = TRUE
    BY DEF Restart, RestartFails, NewContext
<1>3. \A kind : Count(kind)' = 0
    <2>1. \A kind : Positions(<<>>, kind) = {}
        BY DEF Positions
    <2> QED BY <1>2, <2>1, WaitingPositions, FS_EmptySet DEF Count
<1>4. TypeOK'
    <2>1. strand' \in Seq(Tasks)
        BY <1>2
    <2>2. restarts' \in Nat /\ reads' \in Nat
        BY <1>1, <1>2 DEF TypeOK
    <2>3. /\ pingtimer' \in BOOLEAN /\ silent' \in BOOLEAN /\ deaf' \in BOOLEAN
          /\ carried' \in BOOLEAN /\ connected' \in BOOLEAN
        BY <1>1, <1>2 DEF TypeOK
    <2> QED BY <1>1, <1>2, <2>1, <2>2, <2>3 DEF TypeOK
<1>5. Loop3'
    BY <1>1, <1>2, <1>3 DEF Loop3, TypeOK
<1> QED BY <1>4, <1>5, InNumbersNext

LEMMA IdleStep ==
    ASSUME LoopsGoOn, ServerToggle \/ Dispatched \/ Dispatch \/ Stop \/ UNCHANGED vars
    PROVE  LoopsGoOn'
<1>1. TypeOK /\ Loop3
    BY InNumbers
<1>2. /\ UNCHANGED <<socket, reads, pingtimer, timeout, conn, strand, restarts, flags>>
      /\ serverUp' \in BOOLEAN /\ dispatched' \in BOOLEAN /\ stopped' \in BOOLEAN
    BY <1>1 DEF ServerToggle, Dispatched, Dispatch, Stop, vars, net, loop, TypeOK
<1>3. TypeOK'
    BY <1>1, <1>2 DEF TypeOK, conn, flags
<1>4. Loop3'
    BY <1>1, <1>2, CountSame DEF Loop3, conn, flags
<1> QED BY <1>3, <1>4, InNumbersNext

LEMMA NextLoops == ASSUME LoopsGoOn, [Next]_vars PROVE LoopsGoOn'
<1>1. CASE Reactor
    BY <1>1, ReactorStep
<1>2. CASE Handler
    BY <1>2, ReceivedStep, DueStep, ExpiredStep, WriteStep DEF Handler
<1>3. CASE Application
    BY <1>3, WriteStep, RestartStep, IdleStep DEF Application
<1>4. CASE ServerToggle \/ Dispatched \/ UNCHANGED vars
    BY <1>4, IdleStep
<1> QED BY <1>1, <1>2, <1>3, <1>4 DEF Next

\* No order of answers, probes and timeouts leaves the client without its probes, its
\* receives or the timeout of its connection, or with two chains of probes.
THEOREM LoopsAlwaysGoOn == Spec => []LoopsGoOn
<1>1. LoopsGoOn /\ [Next]_vars => LoopsGoOn'
    BY NextLoops
<1> QED BY InitLoops, <1>1, PTL DEF Spec

=============================================================================
