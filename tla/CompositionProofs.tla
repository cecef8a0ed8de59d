------------------------- MODULE CompositionProofs --------------------------
(***************************************************************************)
(* Theorems about the modules that compose services: the gateway over its  *)
(* services, and a TCP server with its clients over buffers that fill up.  *)
(*                                                                         *)
(* The gateway (Gateway), for any services, connections and number of      *)
(* posts: the listener of a gateway that is run by one thread catches up   *)
(* with the services, and the gateway keeps the callback contract of       *)
(* EventContract over services that keep it; and, with any number of       *)
(* threads, what is published through it comes back from Self once and in  *)
(* order. Threads = 1 is a hypothesis of the first two, not an assumption  *)
(* on the code: two threads of run() can finish the connect and the        *)
(* disconnect of one connection in either order.                           *)
(*                                                                         *)
(* CatchesUp is inductive as it stands. The contract needs, of the         *)
(* callbacks on their way, that each is legal after those before it        *)
(* (Legal), and for that, that Self greets before anything else and once   *)
(* (Started). The order of the echoes is the order of their numbers: they  *)
(* rise along the gateway's queue, go on rising along Self's, and are      *)
(* below the number of a call that has yet to reach Self (Numbered); what  *)
(* was reported last is below them all (Behind).                           *)
(*                                                                         *)
(* The server and its clients (TcpDuplex), for any clients, workers and    *)
(* buffers, however full: NothingLost. It is inductive with three facts: a *)
(* connection is in the vector once, it is in the loop of a publish that   *)
(* runs at most once, and only behind a cut are there bytes out of step.   *)
(***************************************************************************)
EXTENDS Gateway, TcpDuplex, SequenceTheorems, FiniteSetTheorems, TLAPS

-----------------------------------------------------------------------------
(* What a listener makes of a sequence of callbacks.                       *)

LEMMA SeenBy ==
    ASSUME NEW ids, NEW e \in Events, NEW id
    PROVE  id \in Seen(ids, e) <=> \/ e = <<"connect", id>>
                                   \/ id \in ids /\ e # <<"disconnect", id>>
BY DEF Seen, Events

\* Only the callbacks counted matter.
LEMMA KnowsPrefix ==
    ASSUME NEW ids, NEW s, NEW t, NEW n \in Nat, NEW id, \A i \in 1..n : s[i] = t[i]
    PROVE  Knows(ids, s, n, id) <=> Knows(ids, t, n, id)
BY DEF Knows

LEMMA KnowsNone ==
    ASSUME NEW ids, NEW s, NEW id
    PROVE  Knows(ids, s, 0, id) <=> id \in ids
BY DEF Knows

\* One callback more.
LEMMA KnowsNext ==
    ASSUME NEW ids, NEW s, NEW n \in Nat, NEW id
    PROVE  Knows(ids, s, n + 1, id) <=>
               \/ s[n + 1] = <<"connect", id>>
               \/ Knows(ids, s, n, id) /\ s[n + 1] # <<"disconnect", id>>
<1>1. 1..(n + 1) = (1..n) \cup {n + 1} /\ n + 1 \notin 1..n
    OBVIOUS
<1>2. \A i \in 1..n : (i + 1)..(n + 1) = ((i + 1)..n) \cup {n + 1}
    OBVIOUS
<1>3. ((n + 1) + 1)..(n + 1) = {}
    OBVIOUS
<1>4. <<"connect", id>> # <<"disconnect", id>>
    OBVIOUS
<1> QED BY <1>1, <1>2, <1>3, <1>4 DEF Knows

\* The first callback is handled: what is left says the same of who heard it.
LEMMA KnowsTail ==
    ASSUME NEW ids, NEW s \in Seq(Events), s # <<>>, NEW n \in 0..(Len(s) - 1), NEW id
    PROVE  Knows(Seen(ids, Head(s)), Tail(s), n, id) <=> Knows(ids, s, n + 1, id)
<1> DEFINE e == Head(s)
           t == Tail(s)
<1>1. /\ e \in Events /\ e = s[1] /\ n \in Nat
      /\ \A i \in 1..n : t[i] = s[i + 1]
    OBVIOUS
<1>2. id \in Seen(ids, e) <=> e = <<"connect", id>> \/ (id \in ids /\ e # <<"disconnect", id>>)
    BY <1>1, SeenBy
<1> HIDE DEF e, t
<1>3. (\A i \in 1..n : t[i] # <<"disconnect", id>>) <=>
          \A i \in 2..(n + 1) : s[i] # <<"disconnect", id>>
    <2>1. \A i \in 2..(n + 1) : i - 1 \in 1..n /\ s[i] = t[i - 1]
        BY <1>1
    <2>2. \A i \in 1..n : i + 1 \in 2..(n + 1) /\ t[i] = s[i + 1]
        BY <1>1
    <2> QED BY <2>1, <2>2
<1> DEFINE A(i) == /\ s[i] = <<"connect", id>>
                   /\ \A j \in (i + 1)..(n + 1) : s[j] # <<"disconnect", id>>
           B(i) == /\ t[i] = <<"connect", id>>
                   /\ \A j \in (i + 1)..n : t[j] # <<"disconnect", id>>
<1>4. ASSUME NEW i \in 1..n, B(i) PROVE i + 1 \in 2..(n + 1) /\ A(i + 1)
    <2>1. i + 1 \in 2..(n + 1) /\ s[i + 1] = <<"connect", id>>
        BY <1>1, <1>4
    <2>2. ASSUME NEW j \in ((i + 1) + 1)..(n + 1) PROVE s[j] # <<"disconnect", id>>
        <3>1. j - 1 \in (i + 1)..n /\ j - 1 \in 1..n /\ (j - 1) + 1 = j
            BY ONLY <2>2, n \in Nat, i \in 1..n, j \in ((i + 1) + 1)..(n + 1)
        <3>2. t[j - 1] = s[j]
            BY <1>1, <3>1
        <3> QED BY <1>4, <3>1, <3>2
    <2> QED BY <2>1, <2>2
<1>5. ASSUME NEW i \in 2..(n + 1), A(i) PROVE i - 1 \in 1..n /\ B(i - 1)
    <2>1. i - 1 \in 1..n /\ (i - 1) + 1 = i
        BY <1>1
    <2>2. t[i - 1] = <<"connect", id>>
        BY <1>1, <1>5, <2>1
    <2>3. \A j \in ((i - 1) + 1)..n : j + 1 \in (i + 1)..(n + 1) /\ t[j] = s[j + 1]
        BY <1>1
    <2> QED BY <1>5, <2>1, <2>2, <2>3
<1>6. /\ 1..(n + 1) = {1} \cup 2..(n + 1)
      /\ (1 + 1)..(n + 1) = 2..(n + 1)
    BY <1>1
<1>7. <<"connect", id>> # <<"disconnect", id>>
    OBVIOUS
<1>8. Knows(ids, s, n + 1, id) <=>
          \/ /\ e = <<"connect", id>> \/ (id \in ids /\ e # <<"disconnect", id>>)
             /\ \A i \in 2..(n + 1) : s[i] # <<"disconnect", id>>
          \/ \E i \in 2..(n + 1) : A(i)
    BY <1>1, <1>6, <1>7 DEF Knows
<1>9. Knows(Seen(ids, e), t, n, id) <=>
          \/ id \in Seen(ids, e) /\ \A i \in 1..n : t[i] # <<"disconnect", id>>
          \/ \E i \in 1..n : B(i)
    BY DEF Knows
<1> HIDE DEF A, B
<1>10. (\E i \in 2..(n + 1) : A(i)) <=> \E i \in 1..n : B(i)
    BY <1>4, <1>5
<1>11. Knows(Seen(ids, e), t, n, id) <=> Knows(ids, s, n + 1, id)
    BY <1>2, <1>3, <1>8, <1>9, <1>10
<1> QED BY <1>11 DEF e, t

-----------------------------------------------------------------------------
(* What the steps do with the callbacks on their way.                      *)

LEMMA LineTyped ==
    ASSUME TypeOK
    PROVE  /\ Line \in Seq(Events) /\ Len(Line) = Len(active) + Len(queue)
           /\ active \in Seq(Events) /\ queue \in Seq(Events)
           /\ Len(Line) \in Nat /\ Len(active) \in Nat /\ Len(queue) \in Nat
           /\ \A i \in 1..Len(active) : Line[i] = active[i] /\ i \in 1..Len(Line)
           /\ \A i \in 1..Len(Line) : Line[i] \in Events
<1>1. active \in Seq(Events) /\ queue \in Seq(Events)
    BY DEF TypeOK
<1>2. /\ active \o queue \in Seq(Events) /\ Len(active \o queue) = Len(active) + Len(queue)
      /\ \A i \in 1..Len(active) : (active \o queue)[i] = active[i]
    BY <1>1, ConcatProperties
<1>3. Len(active) \in Nat /\ Len(queue) \in Nat
    BY <1>1
<1> QED BY <1>1, <1>2, <1>3 DEF Line

LEMMA Forwarded ==
    ASSUME TypeOK, NEW callbacks \in Seq(Events), Forward(callbacks), active' = active
    PROVE  /\ queue' \in Seq(Events) /\ Line' \in Seq(Events)
           /\ Line' = Line \o callbacks /\ Len(Line') = Len(Line) + Len(callbacks)
           /\ \A i \in 1..Len(Line) : Line'[i] = Line[i]
           /\ \A i \in 1..Len(callbacks) : Line'[Len(Line) + i] = callbacks[i]
<1>1. /\ active \in Seq(Events) /\ queue \in Seq(Events) /\ queue' = queue \o callbacks
      /\ Line \in Seq(Events)
    BY LineTyped DEF Forward
<1>2. Line' = Line \o callbacks
    <2>1. (active \o queue) \o callbacks = active \o (queue \o callbacks)
        <3>1. active \in Seq(Events) /\ queue \in Seq(Events) /\ callbacks \in Seq(Events)
            BY <1>1
        <3> QED BY ONLY <3>1, ConcatAssociative, SMTT(30)
    <2> QED BY <1>1, <2>1 DEF Line
<1>3. queue' \in Seq(Events)
    BY <1>1, ConcatProperties
<1>4. /\ Line \o callbacks \in Seq(Events)
      /\ Len(Line \o callbacks) = Len(Line) + Len(callbacks)
      /\ \A i \in 1..Len(Line) : (Line \o callbacks)[i] = Line[i]
      /\ \A i \in 1..Len(callbacks) : (Line \o callbacks)[Len(Line) + i] = callbacks[i]
    <2>1. \A i \in 1..(Len(Line) + Len(callbacks)) :
              (Line \o callbacks)[i] =
                  IF i <= Len(Line) THEN Line[i] ELSE callbacks[i - Len(Line)]
        BY <1>1, ConcatProperties
    <2>2. /\ Line \o callbacks \in Seq(Events)
          /\ Len(Line \o callbacks) = Len(Line) + Len(callbacks)
        BY <1>1, ConcatProperties
    <2>3. Len(Line) \in Nat /\ Len(callbacks) \in Nat
        BY <1>1
    <2>4. \A i \in 1..Len(callbacks) :
              /\ Len(Line) + i \in 1..(Len(Line) + Len(callbacks))
              /\ ~(Len(Line) + i <= Len(Line)) /\ (Len(Line) + i) - Len(Line) = i
        BY <2>3
    <2>5. \A i \in 1..Len(Line) : i \in 1..(Len(Line) + Len(callbacks)) /\ i <= Len(Line)
        BY <2>3
    <2> QED BY <2>1, <2>2, <2>4, <2>5
<1> QED BY <1>1, <1>2, <1>3, <1>4

LEMMA HeadAndTail ==
    ASSUME NEW S, NEW s \in Seq(S), NEW t \in Seq(S), t # <<>>
    PROVE  /\ Tail(t) \in Seq(S) /\ Head(t) \in S /\ <<Head(t)>> \in Seq(S)
           /\ t = <<Head(t)>> \o Tail(t)
           /\ Append(s, Head(t)) = s \o <<Head(t)>>
OBVIOUS

\* A thread that takes a callback changes nothing for the order.
LEMMA Taken ==
    ASSUME TypeOK, Take
    PROVE  /\ Line' = Line
           /\ queue' \in Seq(Events) /\ active' \in Seq(Events) /\ Len(active') <= Threads
<1>1. /\ active \in Seq(Events) /\ queue \in Seq(Events) /\ queue # <<>>
      /\ queue' = Tail(queue) /\ active' = Append(active, Head(queue))
      /\ Len(active) < Threads
    BY DEF TypeOK, Take
<1>2. /\ Tail(queue) \in Seq(Events) /\ Head(queue) \in Events
      /\ queue = <<Head(queue)>> \o Tail(queue)
      /\ Append(active, Head(queue)) = active \o <<Head(queue)>>
      /\ <<Head(queue)>> \in Seq(Events)
    BY <1>1, HeadAndTail
<1>3. Line' = Line
    BY <1>1, <1>2, ConcatAssociative DEF Line
<1>4. active' \in Seq(Events) /\ Len(active') = Len(active) + 1
    BY <1>1, <1>2
<1>5. Len(active') <= Threads
    BY <1>1, <1>4, GatewayAssumption
<1> QED BY <1>1, <1>2, <1>3, <1>4, <1>5

LEMMA RemoveAtProperties ==
    ASSUME NEW S, NEW s \in Seq(S), NEW i \in 1..Len(s)
    PROVE  /\ RemoveAt(s, i) \in Seq(S) /\ Len(RemoveAt(s, i)) = Len(s) - 1
           /\ \A j \in 1..(Len(s) - 1) : RemoveAt(s, i)[j] = s[IF j < i THEN j ELSE j + 1]
<1> DEFINE a == SubSeq(s, 1, i - 1)
           b == SubSeq(s, i + 1, Len(s))
<1>1. /\ a \in Seq(S) /\ Len(a) = i - 1 /\ \A j \in 1..(i - 1) : a[j] = s[j]
      /\ b \in Seq(S) /\ Len(b) = Len(s) - i /\ \A j \in 1..(Len(s) - i) : b[j] = s[i + j]
    OBVIOUS
<1>2. Len(s) \in Nat /\ i \in 1..Len(s)
    OBVIOUS
<1> HIDE DEF a, b
<1>3. /\ a \o b \in Seq(S) /\ Len(a \o b) = Len(a) + Len(b)
      /\ \A j \in 1..(Len(a) + Len(b)) :
            (a \o b)[j] = IF j <= Len(a) THEN a[j] ELSE b[j - Len(a)]
    BY <1>1, ConcatProperties
<1>4. ASSUME NEW j \in 1..(Len(s) - 1)
      PROVE  (a \o b)[j] = s[IF j < i THEN j ELSE j + 1]
    <2>1. CASE j < i
        BY <1>1, <1>2, <1>3, <2>1
    <2>2. CASE ~(j < i)
        <3>1. /\ j \in 1..(Len(a) + Len(b)) /\ ~(j <= Len(a))
              /\ j - Len(a) \in 1..(Len(s) - i) /\ i + (j - Len(a)) = j + 1
            BY <1>1, <1>2, <2>2
        <3> QED BY <1>1, <1>3, <2>2, <3>1
    <2> QED BY <2>1, <2>2
<1>5. Len(a \o b) = Len(s) - 1
    BY <1>1, <1>2, <1>3
<1>6. RemoveAt(s, i) = a \o b
    BY DEF RemoveAt, a, b
<1> QED BY <1>3, <1>4, <1>5, <1>6

\* A handler that returns: one callback has arrived; those after it move up.
LEMMA Finished ==
    ASSUME TypeOK, NEW i \in 1..Len(active), active' = RemoveAt(active, i), queue' = queue
    PROVE  /\ active' \in Seq(Events) /\ Len(active') <= Threads
           /\ Line' \in Seq(Events) /\ Len(Line') = Len(Line) - 1 /\ Line # <<>>
           /\ i \in 1..Len(Line) /\ Line[i] = active[i] /\ active[i] \in Events
           /\ \A j \in 1..Len(Line') : Line'[j] = Line[IF j < i THEN j ELSE j + 1]
           /\ Threads = 1 => i = 1 /\ active = <<active[i]>> /\ active' = <<>>
                             /\ Line' = Tail(Line) /\ Head(Line) = active[i]
<1>1. /\ active \in Seq(Events) /\ queue \in Seq(Events) /\ Len(active) <= Threads
      /\ Len(active) \in Nat /\ Len(queue) \in Nat /\ Threads \in Nat
      /\ Line \in Seq(Events) /\ Len(Line) = Len(active) + Len(queue)
    BY LineTyped, GatewayAssumption DEF TypeOK
<1> DEFINE rest == RemoveAt(active, i)
<1>2. /\ rest \in Seq(Events) /\ Len(rest) = Len(active) - 1
      /\ \A j \in 1..(Len(active) - 1) : rest[j] = active[IF j < i THEN j ELSE j + 1]
    BY <1>1, RemoveAtProperties
<1>3. active' = rest /\ Line' = rest \o queue
    BY DEF Line
<1> HIDE DEF rest
<1>4. /\ rest \o queue \in Seq(Events) /\ Len(rest \o queue) = Len(Line) - 1
      /\ \A j \in 1..(Len(Line) - 1) :
            (rest \o queue)[j] = IF j <= Len(active) - 1 THEN rest[j]
                                 ELSE queue[j - (Len(active) - 1)]
    <2>1. Len(rest) + Len(queue) = Len(Line) - 1
        BY <1>1, <1>2
    <2>2. rest \in Seq(Events) /\ queue \in Seq(Events) /\ Len(rest) = Len(active) - 1
        BY <1>1, <1>2
    <2>3. /\ rest \o queue \in Seq(Events) /\ Len(rest \o queue) = Len(rest) + Len(queue)
          /\ \A j \in 1..(Len(rest) + Len(queue)) :
                (rest \o queue)[j] = IF j <= Len(rest) THEN rest[j] ELSE queue[j - Len(rest)]
        BY ONLY <2>2, ConcatProperties
    <2> QED BY <2>1, <2>2, <2>3
<1>44. \A j \in 1..Len(Line) :
          Line[j] = IF j <= Len(active) THEN active[j] ELSE queue[j - Len(active)]
    BY <1>1, ConcatProperties DEF Line
<1>5. \A j \in 1..(Len(Line) - 1) : (rest \o queue)[j] = Line[IF j < i THEN j ELSE j + 1]
    <2> DEFINE a == Len(active)
               q == Len(queue)
               l == Len(Line)
    <2>1. a \in Nat /\ q \in Nat /\ l = a + q /\ i \in 1..a
        BY <1>1
    <2> HIDE DEF a, q, l
    <2>2. ASSUME NEW j \in 1..(l - 1)
          PROVE  (rest \o queue)[j] = Line[IF j < i THEN j ELSE j + 1]
        <3>1. CASE j < i
            <4>1. j <= a - 1 /\ j \in 1..(a - 1) /\ j \in 1..l /\ j <= a
                BY <2>1, <3>1
            <4> QED BY <1>2, <1>4, <1>44, <3>1, <4>1 DEF a, l
        <3>2. CASE ~(j < i) /\ j <= a - 1
            <4>1. j \in 1..(a - 1) /\ j + 1 \in 1..l /\ j + 1 <= a
                BY <2>1, <3>2
            <4> QED BY <1>2, <1>4, <1>44, <3>2, <4>1 DEF a, l
        <3>3. CASE ~(j <= a - 1)
            <4>1. /\ j + 1 \in 1..l /\ ~(j + 1 <= a) /\ ~(j < i)
                  /\ j - (a - 1) = (j + 1) - a
                BY <2>1, <3>3
            <4> QED BY <1>4, <1>44, <3>3, <4>1 DEF a, l
        <3>4. i \in Int /\ j \in Int
            BY <2>1
        <3> QED BY <3>1, <3>2, <3>3
    <2> QED BY <2>2 DEF l
<1>6. Line # <<>> /\ i \in 1..Len(Line) /\ Line[i] = active[i] /\ active[i] \in Events
    BY <1>1, LineTyped
<1>7. ASSUME Threads = 1
      PROVE  i = 1 /\ active = <<active[i]>> /\ active' = <<>>
             /\ Line' = Tail(Line) /\ Head(Line) = active[i]
    <2>1. Len(active) = 1 /\ i = 1
        <3> DEFINE a == Len(active)
        <3>1. a \in Nat /\ a <= 1 /\ i \in 1..a
            BY <1>1, <1>7
        <3> HIDE DEF a
        <3>2. a = 1 /\ i = 1
            BY <3>1
        <3> QED BY <3>2 DEF a
    <2>2. active = <<active[i]>> /\ active' = <<>>
        BY <1>1, <1>2, <1>3, <2>1
    <2>3. Line' = Tail(Line)
        <3>1. /\ Tail(Line) \in Seq(Events) /\ Len(Tail(Line)) = Len(Line) - 1
              /\ \A j \in 1..Len(Tail(Line)) : Tail(Line)[j] = Line[j + 1]
            BY <1>1, <1>6
        <3>2. ASSUME NEW j \in 1..Len(Line') PROVE Line'[j] = Line[j + 1]
            <4>1. Len(Line') = Len(Line) - 1
                BY <1>3, <1>4
            <4>2. ~(j < i)
                BY <2>1
            <4> QED BY <1>3, <1>5, <4>1, <4>2
        <3> QED BY <1>3, <1>4, <3>1, <3>2, SeqEqual
    <2>4. Head(Line) = active[i]
        BY <1>1, <1>6, <2>1
    <2> QED BY <2>1, <2>2, <2>3, <2>4
<1>8. Len(active') <= Threads
    BY <1>1, <1>2, <1>3
<1> QED BY <1>2, <1>3, <1>4, <1>5, <1>6, <1>7, <1>8

-----------------------------------------------------------------------------
(* Every variable stays in its type.                                       *)

LEMMA TaskKinds ==
    ASSUME NEW t \in SelfTasks
    PROVE  /\ t.kind = "greet" <=> t = Greeting
           /\ t.kind = "post" <=> t \in Posts
           /\ t.kind \in {"greet", "post", "task"}
BY DEF SelfTasks, Greeting, Posts

LEMMA EventKinds ==
    /\ \A s \in Services \cup {Self} : <<"ready", s>> \in Events
    /\ \A id \in Ids : <<"connect", id>> \in Events /\ <<"disconnect", id>> \in Events
    /\ \A id \in Remotes : <<"message", id>> \in Events
    /\ \A n \in 1..MaxPosts : <<"message", Self, n>> \in Events
<1>1. \A s \in Services \cup {Self} : <<"ready", s>> \in Events
    BY DEF Events
<1>2. ASSUME NEW kind \in {"connect", "disconnect"}, NEW id \in Ids
      PROVE  <<kind, id>> \in Events
    <2>1. <<kind, id>> \in {<<k, i>> : k \in {"connect", "disconnect"}, i \in Ids}
        OBVIOUS
    <2> QED BY <2>1 DEF Events
<1>3. \A id \in Remotes : <<"message", id>> \in Events
    BY DEF Events
<1>4. \A n \in 1..MaxPosts : <<"message", Self, n>> \in Events
    BY DEF Events
<1> QED BY <1>1, <1>2, <1>3, <1>4

LEMMA ShortSeqs ==
    ASSUME NEW S, NEW a \in S, NEW b \in S
    PROVE  /\ <<>> \in Seq(S) /\ <<a>> \in Seq(S) /\ <<a, b>> \in Seq(S)
           /\ Len(<<a>>) = 1 /\ <<a>>[1] = a
           /\ Len(<<a, b>>) = 2 /\ <<a, b>>[1] = a /\ <<a, b>>[2] = b
OBVIOUS

\* What Self's handler of a task calls back.
LEMMA SaysWhat ==
    ASSUME NEW t \in SelfTasks
    PROVE  /\ t.kind = "greet" => Says(t) = <<<<"ready", Self>>, <<"connect", Self>>>>
           /\ t.kind = "post" /\ Reaches(t) => Says(t) = <<<<"message", Self, t.n>>>>
           /\ ~(t.kind = "greet") /\ ~(t.kind = "post" /\ Reaches(t)) => Says(t) = <<>>
           /\ Says(t) \in Seq(Events)
<1>1. /\ t.kind = "greet" => Says(t) = <<<<"ready", Self>>, <<"connect", Self>>>>
      /\ t.kind = "post" /\ Reaches(t) => Says(t) = <<<<"message", Self, t.n>>>>
      /\ ~(t.kind = "greet") /\ ~(t.kind = "post" /\ Reaches(t)) => Says(t) = <<>>
    BY DEF Says
<1>2. <<"ready", Self>> \in Events /\ <<"connect", Self>> \in Events
    BY EventKinds DEF Ids
<1>3. t.kind = "post" => <<"message", Self, t.n>> \in Events
    BY TaskKinds, EventKinds DEF Posts
<1>4. Says(t) \in Seq(Events)
    <2>1. CASE t.kind = "greet"
        <3>1. <<<<"ready", Self>>, <<"connect", Self>>>> \in Seq(Events)
            BY <1>2, ShortSeqs
        <3> QED BY <1>1, <2>1, <3>1
    <2>2. CASE t.kind = "post" /\ Reaches(t)
        <3>1. <<<<"message", Self, t.n>>>> \in Seq(Events)
            BY <1>3, <2>2, ShortSeqs
        <3> QED BY <1>1, <2>2, <3>1
    <2>3. CASE ~(t.kind = "greet") /\ ~(t.kind = "post" /\ Reaches(t))
        <3>1. <<>> \in Seq(Events)
            OBVIOUS
        <3> QED BY <1>1, <2>3, <3>1
    <2> QED BY <2>1, <2>2, <2>3
<1> QED BY <1>1, <1>4

LEMMA InitType == Init => TypeOK
<1> SUFFICES ASSUME Init PROVE TypeOK
    OBVIOUS
<1>1. tasks \in Seq(SelfTasks)
    BY DEF Init, SelfInit, SelfTasks
<1>2. services \in Seq(Services \cup {Self}) /\ queue \in Seq(Events) /\ active \in Seq(Events)
    BY DEF Init
<1>3. Len(active) <= Threads
    BY GatewayAssumption DEF Init
<1>4. open \in [Services -> SUBSET Conns] /\ posts \in 0..MaxPosts
    BY SelfAssumption DEF Init
<1> QED BY <1>1, <1>2, <1>3, <1>4 DEF Init, SelfInit, TypeOK

LEMMA RunType ==
    ASSUME TypeOK, NEW s \in Services \cup {Self}, Run(s)
    PROVE  TypeOK' /\ \E callbacks \in Seq(Events) :
               /\ Forward(callbacks)
               /\ callbacks = IF s = Self THEN <<>> ELSE <<<<"ready", s>>>>
<1> DEFINE callbacks == IF s = Self THEN <<>> ELSE <<<<"ready", s>>>>
<1>1. callbacks \in Seq(Events)
    <2>1. <<"ready", s>> \in Events
        BY DEF Events
    <2>2. <<<<"ready", s>>>> \in Seq(Events) /\ <<>> \in Seq(Events)
        BY <2>1
    <2> QED BY <2>2
<1>2. Forward(callbacks) /\ active' = active
    BY DEF Run
<1> HIDE DEF callbacks
<1>3. queue' \in Seq(Events)
    BY <1>1, <1>2, Forwarded
<1>4. TypeOK'
    BY <1>2, <1>3 DEF TypeOK, Run, selfVars, told, calls, loop
<1> QED BY <1>1, <1>2, <1>4 DEF callbacks

\* What another service has open after a callback of a connection.
Opened(kind, s, c) ==
    \/ kind = "connect" /\ c \notin open[s] /\ open' = [open EXCEPT ![s] = @ \cup {c}]
    \/ kind = "message" /\ c \in open[s] /\ open' = open
    \/ kind = "disconnect" /\ c \in open[s] /\ open' = [open EXCEPT ![s] = @ \ {c}]

LEMMA EventType ==
    ASSUME TypeOK, NEW s \in Services, NEW c \in Conns,
           Connects(s, c) \/ Messages(s, c) \/ Disconnects(s, c)
    PROVE  TypeOK' /\ \E kind \in {"connect", "message", "disconnect"} :
               /\ <<kind, <<s, c>>>> \in Events /\ Forward(<<<<kind, <<s, c>>>>>>)
               /\ Opened(kind, s, c)
               /\ UNCHANGED <<selfVars, services, running, active, told, calls, loop>>
<1>1. PICK kind \in {"connect", "message", "disconnect"} :
          Event(s, kind, c) /\ Opened(kind, s, c)
    BY DEF Connects, Messages, Disconnects, Opened
<1>2. <<kind, <<s, c>>>> \in Events
    BY EventKinds DEF Ids, Remotes
<1>3. /\ Forward(<<<<kind, <<s, c>>>>>>)
      /\ UNCHANGED <<selfVars, services, running, active, told, calls, loop>>
    BY <1>1 DEF Event
<1>4. <<<<kind, <<s, c>>>>>> \in Seq(Events) /\ active' = active
    BY <1>2, <1>3
<1>5. queue' \in Seq(Events)
    BY <1>3, <1>4, Forwarded
<1>6. open' \in [Services -> SUBSET Conns]
    BY <1>1 DEF Opened, TypeOK
<1>7. TypeOK'
    BY <1>3, <1>5, <1>6 DEF TypeOK, selfVars, told, calls, loop
<1> QED BY <1>1, <1>2, <1>3, <1>7

LEMMA SelfRunsType ==
    ASSUME TypeOK, SelfRuns
    PROVE  /\ TypeOK'
           /\ tasks # <<>> /\ Head(tasks) \in SelfTasks /\ tasks' = Tail(tasks)
           /\ Forward(Says(Head(tasks))) /\ Says(Head(tasks)) \in Seq(Events)
           /\ greeted' = (greeted \/ Head(tasks).kind = "greet")
           /\ UNCHANGED <<parts, active, told, calls, loop, halted, selfRounds>>
<1>1. /\ tasks # <<>> /\ tasks' = Tail(tasks) /\ Forward(Says(Head(tasks)))
      /\ greeted' = (greeted \/ Head(tasks).kind = "greet")
      /\ UNCHANGED <<parts, active, told, calls, loop, halted, selfRounds>>
    BY DEF SelfRuns, SelfHandler, Greet, Echo, SelfDispatched, SelfTakes, TypeOK
<1>2. tasks \in Seq(SelfTasks) /\ Head(tasks) \in SelfTasks /\ tasks' \in Seq(SelfTasks)
    BY <1>1 DEF TypeOK
<1>3. Says(Head(tasks)) \in Seq(Events)
    BY <1>2, SaysWhat
<1>4. queue' \in Seq(Events)
    BY <1>1, <1>3, Forwarded
<1>5. TypeOK'
    BY <1>1, <1>2, <1>4 DEF TypeOK, parts, told, calls, loop
<1> QED BY <1>1, <1>2, <1>3, <1>5

LEMMA DoneType ==
    ASSUME TypeOK, NEW i \in 1..Len(active), Done(i)
    PROVE  TypeOK' /\ active' = RemoveAt(active, i) /\ queue' = queue
<1> DEFINE e == active[i]
<1>1. /\ active' = RemoveAt(active, i) /\ queue' = queue
      /\ reported' = Seen(reported, e)
      /\ report' = IF e[1] = "task" THEN report ELSE e
      /\ owed' \subseteq owed
      /\ UNCHANGED <<selfVars, parts, fan, posts, loop>>
    BY DEF Done
<1>2. active' \in Seq(Events) /\ Len(active') <= Threads /\ e \in Events
    BY <1>1, Finished
<1> HIDE DEF e
<1>3. reported' \subseteq Ids
    <2>1. \A id : e = <<"connect", id>> => id \in Ids
        BY <1>2 DEF Events
    <2> QED BY <1>1, <1>2, <2>1, SeenBy DEF TypeOK
<1>4. report' \in Events \cup {<<"none">>}
    BY <1>1, <1>2 DEF TypeOK
<1>5. TypeOK'
    BY <1>1, <1>2, <1>3, <1>4 DEF TypeOK, selfVars, parts, loop
<1> QED BY <1>1, <1>5

LEMMA SelfPosted ==
    ASSUME TypeOK, NEW t \in SelfTasks, SelfPost(t)
    PROVE  /\ tasks' \in Seq(SelfTasks) /\ Len(tasks') = Len(tasks) + 1
           /\ tasks'[Len(tasks) + 1] = t /\ \A i \in 1..Len(tasks) : tasks'[i] = tasks[i]
           /\ UNCHANGED <<greeted, halted, selfRounds>>
BY DEF TypeOK, SelfPost

\* The call that runs, and the service it has come to.
LEMMA FanTyped ==
    ASSUME TypeOK, fan # Idle
    PROVE  /\ fan.post \in Posts /\ fan.post \in SelfTasks /\ fan.post.kind = "post"
           /\ fan.at \in 1..Len(services) /\ fan.at \in Nat /\ Len(services) \in Nat
           /\ fan = [post |-> fan.post, at |-> fan.at]
<1>1. fan \in [post : Posts, at : 1..Len(services)] /\ Len(services) \in Nat
    BY DEF TypeOK
<1> QED BY <1>1 DEF Posts, SelfTasks

LEMMA FanOutType ==
    ASSUME TypeOK, FanOut
    PROVE  TypeOK'
<1>1. /\ fan.post \in Posts /\ fan.post \in SelfTasks
      /\ fan.at \in 1..Len(services) /\ Len(services) \in Nat
      /\ fan = [post |-> fan.post, at |-> fan.at] /\ fan # Idle
    BY FanTyped DEF FanOut
<1>2. UNCHANGED <<parts, events, told, posts, loop>>
    BY DEF FanOut
<1>3. /\ tasks' \in Seq(SelfTasks) /\ owed' \subseteq 1..MaxPosts
      /\ UNCHANGED <<greeted, halted, selfRounds>>
    <2>1. CASE services[fan.at] = Self
        <3>1. fan.post.n \in 1..MaxPosts
            BY <1>1 DEF Posts
        <3> QED BY <1>1, <2>1, <3>1, SelfPosted DEF FanOut, TypeOK
    <2>2. CASE services[fan.at] # Self
        BY <2>2 DEF FanOut, TypeOK, selfVars
    <2> QED BY <2>1, <2>2
<1>4. fan' = Idle \/ fan' \in [post : Posts, at : 1..Len(services)]
    <2>1. CASE fan.at = Len(services)
        BY <2>1 DEF FanOut
    <2>2. CASE fan.at # Len(services)
        <3>1. fan' = [post |-> fan.post, at |-> fan.at + 1]
            BY <1>1, <2>2 DEF FanOut
        <3>2. fan.at + 1 \in 1..Len(services)
            BY <1>1, <2>2
        <3> QED BY <1>1, <3>1, <3>2
    <2> QED BY <2>1, <2>2
<1> QED BY <1>2, <1>3, <1>4 DEF TypeOK, parts, events, told, loop

LEMMA PostType ==
    ASSUME TypeOK, Publish \/ PublishEx \/ Send
    PROVE  /\ TypeOK' /\ fan = Idle /\ posts' = posts + 1 /\ fan' # Idle
           /\ fan'.post.n = posts + 1 /\ fan'.at = 1
           /\ UNCHANGED <<selfVars, parts, events, told, owed, loop>>
<1>1. PICK mode \in Modes, mine \in BOOLEAN : Post(mode, mine)
    BY DEF Publish, PublishEx, Send, Modes
<1> DEFINE post == [kind |-> "post", mode |-> mode, mine |-> mine, n |-> posts + 1]
<1>2. /\ fan = Idle /\ services # <<>> /\ posts < MaxPosts /\ posts' = posts + 1
      /\ fan' = [post |-> post, at |-> 1]
      /\ UNCHANGED <<selfVars, parts, events, told, owed, loop>>
    BY <1>1 DEF Post
<1>3. posts \in Nat /\ posts + 1 \in 1..MaxPosts
    BY <1>2, SelfAssumption DEF TypeOK
<1>4. post \in Posts /\ post.n = posts + 1
    BY <1>3 DEF Posts
<1>5. 1 \in 1..Len(services)
    BY <1>2 DEF TypeOK
<1> HIDE DEF post
<1>6. fan' \in [post : Posts, at : 1..Len(services)] /\ fan'.at = 1 /\ fan'.post = post
    BY <1>2, <1>4, <1>5
<1>7. fan' # Idle
    BY <1>6 DEF Idle
<1>8. TypeOK'
    BY <1>2, <1>3, <1>6 DEF TypeOK, selfVars, parts, events, told, loop
<1> QED BY <1>2, <1>4, <1>6, <1>7, <1>8

LEMMA OtherType ==
    ASSUME TypeOK,
           \/ \E s \in Services \cup {Self} : AddService(s)
           \/ SelfHalts \/ SelfDispatch \/ Dispatch \/ Stop \/ Restart \/ UNCHANGED vars
    PROVE  TypeOK'
<1>1. ASSUME NEW s \in Services \cup {Self}, AddService(s) PROVE TypeOK'
    BY <1>1 DEF AddService, TypeOK, selfVars, events, told, calls, loop
<1>2. CASE SelfHalts
    <2>1. UNCHANGED <<parts, events, told, calls, loop>>
        BY <1>2 DEF SelfHalts
    <2>2. <<Greeting>> \in Seq(SelfTasks)
        BY ShortSeqs DEF SelfTasks
    <2>3. tasks' \in Seq(SelfTasks) /\ selfRounds' \in Nat
        <3>1. tasks \in Seq(SelfTasks) /\ selfRounds \in Nat
            BY DEF TypeOK
        <3>2. \/ tasks' = tasks /\ selfRounds' = selfRounds
              \/ tasks' = <<Greeting>> /\ selfRounds' = selfRounds + 1
            BY <1>2 DEF SelfHalts, SelfStop, SelfRestart
        <3>3. tasks' \in Seq(SelfTasks)
            BY ONLY <2>2, <3>1, <3>2
        <3>4. selfRounds' \in Nat
            BY ONLY <3>1, <3>2
        <3> QED BY <3>3, <3>4
    <2>4. greeted' \in BOOLEAN /\ halted' \in BOOLEAN
        BY <1>2 DEF SelfHalts, SelfStop, SelfRestart, TypeOK
    <2> QED BY <2>1, <2>3, <2>4 DEF TypeOK, parts, events, told, calls, loop
<1>3. CASE SelfDispatch
    <2>1. [kind |-> "task"] \in SelfTasks /\ SelfPost([kind |-> "task"])
        BY <1>3 DEF SelfTasks, SelfDispatch
    <2>2. tasks' \in Seq(SelfTasks) /\ UNCHANGED <<greeted, halted, selfRounds>>
        BY <2>1, SelfPosted
    <2> QED BY <1>3, <2>2 DEF SelfDispatch, TypeOK, parts, events, told, calls, loop
<1>4. CASE Dispatch
    <2>1. queue' \in Seq(Events)
        BY <1>4 DEF Dispatch, TypeOK, Events
    <2> QED BY <1>4, <2>1 DEF Dispatch, TypeOK, selfVars, parts, told, calls, loop
<1>5. CASE Stop
    BY <1>5 DEF Stop, TypeOK, selfVars, parts, events, told, calls
<1>6. CASE Restart
    <2>1. queue' \in Seq(Events) /\ rounds' \in Nat
        BY <1>6 DEF Restart, TypeOK
    <2> QED BY <1>6, <2>1 DEF Restart, TypeOK, selfVars, parts, told, calls
<1>7. CASE UNCHANGED vars
    BY <1>7 DEF vars, TypeOK, selfVars, parts, events, told, calls, loop
<1> QED BY <1>1, <1>2, <1>3, <1>4, <1>5, <1>6, <1>7

LEMMA TakeType == ASSUME TypeOK, Take PROVE TypeOK'
<1>1. queue' \in Seq(Events) /\ active' \in Seq(Events) /\ Len(active') <= Threads
    BY Taken
<1> QED BY <1>1 DEF Take, TypeOK, selfVars, parts, told, calls, loop

LEMMA NextType == ASSUME TypeOK, [Next]_vars PROVE TypeOK'
BY RunType, EventType, SelfRunsType, DoneType, FanOutType, PostType, OtherType, TakeType
   DEF Next, Handled

-----------------------------------------------------------------------------
(* What the listener knows catches up with what the services have.         *)

\* CatchesUp at the next state.
LEMMA CatchesUpNext ==
    ASSUME TypeOK',
           rounds' = 0 => \A id \in Remotes :
               Knows(reported', Line', Len(Line'), id) <=> id \in OpenIds',
           FirstRound' => (Knows(reported', Line', Len(Line'), Self) <=> greeted')
    PROVE  CatchesUp'
BY DEF CatchesUp, Knows

\* What comes to know a listener that hears all that is on its way.
LEMMA KnowsForwarded ==
    ASSUME TypeOK, NEW callbacks \in Seq(Events), Forward(callbacks), active' = active,
           reported' = reported, NEW id
    PROVE  /\ \A n \in 0..Len(Line) :
                  Knows(reported', Line', n, id) <=> Knows(reported, Line, n, id)
           /\ callbacks = <<>> =>
                  (Knows(reported', Line', Len(Line'), id) <=> Knows(reported, Line, Len(Line), id))
           /\ \A e : callbacks = <<e>> =>
                  (Knows(reported', Line', Len(Line'), id) <=>
                      \/ e = <<"connect", id>>
                      \/ Knows(reported, Line, Len(Line), id) /\ e # <<"disconnect", id>>)
<1>1. /\ Len(Line) \in Nat /\ Len(Line') = Len(Line) + Len(callbacks)
      /\ \A i \in 1..Len(Line) : Line'[i] = Line[i]
      /\ \A i \in 1..Len(callbacks) : Line'[Len(Line) + i] = callbacks[i]
    BY LineTyped, Forwarded
<1>2. ASSUME NEW n \in 0..Len(Line)
      PROVE  Knows(reported', Line', n, id) <=> Knows(reported, Line, n, id)
    <2>1. n \in Nat /\ \A i \in 1..n : Line'[i] = Line[i]
        BY <1>1
    <2> QED BY <2>1, KnowsPrefix
<1>3. Knows(reported', Line', Len(Line), id) <=> Knows(reported, Line, Len(Line), id)
    BY <1>1, <1>2
<1>4. ASSUME callbacks = <<>>
      PROVE  Knows(reported', Line', Len(Line'), id) <=> Knows(reported, Line, Len(Line), id)
    <2>1. Len(Line') = Len(Line)
        BY <1>1, <1>4
    <2> QED BY <1>3, <2>1
<1>5. ASSUME NEW e, callbacks = <<e>>
      PROVE  Knows(reported', Line', Len(Line'), id) <=>
                      \/ e = <<"connect", id>>
                      \/ Knows(reported, Line, Len(Line), id) /\ e # <<"disconnect", id>>
    <2>1. Len(Line') = Len(Line) + 1 /\ Line'[Len(Line) + 1] = e
        BY <1>1, <1>5
    <2>2. Knows(reported', Line', Len(Line) + 1, id) <=>
               \/ Line'[Len(Line) + 1] = <<"connect", id>>
               \/ Knows(reported', Line', Len(Line), id)
                     /\ Line'[Len(Line) + 1] # <<"disconnect", id>>
        <3>1. Len(Line) \in Nat
            BY <1>1
        <3> QED BY <3>1, KnowsNext
    <2> QED BY <1>3, <2>1, <2>2
<1> QED BY <1>2, <1>4, <1>5

LEMMA KnowsForwardedTwo ==
    ASSUME TypeOK, NEW e1 \in Events, NEW e2 \in Events, Forward(<<e1, e2>>),
           active' = active, reported' = reported, NEW id
    PROVE  Knows(reported', Line', Len(Line'), id) <=>
               \/ e2 = <<"connect", id>>
               \/ /\ \/ e1 = <<"connect", id>>
                     \/ Knows(reported, Line, Len(Line), id) /\ e1 # <<"disconnect", id>>
                  /\ e2 # <<"disconnect", id>>
<1> DEFINE n == Len(Line)
<1>1. <<e1, e2>> \in Seq(Events)
    OBVIOUS
<1>2. /\ n \in Nat /\ Len(Line') = n + 2 /\ Line'[n + 1] = e1 /\ Line'[n + 2] = e2
    <2>1. /\ Len(<<e1, e2>>) = 2 /\ 1 \in 1..2 /\ 2 \in 1..2
          /\ <<e1, e2>>[1] = e1 /\ <<e1, e2>>[2] = e2
        OBVIOUS
    <2> QED BY <1>1, <2>1, LineTyped, Forwarded
<1>3. Knows(reported', Line', n, id) <=> Knows(reported, Line, n, id)
    <2>1. n \in 0..n
        BY <1>2
    <2> QED BY <1>1, <2>1, KnowsForwarded
<1> HIDE DEF n
<1>4. n \in Nat /\ n + 1 \in Nat /\ (n + 1) + 1 = n + 2
    BY <1>2
<1>5. Knows(reported', Line', n + 1, id) <=>
          \/ Line'[n + 1] = <<"connect", id>>
          \/ Knows(reported', Line', n, id) /\ Line'[n + 1] # <<"disconnect", id>>
    BY <1>4, KnowsNext
<1>6. PICK m \in Nat : m = n + 1
    BY <1>4
<1>61. Knows(reported', Line', m + 1, id) <=>
          \/ Line'[m + 1] = <<"connect", id>>
          \/ Knows(reported', Line', m, id) /\ Line'[m + 1] # <<"disconnect", id>>
    <2>1. m \in Nat
        BY <1>6
    <2> QED BY ONLY <2>1, KnowsNext
<1>7. Knows(reported', Line', Len(Line'), id) <=>
          \/ e2 = <<"connect", id>>
          \/ /\ e1 = <<"connect", id>> \/ (Knows(reported, Line, n, id) /\ e1 # <<"disconnect", id>>)
             /\ e2 # <<"disconnect", id>>
    BY <1>2, <1>3, <1>4, <1>5, <1>6, <1>61
<1> QED BY <1>7 DEF n

LEMMA KnowsFinished ==
    ASSUME Threads = 1, TypeOK, NEW i \in 1..Len(active), Done(i), NEW id
    PROVE  \A n \in 0..Len(Line') :
               Knows(reported', Line', n, id) <=> Knows(reported, Line, n + 1, id)
<1>1. /\ Line \in Seq(Events) /\ Line # <<>> /\ Line' = Tail(Line) /\ Head(Line) = active[i]
      /\ Len(Line') = Len(Line) - 1
    BY DoneType, Finished, LineTyped
<1>2. reported' = Seen(reported, Head(Line))
    BY <1>1 DEF Done
<1> QED BY <1>1, <1>2, KnowsTail

LEMMA InitCatchesUp == Init => CatchesUp
<1> SUFFICES ASSUME Init PROVE CatchesUp
    OBVIOUS
<1>1. TypeOK
    BY InitType
<1>2. Len(Line) = 0
    BY <1>1, LineTyped DEF Init
<1>3. \A id : ~ Knows(reported, Line, Len(Line), id)
    BY <1>2, KnowsNone DEF Init
<1>4. OpenIds = {} /\ ~greeted
    BY DEF Init, SelfInit, OpenIds, Remotes
<1> QED BY <1>1, <1>3, <1>4 DEF CatchesUp

LEMMA NextCatchesUp ==
    ASSUME Threads = 1, CatchesUp, [Next]_vars
    PROVE  CatchesUp'
<1>1. /\ TypeOK /\ TypeOK'
      /\ rounds = 0 => \A id \in Remotes :
             Knows(reported, Line, Len(Line), id) <=> id \in OpenIds
      /\ FirstRound => (Knows(reported, Line, Len(Line), Self) <=> greeted)
    BY NextType DEF CatchesUp
<1>2. \A id \in Remotes : id # Self
    BY SelfApart DEF Remotes
\* Nothing that the properties speak of moves.
<1>3. ASSUME Line' = Line, UNCHANGED <<reported, open, greeted, rounds, selfRounds>>
      PROVE  CatchesUp'
    BY <1>1, <1>3, CatchesUpNext DEF OpenIds, FirstRound
<1>4. ASSUME NEW s \in Services \cup {Self}, Run(s) PROVE CatchesUp'
    <2>1. PICK callbacks \in Seq(Events) :
              /\ Forward(callbacks)
              /\ callbacks = IF s = Self THEN <<>> ELSE <<<<"ready", s>>>>
        BY <1>1, <1>4, RunType
    <2>2. UNCHANGED <<active, reported, open, greeted, rounds, selfRounds>>
        BY <1>4 DEF Run, selfVars, told, loop
    <2>3. \A id : Knows(reported', Line', Len(Line'), id) <=>
                      Knows(reported, Line, Len(Line), id)
        <3>1. \A id : <<"ready", s>> # <<"connect", id>> /\ <<"ready", s>> # <<"disconnect", id>>
            OBVIOUS
        <3>2. callbacks = <<>> \/ callbacks = <<<<"ready", s>>>>
            BY <2>1
        <3> QED BY <1>1, <2>1, <2>2, <3>1, <3>2, KnowsForwarded
    <2> QED BY <1>1, <2>2, <2>3, CatchesUpNext DEF OpenIds, FirstRound
<1>5. ASSUME NEW s \in Services, NEW c \in Conns,
             Connects(s, c) \/ Messages(s, c) \/ Disconnects(s, c)
      PROVE  CatchesUp'
    <2>1. PICK kind \in {"connect", "message", "disconnect"} :
              /\ <<kind, <<s, c>>>> \in Events /\ Forward(<<<<kind, <<s, c>>>>>>)
              /\ Opened(kind, s, c)
              /\ UNCHANGED <<selfVars, services, running, active, told, calls, loop>>
        BY <1>1, <1>5, EventType
    <2>2. UNCHANGED <<active, reported, greeted, rounds, selfRounds>>
        BY <2>1 DEF selfVars, told, loop
    <2> DEFINE e == <<kind, <<s, c>>>>
    <2>3. <<e>> \in Seq(Events)
        BY <2>1
    <2>4. \A id : Knows(reported', Line', Len(Line'), id) <=>
                     \/ e = <<"connect", id>>
                     \/ Knows(reported, Line, Len(Line), id) /\ e # <<"disconnect", id>>
        BY <1>1, <2>1, <2>2, <2>3, KnowsForwarded
    <2>5. \A id : /\ e = <<"connect", id>> <=> kind = "connect" /\ id = <<s, c>>
                  /\ e = <<"disconnect", id>> <=> kind = "disconnect" /\ id = <<s, c>>
        OBVIOUS
    <2>6. \A id \in Remotes : id \in OpenIds' <=>
              \/ kind = "connect" /\ id = <<s, c>>
              \/ id \in OpenIds /\ ~(kind = "disconnect" /\ id = <<s, c>>)
        <3>1. /\ \A id \in Remotes : id \in OpenIds <=> id[2] \in open[id[1]]
              /\ \A id \in Remotes : id \in OpenIds' <=> id[2] \in open'[id[1]]
            BY <1>2 DEF OpenIds
        <3>3. open \in [Services -> SUBSET Conns]
            BY <1>1 DEF TypeOK
        <3>4. \A t \in Services, d \in Conns : d \in open'[t] <=>
                  \/ kind = "connect" /\ t = s /\ d = c
                  \/ d \in open[t] /\ ~(kind = "disconnect" /\ t = s /\ d = c)
            BY <2>1, <3>3 DEF Opened
        <3>5. ASSUME NEW id \in Remotes
              PROVE  id \in OpenIds' <=>
                         \/ kind = "connect" /\ id = <<s, c>>
                         \/ id \in OpenIds /\ ~(kind = "disconnect" /\ id = <<s, c>>)
            <4>1. /\ id[1] \in Services /\ id[2] \in Conns
                  /\ id = <<s, c>> <=> id[1] = s /\ id[2] = c
                BY <3>5 DEF Remotes
            <4>2. id[2] \in open'[id[1]] <=>
                      \/ kind = "connect" /\ id[1] = s /\ id[2] = c
                      \/ id[2] \in open[id[1]]
                            /\ ~(kind = "disconnect" /\ id[1] = s /\ id[2] = c)
                BY <3>4, <4>1
            <4> QED BY <3>1, <4>1, <4>2
        <3> QED BY <3>5
    <2> HIDE DEF e
    <2>7. Self # <<s, c>>
        BY SelfApart
    <2>8. rounds' = 0 => \A id \in Remotes :
              Knows(reported', Line', Len(Line'), id) <=> id \in OpenIds'
        BY <1>1, <2>2, <2>4, <2>5, <2>6
    <2>9. FirstRound' => (Knows(reported', Line', Len(Line'), Self) <=> greeted')
        BY <1>1, <2>2, <2>4, <2>5, <2>7 DEF FirstRound
    <2> QED BY <1>1, <2>8, <2>9, CatchesUpNext
\* Self's greeting is what makes it known; an echo does not.
<1>6. ASSUME SelfRuns PROVE CatchesUp'
    <2> DEFINE t == Head(tasks)
    <2>1. /\ t \in SelfTasks /\ Forward(Says(t)) /\ Says(t) \in Seq(Events)
          /\ greeted' = (greeted \/ t.kind = "greet")
          /\ UNCHANGED <<parts, active, told, calls, loop, halted, selfRounds>>
        BY <1>1, <1>6, SelfRunsType
    <2>2. UNCHANGED <<active, reported, open, rounds, selfRounds>>
        BY <2>1 DEF parts, told, loop
    <2> HIDE DEF t
    <2>3. \A id \in Remotes : id \in OpenIds' <=> id \in OpenIds
        BY <1>2, <2>2 DEF OpenIds
    <2>4. \A id : Knows(reported', Line', Len(Line'), id) <=>
                     \/ t.kind = "greet" /\ id = Self
                     \/ Knows(reported, Line, Len(Line), id)
        <3>1. CASE t.kind = "greet"
            <4>1. PICK e1, e2 \in Events :
                      e1 = <<"ready", Self>> /\ e2 = <<"connect", Self>> /\ Says(t) = <<e1, e2>>
                BY <2>1, <3>1, SaysWhat, EventKinds DEF Ids
            <4>2. \A id : /\ e1 # <<"connect", id>> /\ e1 # <<"disconnect", id>>
                          /\ e2 = <<"connect", id>> <=> id = Self
                          /\ e2 # <<"disconnect", id>>
                BY <4>1
            <4>3. \A id : Knows(reported', Line', Len(Line'), id) <=>
                      \/ e2 = <<"connect", id>>
                      \/ /\ \/ e1 = <<"connect", id>>
                            \/ Knows(reported, Line, Len(Line), id) /\ e1 # <<"disconnect", id>>
                         /\ e2 # <<"disconnect", id>>
                BY <1>1, <2>1, <2>2, <4>1, KnowsForwardedTwo
            <4> QED BY <3>1, <4>2, <4>3
        <3>2. CASE t.kind = "post" /\ Reaches(t)
            <4>1. PICK e \in Events : e = <<"message", Self, t.n>> /\ Says(t) = <<e>>
                BY <2>1, <3>2, SaysWhat, EventKinds, TaskKinds DEF Posts
            <4>2. \A id : e # <<"connect", id>> /\ e # <<"disconnect", id>>
                BY <4>1
            <4> QED BY <1>1, <2>1, <2>2, <3>2, <4>1, <4>2, KnowsForwarded
        <3>3. CASE ~(t.kind = "greet") /\ ~(t.kind = "post" /\ Reaches(t))
            <4>1. Says(t) = <<>>
                BY <2>1, <3>3, SaysWhat
            <4> QED BY <1>1, <2>1, <2>2, <3>3, <4>1, KnowsForwarded
        <3> QED BY <3>1, <3>2, <3>3
    <2>5. rounds' = 0 => \A id \in Remotes :
              Knows(reported', Line', Len(Line'), id) <=> id \in OpenIds'
        BY <1>1, <1>2, <2>2, <2>3, <2>4
    <2>6. FirstRound' => (Knows(reported', Line', Len(Line'), Self) <=> greeted')
        BY <1>1, <2>1, <2>2, <2>4 DEF FirstRound
    <2> QED BY <1>1, <2>5, <2>6, CatchesUpNext
\* The gateway's handlers have been called: what the listener knows moves with them.
<1>7. ASSUME NEW i \in 1..Len(active), Done(i) PROVE CatchesUp'
    <2>1. Len(Line') \in Nat /\ Len(Line) = Len(Line') + 1
        BY <1>1, <1>7, DoneType, Finished, LineTyped
    <2>2. \A id : Knows(reported', Line', Len(Line'), id) <=> Knows(reported, Line, Len(Line), id)
        BY <1>1, <1>7, <2>1, KnowsFinished
    <2>3. UNCHANGED <<open, greeted, rounds, selfRounds>>
        BY <1>7 DEF Done, parts, selfVars, loop
    <2> QED BY <1>1, <2>2, <2>3, CatchesUpNext DEF OpenIds, FirstRound
<1>8. ASSUME SelfHalts PROVE CatchesUp'
    <2>1. UNCHANGED <<active, queue, reported, open, rounds>>
        BY <1>8 DEF SelfHalts, parts, events, told, loop
    <2>2. CASE SelfStop
        BY <1>3, <2>1, <2>2 DEF SelfStop, Line
    <2>3. CASE SelfRestart
        <3>1. ~FirstRound'
            BY <1>1, <2>3 DEF SelfRestart, FirstRound, TypeOK
        <3>2. \A id \in Remotes : id \in OpenIds' <=> id \in OpenIds
            BY <1>2, <2>1 DEF OpenIds
        <3>3. Line' = Line
            BY <2>1 DEF Line
        <3> QED BY <1>1, <2>1, <3>1, <3>2, <3>3, CatchesUpNext
    <2> QED BY <1>8, <2>2, <2>3 DEF SelfHalts
<1>9. ASSUME Dispatch PROVE CatchesUp'
    <2> DEFINE e == <<"task">>
    <2>1. e \in Events /\ <<e>> \in Seq(Events) /\ queue \in Seq(Events)
        BY <1>1 DEF Events, TypeOK
    <2>2. Forward(<<e>>) /\ UNCHANGED <<active, reported, open, greeted, rounds, selfRounds>>
        BY <1>9, <2>1 DEF Dispatch, Forward, selfVars, parts, told, loop
    <2>3. \A id : e # <<"connect", id>> /\ e # <<"disconnect", id>>
        OBVIOUS
    <2> HIDE DEF e
    <2>4. \A id : Knows(reported', Line', Len(Line'), id) <=> Knows(reported, Line, Len(Line), id)
        BY <1>1, <2>1, <2>2, <2>3, KnowsForwarded
    <2> QED BY <1>1, <2>2, <2>4, CatchesUpNext DEF OpenIds, FirstRound
<1>10. ASSUME Restart PROVE CatchesUp'
    <2>1. rounds' # 0 /\ ~FirstRound'
        BY <1>1, <1>10 DEF Restart, FirstRound, TypeOK
    <2> QED BY <1>1, <2>1, CatchesUpNext
<1>11. ASSUME Take PROVE CatchesUp'
    BY <1>1, <1>3, <1>11, Taken DEF Take, selfVars, parts, told, loop
<1>12. ASSUME \/ \E s \in Services \cup {Self} : AddService(s)
              \/ Publish \/ PublishEx \/ Send \/ SelfDispatch \/ Stop \/ FanOut
              \/ UNCHANGED vars
       PROVE  CatchesUp'
    <2>1. UNCHANGED <<active, queue, reported, open, greeted, rounds, selfRounds>>
        BY <1>12 DEF AddService, Publish, PublishEx, Send, Post, SelfDispatch, SelfPost, Stop,
           FanOut, vars, selfVars, parts, events, told, loop
    <2> QED BY <1>3, <2>1 DEF Line
<1> QED BY <1>4, <1>5, <1>6, <1>7, <1>8, <1>9, <1>10, <1>11, <1>12 DEF Next, Handled

\* With one thread in run(), the listener of a gateway learns of every connection of every
\* service, though the events wait in a queue of their own while the services go on.
THEOREM AlwaysCatchesUp == Threads = 1 /\ Spec => []CatchesUp
<1> SUFFICES ASSUME Threads = 1 PROVE Spec => []CatchesUp
    OBVIOUS
<1>1. CatchesUp /\ [Next]_vars => CatchesUp'
    BY NextCatchesUp
<1> QED BY InitCatchesUp, <1>1, PTL DEF Spec

-----------------------------------------------------------------------------
(* A gateway over services that keep the contract keeps it.                *)

\* Self greets before it does anything else, and once.
Started == /\ ~greeted => tasks # <<>> /\ tasks[1] = Greeting
           /\ \A i \in 1..Len(tasks) : tasks[i] = Greeting => i = 1 /\ ~greeted

\* The callback e is from the remote id.
Speaks(e, id) == e[1] \in {"message", "disconnect"} /\ e[2] = id

\* What the contract demands of callback n + 1, of a listener that has heard those before.
LegalAt(ids, path, n, id) ==
    /\ path[n + 1] = <<"connect", id>> => ~Knows(ids, path, n, id)
    /\ Speaks(path[n + 1], id) => Knows(ids, path, n, id)

\* The callbacks on their way keep the contract with those the listener has heard.
Legal == FirstRound =>
             \A n \in 0..(Len(Line) - 1), id \in Ids : LegalAt(reported, Line, n, id)

LEMMA LegalNext ==
    ASSUME FirstRound' => \A n \in 0..(Len(Line') - 1), id \in Ids :
                              LegalAt(reported', Line', n, id)
    PROVE  Legal'
BY DEF Legal, LegalAt, Speaks, Knows

LEMMA InitStarted == Init => Started
BY DEF Init, SelfInit, Started

LEMMA NextStarted ==
    ASSUME TypeOK, Started, [Next]_vars
    PROVE  Started'
<1>1. ASSUME SelfRuns PROVE Started'
    <2>1. /\ tasks # <<>> /\ tasks' = Tail(tasks) /\ Head(tasks) \in SelfTasks
          /\ greeted' = (greeted \/ Head(tasks).kind = "greet")
        BY <1>1, SelfRunsType
    <2>2. /\ tasks \in Seq(SelfTasks) /\ greeted \in BOOLEAN /\ Head(tasks) = tasks[1]
          /\ Len(tasks') = Len(tasks) - 1
          /\ \A i \in 1..Len(tasks') : tasks'[i] = tasks[i + 1] /\ i + 1 \in 1..Len(tasks)
        BY <2>1 DEF TypeOK
    <2>3. greeted'
        <3>1. Greeting.kind = "greet"
            BY DEF Greeting
        <3>2. ~greeted => Head(tasks) = Greeting
            BY <2>2 DEF Started
        <3> QED BY <2>1, <2>2, <3>1, <3>2
    <2>4. \A i \in 1..Len(tasks') : tasks'[i] # Greeting
        BY <2>2 DEF Started
    <2> QED BY <2>3, <2>4 DEF Started
<1>2. ASSUME NEW t \in SelfTasks, t # Greeting, SelfPost(t) PROVE Started'
    <2>1. tasks \in Seq(SelfTasks)
        BY DEF TypeOK
    <2>2. /\ tasks' \in Seq(SelfTasks) /\ Len(tasks') = Len(tasks) + 1 /\ Len(tasks) \in Nat
          /\ tasks'[Len(tasks) + 1] = t /\ \A i \in 1..Len(tasks) : tasks'[i] = tasks[i]
          /\ greeted' = greeted
        BY <1>2, <2>1, SelfPosted
    <2>3. ~greeted => tasks' # <<>> /\ tasks'[1] = Greeting
        <3>1. ~greeted => 1 \in 1..Len(tasks)
            BY <2>1 DEF Started
        <3> QED BY <2>2, <3>1 DEF Started
    <2>4. ASSUME NEW i \in 1..Len(tasks'), tasks'[i] = Greeting PROVE i = 1 /\ ~greeted
        <3>1. i \in 1..Len(tasks) \/ i = Len(tasks) + 1
            BY <2>2
        <3> QED BY <1>2, <2>2, <2>4, <3>1 DEF Started
    <2> QED BY <2>2, <2>3, <2>4 DEF Started
<1>3. ASSUME SelfHalts PROVE Started'
    <2>1. CASE SelfStop
        BY <2>1 DEF SelfStop, Started
    <2>2. CASE SelfRestart
        BY <2>2 DEF SelfRestart, Started
    <2> QED BY <1>3, <2>1, <2>2 DEF SelfHalts
<1>4. ASSUME FanOut PROVE Started'
    <2>1. CASE services[fan.at] = Self
        <3>1. fan.post \in SelfTasks /\ fan.post # Greeting /\ SelfPost(fan.post)
            BY <1>4, <2>1, FanTyped, TaskKinds DEF FanOut, Greeting
        <3> QED BY <1>2, <3>1
    <2>2. CASE services[fan.at] # Self
        BY <1>4, <2>2 DEF FanOut, selfVars, Started
    <2> QED BY <2>1, <2>2
<1>5. ASSUME SelfDispatch PROVE Started'
    <2>1. [kind |-> "task"] \in SelfTasks /\ [kind |-> "task"] # Greeting
        BY DEF SelfTasks, Greeting
    <2> QED BY <1>2, <1>5, <2>1 DEF SelfDispatch
<1>6. ASSUME UNCHANGED <<tasks, greeted>> PROVE Started'
    BY <1>6 DEF Started
<1>7. ASSUME \/ \E s \in Services \cup {Self} : Run(s) \/ AddService(s)
             \/ \E s \in Services, c \in Conns :
                   Connects(s, c) \/ Messages(s, c) \/ Disconnects(s, c)
             \/ Handled \/ Publish \/ PublishEx \/ Send \/ Dispatch \/ Stop \/ Restart
             \/ UNCHANGED vars
      PROVE  UNCHANGED <<tasks, greeted>>
    BY <1>7 DEF Run, AddService, Connects, Messages, Disconnects, Event, Handled, Take, Done,
       Publish, PublishEx, Send, Post, Dispatch, Stop, Restart, vars, selfVars
<1> QED BY <1>1, <1>3, <1>4, <1>5, <1>6, <1>7 DEF Next

\* While nothing has been restarted, CatchesUp speaks of all connections at once.
LEMMA KnowsOpen ==
    ASSUME CatchesUp, FirstRound, NEW id \in Ids
    PROVE  Knows(reported, Line, Len(Line), id) <=> id \in OpenIds
<1>1. \A r \in Remotes : r # Self
    BY SelfApart DEF Remotes
<1>2. Self \in OpenIds <=> greeted
    BY <1>1 DEF OpenIds
<1> QED BY <1>2 DEF CatchesUp, FirstRound, Ids

\* New callbacks are legal if they are after all that are on their way.
LEMMA LegalForwarded ==
    ASSUME TypeOK, Legal, NEW callbacks \in Seq(Events), Forward(callbacks),
           UNCHANGED <<active, reported, rounds, selfRounds>>,
           FirstRound => \A n \in Len(Line)..(Len(Line') - 1), id \in Ids :
                             LegalAt(reported', Line', n, id)
    PROVE  Legal'
<1>1. /\ Len(Line) \in Nat /\ Len(callbacks) \in Nat /\ Len(Line') = Len(Line) + Len(callbacks)
      /\ \A i \in 1..Len(Line) : Line'[i] = Line[i]
    BY LineTyped, Forwarded
<1>2. FirstRound' <=> FirstRound
    BY DEF FirstRound
<1>3. ASSUME FirstRound, NEW n \in 0..(Len(Line) - 1), NEW id \in Ids
      PROVE  LegalAt(reported', Line', n, id)
    <2>1. n + 1 \in 1..Len(Line) /\ n \in 0..Len(Line)
        BY <1>1
    <2>2. Line'[n + 1] = Line[n + 1]
        BY <1>1, <2>1
    <2>3. Knows(reported', Line', n, id) <=> Knows(reported, Line, n, id)
        BY <2>1, KnowsForwarded
    <2>4. LegalAt(reported, Line, n, id)
        BY <1>3 DEF Legal
    <2> QED BY <2>2, <2>3, <2>4 DEF LegalAt
<1>4. ASSUME FirstRound, NEW n \in 0..(Len(Line') - 1), NEW id \in Ids
      PROVE  LegalAt(reported', Line', n, id)
    <2>1. n \in 0..(Len(Line) - 1) \/ n \in Len(Line)..(Len(Line') - 1)
        BY <1>1
    <2> QED BY <1>3, <1>4, <2>1
<1> QED BY <1>2, <1>4, LegalNext

LEMMA LegalForwardedNone ==
    ASSUME TypeOK, Legal, Forward(<<>>), UNCHANGED <<active, reported, rounds, selfRounds>>
    PROVE  Legal'
<1>1. <<>> \in Seq(Events) /\ Len(<<>>) = 0
    OBVIOUS
<1>2. Len(Line') = Len(Line) /\ Len(Line) \in Nat
    <2>1. Len(Line') = Len(Line) + Len(<<>>) /\ Len(Line) \in Nat
        BY <1>1, LineTyped, Forwarded
    <2> HIDE DEF Line
    <2>2. Len(Line) + 0 = Len(Line)
        BY <2>1
    <2> QED BY <1>1, <2>1, <2>2
<1>3. Len(Line)..(Len(Line') - 1) = {}
    BY <1>2
<1> QED BY <1>1, <1>3, LegalForwarded

\* One callback of a service that keeps the contract.
LEMMA LegalForwardedOne ==
    ASSUME CatchesUp, Legal, NEW e \in Events, Forward(<<e>>),
           UNCHANGED <<active, reported, rounds, selfRounds>>,
           FirstRound => \A id \in Ids : /\ e = <<"connect", id>> => id \notin OpenIds
                                         /\ Speaks(e, id) => id \in OpenIds
    PROVE  Legal'
<1>1. TypeOK /\ <<e>> \in Seq(Events) /\ Len(<<e>>) = 1 /\ <<e>>[1] = e /\ 1 \in 1..1
    BY DEF CatchesUp
<1>2. /\ Len(Line) \in Nat /\ Len(Line') = Len(Line) + 1 /\ Line'[Len(Line) + 1] = e
    BY <1>1, LineTyped, Forwarded
<1>3. \A id \in Ids : Knows(reported', Line', Len(Line), id) <=>
                          Knows(reported, Line, Len(Line), id)
    <2>1. Len(Line) \in 0..Len(Line)
        BY <1>2
    <2> QED BY <1>1, <2>1, KnowsForwarded
<1>4. ASSUME FirstRound, NEW id \in Ids
      PROVE  LegalAt(reported', Line', Len(Line), id)
    BY <1>2, <1>3, <1>4, KnowsOpen DEF LegalAt
<1>5. \A n \in Len(Line)..(Len(Line') - 1) : n = Len(Line)
    BY <1>2
<1> QED BY <1>1, <1>4, <1>5, LegalForwarded

\* Self's greeting: on_ready, and the one on_connect.
LEMMA LegalGreeting ==
    ASSUME CatchesUp, Legal, ~greeted,
           Forward(<<<<"ready", Self>>, <<"connect", Self>>>>),
           UNCHANGED <<active, reported, rounds, selfRounds>>
    PROVE  Legal'
<1>1. PICK e1, e2 \in Events : e1 = <<"ready", Self>> /\ e2 = <<"connect", Self>>
    BY EventKinds DEF Ids
<1>2. /\ TypeOK /\ <<e1, e2>> \in Seq(Events) /\ Forward(<<e1, e2>>)
      /\ Len(<<e1, e2>>) = 2 /\ <<e1, e2>>[1] = e1 /\ <<e1, e2>>[2] = e2
      /\ 1 \in 1..2 /\ 2 \in 1..2
    BY <1>1, ShortSeqs DEF CatchesUp
<1>3. /\ Len(Line) \in Nat /\ Len(Line') = Len(Line) + 2
      /\ Line'[Len(Line) + 1] = e1 /\ Line'[Len(Line) + 2] = e2
    BY <1>2, LineTyped, Forwarded
<1>4. PICK n \in Nat : n = Len(Line)
    BY <1>3
<1>5. Len(Line') = n + 2 /\ Line'[n + 1] = e1 /\ Line'[(n + 1) + 1] = e2
    BY <1>3, <1>4
<1>6. \A id : Knows(reported', Line', n, id) <=> Knows(reported, Line, n, id)
    <2>1. n \in 0..Len(Line)
        BY <1>4
    <2> QED BY <1>2, <2>1, KnowsForwarded
<1>7. \A id : /\ e1 # <<"connect", id>> /\ ~Speaks(e1, id) /\ ~Speaks(e2, id)
              /\ e2 = <<"connect", id>> => id = Self
    BY <1>1 DEF Speaks
<1>8. ASSUME FirstRound, NEW id \in Ids PROVE LegalAt(reported', Line', n, id)
    BY <1>5, <1>7 DEF LegalAt
<1>9. ASSUME FirstRound PROVE \A id \in Ids : LegalAt(reported', Line', n + 1, id)
    <2>1. ~Knows(reported', Line', n, Self)
        BY <1>4, <1>6, <1>9 DEF CatchesUp
    <2>2. Knows(reported', Line', n + 1, Self) <=>
              \/ Line'[n + 1] = <<"connect", Self>>
              \/ Knows(reported', Line', n, Self) /\ Line'[n + 1] # <<"disconnect", Self>>
        BY KnowsNext
    <2>3. ~Knows(reported', Line', n + 1, Self)
        BY <1>5, <1>7, <2>1, <2>2
    <2> QED BY <1>5, <1>7, <2>3 DEF LegalAt
<1>10. \A m \in n..((n + 2) - 1) : m = n \/ m = n + 1
    BY <1>4
<1>11. FirstRound => \A m \in Len(Line)..(Len(Line') - 1), id \in Ids :
                         LegalAt(reported', Line', m, id)
    BY <1>4, <1>5, <1>8, <1>9, <1>10
<1> QED BY <1>2, <1>11, LegalForwarded

\* The calls that return: the rest keeps the contract with what has been heard by then.
LEMMA DoneLegal ==
    ASSUME Threads = 1, TypeOK, Legal, NEW i \in 1..Len(active), Done(i)
    PROVE  Legal'
<1>1. /\ Line \in Seq(Events) /\ Len(Line) \in Nat /\ Len(Line') = Len(Line) - 1
      /\ Line # <<>> /\ Line' = Tail(Line)
    BY DoneType, Finished, LineTyped
<1>2. \A n \in 0..(Len(Line') - 1) :
          /\ n + 1 \in 0..(Len(Line) - 1) /\ n \in 0..Len(Line')
          /\ Line'[n + 1] = Line[(n + 1) + 1]
    BY <1>1
<1>3. FirstRound' <=> FirstRound
    BY DEF Done, loop, selfVars, FirstRound
<1>4. ASSUME FirstRound, NEW n \in 0..(Len(Line') - 1), NEW id \in Ids
      PROVE  LegalAt(reported', Line', n, id)
    <2>1. LegalAt(reported, Line, n + 1, id)
        BY <1>2, <1>4 DEF Legal
    <2>2. Knows(reported', Line', n, id) <=> Knows(reported, Line, n + 1, id)
        BY <1>2, KnowsFinished
    <2> QED BY <1>2, <2>1, <2>2 DEF LegalAt
<1> QED BY <1>3, <1>4, LegalNext

LEMMA SelfRunsLegal ==
    ASSUME CatchesUp, Started, Legal, SelfRuns
    PROVE  Legal'
<1> DEFINE t == Head(tasks)
<1>1. /\ TypeOK /\ tasks # <<>> /\ t \in SelfTasks /\ Forward(Says(t))
      /\ UNCHANGED <<active, reported, rounds, selfRounds>>
    BY SelfRunsType DEF CatchesUp, told, loop
<1>2. t = tasks[1] /\ 1 \in 1..Len(tasks)
    BY <1>1 DEF TypeOK
<1>3. t = Greeting <=> ~greeted
    BY <1>2 DEF Started
<1> HIDE DEF t
<1>4. CASE t.kind = "greet"
    <2>1. ~greeted /\ Says(t) = <<<<"ready", Self>>, <<"connect", Self>>>>
        BY <1>1, <1>3, <1>4, TaskKinds, SaysWhat
    <2> QED BY <1>1, <2>1, LegalGreeting
<1>5. CASE t.kind = "post" /\ Reaches(t)
    <2>1. PICK e \in Events : e = <<"message", Self, t.n>> /\ Says(t) = <<e>>
        BY <1>1, <1>5, SaysWhat, EventKinds, TaskKinds DEF Posts
    <2>2. greeted
        BY <1>1, <1>3, <1>5, TaskKinds
    <2>3. \A id : e # <<"connect", id>> /\ (Speaks(e, id) => id = Self)
        BY <2>1 DEF Speaks
    <2>4. Self \in OpenIds
        BY <2>2 DEF OpenIds
    <2> QED BY <1>1, <2>1, <2>3, <2>4, LegalForwardedOne
<1>6. CASE ~(t.kind = "greet") /\ ~(t.kind = "post" /\ Reaches(t))
    <2>1. Says(t) = <<>>
        BY <1>1, <1>6, SaysWhat
    <2> QED BY <1>1, <2>1, LegalForwardedNone
<1> QED BY <1>4, <1>5, <1>6

LEMMA InitLegal == Init => Legal
<1> SUFFICES ASSUME Init PROVE Legal
    OBVIOUS
<1>1. Len(Line) = 0
    BY InitType, LineTyped DEF Init
<1>2. 0..(Len(Line) - 1) = {}
    BY <1>1
<1> QED BY <1>2 DEF Legal

LEMMA NextLegal ==
    ASSUME Threads = 1, CatchesUp, Started, Legal, [Next]_vars
    PROVE  Legal'
<1>1. TypeOK
    BY DEF CatchesUp
<1>2. ASSUME Line' = Line, UNCHANGED <<reported, rounds, selfRounds>> PROVE Legal'
    BY <1>2, LegalNext DEF Legal, FirstRound
<1>3. ASSUME NEW s \in Services \cup {Self}, Run(s) PROVE Legal'
    <2>1. PICK callbacks \in Seq(Events) :
              /\ Forward(callbacks)
              /\ callbacks = IF s = Self THEN <<>> ELSE <<<<"ready", s>>>>
        BY <1>1, <1>3, RunType
    <2>2. UNCHANGED <<active, reported, rounds, selfRounds>>
        BY <1>3 DEF Run, selfVars, told, loop
    <2>3. CASE s = Self
        BY <1>1, <2>1, <2>2, <2>3, LegalForwardedNone
    <2>4. CASE s # Self
        <3>1. PICK e \in Events : e = <<"ready", s>>
            BY EventKinds
        <3>2. \A id : e # <<"connect", id>> /\ ~Speaks(e, id)
            BY <3>1 DEF Speaks
        <3> QED BY <2>1, <2>2, <2>4, <3>1, <3>2, LegalForwardedOne
    <2> QED BY <2>3, <2>4
<1>4. ASSUME NEW s \in Services, NEW c \in Conns,
             Connects(s, c) \/ Messages(s, c) \/ Disconnects(s, c)
      PROVE  Legal'
    <2>1. PICK kind \in {"connect", "message", "disconnect"} :
              /\ <<kind, <<s, c>>>> \in Events /\ Forward(<<<<kind, <<s, c>>>>>>)
              /\ Opened(kind, s, c)
              /\ UNCHANGED <<selfVars, services, running, active, told, calls, loop>>
        BY <1>1, <1>4, EventType
    <2>2. UNCHANGED <<active, reported, rounds, selfRounds>>
        BY <2>1 DEF selfVars, told, loop
    <2> DEFINE e == <<kind, <<s, c>>>>
    <2>3. \A id : /\ e = <<"connect", id>> => kind = "connect" /\ id = <<s, c>>
                  /\ Speaks(e, id) => kind # "connect" /\ id = <<s, c>>
        BY DEF Speaks
    <2>4. <<s, c>> \in OpenIds <=> c \in open[s]
        <3>1. <<s, c>> # Self /\ <<s, c>> \in Remotes
            BY SelfApart DEF Remotes
        <3> QED BY <3>1 DEF OpenIds
    <2>5. <<s, c>> \in OpenIds <=> kind # "connect"
        BY <2>1, <2>4 DEF Opened
    <2> HIDE DEF e
    <2> QED BY <2>1, <2>2, <2>3, <2>5, LegalForwardedOne DEF e
<1>5. ASSUME SelfHalts PROVE Legal'
    <2>1. UNCHANGED <<active, queue, reported, rounds>>
        BY <1>5 DEF SelfHalts, events, told, loop
    <2>2. CASE SelfStop
        BY <1>2, <2>1, <2>2 DEF SelfStop, Line
    <2>3. CASE SelfRestart
        <3>1. ~FirstRound'
            BY <1>1, <2>3 DEF SelfRestart, FirstRound, TypeOK
        <3> QED BY <3>1, LegalNext
    <2> QED BY <1>5, <2>2, <2>3 DEF SelfHalts
<1>6. ASSUME Dispatch PROVE Legal'
    <2>1. PICK e \in Events : e = <<"task">>
        <3>1. <<"task">> \in Events
            BY DEF Events
        <3> QED BY <3>1
    <2>2. queue \in Seq(Events)
        BY <1>1 DEF TypeOK
    <2>3. Forward(<<e>>) /\ UNCHANGED <<active, reported, rounds, selfRounds>>
        BY <1>6, <2>1, <2>2 DEF Dispatch, Forward, selfVars, told, loop
    <2>4. \A id : e # <<"connect", id>> /\ ~Speaks(e, id)
        BY <2>1 DEF Speaks
    <2> QED BY <2>1, <2>3, <2>4, LegalForwardedOne
<1>7. ASSUME Restart PROVE Legal'
    <2>1. ~FirstRound'
        BY <1>1, <1>7 DEF Restart, FirstRound, TypeOK
    <2> QED BY <2>1, LegalNext
<1>8. ASSUME Take PROVE Legal'
    BY <1>1, <1>2, <1>8, Taken DEF Take, selfVars, told, loop
<1>9. ASSUME \/ \E s \in Services \cup {Self} : AddService(s)
             \/ Publish \/ PublishEx \/ Send \/ SelfDispatch \/ Stop \/ FanOut
             \/ UNCHANGED vars
      PROVE  Legal'
    <2>1. UNCHANGED <<active, queue, reported, rounds, selfRounds>>
        BY <1>9 DEF AddService, Publish, PublishEx, Send, Post, SelfDispatch, SelfPost, Stop,
           FanOut, vars, selfVars, events, told, loop
    <2> QED BY <1>2, <2>1 DEF Line
<1> QED BY <1>1, <1>3, <1>4, <1>5, <1>6, <1>7, <1>8, <1>9, DoneLegal, SelfRunsLegal
        DEF Next, Handled

\* The gateway's handlers are called: a step of the contract.
LEMMA DoneKeeps ==
    ASSUME Threads = 1, TypeOK, Legal, FirstRound, NEW i \in 1..Len(active), Done(i)
    PROVE  [Contract!Next]_Contract!vars
<1> DEFINE e == active[i]
<1>1. /\ e \in Events /\ Line # <<>> /\ Line \in Seq(Events) /\ Line[1] = e
    BY DoneType, Finished, LineTyped
<1>2. /\ reported' = Seen(reported, e) /\ rounds' = rounds
      /\ report' = IF e[1] = "task" THEN report ELSE e
    BY DEF Done, loop
<1>3. ASSUME NEW id \in Ids
      PROVE  /\ e = <<"connect", id>> => id \notin reported
             /\ Speaks(e, id) => id \in reported
    <2>1. 0 \in 0..(Len(Line) - 1)
        BY <1>1
    <2>2. LegalAt(reported, Line, 0, id)
        BY <2>1 DEF Legal
    <2> QED BY <1>1, <2>2, KnowsNone DEF LegalAt
<1> HIDE DEF e
<1>4. CASE \E s \in Services \cup {Self} : e = <<"ready", s>>
    <2>1. reported' = reported /\ Brief(report') = <<"ready">>
        BY <1>2, <1>4 DEF Seen, Brief
    <2>2. Contract!Ready
        BY <1>2, <2>1 DEF Contract!Ready
    <2> QED BY <2>2 DEF Contract!Next
<1>5. CASE \E id \in Ids : e = <<"connect", id>>
    <2>1. PICK id \in Ids : e = <<"connect", id>>
        BY <1>5
    <2>2. /\ id \notin reported /\ reported' = reported \cup {id}
          /\ Brief(report') = <<"connect", id>>
        BY <1>2, <1>3, <2>1 DEF Seen, Brief
    <2>3. Contract!Connect(id)
        BY <1>2, <2>2 DEF Contract!Connect
    <2> QED BY <2>3 DEF Contract!Next
<1>6. CASE \E id \in Ids : e = <<"disconnect", id>>
    <2>1. PICK id \in Ids : e = <<"disconnect", id>>
        BY <1>6
    <2>2. /\ id \in reported /\ reported' = reported \ {id}
          /\ Brief(report') = <<"disconnect", id>>
        BY <1>2, <1>3, <2>1 DEF Seen, Brief, Speaks
    <2>3. Contract!Disconnect(id)
        BY <1>2, <2>2 DEF Contract!Disconnect
    <2> QED BY <2>3 DEF Contract!Next
<1>7. CASE \E id \in Ids :
               e = <<"message", id>> \/ \E n \in 1..MaxPosts : e = <<"message", id, n>>
    <2>1. PICK id \in Ids :
              e = <<"message", id>> \/ \E n \in 1..MaxPosts : e = <<"message", id, n>>
        BY <1>7
    <2>2. e[1] = "message" /\ e[2] = id
        BY <2>1
    <2>3. id \in reported /\ reported' = reported /\ report' = e
        BY <1>2, <1>3, <2>2 DEF Seen, Speaks
    <2>4. Brief(e) = <<"message", id>>
        BY <2>1 DEF Brief
    <2>5. Contract!Message(id)
        BY <1>2, <2>3, <2>4 DEF Contract!Message
    <2> QED BY <2>5 DEF Contract!Next
<1>8. CASE e = <<"task">>
    <2>1. UNCHANGED <<reported, report, rounds>>
        BY <1>2, <1>8 DEF Seen
    <2> QED BY <2>1 DEF Contract!vars
<1>9. \/ \E s \in Services \cup {Self} : e = <<"ready", s>>
      \/ \E id \in Ids : e = <<"connect", id>> \/ e = <<"disconnect", id>>
      \/ \E id \in Ids : e = <<"message", id>> \/ \E n \in 1..MaxPosts : e = <<"message", id, n>>
      \/ e = <<"task">>
    <2>1. CASE e \in {<<kind, id>> : kind \in {"connect", "disconnect"}, id \in Ids}
        BY <2>1
    <2>2. CASE e \in {<<"message", id>> : id \in Remotes}
        BY <2>2 DEF Ids
    <2>3. CASE e \in {<<"message", Self, n>> : n \in 1..MaxPosts}
        BY <2>3 DEF Ids
    <2> QED BY <1>1, <2>1, <2>2, <2>3 DEF Events
<1> QED BY <1>4, <1>5, <1>6, <1>7, <1>8, <1>9

LEMMA NextKeeps ==
    ASSUME Threads = 1, TypeOK, Legal, [Next]_vars
    PROVE  [FirstRound' => Contract!Next]_Contract!vars
<1>1. ASSUME FirstRound', NEW i \in 1..Len(active), Done(i)
      PROVE  [Contract!Next]_Contract!vars
    <2>1. FirstRound
        BY <1>1 DEF Done, loop, selfVars, FirstRound
    <2> QED BY <1>1, <2>1, DoneKeeps
<1>2. ASSUME SelfRestart \/ Restart PROVE ~FirstRound'
    BY <1>2 DEF SelfRestart, Restart, FirstRound, TypeOK
<1>3. ASSUME UNCHANGED <<told, rounds>> PROVE UNCHANGED Contract!vars
    BY <1>3 DEF told, Contract!vars
<1>4. ASSUME \/ \E s \in Services \cup {Self} : Run(s) \/ AddService(s)
             \/ \E s \in Services, c \in Conns :
                   Connects(s, c) \/ Messages(s, c) \/ Disconnects(s, c)
             \/ SelfRuns \/ SelfHalts \/ SelfDispatch \/ Take
             \/ Publish \/ PublishEx \/ Send \/ FanOut \/ Dispatch \/ Stop
             \/ UNCHANGED vars
      PROVE  UNCHANGED <<told, rounds>>
    BY <1>4 DEF Run, AddService, Connects, Messages, Disconnects, Event, SelfRuns, SelfHalts,
       SelfDispatch, Take, Publish, PublishEx, Send, Post, FanOut, Dispatch, Stop, vars, loop
<1> QED BY <1>1, <1>2, <1>3, <1>4 DEF Next, Handled

\* A gateway, run by one thread, over services that keep the contract keeps it too, until
\* something is restarted.
THEOREM GatewayImplementsContract == Threads = 1 /\ Spec => ContractHolds
<1> SUFFICES ASSUME Threads = 1 PROVE Spec => ContractHolds
    OBVIOUS
<1>1. Init => Contract!Init
    BY DEF Init, Contract!Init, Contract!NoEvent, Brief
<1>2. CatchesUp /\ Started /\ Legal /\ [Next]_vars =>
          CatchesUp' /\ Started' /\ Legal' /\ [FirstRound' => Contract!Next]_Contract!vars
    BY NextCatchesUp, NextStarted, NextLegal, NextKeeps DEF CatchesUp
<1> QED BY <1>1, <1>2, InitCatchesUp, InitStarted, InitLegal, PTL DEF Spec, ContractHolds

-----------------------------------------------------------------------------
(* What is published comes back once and in order.                         *)

\* The number of the call a callback or a task of Self carries back, 0 if of none.
EchoNumber == [e \in Events |-> IF Len(e) = 3 THEN e[3] ELSE 0]
PostNumber == [t \in SelfTasks |-> IF t.kind = "post" /\ Reaches(t) THEN t.n ELSE 0]

\* The numbers a sequence carries, and that they are in order.
Nums(num, s)    == {num[s[i]] : i \in 1..Len(s)} \ {0}
Ascends(num, s) == \A i, j \in 1..Len(s) :
                      i < j /\ num[s[i]] # 0 /\ num[s[j]] # 0 => num[s[i]] < num[s[j]]

LEMMA EchoNumberTyped ==
    /\ EchoNumber \in [Events -> Nat]
    /\ \A e \in Events : /\ Len(e) \in {1, 2, 3}
                         /\ EchoNumber[e] = IF Len(e) = 3 THEN e[3] ELSE 0
                         /\ Len(e) = 3 => e[3] \in 1..MaxPosts /\ e[3] # 0
<1>1. ASSUME NEW e \in Events
      PROVE  Len(e) \in {1, 2, 3} /\ (Len(e) = 3 => e[3] \in 1..MaxPosts)
    <2>1. CASE e \in {<<"ready", s>> : s \in Services \cup {Self}} \cup {<<"task">>}
        BY <2>1
    <2>2. CASE e \in {<<kind, id>> : kind \in {"connect", "disconnect"}, id \in Ids}
        BY <2>2
    <2>3. CASE e \in {<<"message", id>> : id \in Remotes}
        BY <2>3
    <2>4. CASE e \in {<<"message", Self, n>> : n \in 1..MaxPosts}
        BY <2>4
    <2> QED BY <2>1, <2>2, <2>3, <2>4 DEF Events
<1>2. \A n \in 1..MaxPosts : n \in Nat /\ n # 0
    BY SelfAssumption
<1>3. \A e \in Events : (IF Len(e) = 3 THEN e[3] ELSE 0) \in Nat
    BY <1>1, <1>2
<1> QED BY <1>1, <1>2, <1>3 DEF EchoNumber

LEMMA PostNumberTyped ==
    /\ PostNumber \in [SelfTasks -> Nat]
    /\ \A t \in SelfTasks :
          /\ PostNumber[t] = IF t.kind = "post" /\ Reaches(t) THEN t.n ELSE 0
          /\ t.kind = "post" /\ Reaches(t) => t.n \in Nat /\ t.n # 0
<1>1. \A t \in SelfTasks : t.kind = "post" => t.n \in Nat /\ t.n # 0
    BY TaskKinds, SelfAssumption DEF Posts
<1> QED BY <1>1 DEF PostNumber

\* What carries no number may follow.
LEMMA NumsSame ==
    ASSUME NEW S, NEW num \in [S -> Nat], NEW s \in Seq(S), NEW t \in Seq(S),
           Len(s) <= Len(t), \A i \in 1..Len(s) : t[i] = s[i],
           \A i \in (Len(s) + 1)..Len(t) : num[t[i]] = 0
    PROVE  Nums(num, t) = Nums(num, s) /\ (Ascends(num, s) => Ascends(num, t))
<1>1. PICK l \in Nat, m \in Nat : l = Len(s) /\ m = Len(t) /\ l <= m
    OBVIOUS
<1>2. \A i \in 1..m : (i \in 1..l /\ t[i] = s[i]) \/ num[t[i]] = 0
    BY <1>1
<1>3. \A i \in 1..l : i \in 1..m /\ t[i] = s[i]
    BY <1>1
<1>4. Nums(num, t) = Nums(num, s)
    BY <1>1, <1>2, <1>3 DEF Nums
<1>5. Ascends(num, s) => Ascends(num, t)
    BY <1>1, <1>2 DEF Ascends
<1> QED BY <1>4, <1>5

\* One number more, above all others, at the end.
LEMMA NumsAppended ==
    ASSUME NEW S, NEW num \in [S -> Nat], NEW s \in Seq(S), NEW t \in Seq(S),
           Len(t) = Len(s) + 1, \A i \in 1..Len(s) : t[i] = s[i],
           num[t[Len(s) + 1]] # 0, Ascends(num, s),
           \A n \in Nums(num, s) : n < num[t[Len(s) + 1]]
    PROVE  /\ Nums(num, t) = Nums(num, s) \cup {num[t[Len(s) + 1]]}
           /\ Ascends(num, t)
<1>1. PICK l, x : l \in Nat /\ l = Len(s) /\ x = num[t[Len(s) + 1]]
    OBVIOUS
<1>2. /\ Len(t) = l + 1 /\ x # 0 /\ num[t[l + 1]] = x
      /\ \A i \in 1..l : t[i] = s[i] /\ i \in 1..(l + 1)
      /\ \A i \in 1..(l + 1) : i \in 1..l \/ i = l + 1
      /\ l + 1 \in 1..(l + 1)
    BY <1>1
<1>3. \A i \in 1..l : num[s[i]] # 0 => num[s[i]] < x
    BY <1>1 DEF Nums
<1>4. Nums(num, t) = Nums(num, s) \cup {x}
    BY <1>1, <1>2 DEF Nums
<1>5. ASSUME NEW i \in 1..(l + 1), NEW j \in 1..(l + 1), i < j,
             num[t[i]] # 0, num[t[j]] # 0
      PROVE  num[t[i]] < num[t[j]]
    <2>0. l \in Nat
        BY <1>1
    <2>1. i \in 1..l
        BY <1>5, <2>0
    <2>2. CASE j \in 1..l
        BY <1>1, <1>2, <1>5, <2>1, <2>2 DEF Ascends
    <2>3. CASE j = l + 1
        BY <1>2, <1>3, <1>5, <2>1, <2>3
    <2> QED BY <1>2, <2>2, <2>3
<1>6. Ascends(num, t)
    BY <1>2, <1>5 DEF Ascends
<1> QED BY <1>1, <1>4, <1>6

\* The sequence t is s without element k.
Without(s, t, k) == /\ k \in 1..Len(s) /\ Len(t) = Len(s) - 1
                    /\ \A j \in 1..Len(t) : t[j] = s[IF j < k THEN j ELSE j + 1]

LEMMA NumsRemoved ==
    ASSUME NEW S, NEW num \in [S -> Nat], NEW s \in Seq(S), NEW t \in Seq(S),
           NEW k, Without(s, t, k), Ascends(num, s)
    PROVE  /\ Nums(num, t) = Nums(num, s) \ {num[s[k]]} /\ Ascends(num, t)
           /\ num[s[k]] # 0 => num[s[k]] \in Nums(num, s)
<1>0. /\ k \in 1..Len(s) /\ Len(t) = Len(s) - 1
      /\ \A j \in 1..Len(t) : t[j] = s[IF j < k THEN j ELSE j + 1]
    BY DEF Without
<1>1. PICK l \in Nat : l = Len(s) /\ Len(t) = l - 1 /\ k \in 1..l
    BY <1>0
<1> DEFINE at(j) == IF j < k THEN j ELSE j + 1
           back(i) == IF i < k THEN i ELSE i - 1
<1>2. ASSUME NEW j \in 1..(l - 1)
      PROVE  at(j) \in 1..l /\ at(j) # k /\ t[j] = s[at(j)]
    <2>1. at(j) \in 1..l /\ at(j) # k
        BY <1>1
    <2> QED BY <1>0, <1>1, <2>1
<1>3. \A i \in 1..l : i # k => back(i) \in 1..(l - 1) /\ at(back(i)) = i
    BY <1>1
<1>4. \A i, j \in 1..(l - 1) : i < j => at(i) < at(j)
    BY <1>1
<1>5. /\ \A i \in 1..l : num[s[i]] \in Nat
      /\ \A i, j \in 1..l : i < j /\ num[s[i]] # 0 /\ num[s[j]] # 0 => num[s[i]] < num[s[j]]
    BY <1>1 DEF Ascends
<1>6. \A i \in 1..l : i # k /\ num[s[i]] # 0 => num[s[i]] # num[s[k]]
    <2>1. \A i \in 1..l : i # k => i < k \/ k < i
        BY <1>1
    <2> QED BY <1>1, <1>5, <2>1
<1> HIDE DEF at, back
<1>7. Nums(num, t) = Nums(num, s) \ {num[s[k]]}
    <2>1. ASSUME NEW n \in Nums(num, t) PROVE n \in Nums(num, s) \ {num[s[k]]}
        <3>1. PICK j \in 1..(l - 1) : n = num[t[j]] /\ n # 0
            BY <1>1, <2>1 DEF Nums
        <3>2. at(j) \in 1..l /\ at(j) # k /\ n = num[s[at(j)]]
            BY <1>2, <3>1
        <3> QED BY <1>1, <1>6, <3>1, <3>2 DEF Nums
    <2>2. ASSUME NEW n \in Nums(num, s) \ {num[s[k]]} PROVE n \in Nums(num, t)
        <3>1. PICK i \in 1..l : n = num[s[i]] /\ n # 0
            BY <1>1, <2>2 DEF Nums
        <3>2. i # k
            BY <2>2, <3>1
        <3>3. back(i) \in 1..(l - 1) /\ t[back(i)] = s[i]
            BY <1>2, <1>3, <3>1, <3>2
        <3> QED BY <1>1, <3>1, <3>3 DEF Nums
    <2> QED BY <2>1, <2>2
<1>8. Ascends(num, t)
    <2>1. ASSUME NEW i \in 1..(l - 1), NEW j \in 1..(l - 1), i < j,
                 num[t[i]] # 0, num[t[j]] # 0
          PROVE  num[t[i]] < num[t[j]]
        <3>1. /\ at(i) \in 1..l /\ at(j) \in 1..l /\ at(i) < at(j)
              /\ t[i] = s[at(i)] /\ t[j] = s[at(j)]
            BY <1>2, <1>4, <2>1
        <3> QED BY <1>5, <2>1, <3>1
    <2> QED BY <1>1, <2>1 DEF Ascends
<1>9. num[s[k]] # 0 => num[s[k]] \in Nums(num, s)
    BY <1>0 DEF Nums
<1> QED BY <1>7, <1>8, <1>9

\* The first one is below the others.
LEMMA NumsHead ==
    ASSUME NEW S, NEW num \in [S -> Nat], NEW s \in Seq(S), NEW t \in Seq(S),
           Without(s, t, 1), Ascends(num, s), num[s[1]] # 0, NEW n \in Nums(num, t)
    PROVE  num[s[1]] < n
<1>1. PICK l \in Nat : l = Len(s) /\ Len(t) = l - 1 /\ 1 \in 1..l
    BY DEF Without
<1>2. PICK j \in 1..(l - 1) : n = num[t[j]] /\ n # 0
    BY <1>1 DEF Nums
<1>3. j + 1 \in 1..l /\ 1 < j + 1 /\ ~(j < 1)
    BY <1>1
<1>4. t[j] = s[j + 1]
    BY <1>1, <1>3 DEF Without
<1> QED BY <1>1, <1>2, <1>3, <1>4 DEF Ascends

\* The call that runs has not come to Self yet.
ToSelf == fan # Idle /\ \E k \in fan.at..Len(services) : services[k] = Self

\* EchoesInOrder by numbers, and why the next call goes behind: a service is called once,
\* and what is carried or was reported last is of calls that have come to Self.
Numbered ==
    LET path == Nums(EchoNumber, Line)
        back == Nums(PostNumber, tasks)
    IN
    /\ Ascends(EchoNumber, Line) /\ Ascends(PostNumber, tasks)
    /\ \A m \in path, n \in back : m < n
    /\ path \cup back \subseteq owed
    /\ FirstRound => path \cup back = owed
    /\ \A n \in path \cup back : n <= posts /\ (ToSelf => n < posts)
    /\ fan # Idle => fan.post.n = posts
    /\ \A i, j \in 1..Len(services) : services[i] = services[j] => i = j

\* The last echo reported is before those on their way.
Behind ==
    Threads = 1 /\ Len(report) = 3 =>
        /\ \A n \in Nums(EchoNumber, Line) \cup Nums(PostNumber, tasks) : report[3] < n
        /\ report[3] <= posts /\ (ToSelf => report[3] < posts)

\* The numbers are those of the properties' operators.
LEMMA NumbersCarried ==
    ASSUME TypeOK
    PROVE  /\ {Line[i][3] : i \in Echoes} = Nums(EchoNumber, Line)
           /\ {tasks[i].n : i \in Returning} = Nums(PostNumber, tasks)
           /\ \A i \in Echoes : Line[i][3] \in Nums(EchoNumber, Line)
           /\ \A i \in Returning : tasks[i].n \in Nums(PostNumber, tasks)
           /\ Ascends(EchoNumber, Line) =>
                  \A i, j \in Echoes : i < j => Line[i][3] < Line[j][3]
           /\ Ascends(PostNumber, tasks) =>
                  \A i, j \in Returning : i < j => tasks[i].n < tasks[j].n
<1>1. \A i \in 1..Len(Line) : Line[i] \in Events
    BY LineTyped
<1>2. \A i \in 1..Len(tasks) : tasks[i] \in SelfTasks
    BY DEF TypeOK
<1>3. /\ \A i \in Echoes : i \in 1..Len(Line) /\ EchoNumber[Line[i]] = Line[i][3]
                           /\ EchoNumber[Line[i]] # 0
      /\ \A i \in 1..Len(Line) : EchoNumber[Line[i]] # 0 => i \in Echoes
    BY <1>1, EchoNumberTyped DEF Echoes
<1>4. /\ \A i \in Returning : i \in 1..Len(tasks) /\ PostNumber[tasks[i]] = tasks[i].n
                              /\ PostNumber[tasks[i]] # 0
      /\ \A i \in 1..Len(tasks) : PostNumber[tasks[i]] # 0 => i \in Returning
    BY <1>2, PostNumberTyped DEF Returning
<1> HIDE DEF Line
<1>5. {Line[i][3] : i \in Echoes} = Nums(EchoNumber, Line)
    BY <1>3 DEF Nums
<1>6. {tasks[i].n : i \in Returning} = Nums(PostNumber, tasks)
    BY <1>4 DEF Nums
<1>7. Ascends(EchoNumber, Line) => \A i, j \in Echoes : i < j => Line[i][3] < Line[j][3]
    BY <1>3 DEF Ascends
<1>8. Ascends(PostNumber, tasks) =>
          \A i, j \in Returning : i < j => tasks[i].n < tasks[j].n
    BY <1>4 DEF Ascends
<1> QED BY <1>5, <1>6, <1>7, <1>8

LEMMA NumberedSuffices ==
    ASSUME TypeOK, Numbered, Behind
    PROVE  EchoesInOrder
<1>1. Carried = Nums(EchoNumber, Line) \cup Nums(PostNumber, tasks)
    BY NumbersCarried DEF Carried
<1>2. \A i \in Echoes, j \in Returning : Line[i][3] < tasks[j].n
    BY NumbersCarried DEF Numbered
<1> QED BY <1>1, <1>2, NumbersCarried DEF EchoesInOrder, Numbered, Behind

\* Both at the next state.
LEMMA NumberedNext ==
    ASSUME NEW path, NEW back,
           path = Nums(EchoNumber, Line') /\ back = Nums(PostNumber, tasks'),
           Ascends(EchoNumber, Line') /\ Ascends(PostNumber, tasks'),
           \A m \in path, n \in back : m < n,
           path \cup back \subseteq owed',
           FirstRound' => path \cup back = owed',
           \A n \in path \cup back : n <= posts' /\ (ToSelf' => n < posts'),
           fan' # Idle => fan'.post.n = posts',
           \A i, j \in 1..Len(services') : services'[i] = services'[j] => i = j
    PROVE  Numbered'
BY DEF Numbered, Nums, Ascends

LEMMA BehindNext ==
    ASSUME Threads = 1 /\ Len(report') = 3 =>
               /\ \A n \in Nums(EchoNumber, Line') \cup Nums(PostNumber, tasks') : report'[3] < n
               /\ report'[3] <= posts' /\ (ToSelf' => report'[3] < posts')
    PROVE  Behind'
BY DEF Behind, Nums

\* Other callbacks and tasks make no difference.
LEMMA NumberedSame ==
    ASSUME Numbered, Behind,
           Nums(EchoNumber, Line') = Nums(EchoNumber, Line), Ascends(EchoNumber, Line'),
           Nums(PostNumber, tasks') = Nums(PostNumber, tasks), Ascends(PostNumber, tasks'),
           UNCHANGED <<services, fan, posts, owed, report>>, FirstRound' => FirstRound
    PROVE  Numbered' /\ Behind'
<1>1. ToSelf' <=> ToSelf
    BY DEF ToSelf
<1>2. Numbered'
    BY <1>1, NumberedNext DEF Numbered
<1>3. Behind'
    BY <1>1, BehindNext DEF Behind
<1> QED BY <1>2, <1>3

\* Callbacks without a number are forwarded.
LEMMA LineSame ==
    ASSUME TypeOK, Ascends(EchoNumber, Line), NEW callbacks \in Seq(Events),
           Forward(callbacks), active' = active,
           \A i \in 1..Len(callbacks) : Len(callbacks[i]) # 3
    PROVE  Nums(EchoNumber, Line') = Nums(EchoNumber, Line) /\ Ascends(EchoNumber, Line')
<1>1. PICK l \in Nat, c \in Nat : l = Len(Line) /\ c = Len(callbacks)
    BY LineTyped
<1>2. /\ Line \in Seq(Events) /\ Line' \in Seq(Events) /\ Len(Line') = l + c
      /\ \A i \in 1..l : Line'[i] = Line[i]
      /\ \A i \in 1..c : Line'[l + i] = callbacks[i] /\ callbacks[i] \in Events
    BY <1>1, LineTyped, Forwarded
<1>3. \A i \in (l + 1)..(l + c) : i - l \in 1..c /\ l + (i - l) = i
    BY <1>1
<1>4. ASSUME NEW i \in (l + 1)..(l + c) PROVE EchoNumber[Line'[i]] = 0
    <2>1. PICK k \in 1..c : k = i - l
        BY <1>3
    <2>2. Line'[i] = callbacks[k] /\ callbacks[k] \in Events
        BY <1>2, <1>3, <2>1
    <2>3. Len(callbacks[k]) # 3
        BY <1>1
    <2> QED BY <2>2, <2>3, EchoNumberTyped
<1>5. /\ Line \in Seq(Events) /\ Line' \in Seq(Events) /\ Len(Line) <= Len(Line')
      /\ \A i \in 1..Len(Line) : Line'[i] = Line[i]
      /\ \A i \in (Len(Line) + 1)..Len(Line') : EchoNumber[Line'[i]] = 0
    BY <1>1, <1>2, <1>4
<1>6. EchoNumber \in [Events -> Nat]
    BY EchoNumberTyped
<1> QED BY ONLY <1>5, <1>6, NumsSame, Ascends(EchoNumber, Line)

\* A task of Self is posted that carries no number.
LEMMA TasksSame ==
    ASSUME TypeOK, Ascends(PostNumber, tasks), NEW t \in SelfTasks, SelfPost(t),
           PostNumber[t] = 0
    PROVE  Nums(PostNumber, tasks') = Nums(PostNumber, tasks) /\ Ascends(PostNumber, tasks')
<1>1. /\ tasks \in Seq(SelfTasks) /\ tasks' \in Seq(SelfTasks) /\ Len(tasks) \in Nat
      /\ Len(tasks') = Len(tasks) + 1 /\ tasks'[Len(tasks) + 1] = t
      /\ \A i \in 1..Len(tasks) : tasks'[i] = tasks[i]
    BY SelfPosted DEF TypeOK
<1>2. Len(tasks) <= Len(tasks') /\ \A i \in (Len(tasks) + 1)..Len(tasks') : i = Len(tasks) + 1
    BY <1>1
<1> QED BY <1>1, <1>2, NumsSame, PostNumberTyped

\* Self takes a task.
LEMMA TasksTaken ==
    ASSUME TypeOK, Ascends(PostNumber, tasks), tasks # <<>>, tasks' = Tail(tasks)
    PROVE  /\ Nums(PostNumber, tasks') = Nums(PostNumber, tasks) \ {PostNumber[Head(tasks)]}
           /\ Ascends(PostNumber, tasks')
           /\ PostNumber[Head(tasks)] # 0 =>
                  /\ PostNumber[Head(tasks)] \in Nums(PostNumber, tasks)
                  /\ \A n \in Nums(PostNumber, tasks') : PostNumber[Head(tasks)] < n
<1>1. /\ tasks \in Seq(SelfTasks) /\ tasks' \in Seq(SelfTasks) /\ 1 \in 1..Len(tasks)
      /\ Len(tasks') = Len(tasks) - 1 /\ Head(tasks) = tasks[1]
      /\ \A j \in 1..Len(tasks') : tasks'[j] = tasks[j + 1] /\ ~(j < 1)
    BY DEF TypeOK
<1>2. \A j \in 1..Len(tasks') : tasks'[j] = tasks[IF j < 1 THEN j ELSE j + 1]
    BY <1>1
<1>3. PostNumber \in [SelfTasks -> Nat]
    BY PostNumberTyped
<1>4. Without(tasks, tasks', 1)
    BY <1>1, <1>2 DEF Without
<1>5. /\ Nums(PostNumber, tasks') = Nums(PostNumber, tasks) \ {PostNumber[tasks[1]]}
      /\ Ascends(PostNumber, tasks')
      /\ PostNumber[tasks[1]] # 0 => PostNumber[tasks[1]] \in Nums(PostNumber, tasks)
    <2>1. PICK k : k = 1
        OBVIOUS
    <2>2. /\ Without(tasks, tasks', k) /\ tasks \in Seq(SelfTasks) /\ tasks' \in Seq(SelfTasks)
          /\ Ascends(PostNumber, tasks)
        BY <1>1, <1>4, <2>1
    <2>3. /\ Nums(PostNumber, tasks') = Nums(PostNumber, tasks) \ {PostNumber[tasks[k]]}
          /\ Ascends(PostNumber, tasks')
          /\ PostNumber[tasks[k]] # 0 => PostNumber[tasks[k]] \in Nums(PostNumber, tasks)
        BY ONLY <1>3, <2>2, NumsRemoved
    <2> QED BY <2>1, <2>3
<1>6. PostNumber[tasks[1]] # 0 =>
          \A n \in Nums(PostNumber, tasks') : PostNumber[tasks[1]] < n
    BY <1>1, <1>3, <1>4, NumsHead
<1> QED BY <1>1, <1>5, <1>6

\* An echo leaves Self for the gateway.
LEMMA SelfRunsNumbered ==
    ASSUME TypeOK, Numbered, Behind, SelfRuns
    PROVE  Numbered' /\ Behind'
<1> DEFINE t == Head(tasks)
<1>1. /\ tasks # <<>> /\ tasks' = Tail(tasks) /\ t \in SelfTasks
      /\ Forward(Says(t)) /\ Says(t) \in Seq(Events) /\ active' = active
      /\ UNCHANGED <<services, fan, posts, owed, report>> /\ FirstRound' = FirstRound
    BY SelfRunsType DEF parts, told, calls, loop, FirstRound
<1>2. /\ Nums(PostNumber, tasks') = Nums(PostNumber, tasks) \ {PostNumber[t]}
      /\ Ascends(PostNumber, tasks')
      /\ PostNumber[t] # 0 => /\ PostNumber[t] \in Nums(PostNumber, tasks)
                              /\ \A n \in Nums(PostNumber, tasks') : PostNumber[t] < n
    BY <1>1, TasksTaken DEF Numbered
<1> HIDE DEF t
<1>3. CASE t.kind = "post" /\ Reaches(t)
    <2>1. PICK e \in Events : e = <<"message", Self, t.n>> /\ Says(t) = <<e>>
        BY <1>1, <1>3, SaysWhat, EventKinds, TaskKinds DEF Posts
    <2>2. /\ EchoNumber[e] = t.n /\ PostNumber[t] = t.n /\ t.n # 0
        <3>1. Len(e) = 3 /\ e[3] = t.n
            BY <2>1
        <3> QED BY <1>1, <1>3, <3>1, EchoNumberTyped, PostNumberTyped
    <2>3. /\ Line \in Seq(Events) /\ Line' \in Seq(Events) /\ Len(Line') = Len(Line) + 1
          /\ Line'[Len(Line) + 1] = e /\ \A i \in 1..Len(Line) : Line'[i] = Line[i]
        <3>1. Len(<<e>>) = 1 /\ 1 \in 1..1 /\ <<e>>[1] = e /\ <<e>> \in Seq(Events)
            BY ShortSeqs
        <3> QED BY <1>1, <2>1, <3>1, LineTyped, Forwarded
    <2>4. t.n \in Nums(PostNumber, tasks)
        BY <1>2, <2>2
    <2>5. \A n \in Nums(EchoNumber, Line) : n < t.n
        BY <2>4 DEF Numbered
    <2>6. /\ Nums(EchoNumber, Line') = Nums(EchoNumber, Line) \cup {t.n}
          /\ Ascends(EchoNumber, Line')
        <3>1. Ascends(EchoNumber, Line) /\ EchoNumber[Line'[Len(Line) + 1]] = t.n
            BY <2>2, <2>3 DEF Numbered
        <3> QED BY <2>2, <2>3, <2>5, <3>1, NumsAppended, EchoNumberTyped
    <2> DEFINE path == Nums(EchoNumber, Line')
               back == Nums(PostNumber, tasks')
    <2>7. path \cup back = Nums(EchoNumber, Line) \cup Nums(PostNumber, tasks)
        BY <1>2, <2>2, <2>4, <2>6
    <2>8. \A m \in path, n \in back : m < n
        BY <1>2, <2>2, <2>6 DEF Numbered
    <2>9. ToSelf' <=> ToSelf
        BY <1>1 DEF ToSelf
    <2> HIDE DEF path, back
    <2>10. Numbered'
        <3>1. path = Nums(EchoNumber, Line') /\ back = Nums(PostNumber, tasks')
            BY DEF path, back
        <3> QED BY <1>1, <1>2, <2>6, <2>7, <2>8, <2>9, <3>1, NumberedNext DEF Numbered
    <2>11. Behind'
        BY <1>1, <2>7, <2>9, BehindNext DEF Behind, path, back
    <2> QED BY <2>10, <2>11
<1>4. CASE ~(t.kind = "post" /\ Reaches(t))
    <2>1. PostNumber[t] = 0
        BY <1>1, <1>4, PostNumberTyped
    <2>2. Nums(PostNumber, tasks') = Nums(PostNumber, tasks)
        BY <1>2, <2>1 DEF Nums
    <2>3. \A i \in 1..Len(Says(t)) : Len(Says(t)[i]) # 3
        <3>1. CASE t.kind = "greet"
            <4>1. Says(t) = <<<<"ready", Self>>, <<"connect", Self>>>>
                BY <1>1, <3>1, SaysWhat
            <4> QED BY <4>1
        <3>2. CASE ~(t.kind = "greet")
            <4>1. Says(t) = <<>>
                BY <1>1, <1>4, <3>2, SaysWhat
            <4> QED BY <4>1
        <3> QED BY <3>1, <3>2
    <2>4. Nums(EchoNumber, Line') = Nums(EchoNumber, Line) /\ Ascends(EchoNumber, Line')
        BY <1>1, <2>3, LineSame DEF Numbered
    <2> QED BY <1>1, <1>2, <2>2, <2>4, NumberedSame
<1> QED BY <1>3, <1>4

\* The gateway's handlers have been called: for an echo, it has come back.
LEMMA DoneNumbered ==
    ASSUME TypeOK, Numbered, Behind, NEW i \in 1..Len(active), Done(i)
    PROVE  Numbered' /\ Behind'
<1> DEFINE e == active[i]
           path == Nums(EchoNumber, Line')
           back == Nums(PostNumber, tasks')
<1>1. /\ Line \in Seq(Events) /\ Line' \in Seq(Events) /\ Len(Line') = Len(Line) - 1
      /\ i \in 1..Len(Line) /\ Line[i] = e /\ e \in Events
      /\ \A j \in 1..Len(Line') : Line'[j] = Line[IF j < i THEN j ELSE j + 1]
      /\ Threads = 1 => i = 1
    BY DoneType, Finished, LineTyped
<1>2. /\ report' = IF e[1] = "task" THEN report ELSE e
      /\ owed' = IF Len(e) = 3 THEN owed \ {e[3]} ELSE owed
      /\ UNCHANGED <<tasks, services, fan, posts>> /\ FirstRound' = FirstRound
    BY DEF Done, selfVars, parts, loop, FirstRound
<1> HIDE DEF e
<1>3. /\ path = Nums(EchoNumber, Line) \ {EchoNumber[e]} /\ Ascends(EchoNumber, Line')
      /\ EchoNumber[e] # 0 => EchoNumber[e] \in Nums(EchoNumber, Line)
      /\ Threads = 1 /\ EchoNumber[e] # 0 => \A n \in path : EchoNumber[e] < n
    <2>1. EchoNumber \in [Events -> Nat] /\ Ascends(EchoNumber, Line)
        BY EchoNumberTyped DEF Numbered
    <2>2. Without(Line, Line', i) /\ Line \in Seq(Events) /\ Line' \in Seq(Events)
        BY <1>1 DEF Without
    <2>3. /\ path = Nums(EchoNumber, Line) \ {EchoNumber[Line[i]]}
          /\ Ascends(EchoNumber, Line')
          /\ EchoNumber[Line[i]] # 0 => EchoNumber[Line[i]] \in Nums(EchoNumber, Line)
        BY <2>1, <2>2, NumsRemoved
    <2>4. ASSUME Threads = 1, EchoNumber[e] # 0, NEW n \in path
          PROVE  EchoNumber[e] < n
        <3>1. Without(Line, Line', 1) /\ EchoNumber[Line[1]] # 0 /\ e = Line[1]
            BY <1>1, <2>2, <2>4
        <3>2. EchoNumber[Line[1]] < n
            BY <2>1, <2>2, <2>4, <3>1, NumsHead
        <3> QED BY <3>1, <3>2
    <2> HIDE DEF path
    <2> QED BY <1>1, <2>3, <2>4
<1>4. back = Nums(PostNumber, tasks) /\ Ascends(PostNumber, tasks')
    BY <1>2 DEF Nums, Ascends, Numbered
<1>5. EchoNumber[e] = 0 <=> Len(e) # 3
    BY <1>1, EchoNumberTyped
<1>6. Len(e) = 3 => EchoNumber[e] = e[3] /\ e[1] # "task" /\ e[3] \in Nat
    <2>1. Len(e) = 3 => e # <<"task">> /\ e[1] # "task"
        <3>1. CASE e = <<"task">>
            BY <3>1
        <3>2. CASE e # <<"task">>
            <4>1. e[1] \in {"ready", "connect", "disconnect", "message"}
                BY <1>1, <3>2 DEF Events
            <4> QED BY <3>2, <4>1
        <3> QED BY <3>1, <3>2
    <2> QED BY <1>1, <2>1, EchoNumberTyped, SelfAssumption
<1> HIDE DEF path, back
<1>7. path \cup back \subseteq Nums(EchoNumber, Line) \cup Nums(PostNumber, tasks)
    BY <1>3, <1>4
<1>8. Len(e) = 3 => /\ \A n \in back : e[3] < n
                    /\ path \cup back =
                          (Nums(EchoNumber, Line) \cup Nums(PostNumber, tasks)) \ {e[3]}
    <2> SUFFICES ASSUME Len(e) = 3
                 PROVE  /\ \A n \in back : e[3] < n
                        /\ path \cup back =
                              (Nums(EchoNumber, Line) \cup Nums(PostNumber, tasks)) \ {e[3]}
        OBVIOUS
    <2>1. e[3] \in Nums(EchoNumber, Line)
        BY <1>3, <1>5, <1>6
    <2>2. \A n \in back : e[3] < n
        BY <1>4, <2>1 DEF Numbered
    <2>3. e[3] \notin back
        BY <1>6, <2>2
    <2> QED BY <1>3, <1>4, <1>6, <2>2, <2>3
<1>9. Len(e) # 3 => path \cup back = Nums(EchoNumber, Line) \cup Nums(PostNumber, tasks)
    <2>1. 0 \notin Nums(EchoNumber, Line)
        BY DEF Nums
    <2> QED BY <1>3, <1>4, <1>5, <2>1
<1>10. ToSelf' <=> ToSelf
    BY <1>2 DEF ToSelf
<1>11. Numbered'
    <2>1. path = Nums(EchoNumber, Line') /\ back = Nums(PostNumber, tasks')
        BY DEF path, back
    <2>2. \A m \in path, n \in back : m < n
        BY <1>3, <1>4 DEF Numbered
    <2>3. path \cup back \subseteq owed' /\ (FirstRound' => path \cup back = owed')
        BY <1>2, <1>8, <1>9 DEF Numbered
    <2>4. \A n \in path \cup back : n <= posts' /\ (ToSelf' => n < posts')
        BY <1>2, <1>7, <1>10 DEF Numbered
    <2> QED BY <1>2, <1>3, <1>4, <2>1, <2>2, <2>3, <2>4, NumberedNext DEF Numbered
<1>12. Behind'
    <2> SUFFICES ASSUME Threads = 1, Len(report') = 3
                 PROVE  /\ \A n \in path \cup back : report'[3] < n
                        /\ report'[3] <= posts' /\ (ToSelf' => report'[3] < posts')
        BY BehindNext DEF path, back
    <2>1. CASE e[1] = "task"
        BY <1>2, <1>7, <1>10, <2>1 DEF Behind
    <2>2. CASE e[1] # "task"
        <3>1. report' = e /\ Len(e) = 3 /\ EchoNumber[e] = e[3] /\ EchoNumber[e] # 0
            BY <1>2, <1>5, <1>6, <2>2
        <3>2. e[3] \in Nums(EchoNumber, Line)
            BY <1>3, <3>1
        <3>3. e[3] <= posts /\ (ToSelf => e[3] < posts)
            BY <3>2 DEF Numbered
        <3> QED BY <1>2, <1>3, <1>8, <1>10, <3>1, <3>3
    <2> QED BY <2>1, <2>2
<1> QED BY <1>11, <1>12

\* A call comes to Self: its number is above all that are carried.
LEMMA FanOutNumbered ==
    ASSUME TypeOK, Numbered, Behind, FanOut
    PROVE  Numbered' /\ Behind'
<1>1. /\ fan.post \in Posts /\ fan.post \in SelfTasks /\ fan.post.kind = "post"
      /\ fan.at \in 1..Len(services) /\ Len(services) \in Nat
      /\ fan = [post |-> fan.post, at |-> fan.at] /\ fan # Idle
      /\ fan.post.n = posts /\ posts \in Nat
    BY FanTyped, SelfAssumption DEF FanOut, Numbered, TypeOK
<1>2. /\ UNCHANGED <<services, active, queue, posts, report, rounds>>
      /\ fan' = IF fan.at = Len(services) THEN Idle ELSE [fan EXCEPT !.at = @ + 1]
    BY DEF FanOut, parts, events, told, loop
<1>3. fan' # Idle => fan'.post = fan.post /\ fan'.at = fan.at + 1
    BY <1>1, <1>2
<1>4. ToSelf' => \E k \in (fan.at + 1)..Len(services) : services[k] = Self
    BY <1>2, <1>3 DEF ToSelf
<1>5. /\ ToSelf' => ToSelf
      /\ services[fan.at] = Self => ToSelf /\ ~ToSelf'
    <2>1. \A k \in (fan.at + 1)..Len(services) : k \in fan.at..Len(services) /\ k # fan.at
                                                 /\ k \in 1..Len(services)
        BY <1>1
    <2>2. ToSelf <=> \E k \in fan.at..Len(services) : services[k] = Self
        BY <1>1 DEF ToSelf
    <2>3. ToSelf' => ToSelf
        BY <1>4, <2>1, <2>2
    <2>4. ASSUME services[fan.at] = Self PROVE ToSelf /\ ~ToSelf'
        <3>1. fan.at \in fan.at..Len(services)
            BY <1>1
        <3>2. \A i, j \in 1..Len(services) : services[i] = services[j] => i = j
            BY DEF Numbered
        <3> QED BY <1>1, <1>4, <2>1, <2>2, <2>4, <3>1, <3>2
    <2> QED BY <2>3, <2>4
<1>6. fan' # Idle => fan'.post.n = posts'
    BY <1>1, <1>2, <1>3
<1>7. Line' = Line
    BY <1>2 DEF Line
<1>8. /\ Nums(EchoNumber, Line') = Nums(EchoNumber, Line)
      /\ Ascends(EchoNumber, Line') /\ Ascends(PostNumber, tasks)
    BY <1>7 DEF Nums, Ascends, Numbered
<1>9. ASSUME Nums(PostNumber, tasks') = Nums(PostNumber, tasks), Ascends(PostNumber, tasks'),
             owed' = owed, FirstRound' => FirstRound
      PROVE  Numbered' /\ Behind'
    <2>1. Numbered'
        BY <1>2, <1>5, <1>6, <1>8, <1>9, NumberedNext DEF Numbered
    <2>2. Behind'
        BY <1>2, <1>5, <1>8, <1>9, BehindNext DEF Behind
    <2> QED BY <2>1, <2>2
<1>10. CASE services[fan.at] # Self
    <2>1. UNCHANGED <<tasks, selfRounds, owed>>
        BY <1>10 DEF FanOut, selfVars
    <2>2. FirstRound' = FirstRound
        BY <1>2, <2>1 DEF FirstRound
    <2>3. Nums(PostNumber, tasks') = Nums(PostNumber, tasks) /\ Ascends(PostNumber, tasks')
        BY <1>8, <2>1 DEF Nums, Ascends
    <2> QED BY <1>9, <2>1, <2>2, <2>3
<1>11. CASE services[fan.at] = Self
    <2>1. /\ SelfPost(fan.post) /\ selfRounds' = selfRounds
          /\ owed' = IF Concerns(fan.post) THEN owed \cup {fan.post.n} ELSE owed
        BY <1>11 DEF FanOut, SelfPost
    <2>2. FirstRound' = FirstRound
        BY <1>2, <2>1 DEF FirstRound
    <2>3. Concerns(fan.post) <=> Reaches(fan.post)
        BY <1>1 DEF Concerns, Reaches, Posts, Modes
    <2>4. CASE ~Reaches(fan.post)
        <3>1. PostNumber[fan.post] = 0 /\ owed' = owed
            BY <1>1, <2>1, <2>3, <2>4, PostNumberTyped
        <3>2. Nums(PostNumber, tasks') = Nums(PostNumber, tasks) /\ Ascends(PostNumber, tasks')
            BY <1>1, <1>8, <2>1, <3>1, TasksSame
        <3> QED BY <1>9, <2>2, <3>1, <3>2
    <2>5. CASE Reaches(fan.post)
        <3>1. PostNumber[fan.post] = posts /\ posts # 0 /\ owed' = owed \cup {posts}
            BY <1>1, <2>1, <2>3, <2>5, PostNumberTyped
        <3>2. \A n \in Nums(EchoNumber, Line) \cup Nums(PostNumber, tasks) : n < posts
            BY <1>5, <1>11 DEF Numbered
        <3>3. /\ Nums(PostNumber, tasks') = Nums(PostNumber, tasks) \cup {posts}
              /\ Ascends(PostNumber, tasks')
            <4>1. PostNumber \in [SelfTasks -> Nat] /\ Ascends(PostNumber, tasks)
                BY <1>8, PostNumberTyped
            <4>2. /\ tasks \in Seq(SelfTasks) /\ tasks' \in Seq(SelfTasks)
                  /\ Len(tasks') = Len(tasks) + 1 /\ tasks'[Len(tasks) + 1] = fan.post
                  /\ \A i \in 1..Len(tasks) : tasks'[i] = tasks[i]
                BY <1>1, <2>1, SelfPosted DEF TypeOK
            <4>3. /\ PostNumber[tasks'[Len(tasks) + 1]] = posts
                  /\ PostNumber[tasks'[Len(tasks) + 1]] # 0
                  /\ \A n \in Nums(PostNumber, tasks) : n < PostNumber[tasks'[Len(tasks) + 1]]
                BY <3>1, <3>2, <4>2
            <4>4. /\ Nums(PostNumber, tasks') =
                         Nums(PostNumber, tasks) \cup {PostNumber[tasks'[Len(tasks) + 1]]}
                  /\ Ascends(PostNumber, tasks')
                BY ONLY <4>1, <4>2, <4>3, NumsAppended
            <4> QED BY <4>3, <4>4
        <3> DEFINE path == Nums(EchoNumber, Line')
                   back == Nums(PostNumber, tasks')
        <3>4. /\ path \cup back =
                     (Nums(EchoNumber, Line) \cup Nums(PostNumber, tasks)) \cup {posts}
              /\ \A m \in path, n \in back : m < n
            BY <1>8, <3>2, <3>3 DEF Numbered
        <3>5. \A n \in path \cup back : n <= posts'
            BY <1>1, <1>2, <3>2, <3>4 DEF Numbered
        <3>6. ~ToSelf'
            BY <1>5, <1>11
        <3>7. path \cup back \subseteq owed' /\ (FirstRound' => path \cup back = owed')
            BY <2>2, <3>1, <3>4 DEF Numbered
        <3>8. Behind'
            BY <1>2, <1>5, <1>11, <3>4, <3>6, BehindNext DEF Behind
        <3>9. path = Nums(EchoNumber, Line') /\ back = Nums(PostNumber, tasks')
            OBVIOUS
        <3> HIDE DEF path, back
        <3>10. Numbered'
            BY <1>2, <1>6, <1>8, <3>3, <3>4, <3>5, <3>6, <3>7, <3>9, NumberedNext DEF Numbered
        <3> QED BY <3>8, <3>10
    <2> QED BY <2>4, <2>5
<1> QED BY <1>10, <1>11

\* A call begins: its number is new.
LEMMA PostNumbered ==
    ASSUME TypeOK, Numbered, Behind, Publish \/ PublishEx \/ Send
    PROVE  Numbered' /\ Behind'
<1>1. /\ posts' = posts + 1 /\ posts \in Nat /\ fan'.post.n = posts'
      /\ UNCHANGED <<selfVars, parts, events, told, owed, loop>>
    BY PostType, SelfAssumption DEF TypeOK
<1>2. /\ UNCHANGED <<tasks, selfRounds, services, active, queue, report, owed, rounds>>
      /\ Line' = Line /\ FirstRound' = FirstRound
    BY <1>1 DEF selfVars, parts, events, told, loop, Line, FirstRound
<1>3. /\ Nums(EchoNumber, Line') = Nums(EchoNumber, Line)
      /\ Nums(PostNumber, tasks') = Nums(PostNumber, tasks)
      /\ Ascends(EchoNumber, Line') /\ Ascends(PostNumber, tasks')
    BY <1>2 DEF Nums, Ascends, Numbered
<1>4. \A n \in Nums(EchoNumber, Line) \cup Nums(PostNumber, tasks) : n \in Nat
    <2>1. owed \subseteq Nat
        BY SelfAssumption DEF TypeOK
    <2> QED BY <2>1 DEF Numbered
<1>5. \A n \in Nums(EchoNumber, Line) \cup Nums(PostNumber, tasks) : n <= posts' /\ n < posts'
    BY <1>1, <1>4 DEF Numbered
<1>6. Numbered'
    BY <1>1, <1>2, <1>3, <1>5, NumberedNext DEF Numbered
<1>7. Behind'
    <2>1. Threads = 1 /\ Len(report) = 3 => report[3] <= posts' /\ report[3] < posts'
        <3>1. Len(report) = 3 => report[3] \in Nat
            <4>1. report \in Events \/ report = <<"none">>
                BY DEF TypeOK
            <4>2. \A n \in 1..MaxPosts : n \in Nat
                BY SelfAssumption
            <4> QED BY <4>1, <4>2, EchoNumberTyped
        <3> QED BY <1>1, <3>1 DEF Behind
    <2> QED BY <1>2, <1>3, <2>1, BehindNext DEF Behind
<1> QED BY <1>6, <1>7

\* Restarts drop echoes.
LEMMA RestartNumbered ==
    ASSUME TypeOK, Numbered, Behind, Restart \/ SelfRestart,
           UNCHANGED <<services, fan, posts, owed, report>>, SelfRestart => Line' = Line
    PROVE  Numbered' /\ Behind'
<1> DEFINE path == Nums(EchoNumber, Line')
           back == Nums(PostNumber, tasks')
<1>1. ~FirstRound'
    BY DEF Restart, SelfRestart, FirstRound, TypeOK
<1>2. /\ path \subseteq Nums(EchoNumber, Line) /\ Ascends(EchoNumber, Line')
      /\ back \subseteq Nums(PostNumber, tasks) /\ Ascends(PostNumber, tasks')
    <2>1. CASE Restart
        <3>1. tasks' = tasks /\ active' = <<>> /\ queue' = <<>>
            BY <2>1 DEF Restart, selfVars
        <3>2. Len(Line') = 0
            BY <3>1 DEF Line
        <3> QED BY <3>1, <3>2 DEF Nums, Ascends, Numbered
    <2>2. CASE SelfRestart
        <3>1. tasks' = <<Greeting>> /\ Line' = Line
            BY <2>2 DEF SelfRestart
        <3>2. Len(tasks') = 1 /\ tasks'[1] = Greeting
            BY <3>1
        <3>3. PostNumber[Greeting] = 0
            BY PostNumberTyped DEF Greeting, SelfTasks
        <3> QED BY <3>1, <3>2, <3>3 DEF Nums, Ascends, Numbered
    <2> QED BY <2>1, <2>2
<1>3. ToSelf' <=> ToSelf
    BY DEF ToSelf
<1>4. path = Nums(EchoNumber, Line') /\ back = Nums(PostNumber, tasks')
    OBVIOUS
<1> HIDE DEF path, back
<1>5. Numbered'
    BY <1>1, <1>2, <1>3, <1>4, NumberedNext DEF Numbered
<1>6. Behind'
    BY <1>2, <1>3, <1>4, BehindNext DEF Behind
<1> QED BY <1>5, <1>6

LEMMA InitNumbered == Init => Numbered /\ Behind
<1> SUFFICES ASSUME Init PROVE Numbered /\ Behind
    OBVIOUS
<1>1. Len(Line) = 0
    BY InitType, LineTyped DEF Init
<1>2. Nums(EchoNumber, Line) = {} /\ Ascends(EchoNumber, Line)
    BY <1>1 DEF Nums, Ascends
<1>3. Len(tasks) = 1 /\ tasks[1] = Greeting
    BY DEF Init, SelfInit
<1>4. PostNumber[Greeting] = 0
    BY PostNumberTyped DEF Greeting, SelfTasks
<1>5. Nums(PostNumber, tasks) = {} /\ Ascends(PostNumber, tasks)
    BY <1>3, <1>4 DEF Nums, Ascends
<1>6. services = <<>> /\ fan = Idle /\ owed = {} /\ Len(report) # 3
    BY DEF Init
<1> QED BY <1>2, <1>5, <1>6 DEF Numbered, Behind

LEMMA NextNumbered ==
    ASSUME TypeOK, Numbered, Behind, [Next]_vars
    PROVE  Numbered' /\ Behind'
\* The callback of another service, of its start, or of a task of the gateway.
<1>1. ASSUME NEW callbacks \in Seq(Events), Forward(callbacks), active' = active,
             \A i \in 1..Len(callbacks) : Len(callbacks[i]) # 3,
             UNCHANGED <<tasks, services, fan, posts, owed, report, rounds, selfRounds>>
      PROVE  Numbered' /\ Behind'
    <2>1. Nums(EchoNumber, Line') = Nums(EchoNumber, Line) /\ Ascends(EchoNumber, Line')
        BY <1>1, LineSame DEF Numbered
    <2>2. Nums(PostNumber, tasks') = Nums(PostNumber, tasks) /\ Ascends(PostNumber, tasks')
        BY <1>1 DEF Nums, Ascends, Numbered
    <2>3. FirstRound' => FirstRound
        BY <1>1 DEF FirstRound
    <2> QED BY <1>1, <2>1, <2>2, <2>3, NumberedSame
<1>2. ASSUME Line' = Line,
             UNCHANGED <<tasks, services, fan, posts, owed, report, rounds, selfRounds>>
      PROVE  Numbered' /\ Behind'
    <2>1. /\ Nums(EchoNumber, Line') = Nums(EchoNumber, Line) /\ Ascends(EchoNumber, Line')
          /\ Nums(PostNumber, tasks') = Nums(PostNumber, tasks) /\ Ascends(PostNumber, tasks')
        BY <1>2 DEF Nums, Ascends, Numbered
    <2>2. FirstRound' => FirstRound
        BY <1>2 DEF FirstRound
    <2> QED BY <1>2, <2>1, <2>2, NumberedSame
<1>3. ASSUME NEW s \in Services \cup {Self}, Run(s) PROVE Numbered' /\ Behind'
    <2>1. PICK callbacks \in Seq(Events) :
              /\ Forward(callbacks)
              /\ callbacks = IF s = Self THEN <<>> ELSE <<<<"ready", s>>>>
        BY <1>3, RunType
    <2>2. \A i \in 1..Len(callbacks) : Len(callbacks[i]) # 3
        <3>1. CASE callbacks = <<>>
            BY <3>1
        <3>2. CASE callbacks = <<<<"ready", s>>>>
            BY <3>2
        <3> QED BY <2>1, <3>1, <3>2
    <2> QED BY <1>1, <1>3, <2>1, <2>2 DEF Run, selfVars, told, calls, loop
<1>4. ASSUME NEW s \in Services, NEW c \in Conns,
             Connects(s, c) \/ Messages(s, c) \/ Disconnects(s, c)
      PROVE  Numbered' /\ Behind'
    <2>1. PICK kind \in {"connect", "message", "disconnect"} :
              /\ <<kind, <<s, c>>>> \in Events /\ Forward(<<<<kind, <<s, c>>>>>>)
              /\ Opened(kind, s, c)
              /\ UNCHANGED <<selfVars, services, running, active, told, calls, loop>>
        BY <1>4, EventType
    <2>2. PICK e \in Events : e = <<kind, <<s, c>>>>
        BY <2>1
    <2>3. /\ <<e>> \in Seq(Events) /\ Forward(<<e>>)
          /\ \A i \in 1..Len(<<e>>) : Len(<<e>>[i]) # 3
        BY <2>1, <2>2
    <2> QED BY <1>1, <2>1, <2>3 DEF selfVars, told, calls, loop
<1>5. ASSUME Dispatch PROVE Numbered' /\ Behind'
    <2>1. PICK e \in Events : e = <<"task">>
        <3>1. <<"task">> \in Events
            BY DEF Events
        <3> QED BY <3>1
    <2>2. /\ <<e>> \in Seq(Events) /\ queue \in Seq(Events)
        BY DEF TypeOK
    <2>21. \A i \in 1..Len(<<e>>) : Len(<<e>>[i]) # 3
        BY <2>1
    <2>3. Forward(<<e>>)
        BY <1>5, <2>1, <2>2 DEF Dispatch, Forward
    <2> QED BY <1>1, <1>5, <2>2, <2>21, <2>3 DEF Dispatch, selfVars, parts, told, calls, loop
<1>6. ASSUME SelfDispatch PROVE Numbered' /\ Behind'
    <2>1. PICK t \in SelfTasks : t = [kind |-> "task"] /\ SelfPost(t)
        BY <1>6 DEF SelfDispatch, SelfTasks
    <2>2. PostNumber[t] = 0
        BY <2>1, PostNumberTyped
    <2>3. Nums(PostNumber, tasks') = Nums(PostNumber, tasks) /\ Ascends(PostNumber, tasks')
        BY <2>1, <2>2, TasksSame DEF Numbered
    <2>4. /\ UNCHANGED <<active, queue, services, fan, posts, owed, report, rounds>>
          /\ UNCHANGED selfRounds
        BY <1>6 DEF SelfDispatch, SelfPost, parts, events, told, calls, loop
    <2>5. Nums(EchoNumber, Line') = Nums(EchoNumber, Line) /\ Ascends(EchoNumber, Line')
        BY <2>4 DEF Nums, Ascends, Numbered, Line
    <2>6. FirstRound' => FirstRound
        BY <2>4 DEF FirstRound
    <2>7. Numbered /\ Behind /\ UNCHANGED <<services, fan, posts, owed, report>>
        BY <2>4
    <2> QED BY ONLY <2>3, <2>5, <2>6, <2>7, NumberedSame
\* No service is added twice.
<1>7. ASSUME NEW s \in Services \cup {Self}, AddService(s) PROVE Numbered' /\ Behind'
    <2>1. /\ s \notin Range(services) /\ services' = Append(services, s) /\ fan' = Idle
          /\ UNCHANGED <<tasks, selfRounds, active, queue, posts, owed, report, rounds>>
        BY <1>7 DEF AddService, Added, selfVars, events, told, calls, loop
    <2>2. /\ Nums(EchoNumber, Line') = Nums(EchoNumber, Line) /\ Ascends(EchoNumber, Line')
          /\ Nums(PostNumber, tasks') = Nums(PostNumber, tasks) /\ Ascends(PostNumber, tasks')
        <3>1. Line' = Line /\ tasks' = tasks
            BY <2>1 DEF Line
        <3>2. Ascends(EchoNumber, Line) /\ Ascends(PostNumber, tasks)
            BY DEF Numbered
        <3> QED BY ONLY <3>1, <3>2 DEF Nums, Ascends
    <2>3. ~ToSelf' /\ (FirstRound' => FirstRound)
        BY <2>1 DEF ToSelf, FirstRound
    <2>4. \A i, j \in 1..Len(services') : services'[i] = services'[j] => i = j
        <3>1. PICK l \in Nat : l = Len(services)
            BY DEF TypeOK
        <3>2. /\ Len(services') = l + 1 /\ services'[l + 1] = s
              /\ \A i \in 1..l : services'[i] = services[i] /\ services[i] # s
              /\ \A i \in 1..(l + 1) : i \in 1..l \/ i = l + 1
            <4>1. services \in Seq(Services \cup {Self})
                BY DEF TypeOK
            <4>2. \A i \in 1..l : services[i] # s
                BY <2>1, <3>1, <4>1 DEF Range
            <4> QED BY <2>1, <3>1, <4>1, <4>2
        <3>3. \A i, j \in 1..l : services[i] = services[j] => i = j
            BY <3>1 DEF Numbered
        <3> QED BY <3>2, <3>3
    <2>5. Numbered'
        BY <2>1, <2>2, <2>3, <2>4, NumberedNext DEF Numbered
    <2>6. Behind'
        BY <2>1, <2>2, <2>3, BehindNext DEF Behind
    <2> QED BY <2>5, <2>6
<1>8. ASSUME SelfHalts PROVE Numbered' /\ Behind'
    <2>1. UNCHANGED <<active, queue, services, fan, posts, owed, report, rounds>> /\ Line' = Line
        BY <1>8 DEF SelfHalts, parts, events, told, calls, loop, Line
    <2>2. CASE SelfStop
        BY <1>2, <2>1, <2>2 DEF SelfStop
    <2>3. CASE SelfRestart
        BY <2>1, <2>3, RestartNumbered
    <2> QED BY <1>8, <2>2, <2>3 DEF SelfHalts
<1>9. ASSUME Restart PROVE Numbered' /\ Behind'
    <2>1. UNCHANGED <<services, fan, posts, owed, report, selfRounds>>
        BY <1>9 DEF Restart, selfVars, parts, told, calls
    <2>2. ~SelfRestart
        BY <2>1 DEF SelfRestart, TypeOK
    <2> QED BY <1>9, <2>1, <2>2, RestartNumbered
<1>10. ASSUME Take PROVE Numbered' /\ Behind'
    BY <1>2, <1>10, Taken DEF Take, selfVars, parts, told, calls, loop
<1>11. ASSUME Stop \/ UNCHANGED vars PROVE Numbered' /\ Behind'
    <2>1. UNCHANGED <<active, queue, tasks, services, fan, posts, owed, report, rounds, selfRounds>>
        BY <1>11 DEF Stop, vars, selfVars, parts, events, told, calls, loop
    <2> QED BY <1>2, <2>1 DEF Line
<1> QED BY <1>3, <1>4, <1>5, <1>6, <1>7, <1>8, <1>9, <1>10, <1>11, SelfRunsNumbered,
           DoneNumbered, FanOutNumbered, PostNumbered
        DEF Next, Handled

\* What is published through a gateway comes back from Self once and in order, with any
\* number of threads, and stays so over every restart.
THEOREM EchoesAlwaysInOrder == Spec => []EchoesInOrder
<1>1. TypeOK /\ Numbered /\ Behind /\ [Next]_vars => TypeOK' /\ Numbered' /\ Behind'
    BY NextType, NextNumbered
<1>2. TypeOK /\ Numbered /\ Behind => EchoesInOrder
    BY NumberedSuffices
<1> QED BY <1>1, <1>2, InitType, InitNumbered, PTL DEF Spec

-----------------------------------------------------------------------------
(* A server and its clients over buffers that fill up.                     *)

DuplexTasks == {PublishTask} \cup {Disconnect(c) : c \in Clients}

\* The positions of the publish tasks.
Positions(s) == {i \in 1..Len(s) : s[i] = PublishTask}

LEMMA PublishIsNone == \A c : Disconnect(c) # PublishTask
BY DEF Disconnect, PublishTask

LEMMA PositionsFinite ==
    ASSUME NEW s \in Seq(DuplexTasks)
    PROVE  IsFiniteSet(Positions(s)) /\ Cardinality(Positions(s)) \in Nat
<1>1. Len(s) \in Nat
    OBVIOUS
<1>2. IsFiniteSet(1..Len(s))
    BY <1>1, FS_Interval
<1>3. IsFiniteSet(Positions(s))
    BY <1>2, FS_Subset DEF Positions
<1> QED BY <1>3, FS_CardinalityType

\* One more, if it is a publish.
LEMMA PositionsAppend ==
    ASSUME NEW s \in Seq(DuplexTasks), NEW t \in DuplexTasks
    PROVE  Cardinality(Positions(Append(s, t))) =
               Cardinality(Positions(s)) + (IF t = PublishTask THEN 1 ELSE 0)
<1> DEFINE n == Len(s) + 1
<1>1. /\ Append(s, t) \in Seq(DuplexTasks) /\ Len(Append(s, t)) = n /\ n \notin 1..Len(s)
      /\ Append(s, t)[n] = t /\ \A i \in 1..Len(s) : Append(s, t)[i] = s[i]
      /\ 1..n = (1..Len(s)) \cup {n}
    OBVIOUS
<1> HIDE DEF n
<1>2. Positions(Append(s, t)) = Positions(s) \cup (IF t = PublishTask THEN {n} ELSE {})
    BY <1>1 DEF Positions
<1>3. n \notin Positions(s)
    BY <1>1 DEF Positions
<1>4. IsFiniteSet(Positions(s)) /\ Cardinality(Positions(s)) \in Nat
    BY PositionsFinite
<1>5. CASE t = PublishTask
    BY <1>2, <1>3, <1>4, <1>5, FS_AddElement
<1>6. CASE t # PublishTask
    <2>1. Positions(Append(s, t)) = Positions(s)
        BY <1>2, <1>6
    <2> QED BY <1>4, <1>6, <2>1
<1> QED BY <1>5, <1>6

\* One less, if the first is a publish; the others move up.
LEMMA PositionsTail ==
    ASSUME NEW s \in Seq(DuplexTasks), s # <<>>
    PROVE  Cardinality(Positions(Tail(s))) =
               Cardinality(Positions(s)) - (IF Head(s) = PublishTask THEN 1 ELSE 0)
<1> DEFINE S == Positions(s) \ {1}
           T == Positions(Tail(s))
           f == [i \in S |-> i - 1]
<1>1. /\ Tail(s) \in Seq(DuplexTasks) /\ Len(Tail(s)) = Len(s) - 1 /\ Len(s) \in Nat \ {0}
      /\ \A i \in 1..Len(Tail(s)) : Tail(s)[i] = s[i + 1]
    OBVIOUS
<1>2. f \in Bijection(S, T)
    <2>1. \A i \in S : i \in Nat /\ i - 1 \in T
        BY <1>1 DEF Positions
    <2>2. \A j \in T : j + 1 \in S /\ (j + 1) - 1 = j
        BY <1>1 DEF Positions
    <2>3. \A a, b \in S : f[a] = f[b] => a = b
        BY <2>1
    <2>4. f \in [S -> T]
        BY <2>1
    <2>5. \A j \in T : \E i \in S : f[i] = j
        BY <2>2
    <2> QED BY <2>3, <2>4, <2>5 DEF Bijection, Injection, Surjection, IsInjective
<1>3. IsFiniteSet(Positions(s)) /\ Cardinality(Positions(s)) \in Nat
    BY PositionsFinite
<1>4. 1 \in Positions(s) <=> Head(s) = PublishTask
    BY <1>1 DEF Positions
<1>5. /\ IsFiniteSet(S)
      /\ Cardinality(S) = Cardinality(Positions(s))
                            - (IF Head(s) = PublishTask THEN 1 ELSE 0)
    <2>1. /\ IsFiniteSet(S)
          /\ Cardinality(S) = IF 1 \in Positions(s)
                              THEN Cardinality(Positions(s)) - 1
                              ELSE Cardinality(Positions(s))
        BY <1>3, FS_RemoveElement
    <2> QED BY <1>3, <1>4, <2>1
<1>6. Cardinality(T) = Cardinality(S)
    <2>1. ExistsBijection(S, T)
        BY <1>2 DEF ExistsBijection
    <2> HIDE DEF S, T
    <2> QED BY <1>5, <2>1, FS_Bijection
<1> QED BY <1>5, <1>6

\* The publish tasks that wait, and what a step does to their number.
LEMMA WaitingCounted ==
    ASSUME strand \in Seq(DuplexTasks)
    PROVE  /\ Waiting \in Nat
           /\ strand' = strand => Waiting' = Waiting
           /\ \A t \in DuplexTasks : strand' = Append(strand, t) =>
                  Waiting' = Waiting + (IF t = PublishTask THEN 1 ELSE 0)
           /\ strand # <<>> /\ strand' = Tail(strand) =>
                  Waiting' =
                      Waiting - (IF Head(strand) = PublishTask THEN 1 ELSE 0)
<1>1. /\ Waiting = Cardinality(Positions(strand))
      /\ Waiting' = Cardinality(Positions(strand'))
    BY DEF Waiting, Positions
<1> QED BY <1>1, PositionsFinite, PositionsAppend, PositionsTail

-----------------------------------------------------------------------------
(* Sequences without repetition.                                           *)

Distinct(s) == \A i, j \in 1..Len(s) : s[i] = s[j] => i = j

LEMMA DuplexRemoveAt ==
    ASSUME NEW S, NEW s \in Seq(S), NEW i \in 1..Len(s)
    PROVE  /\ RemoveAt(s, i) \in Seq(S) /\ Len(RemoveAt(s, i)) = Len(s) - 1
           /\ \A j \in 1..(Len(s) - 1) :
                 RemoveAt(s, i)[j] = s[IF j < i THEN j ELSE j + 1]
<1> DEFINE a == SubSeq(s, 1, i - 1)
           b == SubSeq(s, i + 1, Len(s))
<1>1. /\ a \in Seq(S) /\ Len(a) = i - 1 /\ \A j \in 1..(i - 1) : a[j] = s[j]
      /\ b \in Seq(S) /\ Len(b) = Len(s) - i /\ \A j \in 1..(Len(s) - i) : b[j] = s[i + j]
    OBVIOUS
<1>2. Len(s) \in Nat /\ i \in 1..Len(s)
    OBVIOUS
<1> HIDE DEF a, b
<1>3. /\ a \o b \in Seq(S) /\ Len(a \o b) = Len(a) + Len(b)
      /\ \A j \in 1..(Len(a) + Len(b)) :
            (a \o b)[j] = IF j <= Len(a) THEN a[j] ELSE b[j - Len(a)]
    BY <1>1, ConcatProperties
<1>4. ASSUME NEW j \in 1..(Len(s) - 1)
      PROVE  (a \o b)[j] = s[IF j < i THEN j ELSE j + 1]
    <2>1. CASE j < i
        BY <1>1, <1>2, <1>3, <2>1
    <2>2. CASE ~(j < i)
        <3>1. /\ j \in 1..(Len(a) + Len(b)) /\ ~(j <= Len(a))
              /\ j - Len(a) \in 1..(Len(s) - i) /\ i + (j - Len(a)) = j + 1
            BY <1>1, <1>2, <2>2
        <3> QED BY <1>1, <1>3, <2>2, <3>1
    <2> QED BY <2>1, <2>2
<1>5. Len(a \o b) = Len(s) - 1
    BY <1>1, <1>2, <1>3
<1>6. RemoveAt(s, i) = a \o b
    BY DEF RemoveAt, a, b
<1> QED BY <1>3, <1>4, <1>5, <1>6

\* A sequence without one of its elements.
LEMMA DistinctWithout ==
    ASSUME NEW S, NEW s \in Seq(S), Distinct(s), NEW t \in Seq(S), NEW k \in 1..Len(s),
           Len(t) = Len(s) - 1,
           \A j \in 1..(Len(s) - 1) : t[j] = s[IF j < k THEN j ELSE j + 1]
    PROVE  /\ Distinct(t)
           /\ ~Contains(t, s[k])
           /\ \A d : d # s[k] => (Contains(t, d) <=> Contains(s, d))
<1>1. PICK l \in Nat : l = Len(s) /\ Len(t) = l - 1 /\ k \in 1..l
    OBVIOUS
<1> DEFINE at(j) == IF j < k THEN j ELSE j + 1
           back(i) == IF i < k THEN i ELSE i - 1
<1>2. ASSUME NEW j \in 1..(l - 1)
      PROVE  at(j) \in 1..l /\ at(j) # k /\ t[j] = s[at(j)]
    <2>1. at(j) \in 1..l /\ at(j) # k
        BY <1>1
    <2> QED BY <1>1, <2>1
<1>3. \A i \in 1..l : i # k => back(i) \in 1..(l - 1) /\ at(back(i)) = i
    BY <1>1
<1>4. \A i, j \in 1..(l - 1) : at(i) = at(j) => i = j
    BY <1>1
<1> HIDE DEF at, back
<1>5. \A i, j \in 1..l : s[i] = s[j] => i = j
    BY <1>1 DEF Distinct
<1>6. Distinct(t)
    BY <1>1, <1>2, <1>4, <1>5 DEF Distinct
<1>7. ~Contains(t, s[k])
    BY <1>1, <1>2, <1>5 DEF Contains
<1>8. ASSUME NEW d, d # s[k] PROVE Contains(t, d) <=> Contains(s, d)
    <2>1. ASSUME NEW i \in 1..l, s[i] = d PROVE \E j \in 1..(l - 1) : t[j] = d
        <3>1. i # k
            BY <1>8, <2>1
        <3>2. back(i) \in 1..(l - 1) /\ t[back(i)] = d
            BY <1>2, <1>3, <2>1, <3>1
        <3> QED BY <3>2
    <2>2. ASSUME NEW j \in 1..(l - 1), t[j] = d PROVE \E i \in 1..l : s[i] = d
        BY <1>2, <2>2
    <2> QED BY <1>1, <2>1, <2>2 DEF Contains
<1> QED BY <1>6, <1>7, <1>8

LEMMA DistinctTail ==
    ASSUME NEW S, NEW s \in Seq(S), Distinct(s), s # <<>>
    PROVE  /\ Tail(s) \in Seq(S) /\ Distinct(Tail(s))
           /\ Head(s) \in S /\ Contains(s, Head(s))
           /\ ~Contains(Tail(s), Head(s))
           /\ \A d : d # Head(s) => (Contains(Tail(s), d) <=> Contains(s, d))
<1>1. /\ Tail(s) \in Seq(S) /\ Len(Tail(s)) = Len(s) - 1 /\ Head(s) = s[1]
      /\ 1 \in 1..Len(s) /\ Head(s) \in S
      /\ \A j \in 1..(Len(s) - 1) : Tail(s)[j] = s[j + 1] /\ ~(j < 1)
    OBVIOUS
<1>2. PICK k \in 1..Len(s) : k = 1
    BY <1>1
<1>3. \A j \in 1..(Len(s) - 1) : Tail(s)[j] = s[IF j < k THEN j ELSE j + 1]
    BY <1>1, <1>2
<1>4. /\ Distinct(Tail(s)) /\ ~Contains(Tail(s), s[k])
      /\ \A d : d # s[k] => (Contains(Tail(s), d) <=> Contains(s, d))
    BY <1>1, <1>3, DistinctWithout
<1>5. Contains(s, Head(s))
    BY <1>1 DEF Contains
<1> QED BY <1>1, <1>2, <1>4, <1>5

\* erase(remove_if): the others stay.
LEMMA DistinctErased ==
    ASSUME NEW S, NEW s \in Seq(S), Distinct(s), NEW c
    PROVE  /\ RemoveFirst(s, c) \in Seq(S) /\ Distinct(RemoveFirst(s, c))
           /\ \A d : d # c =>
                 (Contains(RemoveFirst(s, c), d) <=> Contains(s, d))
<1>1. CASE \E i \in 1..Len(s) : s[i] = c
    <2>1. PICK k \in 1..Len(s) : s[k] = c
        BY <1>1
    <2>2. {i \in 1..Len(s) : s[i] = c} = {k}
        BY <2>1 DEF Distinct
    <2>3. Min({k}) = k
        <3>1. k \in Int
            OBVIOUS
        <3>2. k \in {k} /\ \A y \in {k} : k <= y
            BY <3>1
        <3> QED BY <3>2 DEF Min
    <2>4. RemoveFirst(s, c) = RemoveAt(s, k)
        BY <1>1, <2>2, <2>3 DEF RemoveFirst, SelectInSeq
    <2>5. /\ RemoveAt(s, k) \in Seq(S) /\ Len(RemoveAt(s, k)) = Len(s) - 1
          /\ \A j \in 1..(Len(s) - 1) :
                RemoveAt(s, k)[j] = s[IF j < k THEN j ELSE j + 1]
        BY DuplexRemoveAt
    <2>6. PICK t : t = RemoveAt(s, k)
        OBVIOUS
    <2>7. /\ t \in Seq(S) /\ Len(t) = Len(s) - 1
          /\ \A j \in 1..(Len(s) - 1) : t[j] = s[IF j < k THEN j ELSE j + 1]
        BY <2>5, <2>6
    <2>8. /\ Distinct(t)
          /\ \A d : d # s[k] => (Contains(t, d) <=> Contains(s, d))
        BY <2>7, DistinctWithout
    <2> QED BY <2>1, <2>4, <2>6, <2>7, <2>8
<1>2. CASE ~ \E i \in 1..Len(s) : s[i] = c
    <2>1. RemoveFirst(s, c) = s
        BY <1>2 DEF RemoveFirst
    <2> QED BY <2>1
<1> QED BY <1>1, <1>2

-----------------------------------------------------------------------------
(* Every client that stays gets every message.                             *)

\* What NothingLost rests on: no connection is in the vector, or still to be written to,
\* twice, and a channel that no write was cut in holds whole frames only.
InStep(ch) == ch.cut \/ ch.junk = 0

DuplexInv ==
    /\ NothingLost
    /\ Distinct(connections) /\ Distinct(writing)
    /\ \A c \in Clients : InStep(down[c])

\* How many publishes wait.
Count(s) == Cardinality(Positions(s))

LEMMA CountProperties ==
    /\ \A s \in Seq(DuplexTasks) : Count(s) \in Nat
    /\ \A s \in Seq(DuplexTasks), t \in DuplexTasks :
          Count(Append(s, t)) = Count(s) + (IF t = PublishTask THEN 1 ELSE 0)
    /\ \A s \in Seq(DuplexTasks) : s # <<>> =>
          Count(Tail(s)) = Count(s) - (IF Head(s) = PublishTask THEN 1 ELSE 0)
BY PositionsFinite, PositionsAppend, PositionsTail DEF Count

\* A message that client c has yet to get from its connection.
Due(s, c) == IF Contains(s, c) THEN 1 ELSE 0

\* What a client that stays has, is on its way to, or is still to be sent.
Accounted(c) == down[c].cut \/ got[c] + down[c].whole + Count(strand) + Due(writing, c) = heard

LEMMA InNumbers ==
    NothingLost <=>
        /\ DuplexTypeOK
        /\ \A c \in Clients : line[c] = "up" => Contains(connections, c) /\ Accounted(c)
BY DEF NothingLost, Waiting, Count, Positions, Due, Accounted

LEMMA InNumbersNext ==
    ASSUME DuplexTypeOK',
           \A c \in Clients : line'[c] = "up" =>
               /\ Contains(connections', c)
               /\ \/ down'[c].cut
                  \/ got'[c] + down'[c].whole + Count(strand') + Due(writing', c) = heard',
           Distinct(connections'), Distinct(writing'),
           \A c \in Clients : InStep(down'[c])
    PROVE  DuplexInv'
<1>1. NothingLost'
    BY DEF NothingLost, Waiting, Contains, Count, Positions, Due
<1> QED BY <1>1 DEF DuplexInv, Distinct, InStep

LEMMA DuplexTyped ==
    ASSUME DuplexTypeOK
    PROVE  /\ connections \in Seq(Clients) /\ writing \in Seq(Clients)
           /\ strand \in Seq(DuplexTasks) /\ Count(strand) \in Nat /\ heard \in Nat
           /\ \A c \in Clients : /\ got[c] \in Nat /\ down[c] \in Channel /\ up[c] \in Channel
                                 /\ line[c] \in {"up", "dropped", "closed"}
<1>1. /\ connections \in Seq(Clients) /\ writing \in Seq(Clients) /\ heard \in Nat
      /\ strand \in Seq(DuplexTasks)
      /\ up \in [Clients -> Channel] /\ down \in [Clients -> Channel]
      /\ got \in [Clients -> Nat] /\ line \in [Clients -> {"up", "dropped", "closed"}]
    BY DEF DuplexTypeOK, DuplexTasks
<1>2. \A c \in Clients : /\ got[c] \in Nat /\ down[c] \in Channel /\ up[c] \in Channel
                         /\ line[c] \in {"up", "dropped", "closed"}
    BY <1>1
<1> QED BY <1>1, <1>2, CountProperties

\* A write puts one frame more on its way, or a cut.
LEMMA ChannelWritten ==
    ASSUME NEW c \in Clients, NEW ch \in Channel, InStep(ch), Free(c, ch) > 0
    PROVE  /\ Written(c, ch) \in Channel /\ InStep(Written(c, ch))
           /\ ~Written(c, ch).cut => ~ch.cut /\ Written(c, ch).whole = ch.whole + 1
<1>1. ch.whole \in Nat /\ ch.junk \in Nat /\ ch.cut \in BOOLEAN
    BY DEF Channel
<1>2. /\ ch = [whole |-> ch.whole, junk |-> ch.junk, cut |-> ch.cut]
      /\ FrameSize \in Nat /\ Capacity[c] \in Nat
    BY SizesAssumption DEF Channel
<1>3. ch.whole * FrameSize \in Nat
    BY ONLY <1>1, <1>2
<1>4. Free(c, ch) \in Int
    BY <1>1, <1>2, <1>3 DEF Free
<1>5. PICK r \in Nat : r = Free(c, ch)
    BY <1>4
<1>6. CASE Free(c, ch) >= FrameSize /\ ch.cut
    <2>1. Written(c, ch) = [ch EXCEPT !.junk = @ + FrameSize]
        BY <1>6 DEF Written
    <2> QED BY <1>1, <1>2, <1>6, <2>1 DEF Channel, InStep
<1>7. CASE Free(c, ch) >= FrameSize /\ ~ch.cut
    <2>1. Written(c, ch) = [ch EXCEPT !.whole = @ + 1]
        BY <1>7 DEF Written
    <2> QED BY <1>1, <1>2, <1>7, <2>1 DEF Channel, InStep
<1>8. CASE ~(Free(c, ch) >= FrameSize)
    <2>1. Written(c, ch) = [ch EXCEPT !.junk = @ + r, !.cut = TRUE]
        BY <1>5, <1>8 DEF Written
    <2>2. ch.junk + r \in Nat
        BY <1>1, <1>5
    <2>3. Written(c, ch) = [whole |-> ch.whole, junk |-> ch.junk + r, cut |-> TRUE]
        BY <1>2, <2>1
    <2> QED BY <1>1, <2>2, <2>3 DEF Channel, InStep
<1> QED BY <1>6, <1>7, <1>8

\* A write in a direction of which nothing else is asked.
LEMMA ChannelTyped ==
    ASSUME NEW c \in Clients, NEW ch \in Channel, Free(c, ch) > 0
    PROVE  Written(c, ch) \in Channel
<1>1. ch.whole \in Nat /\ ch.junk \in Nat /\ ch.cut \in BOOLEAN
    BY DEF Channel
<1>2. /\ ch = [whole |-> ch.whole, junk |-> ch.junk, cut |-> ch.cut]
      /\ FrameSize \in Nat /\ Capacity[c] \in Nat
    BY SizesAssumption DEF Channel
<1>3. ch.whole * FrameSize \in Nat
    BY ONLY <1>1, <1>2
<1>4. Free(c, ch) \in Int
    BY <1>1, <1>2, <1>3 DEF Free
<1>5. PICK r \in Nat : r = Free(c, ch)
    BY <1>4
<1>6. /\ ch.whole + 1 \in Nat /\ ch.junk + FrameSize \in Nat /\ ch.junk + r \in Nat
    BY <1>1, <1>2
<1> QED BY <1>1, <1>2, <1>5, <1>6 DEF Written, Channel

\* A read takes one frame, or bytes behind a cut.
LEMMA ChannelRead ==
    ASSUME NEW ch \in Channel, NEW r \in Reads(ch)
    PROVE  /\ r[1] \in Channel /\ r[1].cut = ch.cut
           /\ r[2] \in {"part", "message", "refused"}
           /\ InStep(ch) => InStep(r[1])
           /\ InStep(ch) /\ ~ch.cut => r[2] = "message" /\ r[1].whole + 1 = ch.whole
<1>1. ch.whole \in Nat /\ ch.junk \in Nat /\ ch.cut \in BOOLEAN
    BY DEF Channel
<1>2. ch = [whole |-> ch.whole, junk |-> ch.junk, cut |-> ch.cut]
    BY DEF Channel
<1>3. CASE ch.whole > 0
    <2>1. r = <<[ch EXCEPT !.whole = @ - 1], "message">>
        BY <1>3 DEF Reads
    <2>2. ch.whole - 1 \in Nat /\ (ch.whole - 1) + 1 = ch.whole
        BY <1>1, <1>3
    <2> QED BY <1>1, <1>2, <2>1, <2>2 DEF Channel, InStep
<1>4. CASE ~(ch.whole > 0)
    <2>1. PICK n \in 1..ch.junk : \E o \in {"part", "message", "refused"} :
              r = <<[ch EXCEPT !.junk = @ - n], o>>
        BY <1>4 DEF Reads
    <2>2. ch.junk - n \in Nat /\ ch.junk # 0
        BY <1>1, <2>1
    <2> QED BY <1>1, <1>2, <2>1, <2>2 DEF Channel, InStep
<1> QED BY <1>3, <1>4

LEMMA InitDuplex == DuplexInit => DuplexInv
<1> SUFFICES ASSUME DuplexInit PROVE DuplexInv
    OBVIOUS
<1> DEFINE D == 1..Cardinality(Clients)
<1>1. /\ IsFiniteSet(Clients) /\ MaxMessages \in [Clients -> Nat]
      /\ Cardinality(Clients) \in Nat
    BY SizesAssumption, FS_CardinalityType
<1>2. connections \in [D -> Clients] /\ \A i, j \in D : i # j => connections[i] # connections[j]
    BY DEF DuplexInit, SetToSeqs
<1>3. connections \in Injection(D, Clients)
    BY <1>2 DEF Injection, IsInjective
<1>4. connections \in Surjection(D, Clients)
    <2>1. IsFiniteSet(D) /\ Cardinality(D) = Cardinality(Clients)
        <3>1. PICK n \in Nat : n = Cardinality(Clients)
            BY <1>1
        <3>2. IsFiniteSet(1..n) /\ Cardinality(1..n) = n
            BY <3>1, FS_Interval
        <3> QED BY <3>1, <3>2
    <2> QED BY <1>1, <1>3, <2>1, FS_Injection
<1>5. connections \in Seq(Clients) /\ Len(connections) = Cardinality(Clients)
    BY <1>1, <1>2
<1>6. \A c \in Clients : Contains(connections, c)
    BY <1>4, <1>5 DEF Surjection, Contains
<1>7. Distinct(connections)
    BY <1>2, <1>5 DEF Distinct
<1>8. strand = <<>> /\ writing = <<>> /\ heard = 0
    BY DEF DuplexInit
<1>9. DuplexTypeOK
    <2>1. strand \in Seq(DuplexTasks) /\ writing \in Seq(Clients)
        BY <1>8
    <2>2. Empty \in Channel
        BY DEF Empty, Channel
    <2> QED BY <1>1, <1>5, <2>1, <2>2 DEF DuplexInit, DuplexTypeOK, DuplexTasks
<1>10. ASSUME NEW c \in Clients
       PROVE  Accounted(c) /\ InStep(down[c])
    <2>1. Positions(strand) = {}
        BY <1>8 DEF Positions
    <2>2. Count(strand) = 0 /\ Due(writing, c) = 0
        BY <1>8, <2>1, FS_EmptySet DEF Count, Due, Contains
    <2>3. got[c] = 0 /\ down[c].whole = 0 /\ down[c].junk = 0
        BY DEF DuplexInit, Empty
    <2> QED BY <1>8, <2>2, <2>3 DEF Accounted, InStep
<1>11. Distinct(writing)
    BY <1>8 DEF Distinct
<1> QED BY <1>6, <1>7, <1>9, <1>10, <1>11, InNumbers DEF DuplexInv

\* The server reads: it hears a message and one publish more waits, or it hears none
\* and at most a disconnect waits.
LEMMA DuplexServerRead ==
    ASSUME DuplexInv, NEW c \in Clients,
           ServerRead(c) \/ ServerReadEnd(c)
    PROVE  DuplexInv'
<1>1. DuplexTypeOK /\ Distinct(connections) /\ Distinct(writing)
    BY InNumbers DEF DuplexInv
<1>2. /\ strand \in Seq(DuplexTasks) /\ Count(strand) \in Nat /\ heard \in Nat
      /\ \A d \in Clients : got[d] \in Nat /\ down[d] \in Channel /\ up[d] \in Channel
      /\ up \in [Clients -> Channel] /\ reading \in [Clients -> BOOLEAN]
    BY <1>1, DuplexTyped DEF DuplexTypeOK
<1>3. PublishTask \in DuplexTasks /\ Disconnect(c) \in DuplexTasks /\ Disconnect(c) # PublishTask
    BY PublishIsNone DEF DuplexTasks
<1>4. /\ UNCHANGED <<connections, writing, down, todo, busy, deaf, got, line>>
      /\ up' \in [Clients -> Channel] /\ reading' \in [Clients -> BOOLEAN]
      /\ \/ strand' = strand /\ heard' = heard
         \/ strand' = Append(strand, PublishTask) /\ heard' = heard + 1
         \/ strand' = Append(strand, Disconnect(c)) /\ heard' = heard
    <2>1. CASE ServerRead(c)
        <3>1. PICK r \in Reads(up[c]) :
                  /\ up' = [up EXCEPT ![c] = r[1]]
                  /\ heard' = heard + (IF r[2] = "message" THEN 1 ELSE 0)
                  /\ reading' = [reading EXCEPT ![c] = r[2] # "refused"]
                  /\ strand' = CASE r[2] = "part"    -> strand
                                 [] r[2] = "message" -> Append(strand, PublishTask)
                                 [] r[2] = "refused" -> Append(strand, Disconnect(c))
            BY <2>1 DEF ServerRead
        <3>2. r[1] \in Channel /\ r[2] \in {"part", "message", "refused"}
            BY <1>2, ChannelRead
        <3>3. up' \in [Clients -> Channel]
            BY <1>2, <3>1, <3>2
        <3>4. reading' \in [Clients -> BOOLEAN]
            BY <1>2, <3>1
        <3>5. /\ r[2] = "part" => strand' = strand /\ heard' = heard + 0
              /\ r[2] = "message" => strand' = Append(strand, PublishTask) /\ heard' = heard + 1
              /\ r[2] = "refused" => strand' = Append(strand, Disconnect(c)) /\ heard' = heard + 0
            BY <3>1
        <3>6. heard + 0 = heard
            BY <1>2
        <3> QED BY <2>1, <3>2, <3>3, <3>4, <3>5, <3>6 DEF ServerRead, client
    <2>2. CASE ServerReadEnd(c)
        BY <1>2, <2>2 DEF ServerReadEnd, client
    <2> QED BY <2>1, <2>2
<1>5. PICK n \in {0, 1} :
          strand' \in Seq(DuplexTasks) /\ Count(strand') = Count(strand) + n /\ heard' = heard + n
    <2>1. CASE strand' = strand /\ heard' = heard
        BY <1>2, <2>1
    <2>2. CASE strand' = Append(strand, PublishTask) /\ heard' = heard + 1
        BY <1>2, <1>3, <2>2, CountProperties
    <2>3. CASE strand' = Append(strand, Disconnect(c)) /\ heard' = heard
        <3>1. /\ strand' \in Seq(DuplexTasks)
              /\ Count(strand') = Count(strand) + (IF Disconnect(c) = PublishTask THEN 1 ELSE 0)
            BY <1>2, <1>3, <2>3, CountProperties
        <3> QED BY <1>2, <1>3, <2>3, <3>1
    <2> QED BY <1>4, <2>1, <2>2, <2>3
<1>6. DuplexTypeOK'
    <2>1. heard' \in Nat
        BY <1>2, <1>5
    <2> QED BY <1>1, <1>4, <1>5, <2>1 DEF DuplexTypeOK, DuplexTasks
<1>7. ASSUME NEW d \in Clients, line'[d] = "up"
      PROVE  /\ Contains(connections', d)
             /\ \/ down'[d].cut
                \/ got'[d] + down'[d].whole + Count(strand') + Due(writing', d) = heard'
    <2>1. Contains(connections, d) /\ Accounted(d)
        BY <1>4, <1>7, InNumbers DEF DuplexInv
    <2>2. /\ connections' = connections /\ got'[d] = got[d] /\ down'[d] = down[d]
          /\ Due(writing', d) = Due(writing, d)
        BY <1>4
    <2>3. CASE down[d].cut
        BY <2>1, <2>2, <2>3
    <2>4. CASE got[d] + down[d].whole + Count(strand) + Due(writing, d) = heard
        <3>1. Due(writing, d) \in Nat /\ got[d] \in Nat /\ down[d].whole \in Nat
            BY <1>2 DEF Due, Channel
        <3>2. n \in Nat /\ Count(strand) \in Nat /\ heard \in Nat
            BY <1>2
        <3>3. got[d] + down[d].whole + (Count(strand) + n) + Due(writing, d) = heard + n
            BY ONLY <2>4, <3>1, <3>2
        <3> QED BY <1>5, <2>1, <2>2, <3>3
    <2> QED BY <2>1, <2>3, <2>4 DEF Accounted
<1>8. \A d \in Clients : InStep(down'[d])
    BY <1>4 DEF DuplexInv
<1>9. Distinct(connections') /\ Distinct(writing')
    BY <1>1, <1>4
<1> QED BY <1>6, <1>7, <1>8, <1>9, InNumbersNext

\* The strand: a publish that begins is due at every connection, and who is erased does
\* not stay.
LEMMA DuplexStrandTask ==
    ASSUME DuplexInv, StrandTask
    PROVE  DuplexInv'
<1> DEFINE t == Head(strand)
<1>1. DuplexTypeOK /\ Distinct(connections)
    BY InNumbers DEF DuplexInv
<1>2. /\ strand \in Seq(DuplexTasks) /\ Count(strand) \in Nat /\ heard \in Nat
      /\ connections \in Seq(Clients) /\ line \in [Clients -> {"up", "dropped", "closed"}]
      /\ \A d \in Clients : got[d] \in Nat /\ down[d] \in Channel
    BY <1>1, DuplexTyped DEF DuplexTypeOK
<1>3. /\ strand # <<>> /\ writing = <<>> /\ strand' = Tail(strand)
      /\ UNCHANGED <<reading, heard, up, down, todo, busy, deaf, got>>
      /\ t = PublishTask => writing' = connections /\ UNCHANGED <<connections, line>>
      /\ t # PublishTask =>
             /\ connections' = RemoveFirst(connections, t.id) /\ writing' = writing
             /\ line' = [line EXCEPT ![t.id] = IF @ = "up" THEN "dropped" ELSE @]
    BY DEF StrandTask, Erased
<1>4. /\ strand' \in Seq(DuplexTasks) /\ t \in DuplexTasks
    BY <1>2, <1>3
<1>5. Count(strand') = Count(strand) - (IF t = PublishTask THEN 1 ELSE 0)
    BY <1>2, <1>3, CountProperties
<1> HIDE DEF t
<1>6. \A d : Due(writing, d) = 0
    BY <1>3 DEF Due, Contains
<1>7. \A d \in Clients : InStep(down'[d])
    BY <1>3 DEF DuplexInv
<1>8. CASE t = PublishTask
    <2>1. writing' = connections /\ connections' = connections /\ line' = line
        BY <1>3, <1>8
    <2>2. DuplexTypeOK'
        BY <1>1, <1>2, <1>3, <1>4, <2>1 DEF DuplexTypeOK, DuplexTasks
    <2>3. ASSUME NEW d \in Clients, line'[d] = "up"
          PROVE  /\ Contains(connections', d)
                 /\ \/ down'[d].cut
                    \/ got'[d] + down'[d].whole + Count(strand') + Due(writing', d) = heard'
        <3>1. Contains(connections, d) /\ Accounted(d)
            BY <2>1, <2>3, InNumbers DEF DuplexInv
        <3>2. Due(writing', d) = 1 /\ Due(writing, d) = 0
            BY <1>6, <2>1, <3>1 DEF Due
        <3>3. /\ got'[d] = got[d] /\ down'[d] = down[d] /\ heard' = heard
              /\ Count(strand') = Count(strand) - 1
            BY <1>3, <1>5, <1>8
        <3>4. got[d] \in Nat /\ down[d].whole \in Nat
            BY <1>2 DEF Channel
        <3>5. CASE ~down[d].cut
            <4>1. got[d] + down[d].whole + Count(strand) + 0 = heard
                BY <3>1, <3>2, <3>5 DEF Accounted
            <4>2. got[d] + down[d].whole + (Count(strand) - 1) + 1 = heard
                BY <1>2, <3>4, <4>1
            <4> QED BY <2>1, <3>1, <3>2, <3>3, <4>2
        <3> QED BY <2>1, <3>1, <3>3, <3>5
    <2> QED BY <1>1, <1>7, <2>1, <2>2, <2>3, InNumbersNext
<1>9. CASE t # PublishTask
    <2>1. PICK c \in Clients : t = Disconnect(c)
        BY <1>4, <1>9 DEF DuplexTasks
    <2>2. t.id = c
        BY <2>1 DEF Disconnect
    <2>3. PICK s : s = RemoveFirst(connections, c)
        OBVIOUS
    <2>4. connections' = s /\ writing' = writing
        BY <1>3, <1>9, <2>2, <2>3
    <2>5. /\ s \in Seq(Clients) /\ Distinct(s)
          /\ \A d : d # c => (Contains(s, d) <=> Contains(connections, d))
        BY <1>1, <1>2, <2>3, DistinctErased
    <2>6. /\ line' \in [Clients -> {"up", "dropped", "closed"}] /\ line'[c] # "up"
          /\ \A d \in Clients : d # c => line'[d] = line[d]
        <3>1. line' = [line EXCEPT ![c] = IF @ = "up" THEN "dropped" ELSE @]
            BY <1>3, <1>9, <2>2
        <3> QED BY <1>2, <3>1
    <2>7. DuplexTypeOK'
        BY <1>1, <1>3, <1>4, <2>4, <2>5, <2>6 DEF DuplexTypeOK, DuplexTasks
    <2>8. ASSUME NEW d \in Clients, line'[d] = "up"
          PROVE  /\ Contains(connections', d)
                 /\ \/ down'[d].cut
                    \/ got'[d] + down'[d].whole + Count(strand') + Due(writing', d) = heard'
        <3>1. d # c /\ Contains(connections, d) /\ Accounted(d)
            BY <2>6, <2>8, InNumbers DEF DuplexInv
        <3>2. Count(strand') = Count(strand)
            BY <1>2, <1>5, <1>9
        <3> QED BY <1>3, <2>4, <2>5, <3>1, <3>2 DEF Accounted
    <2>9. Distinct(connections') /\ Distinct(writing')
        BY <2>4, <2>5 DEF DuplexInv
    <2> QED BY <1>7, <2>7, <2>8, <2>9, InNumbersNext
<1> QED BY <1>8, <1>9

\* A write: what was due at a client is on its way, or its connection is cut, and nothing
\* is due at one that has ended.
LEMMA DuplexServerWrite ==
    ASSUME DuplexInv, ServerWrite
    PROVE  DuplexInv'
<1> DEFINE c == Head(writing)
<1>1. DuplexTypeOK /\ Distinct(connections) /\ Distinct(writing)
    BY InNumbers DEF DuplexInv
<1>2. /\ Count(strand) \in Nat /\ heard \in Nat /\ writing \in Seq(Clients) /\ writing # <<>>
      /\ \A d \in Clients : /\ got[d] \in Nat /\ down[d] \in Channel
                            /\ line[d] \in {"up", "dropped", "closed"}
      /\ down \in [Clients -> Channel]
    BY <1>1, DuplexTyped DEF ServerWrite, DuplexTypeOK
<1>3. /\ writing' = Tail(writing)
      /\ \/ line[c] = "closed" /\ down' = down
         \/ /\ line[c] = "up" /\ Free(c, down[c]) > 0
            /\ down' = [down EXCEPT ![c] = Written(c, @)]
      /\ UNCHANGED <<connections, reading, strand, heard, up, todo, busy, deaf, got, line>>
    BY DEF ServerWrite, WriteFails, client
<1>4. /\ Tail(writing) \in Seq(Clients) /\ Distinct(Tail(writing))
      /\ c \in Clients /\ Due(writing, c) = 1 /\ Due(Tail(writing), c) = 0
      /\ \A d : d # c => Due(Tail(writing), d) = Due(writing, d)
    BY <1>1, <1>2, DistinctTail DEF Due
<1> HIDE DEF c
<1>5. /\ down' \in [Clients -> Channel] /\ \A d \in Clients : InStep(down'[d])
      /\ \A d \in Clients : d # c => down'[d] = down[d]
      /\ line[c] = "up" /\ ~down'[c].cut =>
             ~down[c].cut /\ down'[c].whole = down[c].whole + 1
    <2>1. \A d \in Clients : InStep(down[d])
        BY DEF DuplexInv
    <2>2. CASE down' = down /\ line[c] = "closed"
        BY <1>2, <2>1, <2>2
    <2>3. CASE Free(c, down[c]) > 0 /\ down' = [down EXCEPT ![c] = Written(c, @)]
        <3>1. PICK ch \in Channel : ch = down[c]
            BY <1>2, <1>4
        <3>2. PICK w : w = Written(c, ch)
            OBVIOUS
        <3>3. /\ w \in Channel /\ InStep(w)
              /\ ~w.cut => ~ch.cut /\ w.whole = ch.whole + 1
            BY <1>4, <2>1, <2>3, <3>1, <3>2, ChannelWritten
        <3>4. down' = [down EXCEPT ![c] = w]
            BY <2>3, <3>1, <3>2
        <3>5. down'[c] = w /\ \A d \in Clients : d # c => down'[d] = down[d]
            BY <1>2, <1>4, <3>4
        <3>6. down' \in [Clients -> Channel]
            BY <1>2, <3>3, <3>4
        <3> QED BY <2>1, <3>1, <3>3, <3>5, <3>6
    <2> QED BY <1>3, <2>2, <2>3
<1>6. DuplexTypeOK'
    BY <1>1, <1>3, <1>4, <1>5 DEF DuplexTypeOK
<1>7. ASSUME NEW d \in Clients, line'[d] = "up"
      PROVE  /\ Contains(connections', d)
             /\ \/ down'[d].cut
                \/ got'[d] + down'[d].whole + Count(strand') + Due(writing', d) = heard'
    <2>1. Contains(connections, d) /\ Accounted(d) /\ line[d] = "up"
        BY <1>3, <1>7, InNumbers DEF DuplexInv
    <2>2. CASE d = c /\ ~down'[d].cut
        <3>1. ~down[d].cut /\ down'[d].whole = down[d].whole + 1
            BY <1>5, <2>1, <2>2
        <3>2. got[d] + down[d].whole + Count(strand) + 1 = heard
            BY <1>4, <2>1, <2>2, <3>1 DEF Accounted
        <3>3. got[d] \in Nat /\ down[d].whole \in Nat /\ Count(strand) \in Nat /\ heard \in Nat
            BY <1>2 DEF Channel
        <3>4. got[d] + (down[d].whole + 1) + Count(strand) + 0 = heard
            BY ONLY <3>2, <3>3
        <3> QED BY <1>3, <1>4, <2>1, <2>2, <3>1, <3>4
    <2>3. CASE d # c
        <3>1. down'[d] = down[d] /\ Due(writing', d) = Due(writing, d)
            BY <1>3, <1>4, <1>5, <2>3
        <3> QED BY <1>3, <2>1, <3>1 DEF Accounted
    <2> QED BY <1>3, <2>1, <2>2, <2>3
<1>8. Distinct(connections') /\ Distinct(writing')
    BY <1>1, <1>3, <1>4
<1> QED BY <1>5, <1>6, <1>7, <1>8, InNumbersNext

\* A client publishes, writes, reads, or ends.
LEMMA DuplexClient ==
    ASSUME DuplexInv, NEW c \in Clients,
           Client(c) \/ ClientClose(c)
    PROVE  DuplexInv'
<1>1. DuplexTypeOK /\ Distinct(connections) /\ Distinct(writing)
    BY InNumbers DEF DuplexInv
<1>2. /\ Count(strand) \in Nat /\ heard \in Nat
      /\ \A d \in Clients : got[d] \in Nat /\ down[d] \in Channel /\ up[d] \in Channel
      /\ \A d \in Clients : InStep(down[d])
      /\ up \in [Clients -> Channel] /\ down \in [Clients -> Channel]
      /\ todo \in [Clients -> Nat] /\ got \in [Clients -> Nat] /\ deaf \in [Clients -> BOOLEAN]
      /\ busy \in [Clients -> BOOLEAN] /\ line \in [Clients -> {"up", "dropped", "closed"}]
    BY <1>1, DuplexTyped DEF DuplexTypeOK, DuplexInv
<1>3. UNCHANGED <<connections, reading, strand, writing, heard>>
    BY DEF Client, ClientPublish, ClientWrite, ClientRead, ClientDisconnect,
           ClientClose, Closed, server
\* What DuplexInv needs of the step.
<1>4. SUFFICES /\ todo' \in [Clients -> Nat] /\ busy' \in [Clients -> BOOLEAN]
               /\ deaf' \in [Clients -> BOOLEAN]
               /\ up' \in [Clients -> Channel] /\ down' \in [Clients -> Channel]
               /\ got' \in [Clients -> Nat]
               /\ line' \in [Clients -> {"up", "dropped", "closed"}]
               /\ \A d \in Clients :
                     /\ InStep(down'[d])
                     /\ line'[d] = "up" =>
                           /\ line[d] = "up" /\ down'[d].cut = down[d].cut
                           /\ \/ down[d].cut
                              \/ got'[d] + down'[d].whole = got[d] + down[d].whole
    <2>1. DuplexTypeOK'
        BY <1>1, <1>3, <1>4 DEF DuplexTypeOK
    <2>2. ASSUME NEW d \in Clients, line'[d] = "up"
          PROVE  /\ Contains(connections', d)
                 /\ \/ down'[d].cut
                    \/ got'[d] + down'[d].whole + Count(strand') + Due(writing', d) = heard'
        <3>1. Contains(connections, d) /\ Accounted(d)
            BY <1>4, <2>2, InNumbers DEF DuplexInv
        <3>2. /\ down'[d].cut = down[d].cut
              /\ down[d].cut \/ got'[d] + down'[d].whole = got[d] + down[d].whole
            BY <1>4, <2>2
        <3> QED BY <1>3, <3>1, <3>2 DEF Accounted
    <2>3. Distinct(connections') /\ Distinct(writing')
        BY <1>1, <1>3
    <2> QED BY <1>4, <2>1, <2>2, <2>3, InNumbersNext
<1>5. CASE ClientPublish(c)
    <2>1. todo[c] - 1 \in Nat
        BY <1>2, <1>5 DEF ClientPublish
    <2> QED BY <1>2, <1>5, <2>1 DEF ClientPublish
<1>6. CASE ClientWrite(c)
    <2>1. up' \in [Clients -> Channel]
        <3>1. up[c] \in Channel /\ (Free(c, up[c]) > 0 => Written(c, up[c]) \in Channel)
            BY <1>2, ChannelTyped
        <3> QED BY <1>2, <1>6, <3>1 DEF ClientWrite
    <2> QED BY <1>2, <1>6, <2>1 DEF ClientWrite
<1>7. CASE ClientRead(c)
    <2>1. PICK r \in Reads(down[c]) :
              /\ down' = [down EXCEPT ![c] = r[1]]
              /\ got' = [got EXCEPT ![c] = @ + IF r[2] = "message" THEN 1 ELSE 0]
              /\ deaf' = [deaf EXCEPT ![c] = r[2] = "refused"]
        BY <1>7 DEF ClientRead
    <2>2. UNCHANGED <<up, todo, busy, line>>
        BY <1>7 DEF ClientRead
    <2>3. /\ r[1] \in Channel /\ r[1].cut = down[c].cut /\ InStep(r[1])
          /\ ~down[c].cut => r[2] = "message" /\ r[1].whole + 1 = down[c].whole
        BY <1>2, ChannelRead
    <2>4. PICK n \in {0, 1} : n = IF r[2] = "message" THEN 1 ELSE 0
        OBVIOUS
    <2>5. got' = [got EXCEPT ![c] = @ + n]
        BY <2>1, <2>4
    <2>6. down' \in [Clients -> Channel] /\ deaf' \in [Clients -> BOOLEAN]
        BY <1>2, <2>1, <2>3
    <2>7. got' \in [Clients -> Nat] /\ got'[c] = got[c] + n
        BY <1>2, <2>4, <2>5
    <2>8. down'[c] = r[1]
        BY <1>2, <2>1
    <2>9. ~down[c].cut => got'[c] + down'[c].whole = got[c] + down[c].whole
        <3>1. CASE ~down[c].cut
            <4>1. n = 1 /\ r[1].whole + 1 = down[c].whole
                BY <2>3, <2>4, <3>1
            <4>2. r[1].whole \in Nat /\ got[c] \in Nat
                BY <1>2, <2>3 DEF Channel
            <4>3. (got[c] + 1) + r[1].whole = got[c] + (r[1].whole + 1)
                BY ONLY <4>2
            <4> QED BY <2>7, <2>8, <4>1, <4>3
        <3> QED BY <3>1
    <2>10. \A d \in Clients : d # c => down'[d] = down[d] /\ got'[d] = got[d]
        BY <1>2, <2>1, <2>5
    <2> QED BY <1>2, <2>2, <2>3, <2>6, <2>7, <2>8, <2>9, <2>10
<1>8. CASE Closed(c)
    <2>1. /\ line' = [line EXCEPT ![c] = "closed"] /\ todo' = [todo EXCEPT ![c] = 0]
          /\ busy' = [busy EXCEPT ![c] = FALSE] /\ down' = [down EXCEPT ![c] = Empty]
          /\ UNCHANGED <<deaf, got>>
        BY <1>8 DEF Closed
    <2>2. PICK ch \in {Empty, up[c]} : up' = [up EXCEPT ![c] = ch]
        BY <1>8 DEF Closed
    <2>3. Empty \in Channel /\ ch \in Channel /\ InStep(Empty)
        <3>1. Empty \in Channel /\ InStep(Empty)
            BY DEF Empty, Channel, InStep
        <3> QED BY <1>2, <2>2, <3>1
    <2>4. up' \in [Clients -> Channel] /\ down' \in [Clients -> Channel]
        BY <1>2, <2>1, <2>2, <2>3
    <2>5. \A d \in Clients : InStep(down'[d]) /\ (d # c => down'[d] = down[d] /\ line'[d] = line[d])
        BY <1>2, <2>1, <2>3
    <2>6. line'[c] = "closed" /\ line' \in [Clients -> {"up", "dropped", "closed"}]
        BY <1>2, <2>1
    <2>7. todo' \in [Clients -> Nat] /\ busy' \in [Clients -> BOOLEAN]
        BY <1>2, <2>1
    <2> QED BY <1>2, <2>1, <2>4, <2>5, <2>6, <2>7
<1> QED BY <1>5, <1>6, <1>7, <1>8 DEF Client, ClientClose, ClientDisconnect

LEMMA DuplexStutters == ASSUME DuplexInv, UNCHANGED duplexVars PROVE DuplexInv'
<1>1. UNCHANGED <<connections, reading, strand, writing, heard, up, down, todo, busy, deaf,
                  got, line>>
    BY DEF duplexVars, server, client
<1>2. DuplexTypeOK'
    BY <1>1, InNumbers DEF DuplexInv, DuplexTypeOK
<1>3. \A d \in Clients : line'[d] = "up" =>
          /\ Contains(connections', d)
          /\ \/ down'[d].cut
             \/ got'[d] + down'[d].whole + Count(strand') + Due(writing', d) = heard'
    BY <1>1, InNumbers DEF DuplexInv, Accounted
<1>4. /\ Distinct(connections') /\ Distinct(writing')
      /\ \A d \in Clients : InStep(down'[d])
    BY <1>1 DEF DuplexInv
<1> QED BY <1>2, <1>3, <1>4, InNumbersNext

\* Every client that stays connected, and to which no write was cut, is sent every message
\* the server hears once, with any number of clients that come to their end or are cut
\* meanwhile, and any buffers.
THEOREM DuplexLosesNothing == DuplexSpec => []NothingLost
<1>1. DuplexInit => DuplexInv
    BY InitDuplex
<1>2. DuplexInv /\ [DuplexNext]_duplexVars => DuplexInv'
    BY DuplexServerRead, DuplexStrandTask, DuplexServerWrite, DuplexClient, DuplexStutters
       DEF DuplexNext, Server
<1>3. DuplexInv => NothingLost
    BY DEF DuplexInv
<1> QED BY <1>1, <1>2, <1>3, PTL DEF DuplexSpec
=============================================================================
