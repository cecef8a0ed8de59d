------------------------------ MODULE Gateway ------------------------------
(***************************************************************************)
(* The gateway, src/src/gateway/create.cpp, over a Self service and other  *)
(* services that keep the contract of EventContract.                       *)
(*                                                                         *)
(* Each service runs on a thread of its own.  A callback of a service is   *)
(* forwarded: it posts a copy to the gateway's io_context, whose threads   *)
(* call the gateway's handlers.  In the other direction publish,           *)
(* publish_ex and send call the same method of every service, one after    *)
(* the other, on the caller's thread.                                      *)
(*                                                                         *)
(* IDs pass through unchanged: they hold the address of a connection that  *)
(* the service frees when it disconnects.                                  *)
(***************************************************************************)
EXTENDS Self, SequencesExt

CONSTANTS Services,  \* the other services
          Conns,     \* addresses of their connections
          Threads,   \* how many threads run the gateway
          MaxQueue   \* bound: the services call back only when fewer of their events are not handled

ASSUME GatewayAssumption == Threads \in Nat \ {0} /\ MaxQueue \in Nat

\* Self is none of the other services, nor its ID, which holds addresses, one of theirs.
ASSUME SelfApart == Self \notin Services /\ Self \notin Services \X Conns

VARIABLES
    services,  \* what add_service was called with, in order
    running,   \* the services that run
    open,      \* each other service's connections
    queue,     \* what waits in the gateway's io_context
    active,    \* what its threads are calling handlers for, oldest first
    reported,  \* IDs the gateway's handlers have been told to be connected
    report,    \* the gateway's last callback
    stopped,   \* io_context::stop was called
    rounds,    \* restart() calls
    fan,       \* the call of publish, publish_ex or send that runs, and how far
    posts,     \* how many such calls there were
    owed       \* history: the calls, by number, that concern Self and have not come back

parts  == <<services, running, open>>
events == <<queue, active>>
told   == <<reported, report>>
calls  == <<fan, posts, owed>>
loop   == <<stopped, rounds>>
vars   == <<selfVars, parts, events, told, calls, loop>>

-----------------------------------------------------------------------------
Remotes == Services \X Conns
Ids     == Remotes \cup {Self}

Events == {<<"ready", s>> : s \in Services \cup {Self}}
            \cup {<<kind, id>> : kind \in {"connect", "disconnect"}, id \in Ids}
            \cup {<<"message", id>> : id \in Remotes}
            \cup {<<"message", Self, n>> : n \in 1..MaxPosts}
            \cup {<<"task">>}

Idle == [post |-> <<>>, at |-> 0]

Added(s) == s \in Range(services)

\* The first round: neither the gateway nor Self was restarted.
FirstRound == rounds = 0 /\ selfRounds = 0

\* A callback as the contract knows it: without payload, on_ready without its ID.
Brief(e) == CASE e[1] = "ready" -> <<"ready">>
              [] Len(e) = 3     -> <<e[1], e[2]>>
              [] OTHER          -> e

Contract == INSTANCE EventContract WITH open <- reported,
                                       round <- rounds,
                                       event <- Brief(report)

Init == /\ SelfInit
        /\ services = <<>>
        /\ running = {}
        /\ open = [s \in Services |-> {}]
        /\ queue = <<>>
        /\ active = <<>>
        /\ reported = {}
        /\ report = <<"none">>
        /\ stopped = FALSE
        /\ rounds = 0
        /\ fan = Idle
        /\ posts = 0
        /\ owed = {}

-----------------------------------------------------------------------------
(* The services.                                                           *)

\* Mutant: the on_connect of a service is not subscribed to.
ForwardNoConnect(callbacks) ==
    queue' = queue \o SelectSeq(callbacks, LAMBDA e : e[1] # "connect")

\* Mutant: the on_disconnect of a service is not subscribed to.
ForwardNoDisconnect(callbacks) ==
    queue' = queue \o SelectSeq(callbacks, LAMBDA e : e[1] # "disconnect")

\* Mutant: an event overtakes those that wait.
ForwardFirst(callbacks) == queue' = callbacks \o queue

\* The forwarders, called back by a service: dispatch() of the handlers' call.
Forward(callbacks) == queue' = queue \o callbacks

Room == Len(active \o queue) < MaxQueue

\* run() of a service that was added; its ready task is the first.
Run(s) == /\ Added(s) /\ s \notin running
          /\ running' = running \cup {s}
          /\ Forward(IF s = Self THEN <<>> ELSE <<<<"ready", s>>>>)
          /\ UNCHANGED <<selfVars, services, open, active, told, calls, loop>>

\* Another service calls back, as its contract allows.
Event(s, kind, c) == /\ s \in running /\ Room
                     /\ Forward(<<<<kind, <<s, c>>>>>>)
                     /\ UNCHANGED <<selfVars, services, running, active, told, calls, loop>>

Connects(s, c)    == /\ c \notin open[s]
                     /\ open' = [open EXCEPT ![s] = @ \cup {c}]
                     /\ Event(s, "connect", c)
Messages(s, c)    == /\ c \in open[s]
                     /\ UNCHANGED open
                     /\ Event(s, "message", c)
Disconnects(s, c) == /\ c \in open[s]
                     /\ open' = [open EXCEPT ![s] = @ \ {c}]
                     /\ Event(s, "disconnect", c)

SelfRuns == /\ Self \in running /\ Room
            /\ SelfHandler
            /\ Forward(Says(Head(tasks)))
            /\ UNCHANGED <<parts, active, told, calls, loop>>

\* The bound of stop/restart rounds, which begin with a stop, over both.
AnotherRound == ~stopped /\ ~halted /\ rounds + selfRounds < MaxRestarts

SelfHalts == /\ (AnotherRound /\ SelfStop) \/ SelfRestart
             /\ UNCHANGED <<parts, events, told, calls, loop>>

-----------------------------------------------------------------------------
(* The gateway's threads.                                                  *)

Take == /\ ~stopped /\ queue # <<>> /\ Len(active) < Threads
        /\ queue' = Tail(queue)
        /\ active' = Append(active, Head(queue))
        /\ UNCHANGED <<selfVars, parts, told, calls, loop>>

\* What a listener makes of a callback.
Seen(ids, e) == CASE e[1] = "connect"    -> ids \cup {e[2]}
                  [] e[1] = "disconnect" -> ids \ {e[2]}
                  [] OTHER               -> ids

\* invoke_event_handlers, invoke_message_handlers, or a dispatched task: the
\* handlers have been called and the thread is free.
Done(i) == LET e == active[i] IN
           /\ active' = RemoveAt(active, i)
           /\ reported' = Seen(reported, e)
           /\ report' = IF e[1] = "task" THEN report ELSE e
           /\ owed' = IF Len(e) = 3 THEN owed \ {e[3]} ELSE owed
           /\ UNCHANGED <<selfVars, parts, queue, fan, posts, loop>>

-----------------------------------------------------------------------------
(* The application.                                                        *)

\* Subscribing is documented as unsafe on a service that runs; services are added
\* before they run.
AddService(s) == /\ running = {} /\ ~Added(s) /\ fan = Idle
                 /\ services' = Append(services, s)
                 /\ UNCHANGED <<selfVars, running, open, events, told, calls, loop>>

\* publish, publish_ex, send: the loop over the services begins ...
Post(mode, mine) == /\ fan = Idle /\ services # <<>> /\ posts < MaxPosts
                    /\ posts' = posts + 1
                    /\ fan' = [post |-> [kind |-> "post", mode |-> mode,
                                         mine |-> mine, n |-> posts + 1],
                               at |-> 1]
                    /\ UNCHANGED <<selfVars, parts, events, told, owed, loop>>

Publish   == Post("all", FALSE)
PublishEx == \E mine \in BOOLEAN : Post("except", mine)
Send      == \E mine \in BOOLEAN : Post("only", mine)

\* History: what Self has to give back, by the meaning of the three methods.
Concerns(post) == \/ post.mode = "all"
                  \/ post.mode = "except" /\ ~post.mine
                  \/ post.mode = "only" /\ post.mine

\* ... and calls one after the other.  What another service does with a post is in
\* its own module.
FanOut == /\ fan # Idle
          /\ fan' = IF fan.at = Len(services) THEN Idle ELSE [fan EXCEPT !.at = @ + 1]
          /\ IF services[fan.at] = Self
             THEN /\ SelfPost(fan.post)
                  /\ owed' = IF Concerns(fan.post) THEN owed \cup {fan.post.n} ELSE owed
             ELSE UNCHANGED <<selfVars, owed>>
          /\ UNCHANGED <<parts, events, told, posts, loop>>

\* The tasks of dispatch() do nothing here: bound, when no handler waits.
Quiet == active \o queue \o tasks = <<>>

Dispatch == /\ Quiet
            /\ queue' = Append(queue, <<"task">>)
            /\ UNCHANGED <<selfVars, parts, active, told, calls, loop>>

SelfDispatch == /\ Quiet
                /\ SelfPost([kind |-> "task"])
                /\ UNCHANGED <<parts, events, told, calls, loop>>

Stop == /\ AnotherRound
        /\ stopped' = TRUE
        /\ UNCHANGED <<selfVars, parts, events, told, calls, rounds>>

\* restart(), when run() has returned: a new io_context.  Events that wait are gone,
\* and the services do not know.
Restart == /\ stopped /\ active = <<>>
           /\ rounds' = rounds + 1
           /\ stopped' = FALSE
           /\ queue' = <<>>
           /\ UNCHANGED <<selfVars, parts, active, told, calls>>

-----------------------------------------------------------------------------
Handled == Take \/ \E i \in 1..Len(active) : Done(i)

Next == \/ \E s \in Services \cup {Self} : Run(s) \/ AddService(s)
        \/ \E s \in Services, c \in Conns : Connects(s, c) \/ Messages(s, c) \/ Disconnects(s, c)
        \/ SelfRuns \/ SelfHalts \/ SelfDispatch
        \/ Handled
        \/ Publish \/ PublishEx \/ Send
        \/ FanOut \/ Dispatch \/ Stop \/ Restart

Spec == Init /\ [][Next]_vars

\* run() of the gateway and of Self take their handlers in order, and a call of
\* publish goes on.  SF only because of the bound in SelfRuns.
FairSpec == /\ Spec
            /\ WF_vars(Take) /\ WF_vars(active # <<>> /\ Done(1))
            /\ SF_vars(SelfRuns)
            /\ WF_vars(FanOut)

-----------------------------------------------------------------------------
(* Properties.                                                             *)

\* Every variable stays in its type; the one type invariant of the module.
TypeOK == /\ tasks \in Seq(SelfTasks)
          /\ greeted \in BOOLEAN /\ halted \in BOOLEAN
          /\ services \in Seq(Services \cup {Self})
          /\ running \subseteq Services \cup {Self}
          /\ open \in [Services -> SUBSET Conns]
          /\ queue \in Seq(Events)
          /\ active \in Seq(Events) /\ Len(active) <= Threads
          /\ reported \subseteq Ids
          /\ report \in Events \cup {<<"none">>}
          /\ fan = Idle \/ fan \in [post : Posts, at : 1..Len(services)]
          /\ owed \subseteq 1..MaxPosts
          /\ posts \in 0..MaxPosts
          /\ stopped \in BOOLEAN
          /\ rounds \in Nat /\ selfRounds \in Nat

\* What the services have open.
OpenIds == {id \in Remotes : id[2] \in open[id[1]]} \cup (IF greeted THEN {Self} ELSE {})

\* The callbacks on their way, in the order in which they will arrive.
Line == active \o queue

\* A listener that knows ids will know id after the first n callbacks of line.
Knows(ids, line, n, id) ==
    \/ /\ id \in ids
       /\ \A i \in 1..n : line[i] # <<"disconnect", id>>
    \/ \E i \in 1..n : /\ line[i] = <<"connect", id>>
                       /\ \A j \in (i + 1)..n : line[j] # <<"disconnect", id>>

\* The hazard of a view of the connections that is carried by events over a second
\* io_context: what the listener knows, with the events on their way, is what the
\* services have.  For one thread; several can finish callbacks in any order.  The
\* gateway's restart() loses events, and Self's goes unreported.
CatchesUp ==
    /\ TypeOK
    /\ rounds = 0 =>
          \A id \in Remotes : Knows(reported, Line, Len(Line), id) <=> id \in OpenIds
    /\ FirstRound => (Knows(reported, Line, Len(Line), Self) <=> greeted)

\* Where the echoes are: on their way to the listener, or not yet called back.
Echoes    == {i \in 1..Len(Line) : Len(Line[i]) = 3}
Returning == {i \in 1..Len(tasks) : tasks[i].kind = "post" /\ Reaches(tasks[i])}
Carried   == {Line[i][3] : i \in Echoes} \cup {tasks[i].n : i \in Returning}

\* What is published through the gateway comes back from Self once and in the order of
\* the calls, over the caller's loop, Self's queue and the gateway's; publish_ex
\* and send hold back what is not for it.  A restart loses echoes, but neither
\* repeats nor reorders them.
EchoesInOrder ==
    /\ \A i, j \in Echoes : i < j => Line[i][3] < Line[j][3]
    /\ \A i, j \in Returning : i < j => tasks[i].n < tasks[j].n
    /\ \A i \in Echoes, j \in Returning : Line[i][3] < tasks[j].n
    /\ Threads = 1 /\ Len(report) = 3 => \A n \in Carried : report[3] < n
    /\ Carried \subseteq owed
    /\ FirstRound => Carried = owed

\* A gateway over services that keep the contract keeps it too, until something is
\* restarted: restart() drops events whose IDs the services go on using.
ContractHolds ==
    /\ Contract!Init
    /\ [][FirstRound' => Contract!Next]_Contract!vars

\* A connection is reported by the gateway, and an echo comes, unless it ends, or
\* something is stopped or restarted.
EventsArrive ==
    LET ended == stopped \/ halted \/ ~FirstRound IN
    /\ \A id \in Ids : id \in OpenIds ~> id \in reported \/ id \notin OpenIds \/ ended
    /\ \A n \in 1..MaxPosts :
          Self \in running /\ n \in owed ~> n \notin owed \/ ended

\* README: to_string(ID) "is valid only while handling the callback that supplied that
\* id": the connection an ID points to exists during the gateway's callback.
\* (Violated: the service frees it before the gateway calls back.)
IdsAreValid == \A i \in 1..Len(active) :
                  active[i][1] \in {"connect", "message", "disconnect"} =>
                     active[i][2] = Self \/ active[i][2][2] \in open[active[i][2][1]]
=============================================================================
