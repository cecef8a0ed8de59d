-------------------------------- MODULE Self --------------------------------
(***************************************************************************)
(* The loopback service, src/src/self/create.cpp: what is published to it  *)
(* comes back as a message, from the only remote there is, itself.         *)
(*                                                                         *)
(* It owns an io_context; the constructor and restart() queue a greeting,  *)
(* on_ready and on_connect; posts queue behind it.  One thread runs it:    *)
(* a handler with its callbacks is one step.  There is no strand: with     *)
(* more threads in run() the callbacks of two handlers could change        *)
(* places.                                                                 *)
(***************************************************************************)
EXTENDS Naturals, Sequences

CONSTANTS Self,        \* the service's ID
          MaxPosts,    \* bound: calls of publish, publish_ex, send
          MaxRestarts  \* bound: stop/restart rounds

ASSUME SelfAssumption == MaxPosts \in Nat /\ MaxRestarts \in Nat

VARIABLES
    tasks,       \* handlers queued in the io_context, oldest first
    greeted,     \* on_connect was called since the last restart()
    halted,      \* io_context::stop was called
    selfRounds   \* restart() calls

selfVars == <<tasks, greeted, halted, selfRounds>>

-----------------------------------------------------------------------------
Modes == {"all", "except", "only"}     \* publish, publish_ex, send
Posts == [kind : {"post"}, mode : Modes, mine : BOOLEAN, n : 1..MaxPosts]

Greeting  == [kind |-> "greet"]
SelfTasks == {Greeting, [kind |-> "task"]} \cup Posts

\* Mutant: publish_ex takes its IDs for those to send to.
ReachesListed(post) == post.mode = "all" \/ post.mine

\* publish, publish_ex without and send with the service's own ID come back.
Reaches(post) == post.mode = "all" \/ (post.mode = "only") = post.mine

\* What the handler of a task calls back, in order.
Says(task) == CASE task.kind = "greet"                  -> <<<<"ready", Self>>, <<"connect", Self>>>>
                [] task.kind = "post" /\ Reaches(task) -> <<<<"message", Self, task.n>>>>
                [] OTHER                                -> <<>>

-----------------------------------------------------------------------------
SelfInit == /\ tasks = <<Greeting>>
            /\ greeted = FALSE
            /\ halted = FALSE
            /\ selfRounds = 0

SelfTakes(kind) == /\ ~halted
                   /\ tasks # <<>> /\ Head(tasks).kind = kind
                   /\ tasks' = Tail(tasks)
                   /\ UNCHANGED <<halted, selfRounds>>

\* on_ready and on_connect.
Greet == SelfTakes("greet") /\ greeted' = TRUE

\* emit_self_message(), unless the IDs of the call say otherwise.
Echo == SelfTakes("post") /\ UNCHANGED greeted

SelfDispatched == SelfTakes("task") /\ UNCHANGED greeted

SelfHandler == Greet \/ Echo \/ SelfDispatched

\* publish, publish_ex, send and dispatch post, also when the service is stopped.
SelfPost(task) == /\ tasks' = Append(tasks, task)
                  /\ UNCHANGED <<greeted, halted, selfRounds>>

SelfStop == /\ ~halted
            /\ halted' = TRUE
            /\ UNCHANGED <<tasks, greeted, selfRounds>>

\* A new io_context: what was queued is gone, and the greeting is queued again.
SelfRestart == /\ halted
               /\ selfRounds' = selfRounds + 1
               /\ halted' = FALSE
               /\ tasks' = <<Greeting>>
               /\ greeted' = FALSE
=============================================================================
