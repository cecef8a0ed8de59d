--------------------------- MODULE EventContract ---------------------------
(***************************************************************************)
(* What every event service promises to the application through the        *)
(* callbacks of ICallbackService (structs.hpp): a remote ID is reported    *)
(* connected at most once before it is reported disconnected, and messages *)
(* carry only the ID of a remote that is currently reported connected.     *)
(* restart() calls back nothing; what it forgets is never reported again.  *)
(*                                                                         *)
(* The tcp and web socket clients, the http and ws servers, the pipe and   *)
(* the gateway are checked and proved to implement this specification: the *)
(* last callback is "event", the IDs between on_connect and on_disconnect  *)
(* are "open", and "round" counts restarts.  The tcp server implements it  *)
(* when one thread is in run(), and else up to early messages; the udp     *)
(* server up to second on_disconnects.  The udp client does not: its       *)
(* on_message comes whether it is connected or not.                        *)
(***************************************************************************)
EXTENDS Naturals

CONSTANT Ids      \* the IDs a service can hand to its callbacks

VARIABLES open,   \* IDs reported by on_connect and not yet by on_disconnect
          round,  \* how often the service was restarted
          event   \* the last callback delivered, <<kind>> or <<kind, id>>

vars == <<open, round, event>>

NoEvent == <<"none">>

Init == /\ open = {}
        /\ round = 0
        /\ event = NoEvent

\* on_ready: the service has its local endpoint.
Ready == /\ event' = <<"ready">>
         /\ UNCHANGED <<open, round>>

\* on_connect: never twice for an ID without an on_disconnect in between.
Connect(id) == /\ id \notin open
               /\ open' = open \cup {id}
               /\ event' = <<"connect", id>>
               /\ UNCHANGED round

\* on_message: only from a connected remote.
Message(id) == /\ id \in open
               /\ event' = <<"message", id>>
               /\ UNCHANGED <<open, round>>

\* on_disconnect: exactly one, and only for a connected remote.
Disconnect(id) == /\ id \in open
                  /\ open' = open \ {id}
                  /\ event' = <<"disconnect", id>>
                  /\ UNCHANGED round

\* restart(): only a restart may drop a connection without on_disconnect.
Restart == /\ round' = round + 1
           /\ open' \in SUBSET open
           /\ UNCHANGED event

Next == \/ Ready
        \/ Restart
        \/ \E id \in Ids : Connect(id) \/ Message(id) \/ Disconnect(id)

Spec == Init /\ [][Next]_vars
=============================================================================
