-------------------------------- MODULE Pipe --------------------------------
(***************************************************************************)
(* The pipe service, src/src/pipe/create.cpp.                              *)
(*                                                                         *)
(* The service reads frames from one descriptor and writes frames, and a   *)
(* probe every 25 ms, to another.  What drives the reading on is a read    *)
(* that is pending, or the timer retry_read: after "try again" it resumes  *)
(* the read, without a descriptor it calls make_read again.  Descriptors,  *)
(* timers and posts all use the strand: its handlers run one at a time, in *)
(* order.  Writes block: a handler that writes keeps the strand until the  *)
(* pipe has room.                                                          *)
(*                                                                         *)
(* The bytes of a frame are those of TcpConnection; here a read ends with  *)
(* a whole header or a whole payload.  Time is not modelled.               *)
(***************************************************************************)
EXTENDS Naturals, Sequences, FiniteSets

CONSTANTS Self,         \* the service's ID, the only remote of a pipe
          MaxProbes,    \* bound: the probe's timer fires only when fewer handlers wait
          MaxPosts,     \* bound: publish, publish_ex, send only when fewer handlers wait
          MaxRestarts   \* bound: stop/restart rounds

ASSUME BoundsAssumption == MaxProbes \in Nat /\ MaxPosts \in Nat /\ MaxRestarts \in Nat

VARIABLES
    line,        \* of the read end: "up", "eof" (every writer has closed)
    full,        \* the write end has no room
    answer,      \* make_read's last answer: "fd", "later", or "no" (or no make_read)
    writer,      \* context->writer has one
    pending,     \* async_read_some of a "header", of a "body", or "none"
    retry,       \* retry_read's wait: to "reopen", to resume a "header" or "body", "none"
    probe,       \* the probe's async_wait is pending
    strand,      \* handlers waiting for the strand, oldest first
    connected,   \* Impl::connected
    told,        \* on_ready has reached a handler of the application
    registered,  \* the application has registered its handlers
    dispatched,  \* a dispatch()ed task waits
    stopped,     \* io_context::stop was called
    restarts,    \* restart() calls
    report       \* the last callback

ends == <<line, full, answer, writer>>
ops  == <<pending, retry, probe>>
conn == <<connected, told, report>>
loop == <<registered, dispatched, stopped, restarts>>
vars == <<ends, ops, strand, conn, loop>>

-----------------------------------------------------------------------------
Parts   == {"header", "body"}
Headers == {"empty", "fits", "oversize"}     \* the size a header announces
Results == Headers \cup {"whole", "gone", "later"}
Modes   == {"all", "except", "only"}         \* publish, publish_ex, send

ReadTasks      == [kind : {"read"}, of : Parts, res : Results]
AnnouncedTasks == [kind : {"announced"}, res : Headers]
RetryTasks     == [kind : {"retry"}, what : Parts \cup {"reopen"}]
ProbeTasks     == [kind : {"probe"}]
WriteTasks     == [kind : {"write"}, mode : Modes, mine : BOOLEAN]
Tasks == ReadTasks \cup AnnouncedTasks \cup RetryTasks \cup ProbeTasks \cup WriteTasks

Contract == INSTANCE EventContract WITH Ids <- {Self},
                                        open <- IF connected THEN {Self} ELSE {},
                                        round <- restarts, event <- report

-----------------------------------------------------------------------------
(* Opening the two ends.                                                   *)

\* context->reader has a descriptor
reader == answer = "fd"

\* schedule_probe(): a wait that is pending is cancelled; a handler of it that
\* waits in the strand already is not.
ScheduleProbe == reader' /\ writer'

\* reconnect_read() with a descriptor: the read loop is started.
Opened == /\ answer' = "fd"
          /\ line' \in {"up", "eof"}
          /\ pending' = "header"
          /\ retry' = "none"

Closed(said, wait) == /\ answer' = said
                      /\ line' = "up"
                      /\ pending' = "none"
                      /\ retry' = wait

\* Mutant: without schedule_read_retry().
NotRetried == Closed("later", "none")

\* reconnect_read() when make_read says to retry later.
OpensLater == Closed("later", "reopen")

\* reconnect_read() when make_read says no, or there is none.
NotOpened == Closed("no", "none")

\* notify_ready(): only the constructor asks for it.
NotifyReady(should) == told' = (told \/ (should /\ registered))

\* reconnect_read(); the probe is cancelled in any case.
ReconnectRead(should) == /\ \/ Opened /\ NotifyReady(should)
                            \/ (OpensLater \/ NotOpened) /\ UNCHANGED told
                         /\ probe' = ScheduleProbe

\* The constructor: reconnect_read(true) and reconnect_write(), when no handler can
\* have been registered yet: on_ready reaches nobody.
Init == /\ answer \in {"fd", "later", "no"}
        /\ writer \in BOOLEAN
        /\ line \in IF reader THEN {"up", "eof"} ELSE {"up"}
        /\ pending = IF reader THEN "header" ELSE "none"
        /\ retry = IF answer = "later" THEN "reopen" ELSE "none"
        /\ probe = (reader /\ writer)
        /\ told = FALSE
        /\ full = FALSE
        /\ strand = <<>>
        /\ connected = FALSE
        /\ registered = FALSE
        /\ dispatched = FALSE
        /\ stopped = FALSE
        /\ restarts = 0
        /\ report = Contract!NoEvent

-----------------------------------------------------------------------------
(* The other end and the reactor.                                          *)

RemoteToggles == /\ reader
                 /\ line' = IF line = "up" THEN "eof" ELSE "up"
                 /\ UNCHANGED <<full, answer, writer, ops, strand, conn, loop>>

RemoteReads == /\ full
               /\ full' = FALSE
               /\ UNCHANGED <<line, answer, writer, ops, strand, conn, loop>>

Waiting(kind) == {i \in 1..Len(strand) : strand[i].kind = kind}

\* What a read can end with: what is in the pipe is read before end of file.
ReadOutcomes(part) == (IF part = "header" THEN Headers ELSE {"whole"})
                        \cup {"later"} \cup (IF line = "eof" THEN {"gone"} ELSE {})

ReadDone(r) == /\ ~stopped /\ pending # "none"
               /\ r \in ReadOutcomes(pending)
               /\ pending' = "none"
               /\ strand' = Append(strand, [kind |-> "read", of |-> pending, res |-> r])
               /\ UNCHANGED <<ends, retry, probe, conn, loop>>

RetryDue == /\ ~stopped /\ retry # "none"
            /\ retry' = "none"
            /\ strand' = Append(strand, [kind |-> "retry", what |-> retry])
            /\ UNCHANGED <<ends, pending, probe, conn, loop>>

ProbeDue == /\ ~stopped /\ probe
            /\ Cardinality(Waiting("probe")) < MaxProbes
            /\ probe' = FALSE
            /\ strand' = Append(strand, [kind |-> "probe"])
            /\ UNCHANGED <<ends, pending, retry, conn, loop>>

Reactor == (\E r \in Results : ReadDone(r)) \/ RetryDue \/ ProbeDue

-----------------------------------------------------------------------------
(* A worker runs the oldest handler of the strand.                         *)

task == Head(strand)

Runs(kind) == ~stopped /\ registered /\ strand # <<>> /\ task.kind = kind
Take(kind) == Runs(kind) /\ strand' = Tail(strand)

\* The handlers of reads: on_connect for the first header ...
Header == /\ Runs("read") /\ task.res \in Headers
          /\ strand' = <<[kind |-> "announced", res |-> task.res]>> \o Tail(strand)
          /\ connected' = TRUE
          /\ report' = IF connected THEN report ELSE <<"connect", Self>>
          /\ UNCHANGED <<ends, ops, told, loop>>

\* ... and then, in the same handler, the next header or the payload, ...
Announced == /\ strand # <<>> /\ task.kind = "announced" /\ task.res # "oversize"
             /\ strand' = Tail(strand)
             /\ pending' = IF task.res = "empty" THEN "header" ELSE "body"
             /\ UNCHANGED <<ends, retry, probe, conn, loop>>

Whole == /\ Take("read") /\ task.res = "whole"
         /\ report' = <<"message", Self>>
         /\ pending' = "header"
         /\ UNCHANGED <<ends, retry, probe, connected, told, loop>>

\* Mutant: a payload that does not fit, or an end of file, is not reported.
NotReported == UNCHANGED <<connected, report>>

\* Mutant: without the test whether it was connected.
AlwaysReported == connected' = FALSE /\ report' = <<"disconnect", Self>>

\* notify_disconnected()
NotifyDisconnected == /\ connected' = FALSE
                      /\ report' = IF connected THEN <<"disconnect", Self>> ELSE report

\* handle_read_disconnect(): end of file, an error, or a payload that does not
\* fit.  With neither end left the service stops itself.
ReadDisconnect == /\ UNCHANGED <<full, writer, registered, dispatched, restarts>>
                  /\ NotifyDisconnected
                  /\ ReconnectRead(FALSE)
                  /\ stopped' = (stopped \/ (NotOpened /\ ~writer))

Gone == /\ Take("read") /\ task.res = "gone"
        /\ ReadDisconnect

Oversize == /\ strand # <<>> /\ task.kind = "announced" /\ task.res = "oversize"
            /\ strand' = Tail(strand)
            /\ ReadDisconnect

\* Mutant: the read is resumed at once and by the timer.
ResumedTwice(part) == retry' = part /\ pending' = part

\* schedule_read_wait()
ResumedLater(part) == retry' = part /\ UNCHANGED pending

\* handle_read_error(): would block, try again, interrupted.
Later == /\ Take("read") /\ task.res = "later"
         /\ ResumedLater(task.of)
         /\ UNCHANGED <<ends, probe, conn, loop>>

Resume == /\ Take("retry") /\ task.what \in Parts
          /\ pending' = IF reader THEN task.what ELSE pending
          /\ UNCHANGED <<ends, retry, probe, conn, loop>>

\* Here the service goes on with nothing to do if make_read says no.
Reopen == /\ Take("retry") /\ task.what = "reopen"
          /\ UNCHANGED <<full, writer, connected, report, loop>>
          /\ ReconnectRead(FALSE)

\* write_message(): blocks while the pipe is full; errors are ignored.
Writes == ~full /\ full' \in BOOLEAN

SendProbe == /\ Take("probe")
             /\ IF reader /\ writer THEN Writes /\ probe' = TRUE
                                    ELSE UNCHANGED <<full, probe>>
             /\ UNCHANGED <<line, answer, writer, pending, retry, conn, loop>>

\* publish, publish_ex without and send with the service's own ID write.
Write == /\ Take("write")
         /\ IF task.mode = "all" \/ (task.mode = "only") = task.mine
            THEN Writes ELSE UNCHANGED full
         /\ UNCHANGED <<line, answer, writer, ops, conn, loop>>

Handler == \/ Header \/ Announced \/ Whole \/ Gone \/ Oversize
           \/ Later \/ Resume \/ Reopen \/ SendProbe \/ Write

Dispatched == /\ ~stopped /\ registered /\ dispatched
              /\ dispatched' = FALSE
              /\ UNCHANGED <<ends, ops, strand, conn, registered, stopped, restarts>>

-----------------------------------------------------------------------------
(* The application.                                                        *)

\* on_ready, on_connect, ... : not while the service runs.
Register == /\ ~registered
            /\ registered' = TRUE
            /\ UNCHANGED <<ends, ops, strand, conn, dispatched, stopped, restarts>>

\* publish, publish_ex, send: nothing is posted without a writer.
Post(mode, mine) ==
    /\ writer /\ Len(strand) < MaxPosts
    /\ strand' = Append(strand, [kind |-> "write", mode |-> mode, mine |-> mine])
    /\ UNCHANGED <<ends, ops, conn, loop>>

Publish   == Post("all", FALSE)
PublishEx == \E mine \in BOOLEAN : Post("except", mine)
Send      == \E mine \in BOOLEAN : Post("only", mine)

Dispatch == /\ ~dispatched
            /\ dispatched' = TRUE
            /\ UNCHANGED <<ends, ops, strand, conn, registered, stopped, restarts>>

\* stop(): cancel_timers() and io_context::stop.
Stop == /\ ~stopped
        /\ stopped' = TRUE
        /\ retry' = "none"
        /\ probe' = FALSE
        /\ UNCHANGED <<ends, pending, strand, conn, registered, dispatched, restarts>>

\* restart(): a new Context, reconnect_read(false) and reconnect_write().  No handler
\* is called: neither on_disconnect, nor on_ready.
Restart == /\ stopped /\ Waiting("announced") = {} /\ restarts < MaxRestarts
           /\ restarts' = restarts + 1
           /\ stopped' = FALSE
           /\ dispatched' = FALSE
           /\ strand' = <<>>
           /\ connected' = FALSE
           /\ writer' \in BOOLEAN
           /\ full' = FALSE
           /\ ReconnectRead(FALSE)
           /\ UNCHANGED <<registered, report>>

Application == Register \/ Publish \/ PublishEx \/ Send \/ Dispatch \/ Stop \/ Restart

-----------------------------------------------------------------------------
Next == RemoteToggles \/ RemoteReads \/ Reactor \/ Handler \/ Dispatched \/ Application

Spec == Init /\ [][Next]_vars

\* run() takes the handlers in order and polls the kernel until it is stopped; the
\* pipe holds finitely many bytes at its end of file; timers expire.
Works == /\ WF_vars(Handler)
         /\ WF_vars(RetryDue)
         /\ WF_vars(ProbeDue)
         /\ SF_vars(ReadDone("gone"))

\* The other end: it probes as long as it is up, and opening succeeds at last when
\* it is tried again and again.
RemoteProbes == /\ SF_vars(line = "up" /\ ReadDone("empty"))
                /\ SF_vars(Reopen /\ Opened)

\* The application registers its handlers before it runs the service.
FairSpec == Spec /\ WF_vars(Register) /\ Works /\ RemoteProbes

-----------------------------------------------------------------------------
(* Properties.                                                             *)

\* Every variable stays in its type; the one type invariant of the module.
TypeOK == /\ line \in {"up", "eof"}
          /\ full \in BOOLEAN
          /\ answer \in {"fd", "later", "no"}
          /\ writer \in BOOLEAN
          /\ pending \in Parts \cup {"none"}
          /\ retry \in Parts \cup {"reopen", "none"}
          /\ probe \in BOOLEAN
          /\ strand \in Seq(Tasks)
          /\ connected \in BOOLEAN
          /\ told \in BOOLEAN
          /\ registered \in BOOLEAN
          /\ dispatched \in BOOLEAN
          /\ stopped \in BOOLEAN
          /\ restarts \in Nat

Count(b) == IF b THEN 1 ELSE 0

\* What drives the reading on: pending operations and the handlers that wait.
Drivers == Count(pending # "none") + Count(retry # "none")
             + Cardinality(Waiting("read") \cup Waiting("announced") \cup Waiting("retry"))

\* The hazard of one timer for two purposes, of handlers that wait while their
\* timer is set anew, and of a descriptor that is replaced from inside its own read
\* handler: two reads into the one r_buffer, or none for ever.  There is one driver,
\* unless make_read has said no.
OneReader == /\ Drivers <= 1
             /\ ~stopped => Drivers = Count(answer # "no")
             /\ \A i \in 1..Len(strand) :
                   strand[i].kind \in {"read", "announced"} => reader
             /\ pending # "none" => reader

\* README: probes go out "while both read and write fds are available", over every
\* reopening of the read end: the timer runs or its handler waits.
ProbesGoOn == reader /\ writer /\ ~stopped => probe \/ Waiting("probe") # {}

\* The two loops of the service, over every order of its handlers: one reads, one
\* probes, and neither forks nor stops by itself.
LoopsGoOn == TypeOK /\ OneReader /\ ProbesGoOn

\* connect, message and disconnect callbacks follow the contract of structs.hpp,
\* over reopened descriptors and restarts.
ContractHolds == Contract!Spec

\* A remote that closes its end is reported by on_disconnect (unless it is there
\* again, the service was stopped, or a write blocks the strand).
GoneIsReported == connected /\ line = "eof" ~> ~connected \/ line = "up" \/ stopped \/ full

\* README: probes support "reconnection scenarios": with a remote that is there and
\* probes, the service is connected again and again, unless it was stopped, a
\* write blocks it, or make_read has said no.
ComesBack == []<>(connected \/ line = "eof" \/ full \/ stopped \/ answer = "no")
=============================================================================
