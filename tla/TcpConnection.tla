--------------------------- MODULE TcpConnection ---------------------------
(***************************************************************************)
(* The framing of src/src/tcp/Connection.cpp over one direction of a TCP   *)
(* stream: write() puts a header of HeaderSize bytes (the payload's size)  *)
(* and the payload into the socket with one write_some; readHeader() and   *)
(* readBody() put frames together from whatever pieces the kernel returns. *)
(*                                                                         *)
(* A byte is a pair <<n, k>>: the k-th byte of the n-th frame written.     *)
(***************************************************************************)
EXTENDS Naturals, Sequences

CONSTANTS HeaderSize,  \* utils::TCP_HEADER_SIZE
          Buffer,      \* Options::buffer of the reader
          Sizes,       \* payload sizes the writer may send
          Capacity,    \* bytes the two kernels hold between writer and reader
          MaxFrames    \* bound: frames written

ASSUME SizesAssumption == /\ HeaderSize \in Nat \ {0}
                          /\ Buffer \in Nat
                          /\ Sizes \subseteq Nat
                          /\ Capacity \in Nat \ {0}

VARIABLES sent,       \* payload sizes of the frames written, in order
          truncated,  \* a write_some took less than its frame
          stream,     \* bytes in flight
          closed,     \* the writer has closed its end
          phase,      \* "header", "body", or "down" after impl.disconnect(this)
          pos, size,  \* the arguments of readHeader and readBody
          rbuf,       \* the bytes at the start of r_buffer: pos of them
          delivered   \* payloads handed to impl.message, in order

writer     == <<sent, truncated, closed>>
reader     == <<phase, pos, size, rbuf, delivered>>
streamVars == <<writer, stream, reader>>

Frame(n, s)   == [k \in 1..HeaderSize + s |-> <<n, k>>]
Payload(n, s) == SubSeq(Frame(n, s), HeaderSize + 1, HeaderSize + s)

StreamInit == /\ sent = <<>>
              /\ truncated = FALSE
              /\ stream = <<>>
              /\ closed = FALSE
              /\ phase = "header"
              /\ pos = 0
              /\ size = HeaderSize
              /\ rbuf = <<>>
              /\ delivered = <<>>

-----------------------------------------------------------------------------
Room == Capacity - Len(stream)

\* How much of a frame of n bytes one write_some takes: it waits for room, takes
\* what there is room for, and write() does not look at the count.
Taken(n) == IF n <= Room THEN n ELSE Room

Write(s) == /\ ~closed /\ phase # "down" /\ Len(sent) < MaxFrames
            /\ Room > 0
            /\ LET taken == Taken(HeaderSize + s)
               IN /\ stream' = stream \o SubSeq(Frame(Len(sent) + 1, s), 1, taken)
                  /\ truncated' = (truncated \/ taken < HeaderSize + s)
            /\ sent' = Append(sent, s)
            /\ UNCHANGED <<closed, reader>>

Close == /\ ~closed
         /\ closed' = TRUE
         /\ UNCHANGED <<sent, truncated, stream, reader>>

-----------------------------------------------------------------------------
\* readHeader(START_INDEX, TCP_HEADER_SIZE)
NextHeader == /\ phase' = "header"
              /\ pos' = 0
              /\ size' = HeaderSize
              /\ rbuf' = <<>>

\* The size a header announces.  Bytes that are not a header's, read where one
\* is expected, announce anything.
Announced(bytes) ==
    LET n == bytes[1][1]
    IN IF bytes = SubSeq(Frame(n, 0), 1, HeaderSize) THEN {sent[n]} ELSE Sizes

\* Mutant: the bytes of the header are not subtracted.
FitsWithHeader(s) == s <= Buffer + HeaderSize

\* r_buffer.size() - TCP_HEADER_SIZE
Fits(s) == s <= Buffer

\* Mutant: an empty payload is taken for a bad one.
EmptyRefused(s) == IF s > 0 /\ Fits(s)
                   THEN phase' = "body" /\ pos' = 0 /\ size' = s /\ rbuf' = <<>>
                   ELSE phase' = "down" /\ UNCHANGED <<pos, size, rbuf>>

\* readBody(START_INDEX, s)
StartBody(s) == \/ s = 0 /\ NextHeader
                \/ /\ s > 0 /\ Fits(s)
                   /\ phase' = "body" /\ pos' = 0 /\ size' = s /\ rbuf' = <<>>
                \/ /\ s > 0 /\ ~Fits(s)
                   /\ phase' = "down" /\ UNCHANGED <<pos, size, rbuf>>

\* async_read_some(size - pos) returns what is there, at least one byte.
Counts == {n \in 1..Len(stream) : n <= size - pos}

Received(n) == rbuf \o SubSeq(stream, 1, n)

ReadPart(n) == /\ phase # "down" /\ n \in Counts /\ pos + n # size
               /\ stream' = SubSeq(stream, n + 1, Len(stream))
               /\ pos' = pos + n
               /\ rbuf' = Received(n)
               /\ UNCHANGED <<writer, phase, size, delivered>>

ReadHeader(n) == /\ phase = "header" /\ n \in Counts /\ pos + n = size
                 /\ stream' = SubSeq(stream, n + 1, Len(stream))
                 /\ \E s \in Announced(Received(n)) : StartBody(s)
                 /\ UNCHANGED <<writer, delivered>>

\* Mutant: only the last piece is handed over.
LastPiece(n) == SubSeq(stream, 1, n)

\* impl.message(remote_id(), r_buffer.data(), size)
Message(n) == Received(n)

ReadBody(n) == /\ phase = "body" /\ n \in Counts /\ pos + n = size
               /\ stream' = SubSeq(stream, n + 1, Len(stream))
               /\ delivered' = Append(delivered, Message(n))
               /\ NextHeader
               /\ UNCHANGED writer

ReadError == /\ phase # "down" /\ closed /\ stream = <<>>
             /\ phase' = "down"
             /\ UNCHANGED <<writer, stream, pos, size, rbuf, delivered>>

Read == \/ \E n \in 1..Len(stream) : ReadPart(n) \/ ReadHeader(n) \/ ReadBody(n)
        \/ ReadError

StreamNext == (\E s \in Sizes : Write(s)) \/ Close \/ Read

\* The read loop is always pending: the kernel completes it when it can.
StreamSpec     == StreamInit /\ [][StreamNext]_streamVars
FairStreamSpec == StreamSpec /\ WF_streamVars(Read)

-----------------------------------------------------------------------------
(* Properties.                                                             *)

\* Every variable stays in its type; the one type invariant of the module.
StreamTypeOK == /\ sent \in Seq(Sizes)
                /\ truncated \in BOOLEAN
                /\ Len(stream) <= Capacity
                /\ closed \in BOOLEAN
                /\ phase \in {"header", "body", "down"}
                /\ pos \in Nat /\ size \in Nat
                /\ Len(rbuf) = pos

\* However the bytes are cut into reads and whatever size a header announces, a
\* read stays inside its part of r_buffer: it starts before the end of what is
\* expected, and that is at most a header or Options::buffer bytes.
ReadsInBounds == phase # "down" =>
                   pos < size /\ size <= IF phase = "body" THEN Buffer ELSE HeaderSize

\* The frame a payload was written in.
Whose(i) == delivered[i][1][1]

\* However the bytes are cut into reads, as long as no write was cut short: what is
\* delivered are whole payloads, in the order they were written, none twice, and none
\* left out but the empty ones.
FramesIntact == ~truncated =>
    /\ \A i \in 1..Len(delivered) : /\ Whose(i) \in 1..Len(sent)
                                    /\ delivered[i] = Payload(Whose(i), sent[Whose(i)])
    /\ \A i, j \in 1..Len(delivered) : i < j => Whose(i) < Whose(j)
    /\ \A i \in 1..Len(delivered) : \A n \in 1..Whose(i) :
          sent[n] > 0 => \E j \in 1..Len(delivered) : Whose(j) = n

\* What a peer has written before it closes is delivered before the disconnect, if
\* it was written whole and fits.
CloseDrains == closed /\ ~truncated /\ (\A n \in 1..Len(sent) : Fits(sent[n]))
                 ~> /\ phase = "down"
                    /\ \A n \in 1..Len(sent) :
                          sent[n] > 0 => \E i \in 1..Len(delivered) : Whose(i) = n
=============================================================================
