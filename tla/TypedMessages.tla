--------------------------- MODULE TypedMessages ---------------------------
(***************************************************************************)
(* Typed messages over the frames of TcpConnection: what the writer makes  *)
(* with concat(tag, text) is handed to map()'s callback by on_message,     *)
(* which consumes the tag and calls the first mapping that has it          *)
(* (src/src/publish/nil/service/{codec,concat,consume,map}.hpp).           *)
(*                                                                         *)
(* The tag is of a type with a fixed size, the text a std::string, which   *)
(* takes what is left.  The code has no check that a payload is as long as *)
(* its tag: one that was not made by concat may be shorter.                *)
(***************************************************************************)
EXTENDS TcpConnection, Integers

CONSTANTS Tags,     \* values of the tag's type
          TagSize,  \* sizeof of the tag's type
          TagOf,    \* the tag of each message that is published, in order
          Mapped,   \* the tags of map()'s mappings, in order
          Word      \* the number of values of a std::uint64_t

ASSUME TagsAssumption == /\ TagSize \in Nat \ {0}
                         /\ MaxFrames \in Nat
                         /\ TagOf \in [1..MaxFrames -> Tags]
                         /\ Mapped \in Seq(Tags)
ASSUME WordAssumption == Word \in Nat \ {0} /\ TagSize < Word /\ Buffer < Word

VARIABLE handled    \* for each payload, the calls of mapped handlers: at most one

typedVars == <<streamVars, handled>>

-----------------------------------------------------------------------------
\* concat(tag, text): the bytes of the tag, and then those of the text.
TagBytes(n)  == SubSeq(Payload(n, sent[n]), 1, TagSize)
TextBytes(n) == SubSeq(Payload(n, sent[n]), TagSize + 1, sent[n])

\* codec<T>::deserialize copies sizeof(T) bytes and does not look at size.  Bytes
\* that are no tag's, or that are left in r_buffer behind a shorter payload, are
\* some value.
Deserialized(data) ==
    LET whose == {n \in 1..Len(sent) : /\ sent[n] >= TagSize /\ Len(data) >= TagSize
                                       /\ SubSeq(data, 1, TagSize) = TagBytes(n)}
    IN IF whose = {} THEN Tags ELSE {TagOf[n] : n \in whose}

\* Mutant: consume() does not take its bytes off size.
NotReduced(size_) == size_

\* consume(): size -= codec<T>::size(casted), of std::uint64_t.
Reduced(size_) == (size_ - TagSize) % Word

\* consume(): data goes on behind what was deserialized.
Advanced(data) == SubSeq(data, TagSize + 1, Len(data))

\* map(): the mappings are tried in order, and the first that has the tag is called.
Mappings(tag) == {i \in 1..Len(Mapped) : Mapped[i] = tag}
Call(tag, data, size_) ==
    {[handler |-> i, data |-> data, size |-> size_] :
        i \in {i \in Mappings(tag) : \A j \in Mappings(tag) : i <= j}}

\* map()'s callback, with what impl.message hands over.
Handle(data) == \E tag \in Deserialized(data) :
    handled' = Append(handled, Call(tag, Advanced(data), Reduced(Len(data))))

-----------------------------------------------------------------------------
TypedInit == StreamInit /\ handled = <<>>

PublishFrame(s) == Write(s) /\ UNCHANGED handled

CloseWriter == Close /\ UNCHANGED handled

\* A frame is complete and its handler is called from within.
ReadMessage(n) == ReadBody(n) /\ Handle(Message(n))

ReadMore(n) == (ReadPart(n) \/ ReadHeader(n)) /\ UNCHANGED handled

ReadEnd == ReadError /\ UNCHANGED handled

TypedRead == ReadEnd \/ \E n \in 1..Len(stream) : ReadMessage(n) \/ ReadMore(n)

TypedNext == (\E s \in Sizes : PublishFrame(s)) \/ CloseWriter \/ TypedRead

\* As in TcpConnection: the read loop is always pending.
TypedSpec == TypedInit /\ [][TypedNext]_typedVars /\ WF_typedVars(TypedRead)

-----------------------------------------------------------------------------
(* Properties.                                                             *)

\* Whatever pieces the stream comes in, each message that was made by concat and has
\* been delivered was handled once, in order, by the first mapping that has its tag,
\* with the text that was published and its true size; one without a mapping is
\* dropped, and takes nothing of the next.
HandledInOrder ==
    ~truncated /\ (\A n \in 1..Len(sent) : sent[n] >= TagSize \/ sent[n] = 0) =>
        /\ Len(handled) = Len(delivered)
        /\ \A i \in 1..Len(handled) :
              LET n == Whose(i)
              IN handled[i] = Call(TagOf[n], TextBytes(n), sent[n] - TagSize)
=============================================================================
