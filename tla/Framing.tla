------------------------------ MODULE Framing ------------------------------
(***************************************************************************)
(* One direction of a connection: a thread that serialises messages and    *)
(* writes them (writeNode.cpp, communication.cpp), the byte stream, and a  *)
(* thread that reads it in pieces and feeds them to a MessageFactory       *)
(* (readNode.cpp, communication.cpp, messageFactory.cpp).  Bytes have no   *)
(* values here: a message is its type, and what the two threads and the    *)
(* factory know of the stream are positions in it.                         *)
(*                                                                         *)
(* The two writers differ.  The coordinator's goes on after a short write; *)
(* the node's does not, so that the rest of the message is never sent and  *)
(* the factory takes what follows for it.                                  *)
(***************************************************************************)
EXTENDS Integers, Sequences

CONSTANTS HeaderSize,   \* BaseMessage::HEADER_SIZE, type and total length
          HelloSize, TaskSize, NotifySize, ResultSize,  \* with the header
          ReadSize,     \* the most one read returns
          GarbageSizes, \* what bytes that are no header may give as a length
          Directions,   \* a subset of {"toNode", "toCoordinator"}
          MaxMessages   \* bound on the messages sent

Types == {"HELLO", "TASK", "TASK_NOTIFY", "RESULT"}

SizeOf(type) ==
    CASE type = "HELLO" -> HelloSize
      [] type = "TASK" -> TaskSize
      [] type = "TASK_NOTIFY" -> NotifySize
      [] type = "RESULT" -> ResultSize

ASSUME FramingSizes ==
    /\ HeaderSize \in Nat \ {0}
    /\ ReadSize \in Nat \ {0}
    /\ MaxMessages \in Nat
    /\ \A type \in Types : SizeOf(type) \in Nat /\ SizeOf(type) > HeaderSize
    /\ GarbageSizes \subseteq Nat
    /\ Directions \subseteq {"toNode", "toCoordinator"}

VARIABLES
    direction,    \* which way the messages of this stream go
    sent,         \* the messages the sender has taken from its queue
    ends,         \* ends[i] is where message i ends in the stream
    written,      \* the bytes write has accepted
    got,          \* the bytes read has returned
    base,         \* where the factory's buffer starts in the stream
    messageSize,  \* the factory's messageSize, 0 for unknown
    made,         \* what the factory has pushed to readyMessages: the number
                  \* of the message sent, 0 for anything that never was one
    handed,       \* how many of them have gone to the receiver's queue
    pc,           \* "read", "fill" in the loop of MessageFactory::Fill, or
                  \* "return" when it is left in the middle
    crashed       \* an exception or an assertion has ended the process

sender == <<direction, sent, ends, written>>
factory == <<base, messageSize, made>>
vars == <<sender, got, factory, handed, pc, crashed>>

Start(i) == IF i = 1 THEN 0 ELSE ends[i - 1]
StreamEnd == Start(Len(sent) + 1)

\* All bytes of message i are in the stream, or will be; and of all messages
\* up to i.
Whole(i) == ends[i] = Start(i) + SizeOf(sent[i])
Unbroken(i) == \A j \in 1..Len(sent) : j <= i => Whole(j)

Init ==
    /\ direction \in Directions
    /\ sent = <<>> /\ ends = <<>> /\ written = 0
    /\ got = 0 /\ base = 0 /\ messageSize = 0
    /\ made = <<>> /\ handed = 0
    /\ pc = "read" /\ crashed = FALSE

--------------------------------------------------------------------------
\* The sender.

\* A node greets first, and then sends nothing until the answer has come, so
\* that the greeting has been taken out of the stream by then.
NodeSays(type) ==
    /\ type # "TASK"
    /\ type = "HELLO" <=> sent = <<>>
    /\ sent # <<>> => handed > 0

\* The coordinator answers the greeting once, and sends before and behind the
\* answer whatever comes.
CoordinatorSays(type) ==
    /\ type # "RESULT"
    /\ type = "HELLO" => \A i \in 1..Len(sent) : sent[i] # "HELLO"

\* Serialize: the header is written again when the body is complete, so the
\* length in it is the length of the whole message.
Send(type) ==
    /\ ~crashed
    /\ Len(sent) < MaxMessages
    /\ written = StreamEnd
    /\ \/ direction = "toNode" /\ CoordinatorSays(type)
       \/ direction = "toCoordinator" /\ NodeSays(type)
    /\ sent' = Append(sent, type)
    /\ ends' = Append(ends, StreamEnd + SizeOf(type))
    /\ UNCHANGED <<direction, written, got, factory, handed, pc, crashed>>

\* Mistake, for testing the properties: the loop advances twice.
WriteSkips(n) ==
    /\ ~crashed
    /\ direction = "toNode"
    /\ written' = written + 2 * n
    /\ UNCHANGED <<direction, sent, ends, got, factory, handed, pc, crashed>>

\* The coordinator's writer: write accepts n bytes, and the loop goes on with
\* the rest.
WriteOn(n) ==
    /\ ~crashed
    /\ direction = "toNode"
    /\ written' = written + n
    /\ UNCHANGED <<direction, sent, ends, got, factory, handed, pc, crashed>>

\* The node's writer: write accepts n bytes, the buffer advances, and the loop
\* comes round to the next message.  Message Len(sent) ends here.
WriteOnce(n) ==
    /\ ~crashed
    /\ direction = "toCoordinator"
    /\ written' = written + n
    /\ ends' = [ends EXCEPT ![Len(sent)] = written + n]
    /\ UNCHANGED <<direction, sent, got, factory, handed, pc, crashed>>

--------------------------------------------------------------------------
\* The reader and its MessageFactory.

Length == got - base

Read(n) ==
    /\ ~crashed
    /\ pc = "read"
    /\ got + n <= written
    /\ got' = got + n
    /\ pc' = "fill"
    /\ UNCHANGED <<sender, factory, handed, crashed>>

\* The message that starts where the buffer starts, 0 if none does: then the
\* factory takes bytes of a body for a header.
Current ==
    IF \E i \in 1..Len(sent) : Start(i) = base
    THEN CHOOSE i \in 1..Len(sent) : Start(i) = base
    ELSE 0

\* The buffer starts with all bytes of one message.
Intact == Current # 0 /\ Whole(Current)

\* What the header may say.  Its first byte is the type, and of a message that
\* has begun at least that byte was written.
HeaderTypes ==
    IF Current # 0 THEN {sent[Current]} ELSE Types \union {"NONE", "ERROR"}
HeaderLengths ==
    IF Current # 0 /\ ends[Current] - base >= HeaderSize
    THEN {SizeOf(sent[Current])}
    ELSE GarbageSizes

\* A length below that of the header makes an InvalidMessage and ends Fill;
\* the length stays, and the next Fill goes on with it.  (After a length of 0
\* the header is read again; the model does not remember that it is the same.)
LearnSize ==
    /\ ~crashed
    /\ pc = "fill"
    /\ Length >= HeaderSize
    /\ messageSize = 0
    /\ messageSize' \in HeaderLengths
    /\ IF messageSize' < HeaderSize
       THEN made' = Append(made, 0) /\ pc' = "return"
       ELSE UNCHANGED <<made, pc>>
    /\ UNCHANGED <<sender, got, base, handed, crashed>>

\* Mistake, for testing the properties: a field of the result is not read.
TakenButOne(type) ==
    CASE type \in {"NONE", "ERROR"} -> HeaderSize
      [] type = "HELLO" -> Length
      [] type = "RESULT" -> SizeOf(type) - 1
      [] OTHER -> SizeOf(type)

\* The bytes Interpret takes out of the buffer, whatever the header says of the
\* length.  A message of no type is dropped with its header only; a greeting
\* takes all there is.
Taken(type) ==
    CASE type \in {"NONE", "ERROR"} -> HeaderSize
      [] type = "HELLO" -> Length
      [] OTHER -> SizeOf(type)

\* ByteBuffer::GetAt throws past the end of the buffer, json::from_bson when
\* something follows the document; ERROR is "Not implemented".
Throws(type) ==
    CASE type = "ERROR" -> TRUE
      [] type = "HELLO" -> Length # HelloSize
      [] OTHER -> Length < Taken(type)

\* What json::from_bson says of other bytes than a document depends on them.
Unclear(type) == type = "HELLO" /\ ~Intact

\* Mistake, for testing the properties: the size of the last message stays.
KeptSize == messageSize

\* The size of the next message is unknown.
NextSize == 0

Throw(type) ==
    /\ Throws(type) \/ Unclear(type)
    /\ crashed' = TRUE
    /\ UNCHANGED factory

Make(type) ==
    /\ ~Throws(type) \/ Unclear(type)
    /\ made' = Append(made, IF Intact THEN Current ELSE 0)
    /\ base' = base + Taken(type)
    /\ messageSize' = NextSize
    /\ UNCHANGED crashed

Interpret ==
    /\ ~crashed
    /\ pc = "fill"
    /\ Length >= HeaderSize
    /\ messageSize # 0
    /\ Length >= messageSize
    /\ \E type \in HeaderTypes : Throw(type) \/ Make(type)
    /\ UNCHANGED <<sender, got, handed, pc>>

\* Mistake, for testing the properties: one message per call of Fill.
FilledByOne == messageSize = 0 \/ Length < messageSize

\* Mistake, for testing the properties: a message that ends the buffer waits.
FilledOrExact ==
    \/ Length < HeaderSize
    \/ messageSize # 0 /\ Length <= messageSize

\* The loop of Fill ends: no header, or no whole message.
Filled ==
    \/ Length < HeaderSize
    \/ messageSize # 0 /\ Length < messageSize

\* The reader moves readyMessages to the queue and reads on.
HandOver ==
    /\ ~crashed
    /\ pc = "return" \/ (pc = "fill" /\ Filled)
    /\ handed' = Len(made)
    /\ pc' = "read"
    /\ UNCHANGED <<sender, got, factory, crashed>>

--------------------------------------------------------------------------
Sends == \E type \in Types : Send(type)
Writes == \E n \in 1..(StreamEnd - written) : WriteOn(n) \/ WriteOnce(n)
Reads == \E n \in 1..ReadSize : Read(n)
Fills == LearnSize \/ Interpret \/ HandOver

Next == Sends \/ Writes \/ Reads \/ Fills

Spec == Init /\ [][Next]_vars

\* Each thread goes on: the peer's socket buffer empties, a read returns when
\* there are bytes, and Fill waits for nothing.
FairSpec == Spec /\ WF_vars(Writes) /\ WF_vars(Reads) /\ WF_vars(Fills)

--------------------------------------------------------------------------
\* The shape of the state; the factory is never ahead of the stream.
TypeOK ==
    /\ direction \in Directions
    /\ sent \in Seq(Types) /\ Len(sent) <= MaxMessages
    /\ ends \in Seq(Nat) /\ Len(ends) = Len(sent)
    /\ written \in Nat /\ got \in Nat /\ base \in Nat
    /\ base <= got /\ got <= written /\ written <= StreamEnd
    /\ messageSize \in Nat
    /\ made \in Seq(0..Len(sent)) /\ handed \in 0..Len(made)
    /\ pc \in {"read", "fill", "return"}
    /\ crashed \in BOOLEAN

\* However the stream is cut into reads, the factory makes the messages that
\* were sent, one after the other, up to the first whose end the node's writer
\* has dropped; and behind that one, whatever bytes it takes for headers, it
\* makes no message twice and none before an earlier one
\* (messageFactory.cpp:13-97, communication.cpp:100-111).
Delivered ==
    /\ \A i \in 1..Len(made) : Unbroken(i) => made[i] = i
    /\ \A i, j \in 1..Len(made) : i < j /\ made[i] # 0 /\ made[j] # 0 => made[i] < made[j]

\* Fill leaves no whole message behind: every message whose last byte has been
\* read is in the receiver's queue when the reader goes back to read, so it
\* never waits for bytes of a later message (messageFactory.cpp:17-41).
NoneHeldBack ==
    pc = "read" =>
        \A i \in 1..Len(sent) : Unbroken(i) /\ ends[i] <= got => i <= handed

\* An exception leaves the factory for one of two reasons only: the end of a
\* message was dropped, which only a node's writer does and which throws at
\* that message or later; or the coordinator's answer to the greeting was read
\* together with what it sent behind it (byteBuffer.h:64-83,
\* helloMessage.cpp:37-50, communication.cpp:100-111).
ExceptionCause ==
    crashed =>
        LET next == Len(made) + 1
        IN  \/ direction = "toCoordinator" /\ ~Unbroken(next)
            \/ /\ direction = "toNode"
               /\ next \in 1..Len(sent)
               /\ sent[next] = "HELLO"
               /\ got > ends[next]

\* Every message is in the receiver's queue in the end, whatever sizes the
\* reads have, unless the node's writer drops the end of it or of one before
\* it, or the process ends for one of the reasons of ExceptionCause
\* (messageFactory.cpp:13-42, writeNode.cpp:22-32, communication.cpp:100-111).
AllArrive ==
    \A i \in 1..MaxMessages :
        Len(sent) >= i ~> handed >= i \/ ~Unbroken(i) \/ crashed

\* No exception leaves the factory: what follows a message is kept for the next
\* one.  The code promises this with "Copy any remaining bytes for next run"
\* (messageFactory.cpp:84).
NoException == ~crashed

==========================================================================
