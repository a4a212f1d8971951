---------------------------- MODULE ReceiveBuffer ----------------------------
(***************************************************************************)
(* The receiving half of a connection: the fixed buffer of IOUringObject,  *)
(* the chain of receives of ServiceSession, the loop of on_received that   *)
(* cuts the buffer into messages, and MessageDispatcher.                   *)
(*                                                                         *)
(* A byte is the pair of the number of its message and its place in it, so *)
(* the first HeaderSize bytes of message n stand for the header            *)
(* sent[n].  The buffer is an array that keeps what was last written to    *)
(* it; commited_size_ says how much of it counts.  One handler at a time   *)
(* works on a session (SessionExclusive of Service.tla), so a turn of the  *)
(* loop is one step.  External: TCP, which delivers any part of what is    *)
(* waiting, and the client, whose write may stop in the middle of a        *)
(* message.                                                                *)
(***************************************************************************)
EXTENDS Integers, Sequences

CONSTANTS
  MaxReceiveBufferSize,  \* MAX_RECEIVE_BUFFER_SIZE
  HeaderSize,            \* sizeof(MessageHeader)
  Sizes,                 \* values a client may put into MessageHeader::size
  MessageTypes,          \* and into message_type
  Registered,            \* message types with a handler
  MaxSent,               \* bound: messages a client sends
  MayFail,               \* may a receive fail?
  PoolMayFail,           \* may no operation be acquired for a receive?
  MayEnd                 \* may the client close its end?

ASSUME BufferAssumption ==
  /\ HeaderSize \in Nat \ {0}
  /\ MaxReceiveBufferSize \in Nat /\ HeaderSize <= MaxReceiveBufferSize
  /\ Sizes \subseteq Int /\ Registered \subseteq MessageTypes
  /\ MaxSent \in Nat
  /\ MayFail \in BOOLEAN /\ PoolMayFail \in BOOLEAN /\ MayEnd \in BOOLEAN

Messages == [size : Sizes, message_type : MessageTypes]

\* A header that declares less than its own size, or a negative one, is a header
\* all the same.
Length(m) == IF m.size < HeaderSize THEN HeaderSize ELSE m.size

Bytes(n, m) == [j \in 1 .. Length(m) |-> <<n, j>>]

Unwritten == <<0, 0>>

VARIABLES
  sent, ended,    \* external: messages the client began; has it closed its end?
  wire,           \* external: bytes of these that have not been received
  unsent,         \* external: how many at the end of wire will never be sent
  buffer,         \* IOUringObject::buffer_
  commited_size,  \* IOUringObject::commited_size_
  span,           \* the span of the outstanding IOOperationRecv
  pc,             \* what the session is doing
  taken, handled  \* history: messages consumed, calls of the handlers

client == <<sent, ended, unsent>>
vars   == <<sent, ended, unsent, wire, buffer, commited_size, span, pc, taken, handled>>

Init ==
  /\ sent = <<>> /\ ended = FALSE /\ wire = <<>> /\ unsent = 0
  /\ buffer = [i \in 1 .. MaxReceiveBufferSize |-> Unwritten]
  /\ commited_size = 0
  /\ span = [at |-> 0, size |-> 0]
  /\ pc = "request"
  /\ taken = 0 /\ handled = <<>>

-----------------------------------------------------------------------------
(* The client (external).                                                  *)

Send(m) ==
  /\ Len(sent) < MaxSent /\ ~ended
  /\ sent' = Append(sent, m)
  /\ wire' = wire \o Bytes(Len(sent) + 1, m)
  /\ UNCHANGED <<ended, unsent, buffer, commited_size, span, pc, taken, handled>>

\* write_all fails when k bytes of the message are still to be sent, and the
\* client closes its socket.
SendPartly(m, k) ==
  /\ MayEnd /\ Len(sent) < MaxSent /\ ~ended /\ k \in 1 .. Length(m) - 1
  /\ sent' = Append(sent, m)
  /\ wire' = wire \o Bytes(Len(sent) + 1, m)
  /\ ended' = TRUE /\ unsent' = k
  /\ UNCHANGED <<buffer, commited_size, span, pc, taken, handled>>

End ==
  /\ MayEnd /\ ~ended
  /\ ended' = TRUE
  /\ UNCHANGED <<sent, unsent, wire, buffer, commited_size, span, pc, taken, handled>>

-----------------------------------------------------------------------------
(* The receive chain.                                                      *)

\* Faulty variant: one byte more than there is room for.
GetRemainSpanOffByOne == [at |-> commited_size,
                          size |-> MaxReceiveBufferSize - commited_size + 1]

GetRemainSpan == [at |-> commited_size,
                  size |-> MaxReceiveBufferSize - commited_size]

\* The span is computed when the receive is requested, not when it completes.
RequestReceive ==
  /\ pc = "request"
  /\ span' = GetRemainSpan
  /\ pc' = "receive"
  /\ UNCHANGED <<client, wire, buffer, commited_size, taken, handled>>

\* request_io returns without a word if no operation can be acquired: nothing
\* asks for a receive again, and nothing closes the session.
DropReceive ==
  /\ pc = "request" /\ PoolMayFail
  /\ pc' = "dropped"
  /\ UNCHANGED <<client, wire, buffer, commited_size, span, taken, handled>>

\* The kernel fills the span with n bytes and the completion commits them.
Receive(n) ==
  /\ pc = "receive" /\ n \in 1 .. span.size /\ n <= Len(wire) - unsent
  /\ buffer' = [i \in DOMAIN buffer |->
                  IF i - span.at \in 1 .. n THEN wire[i - span.at] ELSE buffer[i]]
  /\ wire' = SubSeq(wire, n + 1, Len(wire))
  /\ commited_size' = commited_size + n
  /\ pc' = "parse"
  /\ UNCHANGED <<client, span, taken, handled>>

\* A receive of nothing: the stream has ended, or there is no room.
ReceiveNothing ==
  /\ pc = "receive"
  /\ span.size = 0 \/ (ended /\ Len(wire) = unsent)
  /\ pc' = "parse"
  /\ UNCHANGED <<client, wire, buffer, commited_size, span, taken, handled>>

\* on_receive_failed requests a close; the session receives no more.
ReceiveFails ==
  /\ pc = "receive" /\ MayFail
  /\ pc' = "closed"
  /\ UNCHANGED <<client, wire, buffer, commited_size, span, taken, handled>>

-----------------------------------------------------------------------------
(* The loop of on_received.                                                *)

\* The header at the front of the buffer.
Header == sent[buffer[1][1]]

\* Faulty variants: a message that ends with the buffered bytes waits for one
\* byte more; a message is dispatched as soon as its header is there.
HasMessageStrict ==
  /\ commited_size >= HeaderSize
  /\ Header.size >= HeaderSize
  /\ commited_size > Header.size

HasMessageHeader ==
  /\ commited_size >= HeaderSize
  /\ Header.size >= HeaderSize
  /\ Header.size <= MaxReceiveBufferSize

\* The three reasons to leave the loop, negated.
HasMessage ==
  /\ commited_size >= HeaderSize
  /\ Header.size >= HeaderSize
  /\ commited_size >= Header.size

\* MessageDispatcher::dispatch: a type without a handler is skipped.
Dispatch ==
  handled' = IF Header.message_type \in Registered
             THEN Append(handled, SubSeq(buffer, 1, Header.size)) ELSE handled

\* Faulty variant: the rest stays where it is.
ProcessCompletedStays(size) ==
  commited_size' = commited_size - size /\ UNCHANGED buffer

\* process_completed: the rest is moved to the front, if there is any.
ProcessCompleted(size) ==
  /\ buffer' = [i \in DOMAIN buffer |->
                  IF i + size <= commited_size THEN buffer[i + size]
                                               ELSE buffer[i]]
  /\ commited_size' = commited_size - size

\* Faulty variant: one message per receive.
ParseMessageOnce ==
  /\ pc = "parse" /\ HasMessage
  /\ Dispatch
  /\ ProcessCompleted(Header.size)
  /\ taken' = taken + 1
  /\ pc' = "request"
  /\ UNCHANGED <<client, wire, span>>

ParseMessage ==
  /\ pc = "parse" /\ HasMessage
  /\ Dispatch
  /\ ProcessCompleted(Header.size)
  /\ taken' = taken + 1
  /\ UNCHANGED <<client, wire, span, pc>>

LeaveLoop ==
  /\ pc = "parse" /\ ~HasMessage
  /\ pc' = "request"
  /\ UNCHANGED <<client, wire, buffer, commited_size, span, taken, handled>>

-----------------------------------------------------------------------------
Session == RequestReceive \/ DropReceive \/ ParseMessage \/ LeaveLoop

Kernel == ReceiveNothing \/ \E n \in 1 .. MaxReceiveBufferSize : Receive(n)

Next ==
  \/ Session \/ Kernel \/ ReceiveFails
  \/ End
  \/ \E m \in Messages : \/ Send(m)
                         \/ \E k \in 1 .. Length(m) - 1 : SendPartly(m, k)

Spec == Init /\ [][Next]_vars

\* The worker threads run, and a receive that can complete does.
FairSpec == Spec /\ WF_vars(Session) /\ WF_vars(Kernel)

-----------------------------------------------------------------------------
(* Properties.                                                             *)

Byte == {Unwritten} \cup (Nat \X Nat)

\* The shape of every variable of the receive buffer; what is committed and
\* what an outstanding receive may fill lie within the array.
TypeOK ==
  /\ sent \in Seq(Messages) /\ ended \in BOOLEAN /\ unsent \in 0 .. Len(wire)
  /\ wire \in Seq(Byte)
  /\ buffer \in [1 .. MaxReceiveBufferSize -> Byte]
  /\ commited_size \in 0 .. MaxReceiveBufferSize
  /\ span \in [at : 0 .. MaxReceiveBufferSize, size : 0 .. MaxReceiveBufferSize]
  /\ span.at + span.size <= MaxReceiveBufferSize
  /\ pc \in {"request", "receive", "parse", "closed", "dropped"}
  /\ taken \in Nat
  /\ handled \in Seq(Seq(Byte))

Unread == SubSeq(buffer, 1, commited_size) \o wire

\* The byte after b in what the client sent.
After(b) == IF b[2] < Length(sent[b[1]]) THEN <<b[1], b[2] + 1>>
                                         ELSE <<b[1] + 1, 1>>

\* No byte is lost, repeated or overwritten on its way through the buffer,
\* however the stream is cut and whatever the headers declare: the committed
\* bytes and those to be received are those of the messages the client began
\* after the ones taken so far, up to the last byte.
BytesConserved ==
  IF taken = Len(sent) THEN Unread = <<>>
  ELSE /\ Unread # <<>> /\ Unread[1] = <<taken + 1, 1>>
       /\ \A i \in 1 .. Len(Unread) - 1 : Unread[i + 1] = After(Unread[i])
       /\ After(Unread[Len(Unread)]) = <<Len(sent) + 1, 1>>

\* The receive chain implements the stream of whole messages.
Stream == INSTANCE MessageStream
StreamOfMessages == Stream!Spec

Fits(m) == m.size \in HeaderSize .. MaxReceiveBufferSize

\* As long as the message it waits for fits, the session never asks for a
\* receive of no bytes, which would complete at once and turn the chain into a
\* busy loop, however many messages and parts of messages are buffered.
RoomToReceive ==
  /\ pc = "receive"
  /\ taken < Len(sent) => Fits(sent[taken + 1])
  => span.size > 0

\* The client sent message n to its end.
SentWhole(n) == Len(sent) >= n /\ (n = Len(sent) => unsent = 0)

\* A message that fits and was sent to its end is taken in the end if those
\* before it fit, whatever follows it and even if the client closes its end or
\* breaks off a later message, unless a receive fails or cannot be requested.
AllTaken ==
  \A n \in 1 .. MaxSent :
    SentWhole(n) /\ (\A i \in 1 .. n : Fits(sent[i]))
      ~> taken >= n \/ pc \in {"closed", "dropped"}

=============================================================================
