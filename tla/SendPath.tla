------------------------------- MODULE SendPath -------------------------------
(***************************************************************************)
(* What a SendBuffer goes through: a handler or a task fills it, shares it *)
(* between the send operations of one or several sessions, and lets go of  *)
(* it; the rings of IORing pass the operations to the kernel, which reads  *)
(* the buffer when it likes; the last reference deletes it.                *)
(*                                                                         *)
(* The callers are the sample's timestamp_task, which cuts an answer into  *)
(* chunks, and SendMessage for a list of actors.  The ring an operation    *)
(* goes to is arbitrary, since every thread advances the round robin.  A   *)
(* byte is a position in the header of the answer, or 0 for the filler.    *)
(***************************************************************************)
EXTENDS IORing, FiniteSets

CONSTANTS
  Receives,        \* operations that receive: their completion runs a handler
  Buffers,         \* addresses of SendBuffers
  MaxMessageSize,  \* SendBuffer::MAX_MESSAGE_SIZE
  ChunkSize,       \* kChunkSize of timestamp_task
  HeaderSize,      \* length of the text at the start of an answer
  Totals,          \* what total_send_size may be
  Recipients,      \* bound: actors in a list
  MaxCalls,        \* bound: calls of timestamp_task and SendMessage
  None

ASSUME SendAssumption ==
  /\ Receives \subseteq Ops \ Closing
  /\ MaxMessageSize \in Nat /\ ChunkSize \in 1 .. MaxMessageSize
  /\ HeaderSize \in Nat /\ Totals \subseteq Nat \ {0}
  /\ Recipients \in Nat /\ MaxCalls \in Nat
  /\ None \notin Buffers
  /\ IsFiniteSet(Workers) /\ IsFiniteSet(Ops)

VARIABLES
  data,         \* SendBuffer::buffer_, as far as size_
  ref_count,    \* RefCountable::ref_count_; 0 for memory that is free
  call,         \* the call a worker is in
  send_buffer,  \* IOOperationSendBuffer::send_buffer_
  entry,        \* address and length in the submission entry of a send
  wanted,       \* history: what a send was requested with
  emitted,      \* history: what timestamp_task has requested so far
  calls         \* calls begun

sendVars == <<data, ref_count, call, send_buffer, entry, wanted, emitted, calls>>
vars == <<ringVars, sendVars>>

Sends == Ops \ (Receives \cup Closing)

NoEntry == [buf |-> None, len |-> 0]

\* No call: its parameters and locals, and the actors it has yet to send to.
Idle == [on |-> FALSE, total |-> 0, remaining |-> 0, offset |-> 0,
         buf |-> None, to |-> 0]

Init ==
  /\ RingInit
  /\ data = [b \in Buffers |-> <<>>]
  /\ ref_count = [b \in Buffers |-> 0]
  /\ call = [w \in Workers |-> Idle]
  /\ send_buffer = [op \in Sends |-> None]
  /\ entry = [op \in Sends |-> NoEntry]
  /\ wanted = [op \in Sends |-> <<>>]
  /\ emitted = [w \in Workers |-> <<>>]
  /\ calls = 0

-----------------------------------------------------------------------------
(* SendBuffer.                                                             *)

\* Faulty variant: no limit.
WriteUnchecked(bytes, str) == bytes \o str

\* SendBuffer::write: what does not fit is left out altogether.
Write(bytes, str) ==
  IF Len(bytes) + Len(str) > MaxMessageSize THEN bytes ELSE bytes \o str

\* new SendBuffer(), held by one ObjectPtr, and the write to it.
NewBuffer(b, str) ==
  /\ ref_count[b] = 0
  /\ \A a \in Buffers : ref_count[a] = 0 => b <= a
  /\ ref_count' = [ref_count EXCEPT ![b] = 1]
  /\ data' = [data EXCEPT ![b] = Write(<<>>, str)]

\* intrusive_ptr_release: the last reference deletes the buffer.
ReleaseBuffer(b) ==
  /\ ref_count' = [ref_count EXCEPT ![b] = @ - 1]
  /\ data' = IF ref_count[b] = 1 THEN [data EXCEPT ![b] = <<>>] ELSE data

-----------------------------------------------------------------------------
(* The callers.                                                            *)

Smaller(m, n) == IF m < n THEN m ELSE n

\* One turn of timestamp_task's loop: filler, overlaid with what of the
\* header belongs to these positions.
Chunk(offset, chunk) ==
  LET copy == IF offset < HeaderSize THEN Smaller(chunk, HeaderSize - offset)
                                     ELSE 0
  IN  [i \in 1 .. chunk |-> IF i <= copy THEN offset + i ELSE 0]

\* A message handler runs on the completion of a receive, a task when the
\* task layer has its turn.
MayCall(w) ==
  /\ ~call[w].on /\ calls < MaxCalls
  /\ \/ pc[w] = "handle" /\ Head(cq[w]).op \in Receives
     \/ pc[w] = "tasks"

\* timestamp_task draws the size of the answer.
TimestampTask(w) ==
  /\ MayCall(w)
  /\ calls' = calls + 1
  /\ \E total \in Totals :
       call' = [call EXCEPT ![w] = [Idle EXCEPT !.on = TRUE, !.total = total,
                                                !.remaining = total]]
  /\ UNCHANGED <<ringVars, data, ref_count, send_buffer, entry, wanted, emitted>>

\* SendMessage: one buffer for all actors of the list that are not null.
SendMessage(w) ==
  /\ MayCall(w)
  /\ calls' = calls + 1
  /\ \E b \in Buffers, size \in {1, MaxMessageSize + 1}, k \in 0 .. Recipients :
       /\ NewBuffer(b, [i \in 1 .. size |-> 0])
       /\ call' = [call EXCEPT ![w] = [Idle EXCEPT !.on = TRUE, !.buf = b,
                                                   !.to = k]]
  /\ UNCHANGED <<ringVars, send_buffer, entry, wanted, emitted>>

FillChunk(w) ==
  LET c == call[w]
      payload == Chunk(c.offset, Smaller(ChunkSize, c.remaining)) IN
  /\ c.on /\ c.buf = None /\ c.remaining > 0
  /\ \E b \in Buffers :
       /\ NewBuffer(b, payload)
       /\ call' = [call EXCEPT ![w].buf = b, ![w].to = 1]
       /\ emitted' = [emitted EXCEPT ![w] = @ \o data'[b]]
  /\ UNCHANGED <<ringVars, send_buffer, entry, wanted, calls>>

\* Faulty variants: the operation keeps a plain pointer; a request that is
\* not carried out keeps its reference.
RequestSendBorrows(w) ==
  LET c == call[w] IN
  /\ c.on /\ c.to > 0
  /\ call' = [call EXCEPT ![w].to = @ - 1]
  /\ \E v \in Workers, op \in Sends \ live :
       /\ PushRequest(v, op)
       /\ send_buffer' = [send_buffer EXCEPT ![op] = c.buf]
       /\ wanted' = [wanted EXCEPT ![op] = data[c.buf]]
  /\ UNCHANGED <<sq, inflight, cq, holding, pc, fault,
                 data, ref_count, entry, emitted, calls>>

RequestSendLeaks(w) ==
  LET c == call[w] IN
  /\ c.on /\ c.to > 0
  /\ call' = [call EXCEPT ![w].to = @ - 1]
  /\ ref_count' = [ref_count EXCEPT ![c.buf] = @ + 1]
  /\ UNCHANGED <<ringVars, data, send_buffer, entry, wanted, emitted, calls>>

\* Actor::request_send down to Service::request_io: an operation that copies
\* the ObjectPtr is acquired and pushed to some ring, or none can be acquired
\* and the request is dropped.
RequestSend(w) ==
  LET c == call[w] IN
  /\ c.on /\ c.to > 0
  /\ call' = [call EXCEPT ![w].to = @ - 1]
  /\ \/ LET op == CHOOSE o \in Sends \ live : TRUE IN
        /\ Sends \ live # {}
        /\ \E v \in Workers : PushRequest(v, op)
        /\ ref_count' = [ref_count EXCEPT ![c.buf] = @ + 1]
        /\ send_buffer' = [send_buffer EXCEPT ![op] = c.buf]
        /\ wanted' = [wanted EXCEPT ![op] = data[c.buf]]
     \/ UNCHANGED <<live, request_queue, ref_count, send_buffer, wanted>>
  /\ UNCHANGED <<sq, inflight, cq, holding, pc, fault, data, entry, emitted, calls>>

\* Faulty variant: the offset stays.
EndTurnStays(w) ==
  LET c == call[w] IN
  /\ c.buf # None /\ c.to = 0
  /\ ReleaseBuffer(c.buf)
  /\ call' = [call EXCEPT ![w].buf = None,
                          ![w].remaining = @ - Smaller(ChunkSize, @)]
  /\ UNCHANGED <<ringVars, send_buffer, entry, wanted, emitted, calls>>

\* The ObjectPtr of the caller goes out of scope, at the end of a turn of
\* timestamp_task's loop or of SendMessage.
EndTurn(w) ==
  LET c == call[w]
      chunk == Smaller(ChunkSize, c.remaining) IN
  /\ c.buf # None /\ c.to = 0
  /\ ReleaseBuffer(c.buf)
  /\ call' = [call EXCEPT ![w].buf = None, ![w].remaining = @ - chunk,
                          ![w].offset = @ + chunk]
  /\ UNCHANGED <<ringVars, send_buffer, entry, wanted, emitted, calls>>

ReturnCall(w) ==
  /\ call[w].on /\ call[w].buf = None /\ call[w].remaining = 0
  /\ call' = [call EXCEPT ![w] = Idle]
  /\ emitted' = [emitted EXCEPT ![w] = <<>>]
  /\ UNCHANGED <<ringVars, data, ref_count, send_buffer, entry, wanted, calls>>

-----------------------------------------------------------------------------
(* The worker's loop and the kernel.                                       *)

\* IOOperationSendBuffer::request_io: the entry gets address and size.
PrepareSend(w) ==
  LET op == Head(request_queue[w]) IN
  /\ Prepare(w)
  /\ entry' = IF op \in Sends
              THEN [entry EXCEPT ![op] = [buf |-> send_buffer[op],
                                          len |-> Len(data[send_buffer[op]])]]
              ELSE entry
  /\ UNCHANGED <<data, ref_count, call, send_buffer, wanted, emitted, calls>>

\* Faulty variant: the operation goes back without its destructor.
RetireSendKeeps(w) ==
  /\ ~call[w].on
  /\ Retire(w)
  /\ UNCHANGED sendVars

\* The operation goes back to its pool: its destructor drops the buffer.
RetireSend(w) ==
  LET op == Head(cq[w]).op IN
  /\ ~call[w].on
  /\ Retire(w)
  /\ IF holding[w] /\ op \in Sends
     THEN /\ ReleaseBuffer(send_buffer[op])
          /\ send_buffer' = [send_buffer EXCEPT ![op] = None]
          /\ entry' = [entry EXCEPT ![op] = NoEntry]
          /\ wanted' = [wanted EXCEPT ![op] = <<>>]
     ELSE UNCHANGED <<data, ref_count, send_buffer, entry, wanted>>
  /\ UNCHANGED <<call, emitted, calls>>

\* The steps of the routine that no buffer takes part in: on_sent is empty.
LoopStep(w) ==
  /\ ~call[w].on
  /\ WaitOne(w) \/ Handle(w) \/ BeginFlush(w) \/ Submit(w)
  /\ UNCHANGED sendVars

SendWorker(w) ==
  /\ ~fault
  /\ \/ LoopStep(w) \/ PrepareSend(w) \/ RetireSend(w)
     \/ FillChunk(w) \/ RequestSend(w) \/ EndTurn(w) \/ ReturnCall(w)

Begin(w) == ~fault /\ (TimestampTask(w) \/ SendMessage(w))

\* The kernel finishes an operation; whether it took all, some or none of the
\* bytes of a send is ignored by the code.
KernelStep(op) ==
  /\ ~fault
  /\ \E w \in Workers, res \in Results : Complete(w, op, res)
  /\ UNCHANGED sendVars

\* The rest of the service requests receives and closes, as long as one of
\* them can still lead to a call.
RequestOther(w) ==
  /\ ~fault /\ calls < MaxCalls
  /\ \E op \in Receives \cup Closing : Request(w, op)
  /\ UNCHANGED sendVars

Next ==
  \/ \E w \in Workers : SendWorker(w) \/ Begin(w) \/ RequestOther(w)
  \/ \E op \in Ops : KernelStep(op)

Spec == Init /\ [][Next]_vars

\* Threads run and the kernel finishes what it was given to send; nobody owes
\* a call or a message.
FairSpec ==
  /\ Spec
  /\ \A w \in Workers : WF_vars(SendWorker(w))
  /\ \A op \in Sends : WF_vars(KernelStep(op))

-----------------------------------------------------------------------------
(* Properties.                                                             *)

\* The shape of every variable; no buffer holds more than its array does.
SendTypeOK ==
  /\ RingTypeOK
  /\ \A b \in Buffers : /\ data[b] \in Seq(0 .. HeaderSize)
                        /\ Len(data[b]) <= MaxMessageSize
  /\ ref_count \in [Buffers -> Nat]
  /\ call \in [Workers -> [on : BOOLEAN, total : Totals \cup {0},
                           remaining : Nat, offset : Nat,
                           buf : Buffers \cup {None}, to : 0 .. Recipients + 1]]
  /\ send_buffer \in [Sends -> Buffers \cup {None}]
  /\ entry \in [Sends -> [buf : Buffers \cup {None}, len : 0 .. MaxMessageSize]]
  /\ wanted \in [Sends -> Seq(0 .. HeaderSize)]
  /\ emitted \in [Workers -> Seq(0 .. HeaderSize)]
  /\ calls \in 0 .. MaxCalls

\* A buffer's count is the number of callers and of operations that hold it,
\* whichever threads share it and whichever requests fail; so it is deleted
\* when the last of them lets go, and not before.
BufferCounted ==
  \A b \in Buffers :
    ref_count[b] = Cardinality({w \in Workers : call[w].buf = b})
                     + Cardinality({op \in live \cap Sends : send_buffer[op] = b})

\* Until a send has completed, the memory its entry points to is that of a
\* buffer in use that still holds what the caller requested to send.
SentIntact ==
  \A w \in Workers : \A op \in (SeqToSet(sq[w]) \cup inflight[w]) \cap Sends :
    /\ ref_count[entry[op].buf] > 0
    /\ SubSeq(data[entry[op].buf], 1, entry[op].len) = wanted[op]

AnswerBytes(total) == [i \in 1 .. total |-> IF i <= HeaderSize THEN i ELSE 0]

\* The chunks of timestamp_task, one after the other, are the answer: the
\* header as far as it fits, then filler, of the size that was drawn.
AnswerTiled ==
  \A w \in Workers :
    LET c == call[w] IN
    c.total > 0 /\ c.buf = None =>
      /\ c.offset + c.remaining = c.total
      /\ emitted[w] = SubSeq(AnswerBytes(c.total), 1, c.offset)

\* Every buffer is deleted at last, also when it is shared by several sends
\* or its request is dropped, if the kernel finishes the sends.
BuffersReclaimed == \A b \in Buffers : ref_count[b] > 0 ~> ref_count[b] = 0

=============================================================================
