---------------------------- MODULE SendPathProofs ----------------------------
(***************************************************************************)
(* Theorems about SendPath, for any number of workers, operations and      *)
(* buffers, any sizes and any number of calls.  That an operation is       *)
(* referred to once comes from IORingProofs, since the send path uses the  *)
(* rings as IORing allows.                                                 *)
(***************************************************************************)
EXTENDS SendPath, IORingProofs

-----------------------------------------------------------------------------
(* The inductive invariant.                                                *)

CallSet == [on : BOOLEAN, total : Totals \cup {0}, remaining : Nat, offset : Nat,
            buf : Buffers \cup {None}, to : 0 .. Recipients + 1]

\* The shape of the buffers, the calls and the histories.
SendShape ==
  /\ data \in [Buffers -> Seq(0 .. HeaderSize)]
  /\ \A b \in Buffers : Len(data[b]) <= MaxMessageSize
  /\ ref_count \in [Buffers -> Nat]
  /\ call \in [Workers -> CallSet]
  /\ send_buffer \in [Sends -> Buffers \cup {None}]
  /\ entry \in [Sends -> [buf : Buffers \cup {None}, len : 0 .. MaxMessageSize]]
  /\ wanted \in [Sends -> Seq(0 .. HeaderSize)]
  /\ emitted \in [Workers -> Seq(0 .. HeaderSize)]
  /\ calls \in 0 .. MaxCalls

\* A call that is over has no locals, one that has actors left to send to has
\* a buffer, and one that is not timestamp_task's has nothing to cut.
CallsKept ==
  \A w \in Workers : /\ ~call[w].on => call[w] = Idle
                     /\ call[w].to > 0 => call[w].buf # None
                     /\ call[w].total = 0 => call[w].remaining = 0

\* A send keeps the buffer it was requested with, whose bytes do not change,
\* from its request until it is back in the pool.
BufferKept ==
  \A op \in Sends : IF op \in live THEN /\ send_buffer[op] \in Buffers
                                        /\ wanted[op] = data[send_buffer[op]]
                                   ELSE send_buffer[op] = None

\* Once prepared, its entry has the address and the size of that buffer.
EntryKept ==
  \A w \in Workers, k \in {"prepared", "kernel", "completed"}, op \in Sends :
    op \in Held(w, k) =>
      op \in live /\ entry[op] = [buf |-> send_buffer[op], len |-> Len(wanted[op])]

SendPart == SendShape /\ CallsKept /\ BufferKept /\ EntryKept /\ BufferCounted
SendInv  == RingTypeOK /\ RefInv /\ SendPart

\* How far the chunks of a call reach: to the end of the one in hand.
Reach(c) ==
  c.offset + (IF c.buf = None THEN 0 ELSE Smaller(ChunkSize, c.remaining))

Tiled(c, bytes) ==
  IF c.total = 0 THEN bytes = <<>>
  ELSE /\ c.offset + c.remaining = c.total
       /\ bytes = SubSeq(AnswerBytes(c.total), 1, Reach(c))

\* The chunks requested so far are the beginning of the answer, also between
\* the request of a chunk and the end of its turn.
TiledSoFar == \A w \in Workers : Tiled(call[w], emitted[w])

-----------------------------------------------------------------------------
(* The send path uses the rings as IORing allows.                          *)

\* Every step of the send path is a step of the rings or leaves them alone.
LEMMA SendStepIsRingStep == Next => [RingNext]_ringVars
<1> SUFFICES ASSUME Next PROVE RingNext \/ UNCHANGED ringVars
  OBVIOUS
<1>1. Sends \subseteq Ops /\ Receives \subseteq Ops /\ Closing \subseteq Ops
  BY SendAssumption, RingAssumption DEF Sends
<1>2. ASSUME NEW w \in Workers, SendWorker(w)
      PROVE  RingNext \/ UNCHANGED ringVars
  <2>1. ASSUME Worker(w) PROVE RingNext
    BY <2>1 DEF RingNext
  <2>2. CASE LoopStep(w)
    BY <1>2, <2>1, <2>2 DEF LoopStep, SendWorker, Worker
  <2>3. CASE PrepareSend(w)
    BY <1>2, <2>1, <2>3 DEF PrepareSend, SendWorker, Worker
  <2>4. CASE RetireSend(w)
    BY <1>2, <2>1, <2>4 DEF RetireSend, SendWorker, Worker
  <2>5. CASE RequestSend(w)
    <3>1. CASE UNCHANGED <<live, request_queue>>
      BY <2>5, <3>1 DEF RequestSend, ringVars
    <3>2. CASE Sends \ live # {} /\ \E v \in Workers :
                 PushRequest(v, CHOOSE o \in Sends \ live : TRUE)
      <4> DEFINE op == CHOOSE o \in Sends \ live : TRUE
      <4>1. op \in Sends \ live
        BY <3>2
      <4>2. PICK v \in Workers : PushRequest(v, op)
        BY <3>2
      <4>3. UNCHANGED <<sq, inflight, cq, holding, pc, fault>>
        BY <2>5 DEF RequestSend
      <4> HIDE DEF op
      <4>4. Request(v, op)
        BY <4>1, <4>2, <4>3 DEF Request
      <4> QED
        BY <1>1, <1>2, <4>1, <4>4 DEF RingNext, SendWorker
    <3> QED
      BY <2>5, <3>1, <3>2 DEF RequestSend
  <2>6. CASE FillChunk(w) \/ EndTurn(w) \/ ReturnCall(w)
    BY <2>6 DEF FillChunk, EndTurn, ReturnCall
  <2> QED
    BY <1>2, <2>2, <2>3, <2>4, <2>5, <2>6 DEF SendWorker
<1>3. ASSUME NEW w \in Workers, Begin(w)
      PROVE  UNCHANGED ringVars
  BY <1>3 DEF Begin, TimestampTask, SendMessage
<1>4. ASSUME NEW w \in Workers, RequestOther(w)
      PROVE  RingNext
  BY <1>1, <1>4 DEF RequestOther, RingNext
<1>5. ASSUME NEW op \in Ops, KernelStep(op)
      PROVE  RingNext
  <2>1. PICK w \in Workers, res \in Results : Complete(w, op, res)
    BY <1>5 DEF KernelStep
  <2>2. op \in inflight[w]
    BY <2>1 DEF Complete
  <2>3. Kernel(w)
    BY <1>5, <2>1, <2>2 DEF Kernel, KernelStep
  <2> QED
    BY <2>3 DEF RingNext
<1> QED
  BY <1>2, <1>3, <1>4, <1>5 DEF Next

\* Whatever the callers do, the rings are used as IORing says: only operations
\* from the pool are requested, and only by a step that takes them out of it.
THEOREM SendUsesRing == Spec => RingSpec
<1>1. Init => RingInit
  BY DEF Init
<1>2. [Next]_vars => [RingNext]_ringVars
  BY SendStepIsRingStep DEF vars, ringVars
<1> QED
  BY <1>1, <1>2, PTL DEF Spec, RingSpec

\* So every send, receive and close is referred to once while it is out of the
\* pool, however the callers, the workers and the kernel interleave.
THEOREM SendReferencedOnce == Spec => []OneReference
BY SendUsesRing, OperationReferencedOnce, PTL

-----------------------------------------------------------------------------
(* Lemmas about the operators.                                             *)

\* A write to a new buffer stores the bytes if they fit and nothing otherwise.
LEMMA WriteIs ==
  ASSUME NEW str \in Seq(0 .. HeaderSize)
  PROVE  /\ Write(<<>>, str) \in Seq(0 .. HeaderSize)
         /\ Len(Write(<<>>, str)) <= MaxMessageSize
         /\ Len(str) <= MaxMessageSize => Write(<<>>, str) = str
<1>1. /\ <<>> \in Seq(0 .. HeaderSize) /\ Len(<<>>) = 0 /\ Len(str) \in Nat
      /\ <<>> \o str = str /\ MaxMessageSize \in Nat
  BY EmptySeq, ConcatEmptySeq, LenProperties, SendAssumption
<1>2. Write(<<>>, str) = IF Len(str) > MaxMessageSize THEN <<>> ELSE str
  BY <1>1 DEF Write
<1>3. CASE Len(str) > MaxMessageSize
  <2>1. Write(<<>>, str) = <<>>
    BY <1>1, <1>2, <1>3
  <2>2. ~(Len(str) <= MaxMessageSize) /\ 0 <= MaxMessageSize
    BY <1>1, <1>3
  <2> QED
    BY <1>1, <2>1, <2>2
<1>4. CASE Len(str) <= MaxMessageSize
  <2>1. Write(<<>>, str) = str
    BY <1>1, <1>2, <1>4
  <2> QED
    BY <1>4, <2>1
<1> QED
  BY <1>1, <1>3, <1>4

\* A chunk has the bytes of the answer at its offset.
LEMMA ChunkIs ==
  ASSUME NEW o \in Nat, NEW n \in Nat
  PROVE  /\ Chunk(o, n) \in Seq(0 .. HeaderSize) /\ Len(Chunk(o, n)) = n
         /\ \A i \in 1 .. n : Chunk(o, n)[i] = IF o + i <= HeaderSize THEN o + i ELSE 0
<1> DEFINE copy == IF o < HeaderSize THEN Smaller(n, HeaderSize - o) ELSE 0
<1>0. HeaderSize \in Nat
  BY SendAssumption
<1>1. Chunk(o, n) = [i \in 1 .. n |-> IF i <= copy THEN o + i ELSE 0]
  BY DEF Chunk
<1>2. \A i \in 1 .. n : i <= copy <=> o + i <= HeaderSize
  BY <1>0 DEF Smaller
<1> HIDE DEF copy
<1>3. \A i \in 1 .. n : /\ Chunk(o, n)[i] = IF o + i <= HeaderSize THEN o + i ELSE 0
                        /\ Chunk(o, n)[i] \in 0 .. HeaderSize
  BY <1>0, <1>1, <1>2
<1>4. Chunk(o, n) \in [1 .. n -> 0 .. HeaderSize]
  BY <1>1, <1>3
<1>5. Chunk(o, n) \in Seq(0 .. HeaderSize)
  BY <1>4, SeqDef
<1>6. Len(Chunk(o, n)) = n
  BY <1>4, <1>5, LenProperties
<1> QED
  BY <1>3, <1>5, <1>6

\* The smaller of two sizes.
LEMMA SmallerIs ==
  ASSUME NEW m \in Nat, NEW n \in Nat
  PROVE  Smaller(m, n) \in Nat /\ Smaller(m, n) <= m /\ Smaller(m, n) <= n
BY DEF Smaller

\* The updates of a call.
LEMMA CallUpdates ==
  ASSUME NEW c \in CallSet, NEW b \in Buffers \cup {None},
         NEW n \in 0 .. Recipients + 1, NEW r \in Nat, NEW o \in Nat
  PROVE  /\ [c EXCEPT !.to = n] \in CallSet
         /\ [c EXCEPT !.buf = b, !.to = n] \in CallSet
         /\ [c EXCEPT !.buf = b, !.remaining = r, !.offset = o] \in CallSet
BY DEF CallSet

\* No call is a call, with nothing in it.
LEMMA IdleIs ==
  /\ Idle \in CallSet
  /\ ~Idle.on /\ Idle.total = 0 /\ Idle.remaining = 0 /\ Idle.offset = 0
  /\ Idle.buf = None /\ Idle.to = 0
<1>1. Recipients \in Nat
  BY SendAssumption
<1>2. Idle \in CallSet
  BY <1>1 DEF CallSet, Idle
<1> QED
  BY <1>2 DEF Idle

\* A call of timestamp_task or of SendMessage begins.
LEMMA CallBegins ==
  /\ \A total \in Totals :
       /\ [Idle EXCEPT !.on = TRUE, !.total = total, !.remaining = total] \in CallSet
       /\ [Idle EXCEPT !.on = TRUE, !.total = total, !.remaining = total].on
  /\ \A b \in Buffers, k \in 0 .. Recipients :
       /\ [Idle EXCEPT !.on = TRUE, !.buf = b, !.to = k] \in CallSet
       /\ [Idle EXCEPT !.on = TRUE, !.buf = b, !.to = k].on
<1> DEFINE e == TRUE
<1>1. e \in BOOLEAN /\ e
  OBVIOUS
<1>2. Totals \subseteq Nat /\ Recipients \in Nat
  BY SendAssumption
<1> HIDE DEF e
<1>3. ASSUME NEW total \in Totals
      PROVE  /\ [Idle EXCEPT !.on = e, !.total = total, !.remaining = total] \in CallSet
             /\ [Idle EXCEPT !.on = e, !.total = total, !.remaining = total].on = e
  BY <1>1, <1>2, IdleIs DEF CallSet
<1>4. ASSUME NEW b \in Buffers, NEW k \in 0 .. Recipients
      PROVE  /\ [Idle EXCEPT !.on = e, !.buf = b, !.to = k] \in CallSet
             /\ [Idle EXCEPT !.on = e, !.buf = b, !.to = k].on = e
  <2>1. k \in 0 .. Recipients + 1 /\ b \in Buffers \cup {None}
    BY <1>2
  <2>2. \A c \in CallSet : /\ [c EXCEPT !.on = e, !.buf = b, !.to = k] \in CallSet
                           /\ [c EXCEPT !.on = e, !.buf = b, !.to = k].on = e
    BY <1>1, <2>1 DEF CallSet
  <2> QED
    BY <2>2, IdleIs
<1> QED
  BY <1>1, <1>3, <1>4 DEF e

\* A call is updated in place: what must be shown of it.
LEMMA CallUpdated ==
  ASSUME call \in [Workers -> CallSet], CallsKept, NEW w \in Workers,
         NEW d \in CallSet, call' = [call EXCEPT ![w] = d],
         ~d.on => d = Idle, d.to > 0 => d.buf # None,
         d.total = 0 => d.remaining = 0
  PROVE  /\ call' \in [Workers -> CallSet] /\ CallsKept'
         /\ call'[w] = d /\ \A v \in Workers \ {w} : call'[v] = call[v]
<1>1. /\ call' \in [Workers -> CallSet]
      /\ call'[w] = d /\ \A v \in Workers \ {w} : call'[v] = call[v]
  OBVIOUS
<1>2. CallsKept'
  <2> SUFFICES ASSUME NEW v \in Workers
               PROVE  /\ ~call'[v].on => call'[v] = Idle
                      /\ call'[v].to > 0 => call'[v].buf # None
                      /\ call'[v].total = 0 => call'[v].remaining = 0
    BY DEF CallsKept
  <2>1. CASE v = w
    BY <1>1, <2>1
  <2>2. CASE v # w
    BY <1>1, <2>2 DEF CallsKept
  <2> QED
    BY <2>1, <2>2
<1> QED
  BY <1>1, <1>2

-----------------------------------------------------------------------------
(* Who holds a buffer.                                                     *)

Callers(b)  == {w \in Workers : call[w].buf = b}
Carriers(b) == {op \in live \cap Sends : send_buffer[op] = b}

\* The count of a buffer in terms of its holders.
LEMMA CountIs ==
  ASSUME BufferCounted, NEW b \in Buffers
  PROVE  /\ IsFiniteSet(Callers(b)) /\ Cardinality(Callers(b)) \in Nat
         /\ IsFiniteSet(Carriers(b)) /\ Cardinality(Carriers(b)) \in Nat
         /\ ref_count[b] = Cardinality(Callers(b)) + Cardinality(Carriers(b))
         /\ ref_count[b] = 0 => Callers(b) = {} /\ Carriers(b) = {}
         /\ \A w \in Callers(b) : /\ ref_count[b] >= 1
                                  /\ ref_count[b] = 1 => Carriers(b) = {}
         /\ \A op \in Carriers(b) : /\ ref_count[b] >= 1
                                    /\ ref_count[b] = 1 => Carriers(b) = {op}
<1> DEFINE m == Cardinality(Callers(b))
           n == Cardinality(Carriers(b))
<1>1. IsFiniteSet(Callers(b)) /\ IsFiniteSet(Carriers(b))
  <2>1. Callers(b) \in SUBSET Workers /\ Carriers(b) \in SUBSET Ops
    BY DEF Callers, Carriers, Sends
  <2> QED
    BY <2>1, FS_Subset, SendAssumption
<1>2. m \in Nat /\ n \in Nat
  BY <1>1, FS_CardinalityType
<1>3. (m = 0 <=> Callers(b) = {}) /\ (n = 0 <=> Carriers(b) = {})
  BY <1>1, FS_EmptySet
<1>4. ref_count[b] = m + n
  BY DEF BufferCounted, Callers, Carriers
<1>5. \A op \in Carriers(b) : n = 1 => Carriers(b) = {op}
  BY <1>1, FS_Singleton
<1> HIDE DEF m, n
<1>6. ref_count[b] = 0 => Callers(b) = {} /\ Carriers(b) = {}
  BY <1>2, <1>3, <1>4
<1>7. \A w \in Callers(b) : /\ ref_count[b] >= 1
                            /\ ref_count[b] = 1 => Carriers(b) = {}
  BY <1>2, <1>3, <1>4
<1>8. \A op \in Carriers(b) : /\ ref_count[b] >= 1
                              /\ ref_count[b] = 1 => Carriers(b) = {op}
  BY <1>2, <1>3, <1>4, <1>5
<1> QED
  BY <1>1, <1>2, <1>4, <1>6, <1>7, <1>8 DEF m, n

\* A buffer gains or loses a holder.
LEMMA HolderCounted ==
  ASSUME NEW S, IsFiniteSet(S), NEW x
  PROVE  /\ x \notin S => Cardinality(S \cup {x}) = Cardinality(S) + 1
         /\ x \in S => Cardinality(S \ {x}) = Cardinality(S) - 1
BY FS_AddElement, FS_RemoveElement

\* Counts, carriers and contents stay right when no holder changes.
LEMMA HoldersKept ==
  ASSUME BufferCounted, UNCHANGED <<live, send_buffer, ref_count>>,
         \A v \in Workers : call'[v].buf = call[v].buf
  PROVE  BufferCounted'
<1>1. \A b \in Buffers : {v \in Workers : call'[v].buf = b}
                           = {v \in Workers : call[v].buf = b}
  OBVIOUS
<1> QED
  BY <1>1 DEF BufferCounted

\* Sends keep their buffers and entries when nothing of them changes.
LEMMA SendsKept ==
  ASSUME BufferKept, EntryKept, UNCHANGED <<ringVars, send_buffer, wanted, entry>>,
         \A op \in Sends \cap live : data'[send_buffer[op]] = data[send_buffer[op]]
  PROVE  BufferKept' /\ EntryKept'
<1>1. \A w \in Workers, k \in {"prepared", "kernel", "completed"} :
        Held(w, k)' = Held(w, k)
  BY HeldIs, HeldIsNext DEF ringVars
<1>2. BufferKept'
  BY DEF BufferKept, ringVars
<1>3. EntryKept'
  BY <1>1 DEF EntryKept, ringVars
<1> QED
  BY <1>2, <1>3

\* A caller makes a buffer: nobody held that memory before.
LEMMA NewBufferKeeps ==
  ASSUME SendInv, NEW b \in Buffers, NEW str \in Seq(0 .. HeaderSize),
         NewBuffer(b, str), NEW w \in Workers,
         call[w].buf = None, call'[w].buf = b,
         \A v \in Workers \ {w} : call'[v].buf = call[v].buf,
         UNCHANGED <<live, send_buffer>>
  PROVE  /\ data' \in [Buffers -> Seq(0 .. HeaderSize)]
         /\ \A a \in Buffers : Len(data'[a]) <= MaxMessageSize
         /\ ref_count' \in [Buffers -> Nat]
         /\ data'[b] = Write(<<>>, str)
         /\ \A op \in Sends \cap live : data'[send_buffer[op]] = data[send_buffer[op]]
         /\ BufferCounted'
<1>0. /\ ref_count \in [Buffers -> Nat] /\ ref_count[b] = 0
      /\ data \in [Buffers -> Seq(0 .. HeaderSize)]
      /\ ref_count' = [ref_count EXCEPT ![b] = 1]
      /\ data' = [data EXCEPT ![b] = Write(<<>>, str)]
      /\ BufferCounted /\ None \notin Buffers
  BY SendAssumption DEF SendInv, SendPart, SendShape, NewBuffer
<1>1. /\ Write(<<>>, str) \in Seq(0 .. HeaderSize)
      /\ Len(Write(<<>>, str)) <= MaxMessageSize
  BY WriteIs
<1>2. /\ data' \in [Buffers -> Seq(0 .. HeaderSize)]
      /\ ref_count' \in [Buffers -> Nat]
      /\ data'[b] = Write(<<>>, str)
      /\ \A a \in Buffers \ {b} : data'[a] = data[a]
  <2> DEFINE str2 == Write(<<>>, str)
  <2> HIDE DEF str2
  <2>1. data' = [data EXCEPT ![b] = str2] /\ str2 \in Seq(0 .. HeaderSize)
    BY <1>0, <1>1 DEF str2
  <2>2. /\ data' \in [Buffers -> Seq(0 .. HeaderSize)] /\ data'[b] = str2
        /\ \A a \in Buffers \ {b} : data'[a] = data[a]
    BY <1>0, <2>1
  <2>3. ref_count' \in [Buffers -> Nat]
    BY <1>0
  <2> QED
    BY <2>2, <2>3 DEF str2
<1>3. \A a \in Buffers : Len(data'[a]) <= MaxMessageSize
  BY <1>1, <1>2 DEF SendInv, SendPart, SendShape
<1>4. Callers(b) = {} /\ Carriers(b) = {}
  BY <1>0, CountIs
<1>5. ASSUME NEW op \in Sends \cap live
      PROVE  data'[send_buffer[op]] = data[send_buffer[op]]
  <2>1. send_buffer[op] \in Buffers /\ send_buffer[op] # b
    BY <1>4 DEF Carriers, SendInv, SendPart, BufferKept
  <2> QED
    BY <1>2, <2>1
<1>6. BufferCounted'
  <2> SUFFICES ASSUME NEW a \in Buffers
               PROVE  ref_count'[a] = Cardinality({v \in Workers : call'[v].buf = a})
                                        + Cardinality(Carriers(a))
    BY DEF BufferCounted, Carriers
  <2>1. CASE a = b
    <3>1. {v \in Workers : call'[v].buf = a} = {w}
      BY <1>4, <2>1 DEF Callers
    <3>2. Cardinality({w}) = 1 /\ Cardinality({}) = 0
      BY FS_Singleton, FS_EmptySet
    <3>3. ref_count'[a] = 1
      BY <1>0, <2>1
    <3>4. /\ Cardinality({v \in Workers : call'[v].buf = a}) = 1
          /\ Cardinality(Carriers(a)) = 0
      BY <1>4, <2>1, <3>1, <3>2
    <3> QED
      BY <3>3, <3>4
  <2>2. CASE a # b
    <3>1. {v \in Workers : call'[v].buf = a} = Callers(a)
      BY <1>0, <2>2 DEF Callers
    <3>2. ref_count'[a] = ref_count[a]
      BY <1>0, <2>2
    <3> QED
      BY <1>0, <3>1, <3>2, CountIs
  <2> QED
    BY <2>1, <2>2
<1> QED
  BY <1>2, <1>3, <1>5, <1>6

\* A caller lets go of its buffer: if it is deleted, no send holds it.
LEMMA ReleaseCallerKeeps ==
  ASSUME SendInv, NEW b \in Buffers, ReleaseBuffer(b), NEW w \in Workers,
         call[w].buf = b, call'[w].buf = None,
         \A v \in Workers \ {w} : call'[v].buf = call[v].buf,
         UNCHANGED <<live, send_buffer>>
  PROVE  /\ data' \in [Buffers -> Seq(0 .. HeaderSize)]
         /\ \A a \in Buffers : Len(data'[a]) <= MaxMessageSize
         /\ ref_count' \in [Buffers -> Nat]
         /\ \A op \in Sends \cap live : data'[send_buffer[op]] = data[send_buffer[op]]
         /\ BufferCounted'
<1>0. /\ ref_count \in [Buffers -> Nat]
      /\ data \in [Buffers -> Seq(0 .. HeaderSize)]
      /\ \A a \in Buffers : Len(data[a]) <= MaxMessageSize
      /\ ref_count' = [ref_count EXCEPT ![b] = ref_count[b] - 1]
      /\ data' = IF ref_count[b] = 1 THEN [data EXCEPT ![b] = <<>>] ELSE data
      /\ BufferCounted /\ None \notin Buffers /\ 0 <= MaxMessageSize
  BY SendAssumption DEF SendInv, SendPart, SendShape, ReleaseBuffer
<1>1. /\ w \in Callers(b) /\ ref_count[b] >= 1
      /\ ref_count[b] = 1 => Carriers(b) = {}
  BY <1>0, CountIs DEF Callers
<1>2. <<>> \in Seq(0 .. HeaderSize) /\ Len(<<>>) = 0
  BY EmptySeq
<1>3. /\ data' \in [Buffers -> Seq(0 .. HeaderSize)]
      /\ \A a \in Buffers : Len(data'[a]) <= MaxMessageSize
      /\ \A a \in Buffers : data'[a] = data[a] \/ (a = b /\ ref_count[b] = 1)
  <2>1. CASE ref_count[b] = 1
    <3>1. data' = [data EXCEPT ![b] = <<>>]
      BY <1>0, <2>1
    <3>2. /\ data' \in [Buffers -> Seq(0 .. HeaderSize)] /\ data'[b] = <<>>
          /\ \A a \in Buffers \ {b} : data'[a] = data[a]
      BY <1>0, <1>2, <3>1
    <3> QED
      BY <1>0, <1>2, <2>1, <3>2
  <2>2. CASE ref_count[b] # 1
    BY <1>0, <2>2
  <2> QED
    BY <2>1, <2>2
<1>4. ref_count' \in [Buffers -> Nat]
  BY <1>0, <1>1
<1>5. ASSUME NEW op \in Sends \cap live
      PROVE  data'[send_buffer[op]] = data[send_buffer[op]]
  <2>1. send_buffer[op] \in Buffers /\ op \in Carriers(send_buffer[op])
    BY DEF Carriers, SendInv, SendPart, BufferKept
  <2> QED
    BY <1>1, <1>3, <2>1
<1>6. BufferCounted'
  <2> SUFFICES ASSUME NEW a \in Buffers
               PROVE  ref_count'[a] = Cardinality({v \in Workers : call'[v].buf = a})
                                        + Cardinality(Carriers(a))
    BY DEF BufferCounted, Carriers
  <2>1. CASE a = b
    <3>1. {v \in Workers : call'[v].buf = a} = Callers(b) \ {w}
      BY <1>0, <2>1 DEF Callers
    <3>2. Cardinality(Callers(b) \ {w}) = Cardinality(Callers(b)) - 1
      BY <1>0, <1>1, CountIs, HolderCounted
    <3>3. ref_count'[a] = ref_count[b] - 1
      BY <1>0, <2>1
    <3>4. /\ ref_count[b] = Cardinality(Callers(b)) + Cardinality(Carriers(b))
          /\ Cardinality(Callers(b)) \in Nat /\ Cardinality(Carriers(b)) \in Nat
      BY <1>0, CountIs
    <3>5. /\ Cardinality({v \in Workers : call'[v].buf = a})
                = Cardinality(Callers(b)) - 1
          /\ Cardinality(Carriers(a)) = Cardinality(Carriers(b))
      BY <2>1, <3>1, <3>2
    <3> QED
      BY <3>3, <3>4, <3>5
  <2>2. CASE a # b
    <3>1. {v \in Workers : call'[v].buf = a} = Callers(a)
      BY <1>0, <2>2 DEF Callers
    <3>2. ref_count'[a] = ref_count[a]
      BY <1>0, <2>2
    <3> QED
      BY <1>0, <3>1, <3>2, CountIs
  <2> QED
    BY <2>1, <2>2
<1> QED
  BY <1>3, <1>4, <1>5, <1>6

-----------------------------------------------------------------------------
(* Every step keeps the invariant.                                         *)

\* Begin of timestamp_task.
LEMMA TimestampTaskKeeps ==
  ASSUME SendInv, NEW w \in Workers, TimestampTask(w)
  PROVE  SendPart'
<1>0. SendShape /\ CallsKept /\ BufferKept /\ EntryKept /\ BufferCounted
  BY DEF SendInv, SendPart
<1>1. PICK total \in Totals :
        call' = [call EXCEPT ![w] = [Idle EXCEPT !.on = TRUE, !.total = total,
                                                 !.remaining = total]]
  BY DEF TimestampTask
<1> DEFINE d == [Idle EXCEPT !.on = TRUE, !.total = total, !.remaining = total]
<1>2. total \in Nat \ {0} /\ MaxCalls \in Nat
  BY SendAssumption
<1>3. d \in CallSet /\ d.on
  BY CallBegins
<1>4. d.to = 0 /\ d.buf = None /\ d.total = total
  BY IdleIs DEF CallSet
<1>5. call \in [Workers -> CallSet] /\ call[w] = Idle
  BY <1>0 DEF SendShape, CallsKept, TimestampTask, MayCall
<1> HIDE DEF d
<1>6. call' = [call EXCEPT ![w] = d]
  BY <1>1 DEF d
<1>7. d.to > 0 => d.buf # None
  BY <1>4
<1>8. d.total = 0 => d.remaining = 0
  BY <1>2, <1>4
<1>9. /\ call' \in [Workers -> CallSet] /\ CallsKept'
      /\ call'[w] = d /\ \A v \in Workers \ {w} : call'[v] = call[v]
  BY <1>0, <1>3, <1>5, <1>6, <1>7, <1>8, CallUpdated
<1>10. UNCHANGED <<ringVars, data, ref_count, send_buffer, entry, wanted, emitted>>
       /\ calls < MaxCalls /\ calls' = calls + 1
  BY DEF TimestampTask, MayCall
<1>11. SendShape'
  BY <1>0, <1>2, <1>9, <1>10 DEF SendShape
<1>12. BufferKept' /\ EntryKept'
  BY <1>0, <1>10, SendsKept
<1>13. BufferCounted'
  <2>1. \A v \in Workers : call'[v].buf = call[v].buf
    BY <1>4, <1>5, <1>9, IdleIs
  <2> QED
    BY <1>0, <1>10, <2>1, HoldersKept DEF ringVars
<1> QED
  BY <1>9, <1>11, <1>12, <1>13 DEF SendPart

\* Begin of SendMessage, with its buffer.
LEMMA SendMessageKeeps ==
  ASSUME SendInv, NEW w \in Workers, SendMessage(w)
  PROVE  SendPart'
<1>0. SendShape /\ CallsKept /\ BufferKept /\ EntryKept /\ BufferCounted
  BY DEF SendInv, SendPart
<1>1. PICK b \in Buffers, size \in {1, MaxMessageSize + 1}, k \in 0 .. Recipients :
        /\ NewBuffer(b, [i \in 1 .. size |-> 0])
        /\ call' = [call EXCEPT ![w] = [Idle EXCEPT !.on = TRUE, !.buf = b, !.to = k]]
  BY DEF SendMessage
<1> DEFINE d == [Idle EXCEPT !.on = TRUE, !.buf = b, !.to = k]
           str == [i \in 1 .. size |-> 0]
<1>2. /\ MaxCalls \in Nat /\ MaxMessageSize \in Nat /\ HeaderSize \in Nat
      /\ Recipients \in Nat /\ None \notin Buffers
  BY SendAssumption
<1>3. str \in Seq(0 .. HeaderSize)
  <2>1. size \in Nat
    BY <1>2
  <2>2. str \in [1 .. size -> 0 .. HeaderSize]
    BY <1>2
  <2> QED
    BY <2>1, <2>2, SeqDef
<1>4. d \in CallSet /\ d.on
  BY CallBegins
<1>5. d.buf = b /\ d.total = 0 /\ d.remaining = 0
  BY IdleIs DEF CallSet
<1>6. call \in [Workers -> CallSet] /\ call[w] = Idle
  BY <1>0 DEF SendShape, CallsKept, SendMessage, MayCall
<1> HIDE DEF d, str
<1>7. call' = [call EXCEPT ![w] = d] /\ NewBuffer(b, str)
  BY <1>1 DEF d, str
<1>8. d.to > 0 => d.buf # None
  BY <1>2, <1>5
<1>9. /\ call' \in [Workers -> CallSet] /\ CallsKept'
      /\ call'[w] = d /\ \A v \in Workers \ {w} : call'[v] = call[v]
  BY <1>0, <1>4, <1>5, <1>6, <1>7, <1>8, CallUpdated
<1>10. UNCHANGED <<ringVars, send_buffer, entry, wanted, emitted>>
       /\ calls < MaxCalls /\ calls' = calls + 1
  BY DEF SendMessage, MayCall
<1>11. /\ data' \in [Buffers -> Seq(0 .. HeaderSize)]
       /\ \A a \in Buffers : Len(data'[a]) <= MaxMessageSize
       /\ ref_count' \in [Buffers -> Nat]
       /\ \A op \in Sends \cap live : data'[send_buffer[op]] = data[send_buffer[op]]
       /\ BufferCounted'
  <2>1. call[w].buf = None /\ call'[w].buf = b
    BY <1>5, <1>6, <1>9, IdleIs
  <2>2. (\A v \in Workers \ {w} : call'[v].buf = call[v].buf)
        /\ UNCHANGED <<live, send_buffer>>
    BY <1>9, <1>10 DEF ringVars
  <2> QED
    BY <1>3, <1>7, <2>1, <2>2, NewBufferKeeps
<1>12. SendShape'
  BY <1>0, <1>2, <1>9, <1>10, <1>11 DEF SendShape
<1>13. BufferKept' /\ EntryKept'
  BY <1>0, <1>10, <1>11, SendsKept
<1> QED
  BY <1>9, <1>11, <1>12, <1>13 DEF SendPart

\* A turn of timestamp_task's loop fills a buffer.
LEMMA FillChunkKeeps ==
  ASSUME SendInv, NEW w \in Workers, FillChunk(w)
  PROVE  SendPart'
<1> DEFINE c == call[w]
           n == Smaller(ChunkSize, c.remaining)
           str == Chunk(c.offset, n)
<1>0. SendShape /\ CallsKept /\ BufferKept /\ EntryKept /\ BufferCounted
  BY DEF SendInv, SendPart
<1>1. PICK b \in Buffers :
        /\ NewBuffer(b, str)
        /\ call' = [call EXCEPT ![w].buf = b, ![w].to = 1]
        /\ emitted' = [emitted EXCEPT ![w] = @ \o data'[b]]
  BY DEF FillChunk
<1>2. /\ MaxMessageSize \in Nat /\ ChunkSize \in Nat /\ Recipients \in Nat
      /\ None \notin Buffers /\ call \in [Workers -> CallSet] /\ c \in CallSet
      /\ c.on /\ c.buf = None /\ c.remaining \in Nat /\ c.offset \in Nat
  BY <1>0, SendAssumption DEF SendShape, FillChunk, CallSet
<1>3. str \in Seq(0 .. HeaderSize)
  BY <1>2, SmallerIs, ChunkIs
<1> DEFINE d == [c EXCEPT !.buf = b, !.to = 1]
<1>4. d \in CallSet
  <2>1. 1 \in 0 .. Recipients + 1 /\ b \in Buffers \cup {None}
    BY <1>2
  <2>2. d \in [on : BOOLEAN, total : Totals \cup {0}, remaining : Nat, offset : Nat,
            buf : Buffers \cup {None}, to : 0 .. Recipients + 1]
    BY <1>2, <2>1 DEF CallSet
  <2> QED
    BY <2>2 DEF CallSet
<1>5. d.buf = b /\ d.total = c.total /\ d.remaining = c.remaining /\ d.on = c.on
  BY <1>2 DEF CallSet
<1>6. call' = [call EXCEPT ![w] = d]
  BY <1>1, <1>2 DEF CallSet
<1>7. (c.total = 0 => c.remaining = 0) /\ c.on
  BY <1>0, <1>2 DEF CallsKept
<1> HIDE DEF c, d, n, str
<1>8. /\ d.to > 0 => d.buf # None
      /\ d.total = 0 => d.remaining = 0
      /\ ~d.on => d = Idle
  BY <1>2, <1>5, <1>7
<1>9. /\ call' \in [Workers -> CallSet] /\ CallsKept'
      /\ call'[w] = d /\ \A v \in Workers \ {w} : call'[v] = call[v]
  BY <1>0, <1>2, <1>4, <1>6, <1>8, CallUpdated
<1>10. UNCHANGED <<ringVars, send_buffer, entry, wanted, calls>>
  BY DEF FillChunk
<1>11. /\ data' \in [Buffers -> Seq(0 .. HeaderSize)]
       /\ \A a \in Buffers : Len(data'[a]) <= MaxMessageSize
       /\ ref_count' \in [Buffers -> Nat]
       /\ \A op \in Sends \cap live : data'[send_buffer[op]] = data[send_buffer[op]]
       /\ BufferCounted'
  <2>1. call[w].buf = None /\ call'[w].buf = b
    BY <1>2, <1>5, <1>9 DEF c
  <2>2. (\A v \in Workers \ {w} : call'[v].buf = call[v].buf)
        /\ UNCHANGED <<live, send_buffer>>
    BY <1>9, <1>10 DEF ringVars
  <2> QED
    BY <1>1, <1>3, <2>1, <2>2, NewBufferKeeps
<1>12. emitted' \in [Workers -> Seq(0 .. HeaderSize)]
  <2>1. emitted[w] \in Seq(0 .. HeaderSize) /\ data'[b] \in Seq(0 .. HeaderSize)
    BY <1>0, <1>11 DEF SendShape
  <2>2. emitted[w] \o data'[b] \in Seq(0 .. HeaderSize)
    BY <2>1, ConcatProperties
  <2>3. emitted' = [emitted EXCEPT ![w] = emitted[w] \o data'[b]]
    BY <1>1
  <2> QED
    BY <1>0, <2>2, <2>3 DEF SendShape
<1>13. SendShape'
  BY <1>0, <1>9, <1>10, <1>11, <1>12 DEF SendShape
<1>14. BufferKept' /\ EntryKept'
  BY <1>0, <1>10, <1>11, SendsKept
<1> QED
  BY <1>9, <1>11, <1>13, <1>14 DEF SendPart

\* A send is requested, or none can be.
LEMMA RequestSendKeeps ==
  ASSUME SendInv, NEW w \in Workers, RequestSend(w)
  PROVE  SendPart'
<1> DEFINE c == call[w]
           d == [c EXCEPT !.to = c.to - 1]
           b == c.buf
<1>0. SendShape /\ CallsKept /\ BufferKept /\ EntryKept /\ BufferCounted
  BY DEF SendInv, SendPart
<1>1. /\ call \in [Workers -> CallSet] /\ c \in CallSet /\ c.on
      /\ c.to \in 0 .. Recipients + 1 /\ c.to > 0 /\ b \in Buffers
      /\ c.total = 0 => c.remaining = 0
  BY <1>0, SendAssumption DEF SendShape, CallsKept, RequestSend, CallSet
<1>2. Recipients \in Nat /\ None \notin Buffers
  BY SendAssumption
<1>3. c.to - 1 \in 0 .. Recipients + 1
  BY <1>1, <1>2
<1>4. d \in CallSet /\ d.buf = b /\ d.on = c.on /\ d.total = c.total
      /\ d.remaining = c.remaining
  BY <1>1, <1>3 DEF CallSet
<1>5. call' = [call EXCEPT ![w] = d]
  BY <1>1 DEF RequestSend, CallSet
<1>6. UNCHANGED <<sq, inflight, cq, holding, pc, fault, data, entry, emitted, calls>>
  BY DEF RequestSend
<1>7. \/ \E op \in Sends \ live :
           /\ \E v \in Workers : PushRequest(v, op)
           /\ ref_count' = [ref_count EXCEPT ![b] = ref_count[b] + 1]
           /\ send_buffer' = [send_buffer EXCEPT ![op] = b]
           /\ wanted' = [wanted EXCEPT ![op] = data[b]]
      \/ UNCHANGED <<live, request_queue, ref_count, send_buffer, wanted>>
  <2>1. CASE UNCHANGED <<live, request_queue, ref_count, send_buffer, wanted>>
    BY <2>1
  <2>2. CASE ~UNCHANGED <<live, request_queue, ref_count, send_buffer, wanted>>
    <3> DEFINE op == CHOOSE o \in Sends \ live : TRUE
    <3>1. /\ Sends \ live # {}
          /\ \E v \in Workers : PushRequest(v, op)
          /\ ref_count' = [ref_count EXCEPT ![b] = ref_count[b] + 1]
          /\ send_buffer' = [send_buffer EXCEPT ![op] = b]
          /\ wanted' = [wanted EXCEPT ![op] = data[b]]
      BY <2>2 DEF RequestSend
    <3>2. op \in Sends \ live
      BY <3>1
    <3> QED
      BY <3>1, <3>2
  <2> QED
    BY <2>1, <2>2
<1> HIDE DEF c, d, b
<1>8. /\ call' \in [Workers -> CallSet] /\ CallsKept'
      /\ call'[w] = d /\ \A v \in Workers \ {w} : call'[v] = call[v]
  <2>1. /\ d.to > 0 => d.buf # None
        /\ d.total = 0 => d.remaining = 0
        /\ ~d.on => d = Idle
    BY <1>1, <1>2, <1>4
  <2> QED
    BY <1>0, <1>1, <1>4, <1>5, <2>1, CallUpdated
<1>9. \A v \in Workers : call'[v].buf = call[v].buf
  BY <1>4, <1>8 DEF b, c
<1>10. \A v \in Workers, k \in {"prepared", "kernel", "completed"} :
         Held(v, k)' = Held(v, k)
  BY <1>6, HeldIs, HeldIsNext
<1>11. CASE UNCHANGED <<live, request_queue, ref_count, send_buffer, wanted>>
  <2>1. SendShape'
    BY <1>0, <1>6, <1>8, <1>11 DEF SendShape
  <2>2. BufferKept' /\ EntryKept'
    BY <1>0, <1>6, <1>11, SendsKept DEF ringVars
  <2>3. BufferCounted'
    BY <1>0, <1>9, <1>11, HoldersKept
  <2> QED
    BY <1>8, <2>1, <2>2, <2>3 DEF SendPart
<1>12. ASSUME NEW op \in Sends \ live,
              \E v \in Workers : PushRequest(v, op),
              ref_count' = [ref_count EXCEPT ![b] = ref_count[b] + 1],
              send_buffer' = [send_buffer EXCEPT ![op] = b],
              wanted' = [wanted EXCEPT ![op] = data[b]]
       PROVE  SendPart'
  <2>0. /\ ref_count \in [Buffers -> Nat] /\ wanted \in [Sends -> Seq(0 .. HeaderSize)]
        /\ send_buffer \in [Sends -> Buffers \cup {None}]
        /\ data[b] \in Seq(0 .. HeaderSize) /\ live' = live \cup {op}
    BY <1>0, <1>1, <1>12 DEF SendShape, PushRequest
  <2>1. /\ send_buffer'[op] = b /\ wanted'[op] = data[b]
        /\ \A x \in Sends \ {op} : /\ send_buffer'[x] = send_buffer[x]
                                   /\ wanted'[x] = wanted[x]
    BY <1>12, <2>0
  <2>2. /\ ref_count' \in [Buffers -> Nat]
        /\ send_buffer' \in [Sends -> Buffers \cup {None}]
        /\ wanted' \in [Sends -> Seq(0 .. HeaderSize)]
    BY <1>1, <1>12, <2>0
  <2>3. SendShape'
    BY <1>0, <1>6, <1>8, <2>2 DEF SendShape
  <2>4. BufferKept'
    BY <1>0, <1>1, <1>6, <2>0, <2>1 DEF BufferKept
  <2>5. EntryKept'
    <3> SUFFICES ASSUME NEW v \in Workers, NEW k \in {"prepared", "kernel", "completed"},
                        NEW x \in Sends, x \in Held(v, k)'
                 PROVE  /\ x \in live'
                        /\ entry'[x] = [buf |-> send_buffer'[x], len |-> Len(wanted'[x])]
      BY DEF EntryKept
    <3>1. /\ x \in live
          /\ entry[x] = [buf |-> send_buffer[x], len |-> Len(wanted[x])]
      BY <1>0, <1>10 DEF EntryKept
    <3>2. x # op
      BY <1>12, <3>1
    <3> QED
      BY <1>6, <2>0, <2>1, <3>1, <3>2
  <2>6. BufferCounted'
    <3> SUFFICES ASSUME NEW a \in Buffers
                 PROVE  ref_count'[a] = Cardinality(Callers(a)) + Cardinality(Carriers(a)')
      <4>1. \A a \in Buffers : {v \in Workers : call'[v].buf = a} = Callers(a)
        BY <1>9 DEF Callers
      <4> QED
        BY <4>1 DEF BufferCounted, Carriers
    <3>1. /\ ref_count[a] = Cardinality(Callers(a)) + Cardinality(Carriers(a))
          /\ Cardinality(Callers(a)) \in Nat /\ Cardinality(Carriers(a)) \in Nat
          /\ IsFiniteSet(Carriers(a))
      BY <1>0, CountIs
    <3>2. CASE a = b
      <4>1. Carriers(a)' = Carriers(a) \cup {op} /\ op \notin Carriers(a)
        BY <1>12, <2>0, <2>1, <3>2 DEF Carriers
      <4>2. Cardinality(Carriers(a) \cup {op}) = Cardinality(Carriers(a)) + 1
        BY <3>1, <4>1, HolderCounted
      <4>3. ref_count'[a] = ref_count[a] + 1
        BY <1>1, <1>12, <2>0, <3>2
      <4>4. Cardinality(Carriers(a)') = Cardinality(Carriers(a)) + 1
        BY <4>1, <4>2
      <4> QED
        BY <3>1, <4>3, <4>4
    <3>3. CASE a # b
      <4>1. Carriers(a)' = Carriers(a)
        BY <1>12, <2>0, <2>1, <3>3 DEF Carriers
      <4>2. ref_count'[a] = ref_count[a]
        BY <1>1, <1>12, <2>0, <3>3
      <4> QED
        BY <3>1, <4>1, <4>2
    <3> QED
      BY <3>2, <3>3
  <2> QED
    BY <1>8, <2>3, <2>4, <2>5, <2>6 DEF SendPart
<1> QED
  BY <1>7, <1>11, <1>12

\* The caller's ObjectPtr goes out of scope.
LEMMA EndTurnKeeps ==
  ASSUME SendInv, NEW w \in Workers, EndTurn(w)
  PROVE  SendPart'
<1> DEFINE c == call[w]
           n == Smaller(ChunkSize, c.remaining)
           d == [c EXCEPT !.buf = None, !.remaining = c.remaining - n,
                          !.offset = c.offset + n]
           b == c.buf
<1>0. SendShape /\ CallsKept /\ BufferKept /\ EntryKept /\ BufferCounted
  BY DEF SendInv, SendPart
<1>1. /\ call \in [Workers -> CallSet] /\ c \in CallSet
      /\ c.to = 0 /\ b \in Buffers /\ c.remaining \in Nat /\ c.offset \in Nat
      /\ c.total = 0 => c.remaining = 0
      /\ ChunkSize \in Nat /\ None \notin Buffers
  BY <1>0, SendAssumption DEF SendShape, CallsKept, EndTurn, CallSet
<1>2. c.on
  BY <1>0, <1>1, IdleIs DEF CallsKept
<1>3. n \in Nat /\ n <= c.remaining
  BY <1>1, SmallerIs
<1>4. call' = [call EXCEPT ![w] = d]
  BY <1>1 DEF EndTurn, CallSet
<1>5. /\ ReleaseBuffer(b)
      /\ UNCHANGED <<ringVars, send_buffer, entry, wanted, emitted, calls>>
  BY DEF EndTurn
<1> HIDE DEF n
<1>6. c.remaining - n \in Nat /\ c.offset + n \in Nat
  BY <1>1, <1>3
<1>7. /\ d \in CallSet /\ d.buf = None /\ d.on = c.on /\ d.total = c.total
      /\ d.remaining = c.remaining - n /\ d.to = 0
  BY <1>1, <1>6 DEF CallSet
<1> HIDE DEF c, d, b
<1>8. /\ call' \in [Workers -> CallSet] /\ CallsKept'
      /\ call'[w] = d /\ \A v \in Workers \ {w} : call'[v] = call[v]
  <2>1. d.total = 0 => d.remaining = 0
    BY <1>1, <1>3, <1>7
  <2>2. (d.to > 0 => d.buf # None) /\ (~d.on => d = Idle)
    BY <1>2, <1>7
  <2> QED
    BY <1>0, <1>1, <1>4, <1>7, <2>1, <2>2, CallUpdated
<1>9. /\ data' \in [Buffers -> Seq(0 .. HeaderSize)]
      /\ \A a \in Buffers : Len(data'[a]) <= MaxMessageSize
      /\ ref_count' \in [Buffers -> Nat]
      /\ \A op \in Sends \cap live : data'[send_buffer[op]] = data[send_buffer[op]]
      /\ BufferCounted'
  <2>1. call[w].buf = b /\ call'[w].buf = None
    BY <1>7, <1>8 DEF b, c
  <2>2. (\A v \in Workers \ {w} : call'[v].buf = call[v].buf)
        /\ UNCHANGED <<live, send_buffer>>
    BY <1>5, <1>8 DEF ringVars
  <2> QED
    BY <1>1, <1>5, <2>1, <2>2, ReleaseCallerKeeps
<1>10. SendShape'
  BY <1>0, <1>5, <1>8, <1>9 DEF SendShape
<1>11. BufferKept' /\ EntryKept'
  BY <1>0, <1>5, <1>9, SendsKept
<1> QED
  BY <1>8, <1>9, <1>10, <1>11 DEF SendPart

\* A call returns.
LEMMA ReturnCallKeeps ==
  ASSUME SendInv, NEW w \in Workers, ReturnCall(w)
  PROVE  SendPart'
<1>0. SendShape /\ CallsKept /\ BufferKept /\ EntryKept /\ BufferCounted
  BY DEF SendInv, SendPart
<1>1. /\ call \in [Workers -> CallSet] /\ call[w].buf = None
      /\ call' = [call EXCEPT ![w] = Idle] /\ emitted' = [emitted EXCEPT ![w] = <<>>]
      /\ UNCHANGED <<ringVars, data, ref_count, send_buffer, entry, wanted, calls>>
  BY <1>0 DEF ReturnCall, SendShape
<1>2. /\ call' \in [Workers -> CallSet] /\ CallsKept'
      /\ call'[w] = Idle /\ \A v \in Workers \ {w} : call'[v] = call[v]
  <2>1. /\ Idle \in CallSet /\ (Idle.to > 0 => Idle.buf # None)
        /\ (Idle.total = 0 => Idle.remaining = 0)
    BY IdleIs
  <2> QED
    BY <1>0, <1>1, <2>1, CallUpdated
<1>3. \A v \in Workers : call'[v].buf = call[v].buf
  BY <1>1, <1>2, IdleIs
<1>4. emitted' \in [Workers -> Seq(0 .. HeaderSize)]
  BY <1>0, <1>1, EmptySeq DEF SendShape
<1>5. SendShape'
  BY <1>0, <1>1, <1>2, <1>4 DEF SendShape
<1>6. BufferKept' /\ EntryKept'
  BY <1>0, <1>1, SendsKept
<1>7. BufferCounted'
  BY <1>0, <1>1, <1>3, HoldersKept DEF ringVars
<1> QED
  BY <1>2, <1>5, <1>6, <1>7 DEF SendPart

Late == {"prepared", "kernel", "completed"}

\* A step of the rings that hands no new send to them and takes none back.
LEMMA RingMovesKeep ==
  ASSUME SendPart, UNCHANGED sendVars,
         \A op \in Sends : op \in live' <=> op \in live,
         \A v \in Workers, k \in Late, op \in Sends :
           op \in Held(v, k)' => \E l \in Late : op \in Held(v, l)
  PROVE  SendPart'
<1>1. SendShape' /\ CallsKept' /\ BufferKept'
  BY DEF SendPart, SendShape, CallsKept, BufferKept, sendVars
<1>2. EntryKept'
  BY DEF SendPart, EntryKept, Late, sendVars
<1>3. BufferCounted'
  <2>1. \A b \in Buffers :
          {op \in live' \cap Sends : send_buffer[op] = b}
            = {op \in live \cap Sends : send_buffer[op] = b}
    OBVIOUS
  <2> QED
    BY <2>1 DEF SendPart, BufferCounted, sendVars
<1> QED
  BY <1>1, <1>2, <1>3 DEF SendPart

\* The steps of the routine that no buffer takes part in.
LEMMA LoopStepKeeps ==
  ASSUME SendInv, NEW w \in Workers, LoopStep(w)
  PROVE  SendPart'
<1>0. SendPart /\ UNCHANGED sendVars /\ live' = live
  BY DEF SendInv, LoopStep, WaitOne, Handle, Handled, BeginFlush, Submit
<1>1. CASE WaitOne(w) \/ Handle(w) \/ BeginFlush(w)
  <2>1. \A v \in Workers, k \in Late : Held(v, k)' = Held(v, k)
    BY <1>1, HeldIs, HeldIsNext DEF Late, WaitOne, Handle, Handled, BeginFlush
  <2> QED
    BY <1>0, <2>1, RingMovesKeep
<1>2. CASE Submit(w)
  <2>0. sq \in [Workers -> Seq(Ops)] /\ inflight \in [Workers -> SUBSET Ops]
    BY DEF SendInv, RingTypeOK
  <2>1. /\ sq' = [sq EXCEPT ![w] = <<>>] /\ UNCHANGED cq
        /\ inflight' = [inflight EXCEPT ![w] = @ \cup SeqToSet(sq[w])]
    BY <1>2 DEF Submit
  <2>2. SeqToSet(sq[w]) = Range(sq[w])
    BY DEF SeqToSet, Range
  <2>3. ASSUME NEW v \in Workers, NEW op
        PROVE  /\ op \in Held(v, "prepared")' => op \in Held(v, "prepared")
               /\ op \in Held(v, "kernel")' =>
                    op \in Held(v, "kernel") \/ op \in Held(v, "prepared")
               /\ Held(v, "completed")' = Held(v, "completed")
    <3>1. sq'[v] = sq[v] \/ sq'[v] = <<>>
      BY <2>0, <2>1
    <3>2. inflight'[v] \subseteq inflight[v] \cup Range(sq[v])
      BY <2>0, <2>1, <2>2
    <3> QED
      BY <2>1, <3>1, <3>2, DistinctEmpty, HeldIs, HeldIsNext
  <2>4. \A v \in Workers, k \in Late, op \in Sends :
          op \in Held(v, k)' => \E l \in Late : op \in Held(v, l)
    BY <2>3 DEF Late
  <2> QED
    BY <1>0, <2>4, RingMovesKeep
<1> QED
  BY <1>1, <1>2 DEF LoopStep

\* The kernel finishes an operation.
LEMMA KernelStepKeeps ==
  ASSUME SendInv, NEW op \in Ops, KernelStep(op)
  PROVE  SendPart'
<1>1. PICK w \in Workers, res \in Results : Complete(w, op, res)
  BY DEF KernelStep
<1> DEFINE e == [op |-> op, res |-> res]
<1>2. /\ op \in inflight[w] /\ UNCHANGED <<sendVars, live, sq>>
      /\ inflight' = [inflight EXCEPT ![w] = @ \ {op}]
      /\ cq' = [cq EXCEPT ![w] = Append(cq[w], e)]
  BY <1>1 DEF Complete, KernelStep
<1>3. /\ inflight \in [Workers -> SUBSET Ops] /\ SendPart
      /\ cq \in [Workers -> Seq([op : Ops, res : Results])]
  BY DEF SendInv, RingTypeOK
<1>4. e \in [op : Ops, res : Results] /\ e.op = op
  OBVIOUS
<1> HIDE DEF e
<1>5. Range(OpsOf(Append(cq[w], e))) = Range(OpsOf(cq[w])) \cup {op}
  <2>1. cq[w] \in Seq([op : Ops, res : Results])
    BY <1>3
  <2>2. /\ OpsOf(cq[w]) \in Seq(Ops)
        /\ OpsOf(Append(cq[w], e)) = Append(OpsOf(cq[w]), op)
    BY <1>4, <2>1, OpsOfCompletions
  <2> QED
    BY <2>2, DistinctAppend
<1>6. ASSUME NEW v \in Workers, NEW x
      PROVE  /\ Held(v, "prepared")' = Held(v, "prepared")
             /\ x \in Held(v, "kernel")' => x \in Held(v, "kernel")
             /\ x \in Held(v, "completed")' =>
                  x \in Held(v, "completed") \/ x \in Held(v, "kernel")
  <2>1. inflight'[v] \subseteq inflight[v]
    BY <1>2, <1>3
  <2>2. CASE v = w
    <3>1. cq'[v] = Append(cq[w], e)
      BY <1>2, <1>3, <2>2
    <3>2. Held(v, "completed")' = Held(v, "completed") \cup {op} /\ op \in Held(v, "kernel")
      BY <1>2, <1>5, <2>2, <3>1, HeldIs, HeldIsNext
    <3> QED
      BY <1>2, <2>1, <3>2, HeldIs, HeldIsNext
  <2>3. CASE v # w
    <3>1. cq'[v] = cq[v]
      BY <1>2, <1>3, <2>3
    <3> QED
      BY <1>2, <2>1, <3>1, HeldIs, HeldIsNext
  <2> QED
    BY <2>2, <2>3
<1>7. \A v \in Workers, k \in Late, x \in Sends :
        x \in Held(v, k)' => \E l \in Late : x \in Held(v, l)
  BY <1>6 DEF Late
<1> QED
  BY <1>2, <1>3, <1>7, RingMovesKeep

\* The rest of the service requests a receive or a close.
LEMMA RequestOtherKeeps ==
  ASSUME SendInv, NEW w \in Workers, RequestOther(w)
  PROVE  SendPart'
<1>1. PICK op \in Receives \cup Closing : Request(w, op)
  BY DEF RequestOther
<1>2. /\ live' = live \cup {op} /\ op \notin Sends
      /\ UNCHANGED <<sendVars, sq, inflight, cq>>
  BY <1>1 DEF Request, PushRequest, RequestOther, Sends
<1>3. \A v \in Workers, k \in Late : Held(v, k)' = Held(v, k)
  BY <1>2, HeldIs, HeldIsNext DEF Late
<1> QED
  BY <1>2, <1>3, RingMovesKeep DEF SendInv

\* A submission entry is written.
LEMMA PrepareSendKeeps ==
  ASSUME SendInv, ~fault, NEW w \in Workers, PrepareSend(w)
  PROVE  SendPart'
<1> DEFINE op == Head(request_queue[w])
           e == [buf |-> send_buffer[op], len |-> Len(data[send_buffer[op]])]
<1>0. SendShape /\ CallsKept /\ BufferKept /\ EntryKept /\ BufferCounted
  BY DEF SendInv, SendPart
<1>1. /\ sq \in [Workers -> Seq(Ops)] /\ inflight \in [Workers -> SUBSET Ops]
      /\ request_queue[w] \in Seq(Ops) /\ request_queue[w] # <<>>
  BY DEF SendInv, RingTypeOK, PrepareSend, Prepare
<1>2. op \in Ops /\ op \in live
  <2>1. op \in Ops /\ op \in Held(w, "queued")
    BY <1>1, DistinctTail, HeadTailProperties, HeldIs
  <2> HIDE DEF op
  <2> QED
    BY <2>1 DEF SendInv, RefInv, Accounted, Places
<1>3. /\ UNCHANGED <<data, ref_count, call, send_buffer, wanted, emitted, calls>>
      /\ UNCHANGED <<live, cq>>
      /\ entry' = IF op \in Sends THEN [entry EXCEPT ![op] = e] ELSE entry
  BY DEF PrepareSend, Prepare
<1>4. \/ /\ sq' = [sq EXCEPT ![w] = Append(sq[w], op)] /\ inflight' = inflight
      \/ /\ sq' = [sq EXCEPT ![w] = <<>>]
         /\ inflight' = [inflight EXCEPT ![w] = @ \cup SeqToSet(sq[w]) \cup {op}]
      \/ UNCHANGED <<sq, inflight>>
  BY DEF PrepareSend, Prepare
<1>5. op \in Sends => /\ send_buffer[op] \in Buffers
                      /\ e \in [buf : Buffers \cup {None}, len : 0 .. MaxMessageSize]
                      /\ e = [buf |-> send_buffer[op], len |-> Len(wanted[op])]
  <2> SUFFICES ASSUME op \in Sends
               PROVE  /\ send_buffer[op] \in Buffers
                      /\ e \in [buf : Buffers \cup {None}, len : 0 .. MaxMessageSize]
                      /\ e = [buf |-> send_buffer[op], len |-> Len(wanted[op])]
    OBVIOUS
  <2> HIDE DEF op
  <2>1. send_buffer[op] \in Buffers /\ wanted[op] = data[send_buffer[op]]
    BY <1>0, <1>2 DEF BufferKept
  <2>2. /\ data[send_buffer[op]] \in Seq(0 .. HeaderSize)
        /\ Len(data[send_buffer[op]]) <= MaxMessageSize /\ MaxMessageSize \in Nat
    BY <1>0, <2>1, SendAssumption DEF SendShape
  <2>3. Len(data[send_buffer[op]]) \in 0 .. MaxMessageSize
    BY <2>2, LenProperties
  <2> QED
    BY <2>1, <2>3
<1> HIDE DEF op, e
<1>6. /\ entry' \in [Sends -> [buf : Buffers \cup {None}, len : 0 .. MaxMessageSize]]
      /\ op \in Sends => entry'[op] = e
      /\ \A x \in Sends \ {op} : entry'[x] = entry[x]
  BY <1>0, <1>3, <1>5 DEF SendShape
<1>7. SendShape' /\ CallsKept' /\ BufferKept' /\ BufferCounted'
  BY <1>0, <1>3, <1>6, ZenonT(40) DEF SendShape, CallsKept, BufferKept, BufferCounted
<1>8. ASSUME NEW v \in Workers, NEW k \in Late, NEW x \in Held(v, k)', x # op
      PROVE  \E l \in Late : x \in Held(v, l)
  <2>1. Range(sq'[v]) \subseteq Range(sq[v]) \cup {op}
    <3>1. Range(Append(sq[w], op)) = Range(sq[w]) \cup {op} /\ Range(<<>>) = {}
      BY <1>1, <1>2, DistinctAppend, DistinctEmpty
    <3>2. \/ sq'[v] = sq[v] \/ sq'[v] = <<>>
          \/ v = w /\ sq'[v] = Append(sq[w], op)
      BY <1>1, <1>4
    <3> QED
      BY <3>1, <3>2
  <2>2. inflight'[v] \subseteq inflight[v] \cup Range(sq[v]) \cup {op}
    <3>1. SeqToSet(sq[w]) = Range(sq[w])
      BY DEF SeqToSet, Range
    <3>2. CASE inflight' = [inflight EXCEPT ![w] = @ \cup SeqToSet(sq[w]) \cup {op}]
      BY <1>1, <3>1, <3>2
    <3>3. CASE inflight' = inflight
      BY <3>3
    <3> QED
      BY <1>4, <3>2, <3>3
  <2>3. Held(v, "completed")' = Held(v, "completed")
    BY <1>3, HeldIs, HeldIsNext
  <2> QED
    BY <1>8, <2>1, <2>2, <2>3, HeldIs, HeldIsNext DEF Late
<1>9. EntryKept'
  <2> SUFFICES ASSUME NEW v \in Workers, NEW k \in Late, NEW x \in Sends,
                      x \in Held(v, k)'
               PROVE  /\ x \in live
                      /\ entry'[x] = [buf |-> send_buffer[x], len |-> Len(wanted[x])]
    BY <1>3 DEF EntryKept, Late
  <2>1. CASE x = op
    BY <1>2, <1>5, <1>6, <2>1
  <2>2. CASE x # op
    <3>1. PICK l \in Late : x \in Held(v, l)
      BY <1>8, <2>2
    <3> QED
      BY <1>0, <1>6, <2>2, <3>1 DEF EntryKept, Late
  <2> QED
    BY <2>1, <2>2
<1> QED
  BY <1>7, <1>9 DEF SendPart

\* The operation goes back to its pool and lets go of its buffer.
LEMMA RetireKeeps ==
  ASSUME SendInv, ~fault, NEW w \in Workers, RetireSend(w), RefInv', RingTypeOK'
  PROVE  SendPart'
<1> DEFINE op == Head(cq[w]).op
           b == send_buffer[op]
<1>0. SendPart /\ SendShape /\ CallsKept /\ BufferKept /\ EntryKept /\ BufferCounted
  BY DEF SendInv, SendPart
<1>1. UNCHANGED <<call, emitted, calls, sq, inflight, fault>>
  BY DEF RetireSend, Retire
<1>2. CASE ~holding[w]
  <2>1. UNCHANGED <<data, ref_count, send_buffer, entry, wanted, live, cq>>
    BY <1>2 DEF RetireSend, Retire
  <2>2. \A v \in Workers, k \in Late : Held(v, k)' = Held(v, k)
    BY <1>1, <2>1, HeldIs, HeldIsNext DEF Late
  <2> QED
    BY <1>0, <1>1, <2>1, <2>2, RingMovesKeep DEF sendVars
<1>3. CASE holding[w]
  <2>0. /\ cq \in [Workers -> Seq([op : Ops, res : Results])] /\ cq[w] # <<>>
        /\ cq' = [cq EXCEPT ![w] = Tail(cq[w])] /\ live' = live \ {op}
        /\ UNCHANGED request_queue
    BY <1>3 DEF SendInv, RingTypeOK, RetireSend, Retire
  <2>1. /\ OpsOf(cq[w]) \in Seq(Ops) /\ OpsOf(cq[w]) # <<>>
        /\ op = Head(OpsOf(cq[w])) /\ OpsOf(Tail(cq[w])) = Tail(OpsOf(cq[w]))
    <3>1. cq[w] \in Seq([op : Ops, res : Results])
      BY <2>0
    <3> QED
      BY <2>0, <3>1, OpsOfCompletions
  <2>2. /\ op \in Held(w, "completed") /\ op \in Ops
        /\ Range(OpsOf(Tail(cq[w]))) \subseteq Held(w, "completed")
    <3> DEFINE q == OpsOf(cq[w])
    <3>1. /\ Head(q) \in Range(q) /\ Head(q) \in Ops
          /\ Range(q) = Range(Tail(q)) \cup {Head(q)}
      <4> HIDE DEF q
      <4>1. q \in Seq(Ops) /\ q # <<>>
        BY <2>1 DEF q
      <4> QED
        BY <4>1, DistinctTail, HeadTailProperties
    <3> QED
      BY <2>1, <3>1, HeldIs
  <2> HIDE DEF op
  <2>3. ASSUME NEW v \in Workers, NEW k \in Late, NEW x \in Held(v, k)', x \in Ops
        PROVE  x \in Held(v, k) /\ x # op
    <3>1. cq'[v] = cq[v] \/ (v = w /\ cq'[v] = Tail(cq[w]))
      BY <2>0
    <3>2. x \in Held(v, k)
      BY <1>1, <2>2, <2>3, <3>1, HeldIs, HeldIsNext DEF Late
    <3>3. x \in live'
      BY <1>1, <2>3 DEF RefInv, Accounted, Late, Places
    <3> QED
      BY <2>0, <3>2, <3>3
  <2>4. CASE op \notin Sends
    <3>1. UNCHANGED sendVars
      BY <1>1, <2>4 DEF RetireSend, sendVars, op
    <3>2. \A x \in Sends : x \in live' <=> x \in live
      BY <2>0, <2>4
    <3>3. \A v \in Workers, k \in Late, x \in Sends :
            x \in Held(v, k)' => \E l \in Late : x \in Held(v, l)
      BY <2>3 DEF Sends
    <3> QED
      BY <1>0, <3>1, <3>2, <3>3, RingMovesKeep
  <2>5. CASE op \in Sends
    <3>0. /\ op \in live /\ b \in Buffers /\ op \in Carriers(b)
      <4>1. op \in live
        BY <1>0, <2>2, <2>5 DEF EntryKept
      <4> QED
        BY <1>0, <2>5, <4>1 DEF BufferKept, Carriers
    <3>1. /\ ReleaseBuffer(b) /\ send_buffer' = [send_buffer EXCEPT ![op] = None]
          /\ entry' = [entry EXCEPT ![op] = NoEntry]
          /\ wanted' = [wanted EXCEPT ![op] = <<>>]
      BY <1>3, <2>5 DEF RetireSend, op
    <3> HIDE DEF b
    <3>2. /\ ref_count[b] >= 1
          /\ ref_count[b] = 1 => Carriers(b) = {op}
          /\ IsFiniteSet(Carriers(b))
      BY <1>0, <3>0, CountIs
    <3>3. /\ ref_count \in [Buffers -> Nat]
          /\ data \in [Buffers -> Seq(0 .. HeaderSize)]
          /\ \A a \in Buffers : Len(data[a]) <= MaxMessageSize
          /\ ref_count' = [ref_count EXCEPT ![b] = ref_count[b] - 1]
          /\ data' = IF ref_count[b] = 1 THEN [data EXCEPT ![b] = <<>>] ELSE data
          /\ None \notin Buffers /\ 0 <= MaxMessageSize
      BY <1>0, <3>1, SendAssumption DEF SendShape, ReleaseBuffer
    <3>4. <<>> \in Seq(0 .. HeaderSize) /\ Len(<<>>) = 0
      BY EmptySeq
    <3>5. /\ data' \in [Buffers -> Seq(0 .. HeaderSize)]
          /\ \A a \in Buffers : Len(data'[a]) <= MaxMessageSize
          /\ \A a \in Buffers : data'[a] = data[a] \/ (a = b /\ ref_count[b] = 1)
      <4>1. CASE ref_count[b] = 1
        <5>1. data' = [data EXCEPT ![b] = <<>>]
          BY <3>3, <4>1
        <5>2. /\ data' \in [Buffers -> Seq(0 .. HeaderSize)] /\ data'[b] = <<>>
              /\ \A a \in Buffers \ {b} : data'[a] = data[a]
          BY <3>0, <3>3, <3>4, <5>1
        <5> QED
          BY <3>3, <3>4, <4>1, <5>2
      <4>2. CASE ref_count[b] # 1
        BY <3>3, <4>2
      <4> QED
        BY <4>1, <4>2
    <3>6. ref_count' \in [Buffers -> Nat]
      BY <3>0, <3>2, <3>3
    <3>7. /\ send_buffer' \in [Sends -> Buffers \cup {None}]
          /\ wanted' \in [Sends -> Seq(0 .. HeaderSize)]
          /\ send_buffer'[op] = None
          /\ \A x \in Sends \ {op} : /\ send_buffer'[x] = send_buffer[x]
                                     /\ wanted'[x] = wanted[x] /\ entry'[x] = entry[x]
      BY <1>0, <2>5, <3>1, <3>4 DEF SendShape
    <3>8. entry' \in [Sends -> [buf : Buffers \cup {None}, len : 0 .. MaxMessageSize]]
      <4>1. NoEntry \in [buf : Buffers \cup {None}, len : 0 .. MaxMessageSize]
        BY SendAssumption DEF NoEntry
      <4> QED
        BY <1>0, <2>5, <3>1, <4>1 DEF SendShape
    <3>9. SendShape' /\ CallsKept'
      BY <1>0, <1>1, <3>5, <3>6, <3>7, <3>8 DEF SendShape, CallsKept
    <3>10. BufferKept'
      <4> SUFFICES ASSUME NEW x \in Sends
                   PROVE  IF x \in live' THEN /\ send_buffer'[x] \in Buffers
                                              /\ wanted'[x] = data'[send_buffer'[x]]
                                         ELSE send_buffer'[x] = None
        BY DEF BufferKept
      <4>1. CASE x = op
        BY <2>0, <3>7, <4>1
      <4>2. CASE x # op /\ x \notin live
        BY <1>0, <2>0, <3>7, <4>2 DEF BufferKept
      <4>3. CASE x # op /\ x \in live
        <5>1. /\ send_buffer[x] \in Buffers /\ wanted[x] = data[send_buffer[x]]
              /\ x \in Carriers(send_buffer[x])
          BY <1>0, <4>3 DEF BufferKept, Carriers
        <5>2. data'[send_buffer[x]] = data[send_buffer[x]]
          BY <3>2, <3>5, <4>3, <5>1
        <5> QED
          BY <2>0, <3>7, <4>3, <5>1, <5>2
      <4> QED
        BY <4>1, <4>2, <4>3
    <3>11. EntryKept'
      <4> SUFFICES ASSUME NEW v \in Workers, NEW k \in Late, NEW x \in Sends,
                          x \in Held(v, k)'
                   PROVE  /\ x \in live'
                          /\ entry'[x] = [buf |-> send_buffer'[x],
                                          len |-> Len(wanted'[x])]
        BY DEF EntryKept, Late
      <4>1. x \in Held(v, k) /\ x # op
        BY <2>3 DEF Sends
      <4>2. x \in live /\ entry[x] = [buf |-> send_buffer[x], len |-> Len(wanted[x])]
        BY <1>0, <4>1 DEF EntryKept, Late
      <4> QED
        BY <2>0, <3>7, <4>1, <4>2
    <3>12. BufferCounted'
      <4> SUFFICES ASSUME NEW a \in Buffers
                   PROVE  ref_count'[a] = Cardinality(Callers(a))
                                            + Cardinality(Carriers(a)')
        BY <1>1 DEF BufferCounted, Callers, Carriers
      <4>1. /\ ref_count[a] = Cardinality(Callers(a)) + Cardinality(Carriers(a))
            /\ Cardinality(Callers(a)) \in Nat /\ Cardinality(Carriers(a)) \in Nat
            /\ IsFiniteSet(Carriers(a))
        BY <1>0, CountIs
      <4>2. CASE a = b
        <5>1. Carriers(a)' = Carriers(a) \ {op} /\ op \in Carriers(a)
          BY <2>0, <3>0, <3>7, <4>2 DEF Carriers
        <5>2. Cardinality(Carriers(a) \ {op}) = Cardinality(Carriers(a)) - 1
          BY <4>1, <5>1, HolderCounted
        <5>3. ref_count'[a] = ref_count[a] - 1
          BY <3>0, <3>3, <4>2
        <5>4. Cardinality(Carriers(a)') = Cardinality(Carriers(a)) - 1
          BY <5>1, <5>2
        <5> QED
          BY <4>1, <5>3, <5>4
      <4>3. CASE a # b
        <5>1. Carriers(a)' = Carriers(a)
          BY <2>0, <3>0, <3>7, <4>3 DEF Carriers
        <5>2. ref_count'[a] = ref_count[a]
          BY <3>3, <4>3
        <5> QED
          BY <4>1, <5>1, <5>2
      <4> QED
        BY <4>2, <4>3
    <3> QED
      BY <3>9, <3>10, <3>11, <3>12 DEF SendPart
  <2> QED
    BY <2>4, <2>5
<1> QED
  BY <1>2, <1>3

-----------------------------------------------------------------------------
(* The counts and the bytes of the buffers.                                *)

\* Nothing has been sent at the start.
LEMMA SendInit == Init => SendInv /\ TiledSoFar
<1> SUFFICES ASSUME Init PROVE SendInv /\ TiledSoFar
  OBVIOUS
<1>1. RingTypeOK /\ RefInv /\ live = {}
  BY RingInitType, RefInit DEF Init, RingInit
<1>2. <<>> \in Seq(0 .. HeaderSize) /\ Len(<<>>) = 0
  BY EmptySeq
<1>3. /\ data = [b \in Buffers |-> <<>>] /\ ref_count = [b \in Buffers |-> 0]
      /\ call = [w \in Workers |-> Idle] /\ send_buffer = [op \in Sends |-> None]
      /\ entry = [op \in Sends |-> NoEntry] /\ wanted = [op \in Sends |-> <<>>]
      /\ emitted = [w \in Workers |-> <<>>] /\ calls = 0
  BY DEF Init
<1>4. SendShape
  <2>1. NoEntry \in [buf : Buffers \cup {None}, len : 0 .. MaxMessageSize]
    BY SendAssumption DEF NoEntry
  <2>2. calls \in 0 .. MaxCalls /\ 0 <= MaxMessageSize
    BY <1>3, SendAssumption
  <2>3. /\ data \in [Buffers -> Seq(0 .. HeaderSize)]
        /\ \A b \in Buffers : Len(data[b]) <= MaxMessageSize
        /\ wanted \in [Sends -> Seq(0 .. HeaderSize)]
        /\ emitted \in [Workers -> Seq(0 .. HeaderSize)]
    BY <1>2, <1>3, <2>2
  <2>4. /\ ref_count \in [Buffers -> Nat] /\ send_buffer \in [Sends -> Buffers \cup {None}]
    BY <1>3
  <2>5. entry \in [Sends -> [buf : Buffers \cup {None}, len : 0 .. MaxMessageSize]]
    BY <1>3, <2>1
  <2>6. call \in [Workers -> CallSet]
    BY <1>3, IdleIs
  <2> QED
    BY <2>2, <2>3, <2>4, <2>5, <2>6 DEF SendShape
<1>5. CallsKept
  <2>1. \A w \in Workers : call[w] = Idle
    BY <1>3
  <2>2. ~(Idle.to > 0)
    BY IdleIs
  <2> HIDE DEF Idle
  <2> QED
    BY <2>1, <2>2, IdleIs DEF CallsKept
<1>6. BufferKept
  BY <1>1, <1>3 DEF BufferKept
<1>7. EntryKept
  <2> SUFFICES ASSUME NEW w \in Workers, NEW k \in Late, NEW op \in Sends
               PROVE  op \notin Held(w, k)
    BY DEF EntryKept, Late
  <2>1. op \in Ops /\ k \in Places /\ ~fault
    BY DEF Sends, Late, Places, Init, RingInit
  <2> QED
    BY <1>1, <2>1 DEF RefInv, Accounted
<1>8. BufferCounted
  <2> SUFFICES ASSUME NEW b \in Buffers
               PROVE  ref_count[b] = Cardinality(Callers(b)) + Cardinality(Carriers(b))
    BY DEF BufferCounted, Callers, Carriers
  <2>1. Callers(b) = {}
    BY <1>3, IdleIs, SendAssumption DEF Callers
  <2>2. Carriers(b) = {}
    BY <1>1 DEF Carriers
  <2>3. Cardinality({}) = 0
    BY FS_EmptySet
  <2>4. Cardinality(Callers(b)) = 0 /\ Cardinality(Carriers(b)) = 0
    BY <2>1, <2>2, <2>3
  <2> QED
    BY <1>3, <2>4
<1>9. TiledSoFar
  BY <1>3, IdleIs DEF TiledSoFar, Tiled
<1> QED
  BY <1>1, <1>4, <1>5, <1>6, <1>7, <1>8, <1>9 DEF SendInv, SendPart

\* Every step keeps the invariant.
LEMMA SendStep == SendInv /\ [Next]_vars => SendInv'
<1> SUFFICES ASSUME SendInv, [Next]_vars PROVE SendInv'
  OBVIOUS
<1>1. [RingNext]_ringVars
  BY SendStepIsRingStep DEF vars, ringVars
<1>2. RingTypeOK' /\ RefInv'
  BY <1>1, RingType, RefStep DEF SendInv
<1>3. CASE UNCHANGED vars
  <2>1. UNCHANGED sendVars /\ UNCHANGED ringVars
    BY <1>3 DEF vars, sendVars, ringVars
  <2>2. UNCHANGED <<live, sq, inflight, cq>>
    BY <2>1 DEF ringVars
  <2>3. \A v \in Workers, k \in Late : Held(v, k)' = Held(v, k)
    BY <2>2, HeldIs, HeldIsNext DEF Late
  <2>4. SendPart'
    BY <2>1, <2>2, <2>3, RingMovesKeep DEF SendInv
  <2> QED
    BY <1>2, <2>4 DEF SendInv
<1>4. ASSUME NEW w \in Workers, SendWorker(w) PROVE SendPart'
  BY <1>2, <1>4, LoopStepKeeps, PrepareSendKeeps, RetireKeeps, FillChunkKeeps,
     RequestSendKeeps, EndTurnKeeps, ReturnCallKeeps DEF SendWorker
<1>5. ASSUME NEW w \in Workers, Begin(w) PROVE SendPart'
  BY <1>5, TimestampTaskKeeps, SendMessageKeeps DEF Begin
<1>6. CASE Next
  <2>1. SendPart'
    BY <1>4, <1>5, <1>6, RequestOtherKeeps, KernelStepKeeps DEF Next
  <2> QED
    BY <1>2, <2>1 DEF SendInv
<1> QED
  BY <1>3, <1>6

\* The invariant says what the send path promises.
LEMMA SendInvMeans == SendInv => SendTypeOK /\ BufferCounted
<1>1. SendInv => SendTypeOK
  BY DEF SendInv, SendPart, SendShape, SendTypeOK, CallSet
<1> QED
  BY <1>1 DEF SendInv, SendPart

\* An operation between its preparation and its completion.
LEMMA SendInvIntact == SendInv => SentIntact
<1> SUFFICES ASSUME SendInv, NEW w \in Workers,
                    NEW op \in (SeqToSet(sq[w]) \cup inflight[w]) \cap Sends
             PROVE  /\ ref_count[entry[op].buf] > 0
                    /\ SubSeq(data[entry[op].buf], 1, entry[op].len) = wanted[op]
  BY DEF SentIntact
<1>1. op \in Held(w, "prepared") \/ op \in Held(w, "kernel")
  BY HeldIs DEF SeqToSet, Range
<1>2. op \in live /\ entry[op] = [buf |-> send_buffer[op], len |-> Len(wanted[op])]
  BY <1>1 DEF SendInv, SendPart, EntryKept
<1> DEFINE b == send_buffer[op]
<1>3. /\ b \in Buffers /\ wanted[op] = data[b] /\ op \in Carriers(b)
  BY <1>2 DEF SendInv, SendPart, BufferKept, Carriers
<1>4. ref_count[b] > 0
  <2>1. ref_count[b] >= 1 /\ ref_count[b] \in Nat
    BY <1>3, CountIs DEF SendInv, SendPart, SendShape
  <2> QED
    BY <2>1
<1>5. data[b] \in Seq(0 .. HeaderSize)
  BY <1>3 DEF SendInv, SendPart, SendShape
<1>6. SubSeq(data[b], 1, Len(data[b])) = data[b]
  BY <1>5, SubSeqFull
<1>7. entry[op].buf = b /\ entry[op].len = Len(wanted[op])
  BY <1>2
<1> QED
  BY <1>3, <1>4, <1>6, <1>7

\* Every variable keeps its shape, and no buffer holds more than its array,
\* for any sizes and any number of calls.
THEOREM SendTypeCorrect == Spec => []SendTypeOK
<1>1. Init => SendInv
  BY SendInit
<1> QED
  BY <1>1, SendStep, SendInvMeans, PTL DEF Spec

\* The count of a buffer is always the number of callers and operations that
\* hold it, so it is deleted by the last of them.
THEOREM CountsHolders == Spec => []BufferCounted
<1>1. Init => SendInv
  BY SendInit
<1> QED
  BY <1>1, SendStep, SendInvMeans, PTL DEF Spec

\* What a submission entry points to is alive and unchanged until the kernel
\* is done with it.
THEOREM EntryIntact == Spec => []SentIntact
<1>1. Init => SendInv
  BY SendInit
<1>2. SendInv => SentIntact
  BY SendInvIntact
<1> QED
  BY <1>1, <1>2, SendStep, PTL DEF Spec

-----------------------------------------------------------------------------
(* The chunks of timestamp_task.                                           *)

\* An answer is a sequence of bytes of its size.
LEMMA AnswerIs ==
  ASSUME NEW n \in Nat
  PROVE  /\ AnswerBytes(n) \in Seq(0 .. HeaderSize) /\ Len(AnswerBytes(n)) = n
         /\ \A i \in 1 .. n : AnswerBytes(n)[i] = IF i <= HeaderSize THEN i ELSE 0
<1>1. HeaderSize \in Nat
  BY SendAssumption
<1>2. /\ AnswerBytes(n) \in [1 .. n -> 0 .. HeaderSize]
      /\ \A i \in 1 .. n : AnswerBytes(n)[i] = IF i <= HeaderSize THEN i ELSE 0
  BY <1>1 DEF AnswerBytes
<1>3. AnswerBytes(n) \in Seq(0 .. HeaderSize)
  BY <1>2, SeqDef
<1>4. Len(AnswerBytes(n)) = n
  BY <1>2, <1>3, LenProperties
<1> QED
  BY <1>2, <1>3, <1>4

\* The beginning of an answer is a shorter answer.
LEMMA AnswerBegins ==
  ASSUME NEW t \in Nat, NEW n \in 0 .. t
  PROVE  SubSeq(AnswerBytes(t), 1, n) = AnswerBytes(n)
<1> DEFINE s == SubSeq(AnswerBytes(t), 1, n)
           r == AnswerBytes(n)
<1>1. /\ s \in Seq(0 .. HeaderSize) /\ Len(s) = n
      /\ \A i \in 1 .. n : s[i] = AnswerBytes(t)[i]
  <2>1. /\ AnswerBytes(t) \in Seq(0 .. HeaderSize) /\ Len(AnswerBytes(t)) = t
    BY AnswerIs
  <2>2. \A i \in 1 .. n : AnswerBytes(t)[i] \in 0 .. HeaderSize
    <3>1. \A i \in 1 .. t : AnswerBytes(t)[i] \in 0 .. HeaderSize
      BY <2>1, ElementOfSeq
    <3> QED
      BY <3>1
  <2>3. /\ s \in Seq(0 .. HeaderSize)
        /\ Len(s) = IF 1 <= n THEN n - 1 + 1 ELSE 0
        /\ \A i \in 1 .. n - 1 + 1 : s[i] = AnswerBytes(t)[1 + i - 1]
    BY <2>2, SubSeqProperties
  <2> QED
    BY <2>3
<1>2. /\ r \in Seq(0 .. HeaderSize) /\ Len(r) = n
      /\ \A i \in 1 .. n : r[i] = AnswerBytes(t)[i]
  BY AnswerIs
<1> HIDE DEF s, r
<1>3. s = r
  BY <1>1, <1>2, SeqEqual
<1> QED
  BY <1>3 DEF s, r

\* A chunk continues the answer where the one before it ended.
LEMMA ChunkContinues ==
  ASSUME NEW o \in Nat, NEW n \in Nat
  PROVE  AnswerBytes(o) \o Chunk(o, n) = AnswerBytes(o + n)
<1> DEFINE s == AnswerBytes(o)
           c == Chunk(o, n)
           r == AnswerBytes(o + n)
<1>1. /\ s \in Seq(0 .. HeaderSize) /\ Len(s) = o
      /\ \A i \in 1 .. o : s[i] = IF i <= HeaderSize THEN i ELSE 0
  BY AnswerIs
<1>2. /\ c \in Seq(0 .. HeaderSize) /\ Len(c) = n
      /\ \A i \in 1 .. n : c[i] = IF o + i <= HeaderSize THEN o + i ELSE 0
  BY ChunkIs
<1>3. /\ r \in Seq(0 .. HeaderSize) /\ Len(r) = o + n
      /\ \A i \in 1 .. o + n : r[i] = IF i <= HeaderSize THEN i ELSE 0
  BY AnswerIs
<1> HIDE DEF s, c, r
<1>4. /\ s \o c \in Seq(0 .. HeaderSize) /\ Len(s \o c) = o + n
      /\ \A i \in 1 .. o + n : (s \o c)[i] = IF i <= o THEN s[i] ELSE c[i - o]
  BY <1>1, <1>2, ConcatProperties, ZenonT(40)
<1>5. \A i \in 1 .. o + n : (s \o c)[i] = r[i]
  <2> SUFFICES ASSUME NEW i \in 1 .. o + n PROVE (s \o c)[i] = r[i]
    OBVIOUS
  <2>0. i \in Nat /\ 1 <= i /\ (i <= o \/ i > o)
    OBVIOUS
  <2>1. CASE i <= o
    <3>1. i \in 1 .. o /\ (s \o c)[i] = s[i]
      BY <1>4, <2>0, <2>1
    <3> QED
      BY <1>1, <1>3, <3>1
  <2>2. CASE i > o
    <3>1. i - o \in 1 .. n /\ o + (i - o) = i
      BY <2>2
    <3>2. c[i - o] = IF i <= HeaderSize THEN i ELSE 0
      BY <1>2, <3>1
    <3> QED
      BY <1>3, <1>4, <2>2, <3>2
  <2> QED
    BY <2>0, <2>1, <2>2
<1>6. s \o c = r
  BY <1>3, <1>4, <1>5, SeqEqual
<1> QED
  BY <1>6 DEF s, c, r

\* What a call has requested changes with that call only.
LEMMA TiledUpdated ==
  ASSUME TiledSoFar, NEW w \in Workers, Tiled(call'[w], emitted'[w]),
         \A v \in Workers \ {w} : call'[v] = call[v] /\ emitted'[v] = emitted[v]
  PROVE  TiledSoFar'
<1>1. ASSUME NEW v \in Workers PROVE Tiled(call'[v], emitted'[v])
  <2>1. CASE v = w
    BY <2>1
  <2>2. CASE v # w
    BY <2>2 DEF TiledSoFar
  <2> QED
    BY <2>1, <2>2
<1> QED
  BY <1>1 DEF TiledSoFar, Tiled, Reach

\* A call begins, with nothing requested.
LEMMA BeginTiled ==
  ASSUME SendInv, TiledSoFar, NEW w \in Workers, TimestampTask(w) \/ SendMessage(w)
  PROVE  TiledSoFar'
<1>0. /\ call \in [Workers -> CallSet] /\ call[w] = Idle /\ UNCHANGED emitted
      /\ emitted[w] = <<>>
  <2>1. call[w] = Idle
    BY DEF SendInv, SendPart, CallsKept, TimestampTask, SendMessage, MayCall
  <2>2. Tiled(Idle, emitted[w])
    BY <2>1 DEF TiledSoFar
  <2> QED
    BY <2>1, <2>2, IdleIs DEF SendInv, SendPart, SendShape, Tiled, TimestampTask,
                              SendMessage
<1>1. CASE TimestampTask(w)
  <2>1. PICK total \in Totals :
          call' = [call EXCEPT ![w] = [Idle EXCEPT !.on = TRUE, !.total = total,
                                                   !.remaining = total]]
    BY <1>1 DEF TimestampTask
  <2> DEFINE d == [Idle EXCEPT !.on = TRUE, !.total = total, !.remaining = total]
  <2>2. total \in Nat \ {0}
    BY SendAssumption
  <2>3. d.buf = None /\ d.total = total /\ d.remaining = total /\ d.offset = 0
    BY IdleIs DEF CallSet
  <2>4. call'[w] = d /\ \A v \in Workers \ {w} : call'[v] = call[v]
    BY <1>0, <2>1
  <2> HIDE DEF d
  <2>5. Reach(d) = 0 /\ d.total # 0
    BY <2>2, <2>3 DEF Reach
  <2>6. SubSeq(AnswerBytes(d.total), 1, 0) = <<>>
    BY SubSeqEmpty
  <2>7. Tiled(d, <<>>)
    BY <2>2, <2>3, <2>5, <2>6 DEF Tiled
  <2> QED
    BY <1>0, <2>4, <2>7, TiledUpdated
<1>2. CASE SendMessage(w)
  <2>1. PICK b \in Buffers, k \in 0 .. Recipients :
          call' = [call EXCEPT ![w] = [Idle EXCEPT !.on = TRUE, !.buf = b, !.to = k]]
    BY <1>2 DEF SendMessage
  <2> DEFINE d == [Idle EXCEPT !.on = TRUE, !.buf = b, !.to = k]
  <2>2. d.total = 0
    BY IdleIs DEF CallSet
  <2>3. call'[w] = d /\ \A v \in Workers \ {w} : call'[v] = call[v]
    BY <1>0, <2>1
  <2> HIDE DEF d
  <2>4. Tiled(d, <<>>)
    BY <2>2 DEF Tiled
  <2> QED
    BY <1>0, <2>3, <2>4, TiledUpdated
<1> QED
  BY <1>1, <1>2

\* A chunk is filled and requested: it is the next part of the answer, and
\* never one that SendBuffer::write leaves out.
LEMMA FillTiled ==
  ASSUME SendInv, TiledSoFar, NEW w \in Workers, FillChunk(w)
  PROVE  TiledSoFar'
<1> DEFINE c == call[w]
           n == Smaller(ChunkSize, c.remaining)
           str == Chunk(c.offset, n)
<1>1. PICK b \in Buffers :
        /\ NewBuffer(b, str)
        /\ call' = [call EXCEPT ![w].buf = b, ![w].to = 1]
        /\ emitted' = [emitted EXCEPT ![w] = @ \o data'[b]]
  BY DEF FillChunk
<1>2. /\ MaxMessageSize \in Nat /\ ChunkSize \in Nat /\ ChunkSize <= MaxMessageSize
      /\ None \notin Buffers /\ call \in [Workers -> CallSet] /\ c \in CallSet
      /\ c.buf = None /\ c.remaining \in Nat \ {0} /\ c.offset \in Nat
      /\ emitted \in [Workers -> Seq(0 .. HeaderSize)]
      /\ data \in [Buffers -> Seq(0 .. HeaderSize)]
  BY SendAssumption, SMTT(30) DEF SendInv, SendPart, SendShape, FillChunk, CallSet
<1>3. c.total # 0 /\ c.total \in Nat
  <2>1. c.total \in Totals \cup {0}
    BY <1>2 DEF CallSet
  <2> QED
    BY <1>2, <2>1, SendAssumption DEF SendInv, SendPart, CallsKept
<1>4. /\ c.offset + c.remaining = c.total
      /\ emitted[w] = AnswerBytes(c.offset)
  <2>1. Tiled(c, emitted[w])
    BY DEF TiledSoFar
  <2>2. /\ c.offset + c.remaining = c.total /\ Reach(c) = c.offset
        /\ emitted[w] = SubSeq(AnswerBytes(c.total), 1, Reach(c))
    BY <1>2, <1>3, <2>1 DEF Tiled, Reach
  <2>3. c.offset \in 0 .. c.total
    BY <1>2, <1>3, <2>2
  <2> QED
    BY <1>3, <2>2, <2>3, AnswerBegins
<1>5. n \in Nat /\ n <= MaxMessageSize /\ n <= c.remaining
  <2>1. n \in Nat /\ n <= ChunkSize /\ n <= c.remaining
    BY <1>2, SmallerIs
  <2> HIDE DEF n
  <2> QED
    BY <1>2, <2>1
<1>6. data'[b] = str
  <2>1. str \in Seq(0 .. HeaderSize) /\ Len(str) = n
    BY <1>2, <1>5, ChunkIs
  <2>2. Write(<<>>, str) = str
    BY <1>5, <2>1, WriteIs
  <2>3. data' = [data EXCEPT ![b] = Write(<<>>, str)]
    BY <1>1 DEF NewBuffer
  <2> HIDE DEF str
  <2> QED
    BY <1>2, <2>2, <2>3
<1> DEFINE d == [c EXCEPT !.buf = b, !.to = 1]
<1>7. /\ d.buf = b /\ d.total = c.total /\ d.remaining = c.remaining
      /\ d.offset = c.offset
  BY <1>2 DEF CallSet
<1>8. call'[w] = d /\ \A v \in Workers \ {w} : call'[v] = call[v]
  BY <1>1, <1>2 DEF CallSet
<1>9. /\ emitted'[w] = emitted[w] \o str
      /\ \A v \in Workers \ {w} : emitted'[v] = emitted[v]
  BY <1>1, <1>2, <1>6
<1>10. emitted[w] \o str = AnswerBytes(c.offset + n)
  BY <1>2, <1>4, <1>5, ChunkContinues
<1>11. Reach(d) = c.offset + n
  <2> HIDE DEF c, d
  <2> QED
    BY <1>2, <1>7 DEF Reach
<1> HIDE DEF c, d, n, str
<1>12. c.offset + n \in 0 .. c.total
  BY <1>2, <1>3, <1>4, <1>5
<1>13. SubSeq(AnswerBytes(c.total), 1, c.offset + n) = AnswerBytes(c.offset + n)
  BY <1>3, <1>12, AnswerBegins
<1>14. Tiled(d, emitted'[w])
  BY <1>3, <1>4, <1>7, <1>9, <1>10, <1>11, <1>13 DEF Tiled
<1> QED
  BY <1>8, <1>9, <1>14, TiledUpdated

\* A request changes neither the offset nor what is left.
LEMMA RequestTiled ==
  ASSUME SendInv, TiledSoFar, NEW w \in Workers, RequestSend(w)
  PROVE  TiledSoFar'
<1> DEFINE c == call[w]
           d == [c EXCEPT !.to = @ - 1]
<1>1. /\ call \in [Workers -> CallSet] /\ c \in CallSet
      /\ call' = [call EXCEPT ![w] = d] /\ UNCHANGED emitted
  BY DEF RequestSend, SendInv, SendPart, SendShape, CallSet
<1>2. /\ d.buf = c.buf /\ d.total = c.total /\ d.remaining = c.remaining
      /\ d.offset = c.offset
  BY <1>1 DEF CallSet
<1>3. Tiled(c, emitted[w])
  BY DEF TiledSoFar
<1> HIDE DEF d
<1>4. call'[w] = d /\ \A v \in Workers \ {w} : call'[v] = call[v]
  BY <1>1
<1>5. Tiled(d, emitted'[w])
  BY <1>1, <1>2, <1>3 DEF Tiled, Reach
<1> QED
  BY <1>1, <1>4, <1>5, TiledUpdated

\* At the end of a turn the offset moves to where the chunk ended.
LEMMA EndTurnTiled ==
  ASSUME SendInv, TiledSoFar, NEW w \in Workers, EndTurn(w)
  PROVE  TiledSoFar'
<1> DEFINE c == call[w]
           n == Smaller(ChunkSize, c.remaining)
           d == [c EXCEPT !.buf = None, !.remaining = c.remaining - n,
                          !.offset = c.offset + n]
<1>1. /\ call \in [Workers -> CallSet] /\ c \in CallSet /\ c.buf # None
      /\ c.remaining \in Nat /\ c.offset \in Nat /\ ChunkSize \in Nat
  BY SendAssumption DEF SendInv, SendPart, SendShape, EndTurn, CallSet
<1>2. n \in Nat /\ n <= c.remaining
  BY <1>1, SmallerIs
<1>3. call' = [call EXCEPT ![w] = d] /\ UNCHANGED emitted
  BY <1>1 DEF EndTurn, CallSet
<1>4. Tiled(c, emitted[w])
  BY DEF TiledSoFar
<1>5. Reach(c) = c.offset + n
  BY <1>1 DEF Reach
<1> HIDE DEF n
<1>6. /\ d.buf = None /\ d.total = c.total /\ d.remaining = c.remaining - n
      /\ d.offset = c.offset + n
  BY <1>1 DEF CallSet
<1> HIDE DEF c, d
<1>7. call'[w] = d /\ \A v \in Workers \ {w} : call'[v] = call[v]
  BY <1>1, <1>3
<1>8. Reach(d) = Reach(c) /\ d.offset + d.remaining = c.offset + c.remaining
  BY <1>1, <1>2, <1>5, <1>6 DEF Reach
<1>9. Tiled(d, emitted'[w])
  BY <1>3, <1>4, <1>6, <1>8 DEF Tiled
<1> QED
  BY <1>3, <1>7, <1>9, TiledUpdated

\* A call that returns leaves nothing behind.
LEMMA ReturnTiled ==
  ASSUME SendInv, TiledSoFar, NEW w \in Workers, ReturnCall(w)
  PROVE  TiledSoFar'
<1>1. /\ call' = [call EXCEPT ![w] = Idle] /\ emitted' = [emitted EXCEPT ![w] = <<>>]
      /\ call \in [Workers -> CallSet] /\ emitted \in [Workers -> Seq(0 .. HeaderSize)]
  BY DEF ReturnCall, SendInv, SendPart, SendShape
<1>2. /\ call'[w] = Idle /\ emitted'[w] = <<>>
      /\ \A v \in Workers \ {w} : call'[v] = call[v] /\ emitted'[v] = emitted[v]
  BY <1>1
<1>3. Tiled(Idle, <<>>)
  BY IdleIs DEF Tiled
<1> QED
  BY <1>2, <1>3, TiledUpdated

\* Every step keeps the chunks in line with the answer.
LEMMA TiledStep == SendInv /\ TiledSoFar /\ [Next]_vars => TiledSoFar'
<1> SUFFICES ASSUME SendInv, TiledSoFar, [Next]_vars PROVE TiledSoFar'
  OBVIOUS
<1>1. ASSUME UNCHANGED <<call, emitted>> PROVE TiledSoFar'
  BY <1>1 DEF TiledSoFar, Tiled, Reach
<1>2. CASE UNCHANGED vars
  BY <1>1, <1>2 DEF vars, sendVars
<1>3. ASSUME NEW w \in Workers, SendWorker(w) PROVE TiledSoFar'
  <2>1. CASE LoopStep(w) \/ PrepareSend(w) \/ RetireSend(w)
    <3>1. UNCHANGED <<call, emitted>>
      BY <2>1 DEF LoopStep, PrepareSend, RetireSend, sendVars
    <3> QED
      BY <1>1, <3>1
  <2> QED
    BY <1>3, <2>1, FillTiled, RequestTiled, EndTurnTiled, ReturnTiled DEF SendWorker
<1>4. ASSUME NEW w \in Workers, Begin(w) PROVE TiledSoFar'
  BY <1>4, BeginTiled DEF Begin
<1>5. ASSUME NEW w \in Workers, RequestOther(w) PROVE TiledSoFar'
  BY <1>1, <1>5 DEF RequestOther, sendVars
<1>6. ASSUME NEW op \in Ops, KernelStep(op) PROVE TiledSoFar'
  BY <1>1, <1>6 DEF KernelStep, sendVars
<1> QED
  BY <1>2, <1>3, <1>4, <1>5, <1>6 DEF Next

\* The chunks of timestamp_task, one after the other, are the answer, for any
\* sizes of chunk, header and answer and whatever the other callers do.
THEOREM ChunksAreAnswer == Spec => []AnswerTiled
<1>1. SendInv /\ TiledSoFar => AnswerTiled
  <2> SUFFICES ASSUME SendInv, NEW w \in Workers, Tiled(call[w], emitted[w]),
                      call[w].total > 0, call[w].buf = None
               PROVE  /\ call[w].offset + call[w].remaining = call[w].total
                      /\ emitted[w] = SubSeq(AnswerBytes(call[w].total), 1, call[w].offset)
    BY DEF AnswerTiled, TiledSoFar
  <2>1. call[w].offset \in Nat /\ call[w].total # 0
    BY DEF SendInv, SendPart, SendShape, CallSet
  <2>2. Reach(call[w]) = call[w].offset
    BY <2>1 DEF Reach
  <2> QED
    BY <2>1, <2>2 DEF Tiled
<1>2. /\ SendInv /\ TiledSoFar /\ [Next]_vars
      => SendInv' /\ TiledSoFar'
  BY SendStep, TiledStep
<1> QED
  BY <1>1, <1>2, SendInit, PTL DEF Spec

=============================================================================
