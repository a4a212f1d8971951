----------------------------- MODULE IORingProofs -----------------------------
(***************************************************************************)
(* Theorems about IORing, for any number of workers and operations and any *)
(* depth of the rings.                                                     *)
(***************************************************************************)
EXTENDS IORing, SequenceLemmas

-----------------------------------------------------------------------------
(* Type correctness.                                                       *)

\* The operations a queue of completions refers to.
OpsOf(q) == [i \in DOMAIN q |-> q[i].op]

\* Completions are appended and taken one by one, and so are their operations.
LEMMA OpsOfCompletions ==
  ASSUME NEW q \in Seq([op : Ops, res : Results])
  PROVE  /\ OpsOf(q) \in Seq(Ops)
         /\ OpsOf(q) = <<>> <=> q = <<>>
         /\ \A e \in [op : Ops, res : Results] :
              OpsOf(Append(q, e)) = Append(OpsOf(q), e.op)
         /\ q # <<>> => /\ Head(q).op = Head(OpsOf(q))
                        /\ OpsOf(Tail(q)) = Tail(OpsOf(q))
<1> DEFINE E == [op : Ops, res : Results]
<1>0. /\ Len(q) \in Nat /\ DOMAIN q = 1 .. Len(q)
      /\ \A i \in 1 .. Len(q) : q[i] \in E
  BY LenProperties, ElementOfSeq
<1>1. /\ OpsOf(q) \in Seq(Ops) /\ Len(OpsOf(q)) = Len(q)
      /\ DOMAIN OpsOf(q) = 1 .. Len(q)
  <2>1. OpsOf(q) \in [1 .. Len(q) -> Ops]
    BY <1>0 DEF OpsOf
  <2>2. OpsOf(q) \in Seq(Ops)
    BY <1>0, <2>1, SeqDef
  <2>3. DOMAIN OpsOf(q) = 1 .. Len(q)
    BY <2>1
  <2>4. Len(OpsOf(q)) = Len(q)
    BY <1>0, <2>2, <2>3, LenProperties
  <2> QED
    BY <2>2, <2>3, <2>4
<1>2. OpsOf(q) = <<>> <=> q = <<>>
  BY <1>0, <1>1, EmptySeq
<1>3. ASSUME NEW e \in E
      PROVE  OpsOf(Append(q, e)) = Append(OpsOf(q), e.op)
  <2> DEFINE a == OpsOf(Append(q, e))
             b == Append(OpsOf(q), e.op)
  <2>1. /\ Append(q, e) \in Seq(E) /\ Len(Append(q, e)) = Len(q) + 1
        /\ DOMAIN Append(q, e) = 1 .. Len(q) + 1
        /\ \A i \in 1 .. Len(q) : Append(q, e)[i] = q[i]
        /\ Append(q, e)[Len(q) + 1] = e
    BY AppendProperties, LenProperties
  <2>2. /\ DOMAIN a = 1 .. Len(q) + 1
        /\ \A i \in 1 .. Len(q) : a[i] = q[i].op
        /\ a[Len(q) + 1] = e.op
    BY <1>0, <2>1 DEF OpsOf
  <2>3. /\ b \in Seq(Ops) /\ DOMAIN b = 1 .. Len(q) + 1
        /\ \A i \in 1 .. Len(q) : b[i] = q[i].op
        /\ b[Len(q) + 1] = e.op
    BY <1>0, <1>1, AppendProperties, LenProperties DEF OpsOf
  <2>4. \A i \in 1 .. Len(q) + 1 : a[i] = b[i]
    BY <1>0, <2>2, <2>3
  <2>5. a = [i \in DOMAIN a |-> a[i]]
    BY DEF OpsOf
  <2>6. b = [i \in DOMAIN b |-> b[i]]
    BY <2>3, LenProperties
  <2> HIDE DEF a, b
  <2> QED
    <3>1. a = b
      BY <2>2, <2>3, <2>4, <2>5, <2>6
    <3> QED BY <3>1 DEF a, b
<1>4. ASSUME q # <<>>
      PROVE  Head(q).op = Head(OpsOf(q)) /\ OpsOf(Tail(q)) = Tail(OpsOf(q))
  <2> DEFINE a == OpsOf(Tail(q))
             b == Tail(OpsOf(q))
  <2>1. /\ Len(q) \in Nat \ {0} /\ OpsOf(q) # <<>>
        /\ Head(q) = q[1] /\ Head(OpsOf(q)) = OpsOf(q)[1]
    BY <1>1, <1>2, <1>4, EmptySeq
  <2>2. Head(q).op = Head(OpsOf(q))
    BY <1>0, <2>1 DEF OpsOf
  <2>3. /\ Tail(q) \in Seq(E) /\ DOMAIN Tail(q) = 1 .. Len(q) - 1
        /\ \A i \in 1 .. Len(q) - 1 : Tail(q)[i] = q[i + 1]
    BY <1>4, HeadTailProperties, LenProperties
  <2>4. DOMAIN a = 1 .. Len(q) - 1
    BY <2>3 DEF OpsOf
  <2>5. \A i \in 1 .. Len(q) - 1 : a[i] = q[i + 1].op
    BY <2>3 DEF OpsOf
  <2>6. /\ b \in Seq(Ops) /\ DOMAIN b = 1 .. Len(q) - 1
        /\ \A i \in 1 .. Len(q) - 1 : b[i] = OpsOf(q)[i + 1]
    BY <1>1, <2>1, HeadTailProperties, LenProperties
  <2>7. \A i \in 1 .. Len(q) - 1 : a[i] = b[i]
    BY <1>0, <2>1, <2>5, <2>6 DEF OpsOf
  <2>8. a = [i \in DOMAIN a |-> a[i]] /\ b = [i \in DOMAIN b |-> b[i]]
    BY <2>6, LenProperties DEF OpsOf
  <2> HIDE DEF a, b
  <2>9. a = b
    BY <2>4, <2>6, <2>7, <2>8
  <2> QED
    BY <2>2, <2>9 DEF a, b
<1> QED
  BY <1>1, <1>2, <1>3, <1>4

\* The first completion of a queue and the rest of it.
LEMMA FirstCompletion ==
  ASSUME RingTypeOK, NEW w \in Workers, cq[w] # <<>>
  PROVE  /\ Head(cq[w]) \in [op : Ops, res : Results]
         /\ Tail(cq[w]) \in Seq([op : Ops, res : Results])
BY HeadTailProperties DEF RingTypeOK

\* Every step of a worker keeps the shape of the ring.
LEMMA WorkerType ==
  ASSUME RingTypeOK, NEW w \in Workers, Worker(w)
  PROVE  RingTypeOK'
<1> USE RingAssumption
<1>1. CASE WaitOne(w)
  BY <1>1 DEF RingTypeOK, WaitOne
<1>2. CASE Handle(w)
  BY <1>2 DEF RingTypeOK, Handle, Handled
<1>3. CASE BeginFlush(w)
  BY <1>3 DEF RingTypeOK, BeginFlush
<1>4. CASE Prepare(w)
  <2> DEFINE op == Head(request_queue[w])
  <2>1. /\ op \in Ops /\ Tail(request_queue[w]) \in Seq(Ops)
        /\ sq[w] \in Seq(Ops) /\ Len(sq[w]) \in Nat
    BY <1>4, HeadTailProperties DEF RingTypeOK, Prepare
  <2>2. /\ request_queue' \in [Workers -> Seq(Ops)]
        /\ UNCHANGED <<live, cq, holding, pc>>
    BY <1>4, <2>1 DEF RingTypeOK, Prepare
  <2>3. CASE /\ Len(sq[w]) < QueueDepth
             /\ sq' = [sq EXCEPT ![w] = Append(@, op)]
             /\ UNCHANGED <<inflight, fault>>
    <3>1. Append(sq[w], op) \in Seq(Ops) /\ Len(Append(sq[w], op)) = Len(sq[w]) + 1
      BY <2>1, AppendProperties
    <3> DEFINE q == Append(sq[w], op)
    <3>2. sq' = [sq EXCEPT ![w] = q]
      BY <2>3
    <3>3. q \in Seq(Ops) /\ Len(q) <= QueueDepth
      BY <2>1, <2>3, <3>1
    <3> HIDE DEF op, q
    <3>4. /\ sq' \in [Workers -> Seq(Ops)]
          /\ \A v \in Workers : Len(sq'[v]) <= QueueDepth
      BY <3>2, <3>3 DEF RingTypeOK
    <3> QED
      BY <2>2, <2>3, <3>4 DEF RingTypeOK
  <2>4. CASE /\ sq' = [sq EXCEPT ![w] = <<>>]
             /\ inflight' = [inflight EXCEPT ![w] = @ \cup SeqToSet(sq[w]) \cup {op}]
             /\ UNCHANGED fault
    <3>1. SeqToSet(sq[w]) \subseteq Ops
      BY <2>1, LenProperties DEF SeqToSet
    <3>2. inflight' \in [Workers -> SUBSET Ops]
      BY <2>1, <2>4, <3>1 DEF RingTypeOK
    <3>3. /\ sq' \in [Workers -> Seq(Ops)]
          /\ \A v \in Workers : Len(sq'[v]) <= QueueDepth
      BY <2>4 DEF RingTypeOK
    <3> QED
      BY <2>2, <2>4, <3>2, <3>3 DEF RingTypeOK
  <2>5. CASE fault' = TRUE /\ UNCHANGED <<sq, inflight>>
    BY <2>2, <2>5 DEF RingTypeOK
  <2> QED
    BY <1>4, <2>3, <2>4, <2>5 DEF Prepare
<1>5. CASE Submit(w)
  <2>1. SeqToSet(sq[w]) \subseteq Ops
    BY LenProperties DEF SeqToSet, RingTypeOK
  <2>2. inflight' \in [Workers -> SUBSET Ops]
    BY <1>5, <2>1 DEF RingTypeOK, Submit
  <2>3. /\ sq' \in [Workers -> Seq(Ops)]
        /\ \A v \in Workers : Len(sq'[v]) <= QueueDepth
    BY <1>5 DEF RingTypeOK, Submit
  <2> QED
    BY <1>5, <2>2, <2>3 DEF RingTypeOK, Submit
<1>6. CASE Retire(w)
  <2>1. CASE holding[w]
    <3>1. cq' = [cq EXCEPT ![w] = Tail(cq[w])] /\ live' = live \ {Head(cq[w]).op}
      BY <1>6, <2>1 DEF Retire
    <3>2. Tail(cq[w]) \in Seq([op : Ops, res : Results])
      BY <2>1, FirstCompletion DEF RingTypeOK
    <3> QED
      BY <1>6, <3>1, <3>2 DEF RingTypeOK, Retire
  <2>2. CASE ~holding[w]
    BY <1>6, <2>2 DEF RingTypeOK, Retire
  <2> QED
    BY <2>1, <2>2
<1> QED
  BY <1>1, <1>2, <1>3, <1>4, <1>5, <1>6 DEF Worker

\* A completion of the kernel keeps the shape of the ring.
LEMMA CompleteType ==
  ASSUME RingTypeOK, NEW w \in Workers, NEW op, NEW res \in Results,
         Complete(w, op, res)
  PROVE  RingTypeOK'
<1>1. op \in Ops /\ [op |-> op, res |-> res] \in [op : Ops, res : Results]
  BY DEF RingTypeOK, Complete
<1>2. cq[w] \in Seq([op : Ops, res : Results])
  BY DEF RingTypeOK
<1>3. /\ Append(cq[w], [op |-> op, res |-> res]) \in Seq([op : Ops, res : Results])
      /\ Append(cq[w], [op |-> op, res |-> res]) # <<>>
  BY <1>1, <1>2, AppendProperties
<1> DEFINE q == Append(cq[w], [op |-> op, res |-> res])
<1>4. cq' = [cq EXCEPT ![w] = q]
  BY DEF Complete
<1> HIDE DEF q
<1>5. q \in Seq([op : Ops, res : Results]) /\ q # <<>>
  BY <1>3 DEF q
<1>6. /\ cq' \in [Workers -> Seq([op : Ops, res : Results])]
      /\ \A v \in Workers : holding[v] => cq'[v] # <<>>
  BY <1>4, <1>5 DEF RingTypeOK
<1> QED
  BY <1>6 DEF RingTypeOK, Complete

\* A request keeps the shape of the ring.
LEMMA RequestType ==
  ASSUME RingTypeOK, NEW w \in Workers, NEW op \in Ops, Request(w, op)
  PROVE  RingTypeOK'
<1>1. Append(request_queue[w], op) \in Seq(Ops)
  BY AppendProperties DEF RingTypeOK
<1>2. request_queue' = [request_queue EXCEPT ![w] = Append(request_queue[w], op)]
  BY DEF Request, PushRequest
<1>3. request_queue' \in [Workers -> Seq(Ops)]
  BY <1>1, <1>2 DEF RingTypeOK
<1> QED
  BY <1>3 DEF RingTypeOK, Request, PushRequest

\* So does every step.
LEMMA RingType == RingTypeOK /\ [RingNext]_ringVars => RingTypeOK'
<1>1. RingTypeOK /\ UNCHANGED ringVars => RingTypeOK'
  BY DEF RingTypeOK, ringVars
<1> QED
  BY <1>1, WorkerType, CompleteType, RequestType DEF RingNext, Kernel

\* The initial state of the rings has the right shape.
LEMMA RingInitType == RingInit => RingTypeOK
<1> SUFFICES ASSUME RingInit PROVE RingTypeOK
  OBVIOUS
<1>1. \A S : <<>> \in Seq(S) /\ Len(<<>>) = 0
  BY EmptySeq
<1>2. /\ request_queue \in [Workers -> Seq(Ops)] /\ sq \in [Workers -> Seq(Ops)]
      /\ cq \in [Workers -> Seq([op : Ops, res : Results])]
  BY <1>1 DEF RingInit
<1>3. /\ holding \in [Workers -> BOOLEAN] /\ fault \in BOOLEAN
      /\ \A w \in Workers : holding[w] => cq[w] # <<>>
  BY Zenon DEF RingInit
<1>4. \A w \in Workers : Len(sq[w]) <= QueueDepth
  <2>1. sq = [w \in Workers |-> <<>>]
    BY DEF RingInit
  <2>2. \A w \in Workers : Len(sq[w]) = 0
    BY <1>1, <2>1
  <2>3. 0 <= QueueDepth
    BY RingAssumption
  <2> QED
    BY <2>2, <2>3
<1> QED
  BY <1>2, <1>3, <1>4 DEF RingInit, RingTypeOK

\* The state of a worker's I/O keeps its shape: no ring is ever given more
\* entries than it has, and the routine holds a completion only while there is
\* one in the queue.
THEOREM RingTypeCorrect == RingSpec => []RingTypeOK
BY RingInitType, RingType, PTL DEF RingSpec

-----------------------------------------------------------------------------
(* One reference to every operation.                                       *)

Places == {"queued", "prepared", "kernel", "completed"}

\* The operations that place k of worker w refers to.
Held(w, k) ==
  CASE k = "queued"    -> Range(request_queue[w])
    [] k = "prepared"  -> Range(sq[w])
    [] k = "kernel"    -> inflight[w]
    [] k = "completed" -> Range(OpsOf(cq[w]))

\* No two places hold the same operation.
Apart ==
  \A w, v \in Workers, k, l \in Places, op \in Ops :
    op \in Held(w, k) /\ op \in Held(v, l) => w = v /\ k = l

\* The operations out of the pool are those some place holds.
Accounted ==
  \A op \in Ops : op \in live <=> \E w \in Workers, k \in Places : op \in Held(w, k)

\* No queue holds an operation twice.
NoRepeats ==
  \A w \in Workers : /\ IsInjective(request_queue[w]) /\ IsInjective(sq[w])
                     /\ IsInjective(OpsOf(cq[w]))

\* The invariant behind OneReference.
RefInv == ~fault => Apart /\ Accounted /\ NoRepeats

\* What each place holds, and that it holds operations.
LEMMA HeldIs ==
  ASSUME NEW w
  PROVE  /\ Held(w, "queued") = Range(request_queue[w])
         /\ Held(w, "prepared") = Range(sq[w])
         /\ Held(w, "kernel") = inflight[w]
         /\ Held(w, "completed") = Range(OpsOf(cq[w]))
BY DEF Held

\* The same of the next state.
LEMMA HeldIsNext ==
  ASSUME NEW w
  PROVE  /\ Held(w, "queued")' = Range(request_queue'[w])
         /\ Held(w, "prepared")' = Range(sq'[w])
         /\ Held(w, "kernel")' = inflight'[w]
         /\ Held(w, "completed")' = Range(OpsOf(cq'[w]))
BY DEF Held

\* Places hold operations only.
LEMMA HeldOps ==
  ASSUME RingTypeOK, NEW w \in Workers, NEW k \in Places
  PROVE  Held(w, k) \subseteq Ops
<1>1. /\ request_queue[w] \in Seq(Ops) /\ sq[w] \in Seq(Ops)
      /\ inflight[w] \subseteq Ops /\ cq[w] \in Seq([op : Ops, res : Results])
  BY DEF RingTypeOK
<1>2. OpsOf(cq[w]) \in Seq(Ops)
  BY <1>1, OpsOfCompletions
<1>3. /\ Range(request_queue[w]) \subseteq Ops /\ Range(sq[w]) \subseteq Ops
      /\ Range(OpsOf(cq[w])) \subseteq Ops
  BY <1>1, <1>2, RangeOfSeq
<1> QED
  BY <1>1, <1>3, HeldIs DEF Places

\* Operations that move from one place of a worker to another stay apart and
\* accounted for.
LEMMA MoveKeeps ==
  ASSUME Apart, Accounted, NEW w \in Workers, NEW k \in Places, NEW l \in Places,
         k # l, NEW M, M \subseteq Held(w, k), live' = live,
         \A v \in Workers, m \in Places :
           Held(v, m)' = IF v = w /\ m = k THEN Held(v, m) \ M
                         ELSE IF v = w /\ m = l THEN Held(v, m) \cup M
                         ELSE Held(v, m)
  PROVE  Apart' /\ Accounted'
<1>1. Apart'
  <2> SUFFICES ASSUME NEW u \in Workers, NEW v \in Workers, NEW m \in Places,
                      NEW n \in Places, NEW op \in Ops,
                      op \in Held(u, m)', op \in Held(v, n)'
               PROVE  u = v /\ m = n
    BY DEF Apart
  <2>1. CASE op \in M
    <3>1. ASSUME NEW x \in Workers, NEW p \in Places, op \in Held(x, p)'
          PROVE  x = w /\ p = l
      BY <2>1, <3>1 DEF Apart
    <3> QED
      BY <3>1
  <2>2. CASE op \notin M
    BY <2>2 DEF Apart
  <2> QED
    BY <2>1, <2>2
<1>2. Accounted'
  <2> SUFFICES ASSUME NEW op \in Ops
               PROVE  op \in live <=>
                        \E v \in Workers, m \in Places : op \in Held(v, m)'
    BY DEF Accounted
  <2>1. CASE op \in M
    BY <2>1 DEF Accounted
  <2>2. CASE op \notin M
    BY <2>2 DEF Accounted
  <2> QED
    BY <2>1, <2>2
<1> QED
  BY <1>1, <1>2

\* A step that leaves every queue alone.
LEMMA PlacesUnchanged ==
  ASSUME RefInv, UNCHANGED <<live, request_queue, sq, inflight, cq, fault>>
  PROVE  RefInv'
<1>1. \A w \in Workers, k \in Places : Held(w, k)' = Held(w, k)
  BY HeldIs, HeldIsNext DEF Places
<1> QED
  BY <1>1 DEF RefInv, Apart, Accounted, NoRepeats

\* One turn of the flush loop passes an operation on.
LEMMA PrepareRef ==
  ASSUME RingTypeOK, RefInv, ~fault, NEW w \in Workers, Prepare(w)
  PROVE  RefInv'
<1> DEFINE op == Head(request_queue[w])
<1>0. /\ request_queue \in [Workers -> Seq(Ops)] /\ sq \in [Workers -> Seq(Ops)]
      /\ inflight \in [Workers -> SUBSET Ops]
  BY DEF RingTypeOK
<1>1. /\ request_queue[w] \in Seq(Ops) /\ request_queue[w] # <<>>
      /\ sq[w] \in Seq(Ops)
      /\ request_queue' = [request_queue EXCEPT ![w] = Tail(request_queue[w])]
      /\ UNCHANGED <<live, cq>>
  BY <1>0 DEF Prepare
<1>2. Apart /\ Accounted /\ NoRepeats
  BY DEF RefInv
<1>3. /\ op \in Ops /\ op \in Held(w, "queued")
      /\ Range(request_queue[w]) = Range(Tail(request_queue[w])) \cup {op}
      /\ IsInjective(Tail(request_queue[w])) /\ op \notin Range(Tail(request_queue[w]))
  BY <1>1, <1>2, DistinctTail, HeadTailProperties, HeldIs DEF NoRepeats
<1>4. \A v \in Workers :
        /\ Held(v, "queued")' = IF v = w THEN Held(v, "queued") \ {op}
                                         ELSE Held(v, "queued")
        /\ Held(v, "completed")' = Held(v, "completed")
        /\ IsInjective(request_queue'[v]) /\ IsInjective(OpsOf(cq'[v]))
  <2> SUFFICES ASSUME NEW v \in Workers
               PROVE  /\ Held(v, "queued")' = IF v = w THEN Held(v, "queued") \ {op}
                                                       ELSE Held(v, "queued")
                      /\ Held(v, "completed")' = Held(v, "completed")
                      /\ IsInjective(request_queue'[v]) /\ IsInjective(OpsOf(cq'[v]))
    OBVIOUS
  <2>1. /\ Held(v, "completed")' = Held(v, "completed")
        /\ IsInjective(OpsOf(cq'[v]))
    BY <1>1, <1>2, HeldIs, HeldIsNext DEF NoRepeats
  <2>2. CASE v = w
    <3>1. request_queue'[v] = Tail(request_queue[w])
      BY <1>0, <1>1, <2>2
    <3> QED
      BY <1>3, <2>1, <2>2, <3>1, HeldIs, HeldIsNext
  <2>3. CASE v # w
    <3>1. request_queue'[v] = request_queue[v]
      BY <1>0, <1>1, <2>3
    <3> QED
      BY <1>2, <2>1, <2>3, <3>1, HeldIs, HeldIsNext DEF NoRepeats
  <2> QED
    BY <2>2, <2>3
<1> HIDE DEF op
<1>5. op \notin Held(w, "prepared")
  BY <1>2, <1>3 DEF Apart, Places
<1>6. CASE /\ sq' = [sq EXCEPT ![w] = Append(sq[w], op)]
           /\ UNCHANGED <<inflight, fault>>
  <2>1. \A v \in Workers :
          /\ Held(v, "prepared")' = IF v = w THEN Held(v, "prepared") \cup {op}
                                             ELSE Held(v, "prepared")
          /\ Held(v, "kernel")' = Held(v, "kernel")
          /\ IsInjective(sq'[v])
    <3> SUFFICES ASSUME NEW v \in Workers
                 PROVE  /\ Held(v, "prepared")' =
                             IF v = w THEN Held(v, "prepared") \cup {op}
                                      ELSE Held(v, "prepared")
                        /\ Held(v, "kernel")' = Held(v, "kernel")
                        /\ IsInjective(sq'[v])
      OBVIOUS
    <3>1. Held(v, "kernel")' = Held(v, "kernel")
      BY <1>6, HeldIs, HeldIsNext
    <3>2. CASE v = w
      <4>1. sq'[v] = Append(sq[w], op) /\ op \notin Range(sq[w]) /\ IsInjective(sq[w])
        BY <1>0, <1>2, <1>5, <1>6, <3>2, HeldIs DEF NoRepeats
      <4>2. IsInjective(sq'[v]) /\ Range(sq'[v]) = Range(sq[w]) \cup {op}
        BY <1>1, <1>3, <4>1, DistinctAppend
      <4> QED
        BY <3>1, <3>2, <4>2, HeldIs, HeldIsNext
    <3>3. CASE v # w
      <4>1. sq'[v] = sq[v]
        BY <1>0, <1>6, <3>3
      <4> QED
        BY <1>2, <3>1, <3>3, <4>1, HeldIs, HeldIsNext DEF NoRepeats
    <3> QED
      BY <3>2, <3>3
  <2>2. \A v \in Workers, m \in Places :
          Held(v, m)' = IF v = w /\ m = "queued" THEN Held(v, m) \ {op}
                        ELSE IF v = w /\ m = "prepared" THEN Held(v, m) \cup {op}
                        ELSE Held(v, m)
    BY <1>4, <2>1 DEF Places
  <2>3. Apart' /\ Accounted'
    <3> DEFINE M == {op}
               k == "queued"
               l == "prepared"
    <3>1. k \in Places /\ l \in Places /\ k # l
      BY DEF Places
    <3>2. M \subseteq Held(w, k) /\ live' = live
      BY <1>1, <1>3
    <3>3. \A v \in Workers, m \in Places :
            Held(v, m)' = IF v = w /\ m = k THEN Held(v, m) \ M
                          ELSE IF v = w /\ m = l THEN Held(v, m) \cup M
                          ELSE Held(v, m)
      BY <2>2
    <3> HIDE DEF M, k, l
    <3> QED
      BY <1>2, <3>1, <3>2, <3>3, MoveKeeps
  <2> QED
    BY <1>4, <2>1, <2>3 DEF RefInv, NoRepeats
<1>7. CASE /\ sq' = [sq EXCEPT ![w] = <<>>]
           /\ inflight' = [inflight EXCEPT ![w] = @ \cup SeqToSet(sq[w]) \cup {op}]
  <2>1. \A v \in Workers :
          /\ Held(v, "prepared")' = IF v = w THEN {} ELSE Held(v, "prepared")
          /\ Held(v, "kernel")' =
               IF v = w THEN Held(v, "kernel") \cup Held(v, "prepared") \cup {op}
                        ELSE Held(v, "kernel")
          /\ IsInjective(sq'[v])
    <3> SUFFICES ASSUME NEW v \in Workers
                 PROVE  /\ Held(v, "prepared")' =
                             IF v = w THEN {} ELSE Held(v, "prepared")
                        /\ Held(v, "kernel")' =
                             IF v = w
                             THEN Held(v, "kernel") \cup Held(v, "prepared") \cup {op}
                             ELSE Held(v, "kernel")
                        /\ IsInjective(sq'[v])
      OBVIOUS
    <3>1. CASE v = w
      <4>1. /\ sq'[v] = <<>>
            /\ inflight'[v] = inflight[v] \cup SeqToSet(sq[v]) \cup {op}
        BY <1>0, <1>7, <3>1
      <4>2. SeqToSet(sq[v]) = Range(sq[v])
        BY DEF SeqToSet, Range
      <4> QED
        BY <3>1, <4>1, <4>2, DistinctEmpty, HeldIs, HeldIsNext
    <3>2. CASE v # w
      <4>1. sq'[v] = sq[v] /\ inflight'[v] = inflight[v]
        BY <1>0, <1>7, <3>2
      <4> QED
        BY <1>2, <3>2, <4>1, HeldIs, HeldIsNext DEF NoRepeats
    <3> QED
      BY <3>1, <3>2
  <2> DEFINE M == Held(w, "prepared") \cup {op}
  <2>2. \A v \in Workers, m \in Places :
          Held(v, m)' = IF v = w /\ m \in {"queued", "prepared"} THEN Held(v, m) \ M
                        ELSE IF v = w /\ m = "kernel" THEN Held(v, m) \cup M
                        ELSE Held(v, m)
    <3>1. Held(w, "queued") \ {op} = Held(w, "queued") \ M
      BY <1>2, HeldOps DEF Apart, Places
    <3> QED
      BY <1>4, <2>1, <3>1 DEF Places
  <2>3. \A x \in M : x \in Ops =>
          \E m \in {"queued", "prepared"} : x \in Held(w, m)
    BY <1>3
  <2> HIDE DEF M
  <2>4. Apart'
    <3> SUFFICES ASSUME NEW u \in Workers, NEW v \in Workers, NEW m \in Places,
                        NEW n \in Places, NEW x \in Ops,
                        x \in Held(u, m)', x \in Held(v, n)'
                 PROVE  u = v /\ m = n
      BY DEF Apart
    <3>1. CASE x \in M
      <4>1. PICK k \in {"queued", "prepared"} : x \in Held(w, k)
        BY <2>3, <3>1
      <4>2. ASSUME NEW y \in Workers, NEW p \in Places, x \in Held(y, p)'
            PROVE  y = w /\ p = "kernel"
        BY <1>2, <2>2, <3>1, <4>1, <4>2 DEF Apart, Places
      <4> QED
        BY <4>2
    <3>2. CASE x \notin M
      BY <1>2, <2>2, <3>2 DEF Apart
    <3> QED
      BY <3>1, <3>2
  <2>5. Accounted'
    <3> SUFFICES ASSUME NEW x \in Ops
                 PROVE  x \in live <=>
                          \E v \in Workers, m \in Places : x \in Held(v, m)'
      BY <1>1 DEF Accounted
    <3>1. CASE x \in M
      BY <1>2, <2>2, <2>3, <3>1 DEF Accounted, Places
    <3>2. CASE x \notin M
      BY <1>2, <2>2, <3>2 DEF Accounted
    <3> QED
      BY <3>1, <3>2
  <2> QED
    BY <1>4, <2>1, <2>4, <2>5 DEF RefInv, NoRepeats
<1>8. CASE fault' = TRUE
  BY <1>8 DEF RefInv
<1> QED
  BY <1>6, <1>7, <1>8 DEF Prepare, op

\* io_uring_submit hands the kernel what is prepared.
LEMMA SubmitRef ==
  ASSUME RingTypeOK, RefInv, ~fault, NEW w \in Workers, Submit(w)
  PROVE  RefInv'
<1> DEFINE M == Held(w, "prepared")
           k == "prepared"
           l == "kernel"
<1>0. /\ sq \in [Workers -> Seq(Ops)] /\ inflight \in [Workers -> SUBSET Ops]
      /\ Apart /\ Accounted /\ NoRepeats
  BY DEF RingTypeOK, RefInv
<1>1. /\ sq' = [sq EXCEPT ![w] = <<>>]
      /\ inflight' = [inflight EXCEPT ![w] = @ \cup SeqToSet(sq[w])]
      /\ UNCHANGED <<live, request_queue, cq, fault>>
  BY DEF Submit
<1>2. SeqToSet(sq[w]) = Range(sq[w])
  BY DEF SeqToSet, Range
<1>3. \A v \in Workers : /\ Held(v, "queued")' = Held(v, "queued")
                         /\ Held(v, "completed")' = Held(v, "completed")
  BY <1>1, HeldIs, HeldIsNext
<1>4. \A v \in Workers :
        /\ Held(v, "prepared")' = IF v = w THEN {} ELSE Held(v, "prepared")
        /\ Held(v, "kernel")' = IF v = w THEN Held(v, "kernel") \cup M
                                         ELSE Held(v, "kernel")
        /\ IsInjective(sq'[v])
  <2> SUFFICES ASSUME NEW v \in Workers
               PROVE  /\ Held(v, "prepared")' =
                           IF v = w THEN {} ELSE Held(v, "prepared")
                      /\ Held(v, "kernel")' = IF v = w THEN Held(v, "kernel") \cup M
                                                       ELSE Held(v, "kernel")
                      /\ IsInjective(sq'[v])
    OBVIOUS
  <2>1. CASE v = w
    <3>1. sq'[v] = <<>> /\ inflight'[v] = inflight[v] \cup Range(sq[v])
      BY <1>0, <1>1, <1>2, <2>1
    <3> QED
      BY <2>1, <3>1, DistinctEmpty, HeldIs, HeldIsNext
  <2>2. CASE v # w
    <3>1. sq'[v] = sq[v] /\ inflight'[v] = inflight[v]
      BY <1>0, <1>1, <2>2
    <3> QED
      BY <1>0, <2>2, <3>1, HeldIs, HeldIsNext DEF NoRepeats
  <2> QED
    BY <2>1, <2>2
<1>5. k \in Places /\ l \in Places /\ k # l
  BY DEF Places
<1>8. M \subseteq Held(w, k) /\ live' = live /\ Apart /\ Accounted
  BY <1>0, <1>1
<1>6. \A v \in Workers, m \in Places :
        Held(v, m)' = IF v = w /\ m = k THEN Held(v, m) \ M
                      ELSE IF v = w /\ m = l THEN Held(v, m) \cup M
                      ELSE Held(v, m)
  BY <1>3, <1>4 DEF Places
<1>7. Apart' /\ Accounted'
  <2> HIDE DEF M, k, l
  <2> QED
    BY <1>5, <1>6, <1>8, MoveKeeps
<1> QED
  BY <1>0, <1>1, <1>4, <1>7 DEF RefInv, NoRepeats

\* The kernel turns a request into a completion.
LEMMA CompleteRef ==
  ASSUME RingTypeOK, RefInv, ~fault, NEW w \in Workers, NEW op,
         NEW res \in Results, Complete(w, op, res)
  PROVE  RefInv'
<1> DEFINE M == {op}
           k == "kernel"
           l == "completed"
           e == [op |-> op, res |-> res]
<1>0. /\ inflight \in [Workers -> SUBSET Ops]
      /\ cq \in [Workers -> Seq([op : Ops, res : Results])]
      /\ Apart /\ Accounted /\ NoRepeats
  BY DEF RingTypeOK, RefInv
<1>1. /\ op \in inflight[w] /\ op \in Ops
      /\ inflight' = [inflight EXCEPT ![w] = inflight[w] \ {op}]
      /\ cq' = [cq EXCEPT ![w] = Append(cq[w], e)]
      /\ UNCHANGED <<live, request_queue, sq, fault>>
  BY <1>0 DEF Complete
<1>2. e \in [op : Ops, res : Results] /\ e.op = op
  BY <1>1
<1> HIDE DEF e
<1>3. /\ OpsOf(cq[w]) \in Seq(Ops)
      /\ OpsOf(Append(cq[w], e)) = Append(OpsOf(cq[w]), op)
  BY <1>0, <1>2, OpsOfCompletions
<1>4. op \notin Range(OpsOf(cq[w]))
  <2>1. op \in Held(w, "kernel")
    BY <1>1, HeldIs
  <2>2. op \notin Held(w, "completed")
    BY <1>0, <1>1, <2>1 DEF Apart, Places
  <2> QED
    BY <2>2, HeldIs
<1>5. /\ IsInjective(OpsOf(Append(cq[w], e)))
      /\ Range(OpsOf(Append(cq[w], e))) = Range(OpsOf(cq[w])) \cup {op}
  BY <1>0, <1>1, <1>3, <1>4, DistinctAppend DEF NoRepeats
<1>6. \A v \in Workers : /\ Held(v, "queued")' = Held(v, "queued")
                         /\ Held(v, "prepared")' = Held(v, "prepared")
  BY <1>1, HeldIs, HeldIsNext
<1>7. \A v \in Workers :
        /\ Held(v, "kernel")' = IF v = w THEN Held(v, "kernel") \ M
                                         ELSE Held(v, "kernel")
        /\ Held(v, "completed")' = IF v = w THEN Held(v, "completed") \cup M
                                            ELSE Held(v, "completed")
        /\ IsInjective(OpsOf(cq'[v]))
  <2> SUFFICES ASSUME NEW v \in Workers
               PROVE  /\ Held(v, "kernel")' = IF v = w THEN Held(v, "kernel") \ M
                                                       ELSE Held(v, "kernel")
                      /\ Held(v, "completed")' =
                           IF v = w THEN Held(v, "completed") \cup M
                                    ELSE Held(v, "completed")
                      /\ IsInjective(OpsOf(cq'[v]))
    OBVIOUS
  <2>1. CASE v = w
    <3>1. cq'[v] = Append(cq[w], e) /\ inflight'[v] = inflight[v] \ {op}
      BY <1>0, <1>1, <2>1
    <3> QED
      BY <1>5, <2>1, <3>1, HeldIs, HeldIsNext
  <2>2. CASE v # w
    <3>1. cq'[v] = cq[v] /\ inflight'[v] = inflight[v]
      BY <1>0, <1>1, <2>2
    <3> QED
      BY <1>0, <2>2, <3>1, HeldIs, HeldIsNext DEF NoRepeats
  <2> QED
    BY <2>1, <2>2
<1>8. k \in Places /\ l \in Places /\ k # l
  BY DEF Places
<1>11. M \subseteq Held(w, k) /\ live' = live /\ Apart /\ Accounted
  BY <1>0, <1>1, HeldIs
<1>9. \A v \in Workers, m \in Places :
        Held(v, m)' = IF v = w /\ m = k THEN Held(v, m) \ M
                      ELSE IF v = w /\ m = l THEN Held(v, m) \cup M
                      ELSE Held(v, m)
  BY <1>6, <1>7 DEF Places
<1>10. Apart' /\ Accounted'
  <2> HIDE DEF M, k, l
  <2> QED
    BY <1>8, <1>9, <1>11, MoveKeeps
<1> QED
  BY <1>0, <1>1, <1>7, <1>10 DEF RefInv, NoRepeats

\* The reference a completion adopted is dropped with the last place that
\* refers to the operation.
LEMMA RetireRef ==
  ASSUME RingTypeOK, RefInv, ~fault, NEW w \in Workers, Retire(w)
  PROVE  RefInv'
<1>1. CASE ~holding[w]
  BY <1>1, PlacesUnchanged DEF Retire
<1>2. CASE holding[w]
  <2> DEFINE op == Head(cq[w]).op
  <2>0. /\ cq \in [Workers -> Seq([op : Ops, res : Results])] /\ cq[w] # <<>>
        /\ Apart /\ Accounted /\ NoRepeats
    BY <1>2 DEF RingTypeOK, RefInv
  <2>1. /\ cq' = [cq EXCEPT ![w] = Tail(cq[w])] /\ live' = live \ {op}
        /\ UNCHANGED <<request_queue, sq, inflight, fault>>
    BY <1>2 DEF Retire
  <2>2. /\ OpsOf(cq[w]) \in Seq(Ops) /\ OpsOf(cq[w]) # <<>>
        /\ op = Head(OpsOf(cq[w])) /\ OpsOf(Tail(cq[w])) = Tail(OpsOf(cq[w]))
    <3>1. cq[w] \in Seq([op : Ops, res : Results])
      BY <2>0
    <3> QED
      BY <2>0, <3>1, OpsOfCompletions
  <2> HIDE DEF op
  <2>3. /\ op \in Held(w, "completed") /\ IsInjective(OpsOf(Tail(cq[w])))
        /\ Range(OpsOf(Tail(cq[w]))) = Held(w, "completed") \ {op}
    <3>1. IsInjective(OpsOf(cq[w]))
      BY <2>0 DEF NoRepeats
    <3> DEFINE q == OpsOf(cq[w])
    <3>2. /\ Head(q) \in Range(q) /\ Range(q) = Range(Tail(q)) \cup {Head(q)}
          /\ IsInjective(Tail(q)) /\ Head(q) \notin Range(Tail(q))
      <4> HIDE DEF q
      <4>1. q \in Seq(Ops) /\ q # <<>> /\ IsInjective(q)
        BY <2>2, <3>1 DEF q
      <4> QED
        BY <4>1, DistinctTail
    <3> QED
      BY <2>2, <3>2, HeldIs
  <2>4. \A v \in Workers : /\ Held(v, "queued")' = Held(v, "queued")
                           /\ Held(v, "prepared")' = Held(v, "prepared")
                           /\ Held(v, "kernel")' = Held(v, "kernel")
    BY <2>1, HeldIs, HeldIsNext
  <2>5. \A v \in Workers :
          /\ Held(v, "completed")' = IF v = w THEN Held(v, "completed") \ {op}
                                              ELSE Held(v, "completed")
          /\ IsInjective(OpsOf(cq'[v]))
    <3> SUFFICES ASSUME NEW v \in Workers
                 PROVE  /\ Held(v, "completed")' =
                             IF v = w THEN Held(v, "completed") \ {op}
                                      ELSE Held(v, "completed")
                        /\ IsInjective(OpsOf(cq'[v]))
      OBVIOUS
    <3>1. CASE v = w
      <4>1. cq'[v] = Tail(cq[w])
        BY <2>0, <2>1, <3>1
      <4> QED
        BY <2>3, <3>1, <4>1, HeldIsNext
    <3>2. CASE v # w
      <4>1. cq'[v] = cq[v]
        BY <2>0, <2>1, <3>2
      <4> QED
        BY <2>0, <3>2, <4>1, HeldIs, HeldIsNext DEF NoRepeats
    <3> QED
      BY <3>1, <3>2
  <2>6. \A v \in Workers, m \in Places :
          Held(v, m)' = IF v = w /\ m = "completed" THEN Held(v, m) \ {op}
                                                    ELSE Held(v, m)
    BY <2>4, <2>5 DEF Places
  <2>7. Apart'
    BY <2>0, <2>6 DEF Apart
  <2>8. Accounted'
    <3> SUFFICES ASSUME NEW x \in Ops
                 PROVE  x \in live \ {op} <=>
                          \E v \in Workers, m \in Places : x \in Held(v, m)'
      BY <2>1 DEF Accounted
    <3>1. CASE x = op
      BY <2>0, <2>3, <2>6, <3>1 DEF Apart, Places
    <3>2. CASE x # op
      BY <2>0, <2>6, <3>2 DEF Accounted
    <3> QED
      BY <3>1, <3>2
  <2> QED
    BY <2>0, <2>1, <2>5, <2>7, <2>8 DEF RefInv, NoRepeats
<1> QED
  BY <1>1, <1>2

\* A request refers to an operation nobody refers to.
LEMMA RequestRef ==
  ASSUME RingTypeOK, RefInv, ~fault, NEW w \in Workers, NEW op \in Ops,
         op \notin live, PushRequest(w, op), UNCHANGED <<sq, inflight, cq, fault>>
  PROVE  RefInv'
<1>0. /\ request_queue \in [Workers -> Seq(Ops)]
      /\ Apart /\ Accounted /\ NoRepeats
  BY DEF RingTypeOK, RefInv
<1>1. /\ request_queue' = [request_queue EXCEPT ![w] = Append(request_queue[w], op)]
      /\ live' = live \cup {op}
  BY DEF PushRequest
<1>2. \A v \in Workers, k \in Places : op \notin Held(v, k)
  BY <1>0 DEF Accounted
<1>3. \A v \in Workers : /\ Held(v, "prepared")' = Held(v, "prepared")
                         /\ Held(v, "kernel")' = Held(v, "kernel")
                         /\ Held(v, "completed")' = Held(v, "completed")
  BY HeldIs, HeldIsNext
<1>4. \A v \in Workers :
        /\ Held(v, "queued")' = IF v = w THEN Held(v, "queued") \cup {op}
                                         ELSE Held(v, "queued")
        /\ IsInjective(request_queue'[v])
  <2> SUFFICES ASSUME NEW v \in Workers
               PROVE  /\ Held(v, "queued")' =
                           IF v = w THEN Held(v, "queued") \cup {op}
                                    ELSE Held(v, "queued")
                      /\ IsInjective(request_queue'[v])
    OBVIOUS
  <2>1. CASE v = w
    <3>1. /\ request_queue'[v] = Append(request_queue[w], op)
          /\ request_queue[w] \in Seq(Ops) /\ IsInjective(request_queue[w])
      BY <1>0, <1>1, <2>1 DEF NoRepeats
    <3>2. op \notin Range(request_queue[w])
      BY <1>2, HeldIs DEF Places
    <3>3. /\ IsInjective(request_queue'[v])
          /\ Range(request_queue'[v]) = Range(request_queue[w]) \cup {op}
      BY <3>1, <3>2, DistinctAppend
    <3> QED
      BY <2>1, <3>3, HeldIs, HeldIsNext
  <2>2. CASE v # w
    <3>1. request_queue'[v] = request_queue[v]
      BY <1>0, <1>1, <2>2
    <3> QED
      BY <1>0, <2>2, <3>1, HeldIs, HeldIsNext DEF NoRepeats
  <2> QED
    BY <2>1, <2>2
<1>5. \A v \in Workers, m \in Places :
        Held(v, m)' = IF v = w /\ m = "queued" THEN Held(v, m) \cup {op}
                                               ELSE Held(v, m)
  BY <1>3, <1>4 DEF Places
<1>6. Apart'
  BY <1>0, <1>2, <1>5 DEF Apart
<1>7. Accounted'
  <2> SUFFICES ASSUME NEW x \in Ops
               PROVE  x \in live \cup {op} <=>
                        \E v \in Workers, m \in Places : x \in Held(v, m)'
    BY <1>1 DEF Accounted
  <2>1. CASE x = op
    BY <1>5, <2>1 DEF Places
  <2>2. CASE x # op
    <3>1. \A v \in Workers, m \in Places : x \in Held(v, m)' <=> x \in Held(v, m)
      BY <1>5, <2>2
    <3> QED
      BY <1>0, <2>2, <3>1 DEF Accounted
  <2> QED
    BY <2>1, <2>2
<1> QED
  BY <1>0, <1>4, <1>6, <1>7 DEF RefInv, NoRepeats

\* Every step keeps the invariant.
LEMMA RefStep == RingTypeOK /\ RefInv /\ [RingNext]_ringVars => RefInv'
<1> SUFFICES ASSUME RingTypeOK, RefInv, [RingNext]_ringVars
             PROVE  RefInv'
  OBVIOUS
<1>1. CASE UNCHANGED ringVars
  BY <1>1, PlacesUnchanged DEF ringVars
<1>2. ASSUME NEW w \in Workers, Worker(w)
      PROVE  RefInv'
  <2>1. CASE WaitOne(w) \/ Handle(w) \/ BeginFlush(w)
    BY <2>1, PlacesUnchanged DEF WaitOne, Handle, Handled, BeginFlush
  <2> QED
    BY <1>2, <2>1, PrepareRef, SubmitRef, RetireRef DEF Worker
<1>3. ASSUME NEW w \in Workers, Kernel(w)
      PROVE  RefInv'
  BY <1>3, CompleteRef DEF Kernel
<1>4. ASSUME NEW w \in Workers, NEW op \in Ops, ~fault, Request(w, op)
      PROVE  RefInv'
  BY <1>4, RequestRef DEF Request
<1> QED
  BY <1>1, <1>2, <1>3, <1>4 DEF RingNext

\* Nothing refers to anything at first.
LEMMA RefInit == RingInit => RefInv
<1> SUFFICES ASSUME RingInit PROVE RefInv
  OBVIOUS
<1>1. ASSUME NEW w \in Workers
      PROVE  /\ request_queue[w] = <<>> /\ sq[w] = <<>> /\ cq[w] = <<>>
             /\ inflight[w] = {}
  BY DEF RingInit
<1>2. OpsOf(<<>>) = <<>>
  BY DEF OpsOf
<1>3. \A w \in Workers, k \in Places : Held(w, k) = {}
  BY <1>1, <1>2, DistinctEmpty, HeldIs DEF Places
<1>4. live = {}
  BY DEF RingInit
<1>5. NoRepeats
  BY <1>1, <1>2, DistinctEmpty DEF NoRepeats
<1> QED
  BY <1>3, <1>4, <1>5 DEF RefInv, Apart, Accounted

\* What it is to be a reference to an operation.
LEMMA ReferenceIs ==
  ASSUME NEW op, NEW p
  PROVE  p \in References(op) <=>
           \E w \in Workers :
             \/ \E i \in DOMAIN request_queue[w] :
                  request_queue[w][i] = op /\ p = <<w, "queued", i>>
             \/ \E i \in DOMAIN sq[w] : sq[w][i] = op /\ p = <<w, "prepared", i>>
             \/ op \in inflight[w] /\ p = <<w, "kernel", 0>>
             \/ \E i \in DOMAIN cq[w] :
                  cq[w][i].op = op /\ p = <<w, "completed", i>>
BY DEF References

\* The invariant says that every operation out of the pool has one reference.
LEMMA RefInvOneReference == RefInv => OneReference
<1> SUFFICES ASSUME RefInv, ~fault, NEW op \in Ops
             PROVE  IF op \in live THEN \E p \in References(op) : References(op) = {p}
                                   ELSE References(op) = {}
  BY DEF OneReference
<1>0. Apart /\ Accounted /\ NoRepeats
  BY DEF RefInv
<1>9. \A q : DOMAIN OpsOf(q) = DOMAIN q /\ \A i \in DOMAIN q : OpsOf(q)[i] = q[i].op
  BY DEF OpsOf
<1>1. ASSUME NEW w
      PROVE  /\ op \in Held(w, "queued") <=> \E i \in DOMAIN request_queue[w] :
                                               request_queue[w][i] = op
             /\ op \in Held(w, "prepared") <=> \E i \in DOMAIN sq[w] : sq[w][i] = op
             /\ op \in Held(w, "kernel") <=> op \in inflight[w]
             /\ op \in Held(w, "completed") <=> \E i \in DOMAIN cq[w] :
                                                  cq[w][i].op = op
  <2>1. \A q : op \in Range(q) <=> \E i \in DOMAIN q : q[i] = op
    BY DEF Range
  <2>2. op \in Range(OpsOf(cq[w])) <=> \E i \in DOMAIN cq[w] : cq[w][i].op = op
    BY <1>9, <2>1
  <2> QED
    BY <2>1, <2>2, HeldIs
<1>2. \A p \in References(op) :
        \E w \in Workers, k \in Places :
          \E i : op \in Held(w, k) /\ p = <<w, k, i>>
  BY <1>1, ReferenceIs DEF Places
<1>3. ASSUME NEW w \in Workers, NEW k \in Places, op \in Held(w, k)
      PROVE  \E i : <<w, k, i>> \in References(op)
  BY <1>1, <1>3, ReferenceIs DEF Places
<1>4. ASSUME NEW w \in Workers, NEW k \in Places, NEW i, NEW j,
             <<w, k, i>> \in References(op), <<w, k, j>> \in References(op)
      PROVE  i = j
  <2>1. ASSUME NEW q, IsInjective(q), i \in DOMAIN q, j \in DOMAIN q, q[i] = q[j]
        PROVE  i = j
    BY <2>1 DEF IsInjective
  <2>2. /\ IsInjective(request_queue[w]) /\ IsInjective(sq[w])
        /\ IsInjective(OpsOf(cq[w]))
    BY <1>0 DEF NoRepeats
  <2>3. ASSUME NEW n, <<w, k, n>> \in References(op)
        PROVE  /\ k = "queued" => n \in DOMAIN request_queue[w]
                                  /\ request_queue[w][n] = op
               /\ k = "prepared" => n \in DOMAIN sq[w] /\ sq[w][n] = op
               /\ k = "kernel" => n = 0
               /\ k = "completed" => n \in DOMAIN cq[w] /\ cq[w][n].op = op
    BY <2>3, ReferenceIs
  <2>4. CASE k = "queued"
    BY <1>4, <2>2, <2>3, <2>4 DEF IsInjective
  <2>5. CASE k = "prepared"
    BY <1>4, <2>2, <2>3, <2>5 DEF IsInjective
  <2>6. CASE k = "kernel"
    BY <1>4, <2>3, <2>6
  <2>7. CASE k = "completed"
    <3>1. /\ i \in DOMAIN OpsOf(cq[w]) /\ j \in DOMAIN OpsOf(cq[w])
          /\ OpsOf(cq[w])[i] = op /\ OpsOf(cq[w])[j] = op
      BY <1>4, <1>9, <2>3, <2>7
    <3> QED
      BY <2>2, <3>1 DEF IsInjective
  <2> QED
    BY <2>4, <2>5, <2>6, <2>7 DEF Places
<1>5. CASE op \in live
  <2>1. PICK w \in Workers, k \in Places : op \in Held(w, k)
    BY <1>0, <1>5 DEF Accounted
  <2>2. PICK i : <<w, k, i>> \in References(op)
    BY <1>3, <2>1
  <2>3. ASSUME NEW p \in References(op) PROVE p = <<w, k, i>>
    <3>0. PICK v \in Workers, l \in Places :
            \E j : op \in Held(v, l) /\ p = <<v, l, j>>
      BY <1>2, <2>3
    <3>1. PICK j : op \in Held(v, l) /\ p = <<v, l, j>>
      BY <3>0
    <3>2. v = w /\ l = k
      BY <1>0, <2>1, <3>1 DEF Apart
    <3> QED
      BY <1>4, <2>2, <2>3, <3>1, <3>2
  <2>4. References(op) = {<<w, k, i>>}
    BY <2>2, <2>3
  <2> QED
    BY <1>5, <2>2, <2>4
<1>6. CASE op \notin live
  BY <1>0, <1>2, <1>6 DEF Accounted
<1> QED
  BY <1>5, <1>6

\* An operation is out of the pool exactly as long as one place refers to it,
\* and never two: whatever the workers, the kernel and the requesting threads
\* interleave, the user data of the ring is neither released early, nor
\* submitted twice, nor forgotten.
THEOREM OperationReferencedOnce == RingSpec => []OneReference
<1>1. RingTypeOK /\ RefInv /\ [RingNext]_ringVars => RingTypeOK' /\ RefInv'
  BY RingType, RefStep
<1>2. RingInit => RingTypeOK /\ RefInv
  BY RingInitType, RefInit
<1>3. RefInv => OneReference
  BY RefInvOneReference
<1> QED
  BY <1>1, <1>2, <1>3, PTL DEF RingSpec

-----------------------------------------------------------------------------
(* When a null submission entry is met.                                    *)

\* Finitely many operations are out of the pool, and only a worker in the middle
\* of a flush has entries that are not submitted.
BatchInv ==
  /\ IsFiniteSet(live)
  /\ \A w \in Workers : pc[w] # "prepare" => sq[w] = <<>>

\* A flush that begins finds no entry in the ring and one that ends leaves none.
LEMMA BatchStep ==
  ASSUME RingTypeOK, BatchInv, [RingNext]_ringVars
  PROVE  BatchInv'
<1>0. /\ sq \in [Workers -> Seq(Ops)] /\ DOMAIN pc = Workers
      /\ IsFiniteSet(live)
      /\ \A w \in Workers : pc[w] # "prepare" => sq[w] = <<>>
  BY DEF RingTypeOK, BatchInv
<1>1. CASE UNCHANGED ringVars
  BY <1>0, <1>1 DEF ringVars, BatchInv
<1>2. ASSUME NEW w \in Workers, Worker(w)
      PROVE  BatchInv'
  <2>1. CASE WaitOne(w) \/ Handle(w) \/ BeginFlush(w)
    BY <1>0, <2>1 DEF WaitOne, Handle, Handled, BeginFlush, BatchInv
  <2>2. CASE Prepare(w)
    BY <1>0, <2>2 DEF Prepare, BatchInv
  <2>3. CASE Submit(w)
    BY <1>0, <2>3 DEF Submit, BatchInv
  <2>4. CASE Retire(w)
    <3>1. IsFiniteSet(live \ {Head(cq[w]).op})
      BY <1>0, FS_RemoveElement
    <3> QED
      BY <1>0, <2>4, <3>1 DEF Retire, BatchInv
  <2> QED
    BY <1>2, <2>1, <2>2, <2>3, <2>4 DEF Worker
<1>3. ASSUME NEW w \in Workers, Kernel(w)
      PROVE  BatchInv'
  BY <1>0, <1>3 DEF Kernel, Complete, BatchInv
<1>4. ASSUME NEW w \in Workers, NEW op \in Ops, ~fault, Request(w, op)
      PROVE  BatchInv'
  <2>1. IsFiniteSet(live \cup {op})
    BY <1>0, FS_AddElement
  <2> QED
    BY <1>0, <1>4, <2>1 DEF Request, PushRequest, BatchInv
<1> QED
  BY <1>1, <1>2, <1>3, <1>4 DEF RingNext

\* No operation is out of the pool at first.
LEMMA BatchInit == RingInit => BatchInv
BY FS_EmptySet DEF RingInit, BatchInv

\* The operation that finds the ring full and those that fill it are all out of
\* the pool, all different, and none of them has been given to the kernel.
LEMMA BurstStep ==
  ASSUME RingTypeOK, RefInv, BatchInv, NullEntryNeedsBurst, BatchInv',
         [RingNext]_ringVars
  PROVE  NullEntryNeedsBurst'
<1>0. \A w \in Workers : pc'[w] # "prepare" => sq'[w] = <<>>
  BY DEF BatchInv
<1>1. CASE UNCHANGED ringVars
  BY <1>1 DEF ringVars, NullEntryNeedsBurst, Unsubmitted, Submitted
<1>2. ASSUME NEW w \in Workers, Prepare(w), ~fault, fault'
      PROVE  NullEntryNeedsBurst'
  <2> DEFINE op == Head(request_queue[w])
             U == Unsubmitted
  <2>1. /\ sq[w] \in Seq(Ops) /\ Len(sq[w]) \in Nat /\ IsInjective(sq[w])
        /\ request_queue[w] \in Seq(Ops) /\ request_queue[w] # <<>>
        /\ Apart /\ Accounted
    BY <1>2 DEF RingTypeOK, RefInv, NoRepeats, Prepare
  <2>2. /\ pc[w] = "prepare" /\ Len(sq[w]) = QueueDepth
        /\ UNCHANGED <<live, sq, inflight, cq, pc>>
    BY <1>2 DEF Prepare
  <2>3. op \in Ops /\ op \in Held(w, "queued")
    BY <2>1, DistinctTail, HeadTailProperties, HeldIs
  <2> HIDE DEF op
  <2>4. op \notin Range(sq[w])
    <3>1. op \notin Held(w, "prepared")
      BY <2>1, <2>3 DEF Apart, Places
    <3> QED
      BY <3>1, HeldIs
  <2>5. ASSUME NEW x \in Ops, NEW k \in {"queued", "prepared"}, x \in Held(w, k)
        PROVE  x \in U
    <3>1. x \in live
      BY <2>1, <2>5 DEF Accounted, Places
    <3>2. \A v \in Workers : x \notin Held(v, "kernel") /\ x \notin Held(v, "completed")
      BY <2>1, <2>5 DEF Apart, Places
    <3>3. \A v \in Workers : x \notin inflight[v] /\ x \notin Range(OpsOf(cq[v]))
      BY <3>2, HeldIs
    <3>4. \A v \in Workers : \A i \in DOMAIN cq[v] : cq[v][i].op # x
      BY <3>3 DEF OpsOf, Range
    <3> QED
      BY <3>1, <3>3, <3>4 DEF Unsubmitted, Submitted
  <2>6. op \in U /\ \A i \in DOMAIN sq[w] : sq[w][i] \in U
    <3>1. op \in U
      BY <2>3, <2>5
    <3>2. ASSUME NEW i \in DOMAIN sq[w] PROVE sq[w][i] \in U
      <4>1. sq[w][i] \in Ops
        BY <2>1, LenProperties, ElementOfSeq
      <4>2. sq[w][i] \in Held(w, "prepared")
        BY HeldIs DEF Range
      <4> QED
        BY <2>5, <4>1, <4>2
    <3> QED
      BY <3>1, <3>2
  <2>7. IsFiniteSet(U)
    BY FS_Subset DEF BatchInv, Unsubmitted
  <2> HIDE DEF U
  <2>8. sq[w] \in Seq(U)
    BY <2>1, <2>6, LenProperties, SeqDef
  <2>9. /\ Append(sq[w], op) \in Seq(U) /\ IsInjective(Append(sq[w], op))
        /\ Len(Append(sq[w], op)) = Len(sq[w]) + 1
    BY <2>1, <2>4, <2>6, <2>8, DistinctAppend, AppendProperties
  <2>10. Len(sq[w]) + 1 <= Cardinality(U) /\ Cardinality(U) \in Nat
    BY <2>7, <2>9, DistinctLength, FS_CardinalityType
  <2>11. Cardinality(U) > QueueDepth
    BY <2>1, <2>2, <2>10, RingAssumption
  <2>12. Unsubmitted' = U
    BY <2>2 DEF U, Unsubmitted, Submitted
  <2> QED
    BY <1>0, <2>2, <2>11, <2>12 DEF NullEntryNeedsBurst
<1>3. ASSUME ~fault'
      PROVE  NullEntryNeedsBurst'
  BY <1>0, <1>3 DEF NullEntryNeedsBurst
<1>4. ASSUME NEW w \in Workers, Worker(w)
      PROVE  ~fault /\ (fault' => Prepare(w))
  BY <1>4 DEF Worker, WaitOne, Handle, Handled, BeginFlush, Submit, Retire
<1>5. ASSUME NEW w \in Workers, Kernel(w)
      PROVE  ~fault'
  BY <1>5 DEF Kernel, Complete
<1>6. ASSUME NEW w \in Workers, NEW op \in Ops, ~fault, Request(w, op)
      PROVE  ~fault'
  BY <1>6 DEF Request
<1> QED
  BY <1>1, <1>2, <1>3, <1>4, <1>5, <1>6 DEF RingNext

\* Whatever the depth of the rings and however many operations are out, a null
\* submission entry is met only by a flush that found more operations waiting
\* than the ring has entries: no flush leaves entries behind for the next one,
\* and the operations the kernel works on take none.
THEOREM NullEntryOnlyInBurst == RingSpec => []NullEntryNeedsBurst
<1> DEFINE I == RingTypeOK /\ RefInv /\ BatchInv /\ NullEntryNeedsBurst
<1>1. I /\ [RingNext]_ringVars => I'
  BY RingType, RefStep, BatchStep, BurstStep
<1>2. RingInit => I
  <2>1. RingInit /\ BatchInv => NullEntryNeedsBurst
    BY DEF RingInit, BatchInv, NullEntryNeedsBurst
  <2> QED
    BY <2>1, RingInitType, RefInit, BatchInit
<1> QED
  BY <1>1, <1>2, PTL DEF RingSpec

=============================================================================
