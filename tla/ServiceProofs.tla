----------------------------- MODULE ServiceProofs -----------------------------
(***************************************************************************)
(* Theorems about Service, for any number of threads, sessions, clients    *)
(* and messages and any depth of the rings.                                *)
(***************************************************************************)
EXTENDS Service, IORingProofs, WellFoundedInduction

-----------------------------------------------------------------------------
(* What the service sees of its rings.                                     *)

\* Operations whose completion a worker holds.
Taken == {op \in live : \E w \in Workers : holding[w] /\ Head(cq[w]).op = op}

\* Completions no worker has taken.
Unseen ==
  UNION {{cq[w][i] : i \in {j \in DOMAIN cq[w] : holding[w] => j # 1}}
           : w \in Workers}

\* Operations the kernel has finished.
Completed == Taken \cup {e.op : e \in Unseen}

\* A worker between two turns of the loop holds nothing, and only a handler
\* has requests to make.
PcInv ==
  \A w \in Workers : /\ holding[w] => pc[w] # "wait"
                     /\ todo[w] # <<>> => pc[w] = "handle"

Entries == [op : Ops, res : Results]

\* Membership of the views.
LEMMA UnseenIs ==
  ASSUME NEW e
  PROVE  e \in Unseen <=> \E w \in Workers : \E i \in DOMAIN cq[w] :
                            e = cq[w][i] /\ (holding[w] => i # 1)
BY DEF Unseen

\* The same of the next state.
LEMMA UnseenIsNext ==
  ASSUME NEW e
  PROVE  e \in Unseen' <=> \E w \in Workers : \E i \in DOMAIN cq'[w] :
                             e = cq'[w][i] /\ (holding'[w] => i # 1)
BY DEF Unseen

\* A completion queue, place by place.
LEMMA CqIs ==
  ASSUME RingTypeOK, NEW w \in Workers
  PROVE  /\ cq[w] \in Seq(Entries) /\ Len(cq[w]) \in Nat
         /\ DOMAIN cq[w] = 1 .. Len(cq[w])
         /\ \A i \in DOMAIN cq[w] : cq[w][i] \in Entries
         /\ cq[w] # <<>> => /\ Head(cq[w]) = cq[w][1] /\ 1 \in DOMAIN cq[w]
                            /\ Len(cq[w]) # 0
         /\ OpsOf(cq[w]) \in Seq(Ops)
<1>1. cq[w] \in Seq(Entries)
  BY DEF RingTypeOK, Entries
<1>2. /\ Len(cq[w]) \in Nat /\ DOMAIN cq[w] = 1 .. Len(cq[w])
      /\ \A i \in DOMAIN cq[w] : cq[w][i] \in Entries
  BY <1>1, LenProperties, ElementOfSeq
<1>3. cq[w] # <<>> => /\ Head(cq[w]) = cq[w][1] /\ 1 \in DOMAIN cq[w]
                      /\ Len(cq[w]) # 0
  BY <1>1, <1>2, EmptySeq
<1> QED
  BY <1>1, <1>2, <1>3, OpsOfCompletions DEF Entries

\* A completion stands in one place of one queue.
LEMMA OnePlace ==
  ASSUME RingTypeOK, RefInv, ~fault,
         NEW w \in Workers, NEW v \in Workers, NEW i \in DOMAIN cq[w],
         NEW j \in DOMAIN cq[v], cq[w][i].op = cq[v][j].op
  PROVE  w = v /\ i = j
<1> DEFINE op == cq[w][i].op
<1>1. /\ op \in Ops /\ OpsOf(cq[w])[i] = op /\ OpsOf(cq[v])[j] = op
      /\ i \in DOMAIN OpsOf(cq[w]) /\ j \in DOMAIN OpsOf(cq[v])
  BY CqIs DEF OpsOf, Entries
<1>2. op \in Held(w, "completed") /\ op \in Held(v, "completed")
  <2>1. op \in Range(OpsOf(cq[w])) /\ op \in Range(OpsOf(cq[v]))
    BY <1>1 DEF Range
  <2> QED
    BY <2>1, HeldIs
<1> HIDE DEF op
<1>3. w = v
  BY <1>1, <1>2 DEF RefInv, Apart, Places
<1> QED
  BY <1>1, <1>3 DEF RefInv, NoRepeats, IsInjective

\* The kernel's and the completed operations are out of the pool, and apart.
LEMMA CompletedLive ==
  ASSUME RingTypeOK, RefInv, ~fault
  PROVE  /\ Completed \subseteq live
         /\ \A w \in Workers : \A i \in DOMAIN cq[w] : cq[w][i].op \in live
         /\ \A w \in Workers : inflight[w] \subseteq live \ Completed
         /\ \A w \in Workers : \A i \in DOMAIN sq[w] : sq[w][i] \in live \ Completed
         /\ \A w \in Workers : \A i \in DOMAIN request_queue[w] :
              request_queue[w][i] \in live \ Completed
<1>1. ASSUME NEW w \in Workers, NEW i \in DOMAIN cq[w]
      PROVE  /\ cq[w][i].op \in Ops /\ cq[w][i].op \in Held(w, "completed")
             /\ cq[w][i].op \in live
  <2>1. cq[w][i].op \in Ops /\ cq[w][i].op \in Range(OpsOf(cq[w]))
    BY CqIs DEF OpsOf, Entries, Range
  <2>2. cq[w][i].op \in Held(w, "completed")
    BY <2>1, HeldIs
  <2> QED
    BY <2>1, <2>2 DEF RefInv, Accounted, Places
<1>2. ASSUME NEW op \in Completed
      PROVE  \E w \in Workers : op \in Held(w, "completed")
  <2>1. CASE op \in Taken
    <3>1. PICK w \in Workers : holding[w] /\ Head(cq[w]).op = op
      BY <2>1 DEF Taken
    <3>2. cq[w] # <<>>
      BY <3>1 DEF RingTypeOK
    <3> QED
      BY <1>1, <3>1, <3>2, CqIs
  <2>2. CASE op \notin Taken
    <3>1. PICK e \in Unseen : op = e.op
      BY <2>2 DEF Completed
    <3>2. PICK w \in Workers : \E i \in DOMAIN cq[w] : e = cq[w][i]
      BY <3>1, UnseenIs
    <3> QED
      BY <1>1, <3>1, <3>2
  <2> QED
    BY <2>1, <2>2
<1>3. ASSUME NEW w \in Workers, NEW k \in Places, k # "completed", NEW op \in Held(w, k)
      PROVE  op \in live \ Completed
  BY <1>2, <1>3, HeldOps DEF RefInv, Apart, Accounted, Places
<1>4. Completed \subseteq live
  <2> SUFFICES ASSUME NEW op \in Completed PROVE op \in live
    OBVIOUS
  <2>1. CASE op \in Taken
    BY <2>1 DEF Taken
  <2>2. CASE op \notin Taken
    <3>1. PICK e \in Unseen : op = e.op
      BY <2>2 DEF Completed
    <3> QED
      BY <1>1, <3>1, UnseenIs
  <2> QED
    BY <2>1, <2>2
<1>5. ASSUME NEW w \in Workers
      PROVE  /\ inflight[w] \subseteq live \ Completed
             /\ \A i \in DOMAIN sq[w] : sq[w][i] \in live \ Completed
             /\ \A i \in DOMAIN request_queue[w] :
                  request_queue[w][i] \in live \ Completed
  <2>1. /\ inflight[w] = Held(w, "kernel")
        /\ \A i \in DOMAIN sq[w] : sq[w][i] \in Held(w, "prepared")
        /\ \A i \in DOMAIN request_queue[w] :
             request_queue[w][i] \in Held(w, "queued")
    BY HeldIs DEF Range
  <2> QED
    BY <1>3, <2>1 DEF Places
<1> QED
  BY <1>1, <1>4, <1>5

\* A worker takes the first completion of its queue.
LEMMA TakeEffect ==
  ASSUME RingTypeOK, RefInv, ~fault, PcInv, NEW w \in Workers, WaitOne(w),
         cq[w] # <<>>
  PROVE  /\ Head(cq[w]) \in Entries /\ Head(cq[w]) \in Unseen
         /\ Head(cq[w]).op \in live \ Taken
         /\ \A e \in Unseen : e.op = Head(cq[w]).op => e = Head(cq[w])
         /\ Unseen' = Unseen \ {Head(cq[w])}
         /\ Taken' = Taken \cup {Head(cq[w]).op}
<1> DEFINE h == Head(cq[w])
<1>1. /\ h = cq[w][1] /\ 1 \in DOMAIN cq[w] /\ h \in Entries /\ ~holding[w]
  BY CqIs DEF WaitOne, PcInv
<1>2. /\ cq' = cq /\ live' = live
      /\ \A v \in Workers : holding'[v] = IF v = w THEN TRUE ELSE holding[v]
  BY DEF WaitOne, RingTypeOK
<1>3. h \in Unseen
  BY <1>1, UnseenIs
<1>4. h.op \in live
  BY <1>1, CompletedLive
<1>5. ASSUME NEW v \in Workers, NEW i \in DOMAIN cq[v], cq[v][i].op = h.op
      PROVE  v = w /\ i = 1
  BY <1>1, <1>5, OnePlace
<1>6. h.op \notin Taken
  <2> SUFFICES ASSUME NEW v \in Workers, holding[v], Head(cq[v]).op = h.op
               PROVE  FALSE
    BY DEF Taken
  <2>1. cq[v] # <<>>
    BY DEF RingTypeOK
  <2>2. Head(cq[v]) = cq[v][1] /\ 1 \in DOMAIN cq[v]
    BY <2>1, CqIs
  <2> QED
    BY <1>1, <1>5, <2>2
<1>7. ASSUME NEW e \in Unseen, e.op = h.op PROVE e = h
  BY <1>1, <1>5, <1>7, UnseenIs
<1> HIDE DEF h
<1>8. ASSUME NEW e PROVE e \in Unseen' <=> e \in Unseen /\ e # h
  <2>1. ASSUME e \in Unseen' PROVE e \in Unseen /\ e # h
    <3>0. PICK v \in Workers : \E i \in DOMAIN cq[v] :
            e = cq[v][i] /\ (holding'[v] => i # 1)
      BY <1>2, <2>1, UnseenIsNext
    <3>1. PICK i \in DOMAIN cq[v] : e = cq[v][i] /\ (holding'[v] => i # 1)
      BY <3>0
    <3>2. holding[v] => i # 1
      BY <1>2, <3>1
    <3>3. e \in Unseen
      BY <3>1, <3>2, UnseenIs
    <3> QED
      BY <1>1, <1>2, <1>5, <3>1, <3>3
  <2>2. ASSUME e \in Unseen, e # h PROVE e \in Unseen'
    <3>0. PICK v \in Workers : \E i \in DOMAIN cq[v] :
            e = cq[v][i] /\ (holding[v] => i # 1)
      BY <2>2, UnseenIs
    <3>1. PICK i \in DOMAIN cq[v] : e = cq[v][i] /\ (holding[v] => i # 1)
      BY <3>0
    <3>2. holding'[v] => i # 1
      BY <1>1, <1>2, <2>2, <3>1
    <3> QED
      BY <1>2, <3>1, <3>2, UnseenIsNext
  <2> QED
    BY <2>1, <2>2
<1>9. Taken' = Taken \cup {h.op}
  <2>1. ASSUME NEW op
        PROVE  op \in Taken' <=> op \in Taken \cup {h.op}
    <3>1. op \in Taken' <=> op \in live /\ \E v \in Workers : holding'[v] /\ Head(cq[v]).op = op
      BY <1>2 DEF Taken
    <3> QED
      BY <1>2, <1>4, <3>1 DEF Taken, h
  <2> QED
    BY <2>1
<1> QED
  BY <1>1, <1>3, <1>4, <1>6, <1>7, <1>8, <1>9 DEF h

\* A worker without a completion takes none.
LEMMA TakeNothing ==
  ASSUME RingTypeOK, PcInv, NEW w \in Workers, WaitOne(w), cq[w] = <<>>
  PROVE  UNCHANGED <<live, Unseen, Taken, holding, cq>>
<1>1. holding' = holding
  BY DEF WaitOne, PcInv, RingTypeOK
<1> QED
  BY <1>1 DEF WaitOne, Unseen, Taken

\* The operation a worker has held goes back to the pool.
LEMMA RetireEffect ==
  ASSUME RingTypeOK, RefInv, ~fault, NEW w \in Workers, Retire(w), holding[w]
  PROVE  \E op \in Taken : /\ live' = live \ {op} /\ Taken' = Taken \ {op}
                           /\ Unseen' = Unseen
                           /\ \A e \in Unseen : e.op # op
<1> DEFINE op == Head(cq[w]).op
           n == Len(cq[w])
<1>1. /\ Head(cq[w]) = cq[w][1] /\ 1 \in DOMAIN cq[w]
      /\ n \in Nat /\ n # 0 /\ DOMAIN cq[w] = 1 .. n
  BY CqIs DEF RingTypeOK
<1>2. /\ live' = live \ {op}
      /\ \A v \in Workers : /\ cq'[v] = IF v = w THEN Tail(cq[w]) ELSE cq[v]
                            /\ holding'[v] = IF v = w THEN FALSE ELSE holding[v]
  BY DEF Retire, RingTypeOK
<1>3. /\ DOMAIN Tail(cq[w]) = 1 .. n - 1
      /\ \A i \in 1 .. n - 1 : Tail(cq[w])[i] = cq[w][i + 1]
  <2>1. cq[w] \in Seq(Entries) /\ cq[w] # <<>>
    BY CqIs DEF RingTypeOK
  <2>2. Tail(cq[w]) \in Seq(Entries) /\ Len(Tail(cq[w])) = n - 1
        /\ \A i \in 1 .. n - 1 : Tail(cq[w])[i] = cq[w][i + 1]
    BY <2>1, HeadTailProperties
  <2> QED
    BY <2>2, LenProperties
<1>4. ASSUME NEW v \in Workers, NEW i \in DOMAIN cq[v], cq[v][i].op = op
      PROVE  v = w /\ i = 1
  BY <1>1, <1>4, OnePlace
<1>5. op \in live
  BY <1>1, CompletedLive
<1> HIDE DEF op, n
<1>6. op \in Taken
  BY <1>5 DEF Taken, op
<1>7. \A e \in Unseen : e.op # op
  BY <1>4, UnseenIs
<1>8. Taken' = Taken \ {op}
  <2>1. ASSUME NEW v \in Workers, v # w, holding[v]
        PROVE  cq'[v] = cq[v] /\ holding'[v] /\ Head(cq[v]).op # op
    <3>1. cq[v] # <<>>
      BY <2>1 DEF RingTypeOK
    <3>2. Head(cq[v]) = cq[v][1] /\ 1 \in DOMAIN cq[v]
      BY <3>1, CqIs
    <3> QED
      BY <1>2, <1>4, <2>1, <3>2
  <2>2. ASSUME NEW o PROVE o \in Taken' <=> o \in Taken /\ o # op
    <3>1. o \in Taken' <=> /\ o \in live /\ o # op
                           /\ \E v \in Workers : holding'[v] /\ Head(cq'[v]).op = o
      BY <1>2 DEF Taken
    <3> QED
      BY <1>2, <2>1, <3>1 DEF Taken, op
  <2> QED
    BY <2>2
<1>9. Unseen' = Unseen
  <2>1. ASSUME NEW e PROVE e \in Unseen' => e \in Unseen
    <3> SUFFICES ASSUME e \in Unseen' PROVE e \in Unseen
      OBVIOUS
    <3>0. PICK v \in Workers : \E i \in DOMAIN cq'[v] :
            e = cq'[v][i] /\ (holding'[v] => i # 1)
      BY UnseenIsNext
    <3>1. PICK i \in DOMAIN cq'[v] : e = cq'[v][i] /\ (holding'[v] => i # 1)
      BY <3>0
    <3>2. CASE v = w
      <4>1. i \in 1 .. n - 1 /\ e = cq[w][i + 1]
        BY <1>2, <1>3, <3>1, <3>2
      <4>2. i + 1 \in DOMAIN cq[w] /\ i + 1 # 1
        BY <1>1, <4>1
      <4> QED
        BY <4>1, <4>2, UnseenIs
    <3>3. CASE v # w
      BY <1>2, <3>1, <3>3, UnseenIs, ZenonT(40)
    <3> QED
      BY <3>2, <3>3
  <2>2. ASSUME NEW e PROVE e \in Unseen => e \in Unseen'
    <3> SUFFICES ASSUME e \in Unseen PROVE e \in Unseen'
      OBVIOUS
    <3>0. PICK v \in Workers : \E i \in DOMAIN cq[v] :
            e = cq[v][i] /\ (holding[v] => i # 1)
      BY UnseenIs
    <3>1. PICK i \in DOMAIN cq[v] : e = cq[v][i] /\ (holding[v] => i # 1)
      BY <3>0
    <3>2. CASE v = w
      <4>1. i \in 1 .. n /\ i # 1
        BY <1>1, <3>1, <3>2
      <4> DEFINE j == i - 1
      <4>2. j \in 1 .. n - 1 /\ i = j + 1
        BY <1>1, <4>1
      <4> HIDE DEF j
      <4>3. j \in DOMAIN cq'[w] /\ cq'[w][j] = e /\ ~holding'[w]
        BY <1>2, <1>3, <3>1, <3>2, <4>2
      <4> QED
        BY <4>3, UnseenIsNext
    <3>3. CASE v # w
      BY <1>2, <3>1, <3>3, UnseenIsNext, ZenonT(40)
    <3> QED
      BY <3>2, <3>3
  <2> QED
    BY <2>1, <2>2
<1> QED
  BY <1>2, <1>6, <1>7, <1>8, <1>9

\* The kernel finishes an operation.
LEMMA CompleteEffect ==
  ASSUME RingTypeOK, RefInv, ~fault, NEW w \in Workers, NEW op, NEW res \in Results,
         Complete(w, op, res)
  PROVE  /\ op \in live \ Completed /\ live' = live /\ Taken' = Taken
         /\ Unseen' = Unseen \cup {[op |-> op, res |-> res]}
<1> DEFINE e == [op |-> op, res |-> res]
           n == Len(cq[w])
<1>1. op \in live \ Completed /\ op \in Ops
  BY CompletedLive DEF Complete, RingTypeOK
<1>2. e \in Entries
  BY <1>1 DEF Entries
<1>3. /\ live' = live /\ holding' = holding
      /\ \A v \in Workers : cq'[v] = IF v = w THEN Append(cq[w], e) ELSE cq[v]
  BY DEF Complete, RingTypeOK
<1>4. /\ n \in Nat /\ DOMAIN cq[w] = 1 .. n
      /\ DOMAIN Append(cq[w], e) = 1 .. n + 1
      /\ \A i \in 1 .. n : Append(cq[w], e)[i] = cq[w][i]
      /\ Append(cq[w], e)[n + 1] = e
  <2>1. cq[w] \in Seq(Entries) /\ n \in Nat /\ DOMAIN cq[w] = 1 .. n
    BY CqIs
  <2> HIDE DEF e
  <2>2. /\ Append(cq[w], e) \in Seq(Entries) /\ Len(Append(cq[w], e)) = n + 1
        /\ \A i \in 1 .. n : Append(cq[w], e)[i] = cq[w][i]
        /\ Append(cq[w], e)[n + 1] = e
    BY <1>2, <2>1, AppendProperties
  <2> QED
    BY <2>1, <2>2, LenProperties
<1>5. \A v \in Workers : holding[v] => cq[v] # <<>> /\ Head(cq'[v]) = Head(cq[v])
  <2> SUFFICES ASSUME NEW v \in Workers, holding[v]
               PROVE  cq[v] # <<>> /\ Head(cq'[v]) = Head(cq[v])
    OBVIOUS
  <2>1. /\ cq[v] # <<>> /\ Head(cq[v]) = cq[v][1] /\ 1 \in DOMAIN cq[v]
    BY CqIs DEF RingTypeOK
  <2>2. CASE v = w
    <3>1. 1 \in 1 .. n
      BY <1>4, <2>1, <2>2
    <3>2. Append(cq[w], e) \in Seq(Entries) /\ Append(cq[w], e) # <<>>
      BY <1>2, CqIs, AppendProperties
    <3>3. Head(Append(cq[w], e)) = Append(cq[w], e)[1]
      BY <3>2
    <3> QED
      BY <1>3, <1>4, <2>1, <2>2, <3>1, <3>3
  <2> QED
    BY <1>3, <2>1, <2>2
<1> HIDE DEF e, n
<1>6. Taken' = Taken
  BY <1>3, <1>5 DEF Taken
<1>7. (holding[w] => n + 1 # 1) /\ n + 1 \in 1 .. n + 1
  <2>1. holding[w] => n # 0
    BY <1>5, CqIs DEF n
  <2> QED
    BY <1>4, <2>1
<1>8. Unseen' = Unseen \cup {e}
  <2>1. ASSUME NEW x PROVE x \in Unseen' => x \in Unseen \cup {e}
    <3> SUFFICES ASSUME x \in Unseen' PROVE x \in Unseen \cup {e}
      OBVIOUS
    <3>0. PICK v \in Workers : \E i \in DOMAIN cq'[v] :
            x = cq'[v][i] /\ (holding[v] => i # 1)
      BY <1>3, UnseenIsNext
    <3>1. PICK i \in DOMAIN cq'[v] : x = cq'[v][i] /\ (holding[v] => i # 1)
      BY <3>0
    <3>2. CASE v = w /\ i = n + 1
      BY <1>3, <1>4, <3>1, <3>2
    <3>3. CASE v = w /\ i # n + 1
      <4>0. i \in 1 .. n + 1
        BY <1>3, <1>4, <3>1, <3>3
      <4>1. i \in 1 .. n
        BY <1>4, <3>3, <4>0
      <4>2. x = cq[w][i]
        BY <1>3, <1>4, <3>1, <3>3, <4>1
      <4> QED
        BY <1>4, <3>1, <3>3, <4>1, <4>2, UnseenIs
    <3>4. CASE v # w
      BY <1>3, <3>1, <3>4, UnseenIs
    <3> QED
      BY <3>2, <3>3, <3>4
  <2>2. ASSUME NEW x PROVE x \in Unseen => x \in Unseen'
    <3> SUFFICES ASSUME x \in Unseen PROVE x \in Unseen'
      OBVIOUS
    <3>0. PICK v \in Workers : \E i \in DOMAIN cq[v] :
            x = cq[v][i] /\ (holding[v] => i # 1)
      BY UnseenIs
    <3>1. PICK i \in DOMAIN cq[v] : x = cq[v][i] /\ (holding[v] => i # 1)
      BY <3>0
    <3>2. i \in DOMAIN cq'[v] /\ cq'[v][i] = x
      <4>1. CASE v = w
        <5>1. i \in 1 .. n
          BY <1>4, <4>1
        <5>2. i \in 1 .. n + 1
          BY <1>4, <5>1
        <5> QED
          BY <1>3, <1>4, <3>1, <4>1, <5>1, <5>2
      <4>2. CASE v # w
        BY <1>3, <3>1, <4>2
      <4> QED
        BY <4>1, <4>2
    <3> QED
      BY <1>3, <3>1, <3>2, UnseenIsNext
  <2>3. e \in Unseen'
    <3>1. n + 1 \in DOMAIN cq'[w] /\ cq'[w][n + 1] = e /\ (holding'[w] => n + 1 # 1)
      BY <1>3, <1>4, <1>7
    <3> QED
      BY <3>1, UnseenIsNext
  <2> QED
    BY <2>1, <2>2, <2>3
<1> QED
  BY <1>1, <1>3, <1>6, <1>8 DEF e

\* A step that leaves the completions alone.
LEMMA ViewsUnchanged ==
  ASSUME UNCHANGED <<live, cq, holding>>
  PROVE  UNCHANGED <<live, Taken, Unseen, Completed>>
BY DEF Taken, Unseen, Completed

-----------------------------------------------------------------------------
(* What a handler is about to request.                                     *)

Calls == [kind : {"accept_one", "recv", "send", "close"},
          sess : Sessions \cup {NULL}, buf : Buffers \cup {NULL}]

\* A handler's remaining calls: after the receive or the close of a session
\* nothing concerns a session any more.
Plan(q) ==
  /\ q \in Seq(Calls)
  /\ \A i \in DOMAIN q :
       /\ IF q[i].kind = "accept_one" THEN q[i].sess = NULL
                                      ELSE q[i].sess \in Sessions
       /\ IF q[i].kind = "send" THEN q[i].buf \in Buffers ELSE q[i].buf = NULL
       /\ q[i].kind \in {"recv", "close"} =>
            \A j \in DOMAIN q : j > i => q[j].kind = "accept_one"

\* NULL is neither a session, nor a buffer's session.
LEMMA NullIsNone == NULL \notin Sessions /\ NULL \notin Fds
BY ServiceAssumption DEF Sessions, Fds

\* The fields of an operation.
LEMMA OperationIs ==
  ASSUME NEW op \in Ops
  PROVE  /\ op.kind \in {"accept", "recv", "send", "close"}
         /\ op.sess \in Sessions
         /\ op.kind = "send" => op.buf \in Buffers
         /\ op.kind # "send" => op.buf = NULL
         /\ op \in Closing <=> op.kind = "close"
<1>1. Ops = Operations /\ Closing = CloseOperations
  BY ServiceAssumption
<1>2. op \in Operations
  BY <1>1
<1>3. /\ op.kind \in {"accept", "recv", "send", "close"}
      /\ op.sess \in Sessions
      /\ op.kind = "send" => op.buf \in Buffers
      /\ op.kind # "send" => op.buf = NULL
  BY <1>2 DEF Operations
<1> QED
  BY <1>1, <1>2, <1>3 DEF CloseOperations

\* The fields of what a completion reports.
LEMMA OutcomeIs ==
  ASSUME NEW res \in Results
  PROVE  /\ res.ok \in BOOLEAN /\ res.fd \in Fds \cup {NULL}
         /\ res.msgs \in Seq(Messages)
<1>1. res \in Outcomes
  BY ServiceAssumption
<1>2. res.ok \in BOOLEAN /\ res.fd \in Fds \cup {NULL}
  BY <1>1 DEF Outcomes
<1>3. PICK n \in 0 .. MaxMessages : res.msgs \in [1 .. n -> Messages]
  BY <1>1 DEF Outcomes
<1>4. n \in Nat
  BY ServiceAssumption
<1> QED
  BY <1>2, <1>3, <1>4, SeqDef

\* The rest of a plan is a plan.
LEMMA PlanTail ==
  ASSUME NEW q, Plan(q), q # <<>>
  PROVE  /\ Head(q) \in Calls /\ Head(q) = q[1] /\ 1 \in DOMAIN q
         /\ Tail(q) \in Seq(Calls) /\ Plan(Tail(q))
         /\ \A i \in DOMAIN Tail(q) : i + 1 \in DOMAIN q /\ Tail(q)[i] = q[i + 1]
         /\ \A i \in DOMAIN q : i # 1 => \E j \in DOMAIN Tail(q) : Tail(q)[j] = q[i] /\ i = j + 1
<1> DEFINE n == Len(q)
           t == Tail(q)
<1>1. q \in Seq(Calls) /\ n \in Nat \ {0} /\ DOMAIN q = 1 .. n /\ Head(q) = q[1]
  BY EmptySeq, LenProperties DEF Plan
<1>2. /\ t \in Seq(Calls) /\ DOMAIN t = 1 .. n - 1
      /\ \A i \in 1 .. n - 1 : t[i] = q[i + 1]
  BY <1>1, HeadTailProperties, LenProperties
<1>3. Head(q) \in Calls
  BY <1>1, HeadTailProperties
<1> HIDE DEF n, t
<1>4. \A i \in DOMAIN t : i + 1 \in DOMAIN q /\ t[i] = q[i + 1]
  BY <1>1, <1>2
<1>5. ASSUME NEW i \in DOMAIN q, i # 1
      PROVE  \E j \in DOMAIN t : t[j] = q[i] /\ i = j + 1
  <2> DEFINE j == i - 1
  <2>1. j \in 1 .. n - 1 /\ i = j + 1
    BY <1>1, <1>5
  <2> HIDE DEF j
  <2> QED
    BY <1>2, <2>1
<1>6. Plan(t)
  <2> SUFFICES ASSUME NEW i \in DOMAIN t
               PROVE  /\ IF t[i].kind = "accept_one" THEN t[i].sess = NULL
                                                     ELSE t[i].sess \in Sessions
                      /\ IF t[i].kind = "send" THEN t[i].buf \in Buffers
                                               ELSE t[i].buf = NULL
                      /\ t[i].kind \in {"recv", "close"} =>
                           \A j \in DOMAIN t : j > i => t[j].kind = "accept_one"
    BY <1>2 DEF Plan
  <2>1. i + 1 \in DOMAIN q /\ t[i] = q[i + 1]
    BY <1>4
  <2>2. ASSUME NEW j \in DOMAIN t, j > i
        PROVE  /\ j + 1 \in DOMAIN q /\ t[j] = q[j + 1] /\ j + 1 > i + 1
    BY <1>1, <1>2, <1>4, <2>2
  <2> QED
    BY <2>1, <2>2 DEF Plan
<1> QED
  BY <1>1, <1>2, <1>3, <1>4, <1>5, <1>6 DEF t

\* Quotient and remainder.
LEMMA DivMod ==
  ASSUME NEW C \in Nat \ {0}, NEW i \in Nat
  PROVE  /\ i \div C \in Nat /\ i % C \in 0 .. C - 1
         /\ i = C * (i \div C) + (i % C)
OBVIOUS

\* The quotient of a place in an answer is a place among the messages.
LEMMA DivBound ==
  ASSUME NEW C \in Nat \ {0}, NEW L \in Nat, NEW i \in 1 .. L * C
  PROVE  ((i - 1) \div C) + 1 \in 1 .. L
<1> DEFINE d == (i - 1) \div C
           r == (i - 1) % C
<1>0. i - 1 \in Nat
  OBVIOUS
<1>1. d \in Nat /\ r \in 0 .. C - 1 /\ i - 1 = C * d + r
  BY <1>0, DivMod
<1> HIDE DEF d, r
<1>2. SUFFICES ASSUME d >= L PROVE FALSE
  BY <1>1 DEF d
<1>3. C * d >= C * L
  BY <1>1, <1>2
<1> QED
  BY <1>1, <1>3

\* Every message read is answered by Chunks buffers, each requested once, and
\* the last request is for the next receive.
LEMMA OnReceivedIs ==
  ASSUME NEW s \in Sessions, NEW msgs \in Seq(Messages)
  PROVE  LET q == OnReceived(s, msgs) IN
         /\ Plan(q)
         /\ \A i \in DOMAIN q :
              /\ q[i].kind \in {"send", "recv"} /\ q[i].sess = s
              /\ q[i].kind = "send" => q[i].buf[1] \in Range(msgs)
         /\ q # <<>>
         /\ IsInjective(msgs) =>
              \A i, j \in DOMAIN q : /\ q[i].kind = "send" /\ q[j].kind = "send"
                                     /\ q[i].buf = q[j].buf
                                     => i = j
<1> DEFINE L == Len(msgs)
           N == L * Chunks
           D(i) == ((i - 1) \div Chunks) + 1
           M(i) == ((i - 1) % Chunks) + 1
           a == [i \in 1 .. N |-> Answer(s, msgs[D(i)])[M(i)]]
           r == Call("recv", s, NULL)
           q == Append(a, r)
<1>0. /\ L \in Nat /\ DOMAIN msgs = 1 .. L /\ \A i \in 1 .. L : msgs[i] \in Messages
      /\ Chunks \in Nat
  BY LenProperties, ElementOfSeq, ServiceAssumption
<1>1. N \in Nat
  BY <1>0
<1>2. q = OnReceived(s, msgs)
  BY DEF OnReceived
<1>3. ASSUME NEW i \in 1 .. N
      PROVE  /\ D(i) \in 1 .. L /\ M(i) \in 1 .. Chunks
             /\ i = Chunks * (D(i) - 1) + (M(i) - 1) + 1
  <2>1. Chunks \in Nat \ {0}
    BY <1>0
  <2>2. D(i) \in 1 .. L
    BY <1>0, <2>1, DivBound
  <2> DEFINE k == i - 1
  <2>3. k \in Nat /\ i = k + 1
    BY <1>1
  <2> HIDE DEF k
  <2>4. k \div Chunks \in Nat /\ k % Chunks \in 0 .. Chunks - 1
        /\ k = Chunks * (k \div Chunks) + (k % Chunks)
    BY <2>1, <2>3, DivMod
  <2>5. D(i) = (k \div Chunks) + 1 /\ M(i) = (k % Chunks) + 1
    BY DEF k
  <2> QED
    BY <2>1, <2>2, <2>3, <2>4, <2>5
<1> HIDE DEF D, M
<1>4. ASSUME NEW i \in 1 .. N
      PROVE  /\ a[i] = Call("send", s, <<msgs[D(i)], M(i)>>)
             /\ msgs[D(i)] \in Messages
             /\ <<msgs[D(i)], M(i)>> \in Buffers
  BY <1>0, <1>3 DEF Answer, Buffers
<1>5. /\ \A i \in 1 .. N : a[i] \in Calls
      /\ r \in Calls
  <2>1. \A b \in Buffers : Call("send", s, b) \in Calls
    BY DEF Calls, Call
  <2>2. r \in Calls
    BY DEF Calls, Call
  <2> HIDE DEF a, r
  <2> QED
    BY <1>4, <2>1, <2>2
<1>6. a \in Seq(Calls) /\ Len(a) = N
  <2>1. a \in [1 .. N -> Calls]
    BY <1>5
  <2> HIDE DEF a, N
  <2>2. a \in Seq(Calls)
    BY <1>1, <2>1, SeqDef
  <2>3. DOMAIN a = 1 .. N
    BY <2>1
  <2> QED
    BY <1>1, <2>2, <2>3, LenProperties
<1> HIDE DEF a, r, N
<1>7. /\ q \in Seq(Calls) /\ DOMAIN q = 1 .. N + 1 /\ q # <<>>
      /\ \A i \in 1 .. N : q[i] = a[i]
      /\ q[N + 1] = r
  BY <1>1, <1>5, <1>6, AppendProperties, LenProperties
<1> HIDE DEF q
<1>8. \A i \in DOMAIN q : i \in 1 .. N \/ i = N + 1
  BY <1>1, <1>7
<1>9. r.kind = "recv" /\ r.sess = s /\ r.buf = NULL
  BY DEF r, Call
<1>10. ASSUME NEW i \in 1 .. N
       PROVE  /\ q[i].kind = "send" /\ q[i].sess = s
              /\ q[i].buf = <<msgs[D(i)], M(i)>> /\ q[i].buf \in Buffers
              /\ q[i].buf[1] \in Range(msgs)
  <2>1. q[i] = Call("send", s, <<msgs[D(i)], M(i)>>)
    BY <1>4, <1>7
  <2>2. msgs[D(i)] \in Range(msgs)
    BY <1>0, <1>3 DEF Range
  <2> QED
    BY <1>4, <2>1, <2>2 DEF Call
<1>11. Plan(q)
  <2> SUFFICES ASSUME NEW i \in DOMAIN q
               PROVE  /\ IF q[i].kind = "accept_one" THEN q[i].sess = NULL
                                                     ELSE q[i].sess \in Sessions
                      /\ IF q[i].kind = "send" THEN q[i].buf \in Buffers
                                               ELSE q[i].buf = NULL
                      /\ q[i].kind \in {"recv", "close"} =>
                           \A j \in DOMAIN q : j > i => q[j].kind = "accept_one"
    BY <1>7 DEF Plan
  <2>1. CASE i \in 1 .. N
    BY <1>10, <2>1
  <2>2. CASE i = N + 1
    <3>1. \A j \in DOMAIN q : ~(j > i)
      BY <1>1, <1>7, <2>2
    <3> QED
      BY <1>7, <1>9, <2>2, <3>1
  <2> QED
    BY <1>8, <2>1, <2>2
<1>12. ASSUME NEW i \in DOMAIN q
       PROVE  /\ q[i].kind \in {"send", "recv"} /\ q[i].sess = s
              /\ q[i].kind = "send" => q[i].buf[1] \in Range(msgs)
  BY <1>7, <1>8, <1>9, <1>10
<1>13. ASSUME IsInjective(msgs), NEW i \in DOMAIN q, NEW j \in DOMAIN q,
              q[i].kind = "send", q[j].kind = "send", q[i].buf = q[j].buf
       PROVE  i = j
  <2>1. i \in 1 .. N /\ j \in 1 .. N
    BY <1>7, <1>8, <1>9, <1>13
  <2>2. msgs[D(i)] = msgs[D(j)] /\ M(i) = M(j)
    BY <1>10, <1>13, <2>1
  <2>3. D(i) = D(j)
    BY <1>0, <1>3, <1>13, <2>1, <2>2 DEF IsInjective
  <2> QED
    BY <1>3, <2>1, <2>2, <2>3
<1> QED
  BY <1>2, <1>7, <1>11, <1>12, <1>13

\* What each completion makes its handler request.
LEMMA HandlerIs ==
  ASSUME NEW op \in Ops, NEW res \in Results
  PROVE  LET q == Handler(op, res) IN
         /\ Plan(q)
         /\ \A i \in DOMAIN q :
              /\ q[i].sess \in {op.sess, NULL}
              /\ q[i].kind = "send" => q[i].buf[1] \in Range(res.msgs)
         /\ q # <<>> => /\ op.kind = "recv" \/ (op.kind = "accept" /\ res.ok)
                        /\ 1 \in DOMAIN q /\ q[1].sess = op.sess
         /\ q = <<>> => op.kind # "recv" /\ ~(op.kind = "accept" /\ res.ok)
         /\ IsInjective(res.msgs) =>
              \A i, j \in DOMAIN q : /\ q[i].kind = "send" /\ q[j].kind = "send"
                                     /\ q[i].buf = q[j].buf
                                     => i = j
<1> DEFINE s == op.sess
           q == Handler(op, res)
<1>1. s \in Sessions /\ res.msgs \in Seq(Messages)
      /\ op.kind \in {"accept", "recv", "send", "close"} /\ res.ok \in BOOLEAN
  BY OperationIs, OutcomeIs
<1>2. CASE op.kind = "recv" /\ res.ok
  <2>1. q = OnReceived(s, res.msgs)
    BY <1>2 DEF Handler
  <2> HIDE DEF q, s
  <2>2. Plan(q) /\ q # <<>> /\ \A i \in DOMAIN q : q[i].sess = s
    BY <1>1, <2>1, OnReceivedIs
  <2>3. 1 \in DOMAIN q
    BY <2>2, EmptySeq, LenProperties DEF Plan
  <2>4. \A i \in DOMAIN q : q[i].kind = "send" => q[i].buf[1] \in Range(res.msgs)
    BY <1>1, <2>1, OnReceivedIs
  <2>5. IsInjective(res.msgs) =>
              \A i, j \in DOMAIN q : /\ q[i].kind = "send" /\ q[j].kind = "send"
                                     /\ q[i].buf = q[j].buf
                                     => i = j
    BY <1>1, <2>1, OnReceivedIs
  <2> QED
    BY <1>2, <2>2, <2>3, <2>4, <2>5 DEF q, s
<1>3. CASE op.kind = "recv" /\ ~res.ok
  <2>1. q = <<Call("close", s, NULL)>>
    BY <1>3 DEF Handler, OnReceiveFailed
  <2>2. /\ DOMAIN q = {1} /\ q[1].kind = "close" /\ q[1].sess = s /\ q[1].buf = NULL
        /\ q # <<>>
    BY <2>1 DEF Call
  <2>3. q \in Seq(Calls)
    BY <1>1, <2>1 DEF Calls, Call
  <2> HIDE DEF q, s
  <2>4. Plan(q)
    BY <1>1, <2>2, <2>3 DEF Plan
  <2> QED
    BY <1>3, <2>2, <2>4 DEF q, s
<1>4. CASE op.kind = "accept" /\ res.ok
  <2>1. q = <<Call("recv", s, NULL), Call("accept_one", NULL, NULL)>>
    BY <1>4 DEF Handler, OnAccepted
  <2>2. /\ DOMAIN q = {1, 2} /\ q # <<>>
        /\ q[1].kind = "recv" /\ q[1].sess = s /\ q[1].buf = NULL
        /\ q[2].kind = "accept_one" /\ q[2].sess = NULL /\ q[2].buf = NULL
    BY <2>1 DEF Call
  <2>3. q \in Seq(Calls)
    BY <1>1, <2>1 DEF Calls, Call
  <2> HIDE DEF q, s
  <2>4. Plan(q)
    BY <1>1, <2>2, <2>3 DEF Plan
  <2> QED
    BY <1>4, <2>2, <2>4 DEF q, s
<1>5. CASE op.kind # "recv" /\ ~(op.kind = "accept" /\ res.ok)
  <2>1. q = <<>>
    BY <1>5 DEF Handler
  <2>2. DOMAIN q = {} /\ q \in Seq(Calls)
    BY <2>1
  <2> HIDE DEF q, s
  <2>3. Plan(q)
    BY <2>2 DEF Plan
  <2> QED
    BY <1>5, <2>1, <2>2, <2>3 DEF q, s
<1> QED
  BY <1>1, <1>2, <1>3, <1>4, <1>5

-----------------------------------------------------------------------------
(* Fresh operations.                                                       *)

Alike(r, n) == [kind |-> r.kind, sess |-> r.sess, buf |-> r.buf, n |-> n]

\* A request for an operation.
Requests ==
       [kind : {"accept", "recv", "close"}, sess : Sessions, buf : {NULL}]
  \cup [kind : {"send"}, sess : Sessions, buf : Buffers]

\* Every set of numbers has a least one.
LEMMA Least ==
  ASSUME NEW T \in SUBSET Nat, T # {}
  PROVE  \E n \in T : \A m \in T : n <= m
<1>1. \E n \in T : \A m \in T : ~(<<m, n>> \in OpToRel(<, Nat))
  BY NatLessThanWellFounded, WFMin
<1>2. PICK n \in T : \A m \in T : ~(<<m, n>> \in OpToRel(<, Nat))
  BY <1>1
<1>3. ASSUME NEW m \in T PROVE n <= m
  <2>1. ~(<<m, n>> \in OpToRel(<, Nat))
    BY <1>2
  <2>2. m < n => <<m, n>> \in OpToRel(<, Nat)
    BY DEF OpToRel
  <2>3. m \in Nat /\ n \in Nat
    OBVIOUS
  <2>4. ~(m < n)
    BY <2>1, <2>2, Zenon
  <2> QED
    BY <2>3, <2>4
<1> QED
  BY <1>3

\* The operations a request may be given.
LEMMA AlikeIs ==
  ASSUME NEW r \in Requests, NEW n \in 1 .. MaxAlike
  PROVE  /\ Alike(r, n) \in Ops /\ Alike(r, n).kind = r.kind
         /\ Alike(r, n).sess = r.sess /\ Alike(r, n).buf = r.buf
         /\ Alike(r, n).n = n
BY ServiceAssumption DEF Alike, Requests, Operations

\* An operation that is not in use is found if there is one.
LEMMA FreshIs ==
  ASSUME NEW r \in Requests, NEW n \in 1 .. MaxAlike, Alike(r, n) \notin live
  PROVE  /\ Fresh(r) \in Ops /\ Fresh(r) \notin live
         /\ Fresh(r).kind = r.kind /\ Fresh(r).sess = r.sess
         /\ Fresh(r).buf = r.buf
<1> DEFINE P(k) == /\ Alike(r, k) \notin live
                   /\ \A j \in 1 .. k - 1 : Alike(r, j) \in live
           c == CHOOSE k \in 1 .. MaxAlike : P(k)
           T == {k \in 1 .. MaxAlike : Alike(r, k) \notin live}
<1>0. MaxAlike \in Nat
  BY ServiceAssumption DEF MaxAlike
<1>1. T \in SUBSET Nat /\ T # {}
  BY <1>0
<1>2. PICK k \in T : \A m \in T : k <= m
  BY <1>1, Least
<1>3. ASSUME NEW j \in 1 .. k - 1 PROVE Alike(r, j) \in live
  <2>1. j \in 1 .. MaxAlike /\ ~(k <= j)
    BY <1>0, <1>2, <1>3
  <2> QED
    BY <1>2, <2>1
<1>4. k \in 1 .. MaxAlike /\ P(k)
  BY <1>2, <1>3
<1>5. c \in 1 .. MaxAlike /\ P(c)
  <2> HIDE DEF P
  <2> QED
    BY <1>4
<1>6. Fresh(r) = Alike(r, c)
  BY DEF Fresh, Alike
<1> HIDE DEF c
<1> QED
  BY <1>5, <1>6, AlikeIs

\* There are more operations alike than workers, so one is left when workers
\* hold all that are in use.
LEMMA FreshFound ==
  ASSUME RingTypeOK, NEW r \in Requests,
         \A n \in 1 .. MaxAlike : Alike(r, n) \in live => Alike(r, n) \in Taken
  PROVE  \E n \in 1 .. MaxAlike : Alike(r, n) \notin live
<1> SUFFICES ASSUME \A n \in 1 .. MaxAlike : Alike(r, n) \in live
             PROVE  FALSE
  OBVIOUS
<1> DEFINE N == 1 .. MaxAlike
           f == [n \in N |-> CHOOSE w \in Workers : Head(cq[w]).op = Alike(r, n)]
<1>1. ASSUME NEW n \in N PROVE \E w \in Workers : Head(cq[w]).op = Alike(r, n)
  BY DEF Taken
<1>2. \A n \in N : f[n] \in Workers /\ Head(cq[f[n]]).op = Alike(r, n)
  BY <1>1
<1>3. f \in [N -> Workers]
  BY <1>2
<1>4. ThreadCount \in Nat \ {0} /\ Workers = 0 .. ThreadCount - 1
  BY ServiceAssumption
<1>5. /\ IsFiniteSet(N) /\ Cardinality(N) = ThreadCount + 1
  <2>1. 1 \in Int /\ ThreadCount + 1 \in Int /\ ThreadCount + 1 >= 1
    BY <1>4
  <2> QED
    BY <1>4, <2>1, FS_Interval DEF MaxAlike
<1>6. /\ IsFiniteSet(Workers) /\ Cardinality(Workers) = ThreadCount
  <2>1. 0 \in Int /\ ThreadCount - 1 \in Int /\ ThreadCount - 1 >= 0
    BY <1>4
  <2> QED
    BY <1>4, <2>1, FS_Interval
<1>7. Cardinality(Workers) < Cardinality(N)
  BY <1>4, <1>5, <1>6
<1> HIDE DEF N, f
<1>8. PICK x \in N, y \in N : x # y /\ f[x] = f[y]
  BY <1>3, <1>5, <1>6, <1>7, FS_PigeonHole
<1>9. Alike(r, x) = Alike(r, y)
  BY <1>2, <1>8
<1> QED
  BY <1>8, <1>9, AlikeIs DEF N

-----------------------------------------------------------------------------
(* The inductive invariant.                                                *)

\* A null submission entry is met by a worker, and the workers start last.
BootInv ==
  /\ started > 0 => acceptor # "none" /\ booted = Backlog
  /\ fault => started > 0

TodoInv ==
  /\ todo \in [Workers -> Seq(Calls)]
  /\ \A w \in Workers : Plan(todo[w])

\* Nobody will do anything with the session any more.
Idle(s) ==
  Outstanding(s) = {} /\ Handling(s) = {} /\ s \notin Range(sessions_queue)

\* One place for every session, and none once its close is requested.
SessInv ==
  /\ IsInjective(sessions_queue)
  /\ \A s \in Sessions :
       /\ \A a, b \in Outstanding(s) : a = b
       /\ \A a, b \in Handling(s) : a = b
       /\ Outstanding(s) # {} => Handling(s) = {} /\ s \notin Range(sessions_queue)
       /\ Handling(s) # {} => s \notin Range(sessions_queue)
  /\ \A op \in live : op.kind = "close" => Idle(op.sess)

\* The answers a handler has not requested yet.
Sends(w) == {i \in DOMAIN todo[w] : todo[w][i].kind = "send"}

\* A buffer is about to be requested, is with the rings, or has been written.
Pending(b)  == \E w \in Workers : \E i \in Sends(w) : todo[w][i].buf = b
Writing(b)  == {op \in live : op.kind = "send" /\ op.buf = b}
Streamed(b) == \E c \in Conns : b \in Range(stream[c])

\* A message has left its connection; a completion reports it.
Received(m) == m[2] <= sent[m[1]] /\ m \notin Range(inbox[m[1]])
Reported(m) == {e \in Unseen : m \in Range(e.res.msgs)}

InboxInv ==
  /\ inbox \in [Conns -> Seq(Messages)]
  /\ \A c \in Conns :
       /\ IsInjective(inbox[c]) /\ Len(inbox[c]) <= sent[c]
       /\ \A m \in Range(inbox[c]) : m[1] = c /\ m[2] <= sent[c]

\* A message is in its connection, in one completion, or being answered.
MsgInv ==
  /\ \A e \in Unseen : IsInjective(e.res.msgs)
  /\ \A m \in Messages :
       /\ \A e, f \in Reported(m) : e = f
       /\ Reported(m) # {} => Received(m)
  /\ \A b \in Buffers : Pending(b) \/ Writing(b) # {} \/ Streamed(b)
                        => Received(b[1]) /\ Reported(b[1]) = {}

\* A buffer is in one handler's plan, in one operation, or written.
BufInv ==
  /\ \A w, v \in Workers : \A i \in Sends(w), j \in Sends(v) :
       todo[w][i].buf = todo[v][j].buf => w = v /\ i = j
  /\ \A b \in Buffers :
       /\ Pending(b) => Writing(b) = {} /\ ~Streamed(b)
       /\ \A o, p \in Writing(b) : o = p
       /\ \A o \in Writing(b) : o \notin Completed => ~Streamed(b)
  /\ stream \in [Conns -> Seq(Buffers)]
  /\ \A c \in Conns : IsInjective(stream[c])

\* What is prepared or with the kernel has its descriptor and connection.
SqeInv ==
  /\ DOMAIN sqe_fd \subseteq live \ Completed
  /\ DOMAIN file \subseteq live \ Completed
  /\ \A op \in DOMAIN sqe_fd : sqe_fd[op] \in Fds \cup {NULL}
  /\ \A op \in DOMAIN file : file[op] \in Conns \cup {NULL}
  /\ \A w \in Workers : /\ inflight[w] \subseteq DOMAIN file \cap DOMAIN sqe_fd
                        /\ \A i \in DOMAIN sq[w] : sq[w][i] \in DOMAIN sqe_fd

\* The types that no other part implies.
BootType ==
  /\ acceptor \in {"none", "listening", "deaf"}
  /\ booted \in 0 .. Backlog /\ started \in 0 .. ThreadCount
  /\ sessions_queue \in Seq(Sessions)
  /\ request_index \in Workers
  /\ socket_fd \in [Sessions -> Fds \cup {NULL}]

NetType ==
  /\ fd_table \in [Fds -> Conns \cup {NULL}]
  /\ shut \subseteq Conns
  /\ peer \in [Conns -> {"none", "up", "closed", "reset"}]
  /\ sent \in [Conns -> 0 .. MaxMessages]

ServiceInv ==
  /\ RingTypeOK /\ BootType /\ NetType /\ BootInv /\ PcInv /\ RefInv /\ TodoInv
  /\ SessInv /\ InboxInv /\ MsgInv /\ BufInv /\ SqeInv

\* The parts make up the type invariant.
LEMMA InvTypeOK == ServiceInv => TypeOK
<1> SUFFICES ASSUME ServiceInv PROVE TypeOK
  OBVIOUS
<1>1. ASSUME NEW w \in Workers, NEW i \in DOMAIN todo[w] PROVE todo[w][i] \in Calls
  BY ElementOfSeq, LenProperties DEF ServiceInv, TodoInv
<1>2. \A c \in Conns : inbox[c] \in Seq(Messages) /\ stream[c] \in Seq(Buffers)
  BY DEF ServiceInv, InboxInv, BufInv
<1>3. /\ \A op \in DOMAIN sqe_fd : op \in live /\ sqe_fd[op] \in Fds \cup {NULL}
      /\ \A op \in DOMAIN file : op \in live /\ file[op] \in Conns \cup {NULL}
  BY DEF ServiceInv, SqeInv
<1> QED
  BY <1>1, <1>2, <1>3 DEF ServiceInv, BootType, NetType, TypeOK, Calls

-----------------------------------------------------------------------------
(* Sessions.                                                               *)

\* The outstanding operations of a session, now and in the next state.
LEMMA OutstandingIs ==
  ASSUME NEW s
  PROVE  /\ Outstanding(s) = {op \in live \ Taken : /\ op.kind \in {"accept", "recv"}
                                                    /\ op.sess = s}
         /\ Outstanding(s)' = {op \in live' \ Taken' : /\ op.kind \in {"accept", "recv"}
                                                       /\ op.sess = s}
BY DEF Outstanding, Taken

\* Who handles the session, now and in the next state.
LEMMA HandlingIs ==
  ASSUME NEW s
  PROVE  /\ Handling(s) = {w \in Workers : \E i \in DOMAIN todo[w] : todo[w][i].sess = s}
         /\ Handling(s)' = {w \in Workers : \E i \in DOMAIN todo'[w] : todo'[w][i].sess = s}
BY DEF Handling

\* What does not touch the operations, the handlers and the pool.
LEMMA SessUnchanged ==
  ASSUME SessInv, UNCHANGED <<live, Taken, todo, sessions_queue>>
  PROVE  SessInv' /\ \A s \in Sessions : UNCHANGED <<Outstanding(s), Handling(s)>>
<1>1. ASSUME NEW s PROVE Outstanding(s)' = Outstanding(s) /\ Handling(s)' = Handling(s)
  <2>1. Outstanding(s)' = Outstanding(s)
    BY OutstandingIs
  <2>2. Handling(s)' = Handling(s)
    BY DEF Handling
  <2> QED
    BY <2>1, <2>2
<1>2. \A s : Idle(s)' = Idle(s)
  BY <1>1 DEF Idle
<1> QED
  BY <1>1, <1>2 DEF SessInv

\* The effect of taking a completion: the operation is not outstanding any
\* more, and its session is being handled if there is anything to do.
LEMMA TakeSession ==
  ASSUME NEW w \in Workers, NEW h \in Entries, TodoInv, todo[w] = <<>>,
         h.op \in live \ Taken, live' = live, Taken' = Taken \cup {h.op},
         todo' = [todo EXCEPT ![w] = Handler(h.op, h.res)], NEW s \in Sessions
  PROVE  /\ Outstanding(s)' = Outstanding(s) \ {h.op}
         /\ Handling(s)' = IF s = h.op.sess /\ Handler(h.op, h.res) # <<>>
                           THEN Handling(s) \cup {w} ELSE Handling(s)
         /\ h.op \in Outstanding(s) <=>
              s = h.op.sess /\ h.op.kind \in {"accept", "recv"}
<1> DEFINE q == Handler(h.op, h.res)
<1>0. h.op \in Ops /\ h.res \in Results
  BY DEF Entries
<1>1. /\ \A i \in DOMAIN q : q[i].sess \in {h.op.sess, NULL}
      /\ q # <<>> => 1 \in DOMAIN q /\ q[1].sess = h.op.sess
      /\ q = <<>> => DOMAIN q = {}
  BY <1>0, HandlerIs
<1>2. \A v \in Workers : todo'[v] = IF v = w THEN q ELSE todo[v]
  BY DEF TodoInv
<1> HIDE DEF q
<1>3. Outstanding(s)' = Outstanding(s) \ {h.op}
  BY OutstandingIs
<1>4. h.op \in Outstanding(s) <=> s = h.op.sess /\ h.op.kind \in {"accept", "recv"}
  BY OutstandingIs
<1>5. NULL # s /\ w \notin Handling(s)
  BY NullIsNone DEF Handling
<1>6. ASSUME NEW v \in Workers
      PROVE  v \in Handling(s)' <=>
               v \in Handling(s) \/ (v = w /\ s = h.op.sess /\ q # <<>>)
  <2>1. CASE v = w
    BY <1>1, <1>2, <1>5, <2>1, HandlingIs
  <2>2. CASE v # w
    BY <1>2, <2>2, HandlingIs
  <2> QED
    BY <2>1, <2>2
<1>7. Handling(s)' \subseteq Workers /\ Handling(s) \subseteq Workers
  BY HandlingIs
<1>8. Handling(s)' = IF s = h.op.sess /\ q # <<>> THEN Handling(s) \cup {w}
                                                  ELSE Handling(s)
  BY <1>6, <1>7
<1> QED
  BY <1>3, <1>4, <1>8 DEF q

\* The effect of a handler's next call on who handles a session.
LEMMA PopSession ==
  ASSUME NEW w \in Workers, TodoInv, todo[w] # <<>>,
         todo' = [todo EXCEPT ![w] = Tail(todo[w])], NEW s \in Sessions
  PROVE  /\ s # Head(todo[w]).sess => Handling(s)' = Handling(s)
         /\ s = Head(todo[w]).sess =>
              /\ w \in Handling(s)
              /\ Handling(s)' \in {Handling(s), Handling(s) \ {w}}
              /\ Head(todo[w]).kind \in {"recv", "close"} =>
                   Handling(s)' = Handling(s) \ {w}
<1> DEFINE q == todo[w]
           t == Tail(todo[w])
           r == Head(todo[w])
<1>1. \A v \in Workers : todo'[v] = IF v = w THEN t ELSE todo[v]
  BY DEF TodoInv
<1>2. Plan(q) /\ q # <<>>
  BY DEF TodoInv
<1>3. /\ r = q[1] /\ 1 \in DOMAIN q
      /\ \A i \in DOMAIN t : i + 1 \in DOMAIN q /\ t[i] = q[i + 1]
      /\ \A i \in DOMAIN q : i # 1 => \E j \in DOMAIN t : t[j] = q[i]
  BY <1>2, PlanTail
<1>4. Handling(s)' \subseteq Workers /\ Handling(s) \subseteq Workers
  BY HandlingIs
<1>5. \A v \in Workers : v # w => (v \in Handling(s)' <=> v \in Handling(s))
  BY <1>1, HandlingIs
<1>6. w \in Handling(s) <=> \E i \in DOMAIN q : q[i].sess = s
  BY HandlingIs
<1>7. w \in Handling(s)' <=> \E i \in DOMAIN t : t[i].sess = s
  <2>1. todo'[w] = t
    BY <1>1
  <2> HIDE DEF t
  <2> QED
    BY <2>1, HandlingIs
<1> HIDE DEF q, t, r
<1>8. s # r.sess => (w \in Handling(s)' <=> w \in Handling(s))
  BY <1>3, <1>6, <1>7
<1>9. s = r.sess => w \in Handling(s)
  BY <1>3, <1>6
<1>10. ASSUME r.kind \in {"recv", "close"} PROVE w \notin Handling(s)'
  <2> SUFFICES ASSUME NEW i \in DOMAIN t, t[i].sess = s PROVE FALSE
    BY <1>7
  <2>1. i + 1 \in DOMAIN q /\ t[i] = q[i + 1] /\ i + 1 > 1
    <3>1. q \in Seq(Calls)
      BY <1>2 DEF Plan
    <3>2. i + 1 \in DOMAIN q /\ t[i] = q[i + 1] /\ i \in DOMAIN t
      BY <1>3
    <3>3. t \in Seq(Calls)
      BY <1>2, PlanTail DEF t, q
    <3>4. i \in 1 .. Len(t) /\ Len(t) \in Nat
      BY <3>3, LenProperties
    <3> QED
      BY <3>2, <3>4
  <2>2. q[1].kind \in {"recv", "close"} /\ 1 \in DOMAIN q
    BY <1>3, <1>10
  <2>3. q[i + 1].kind = "accept_one"
    BY <1>2, <2>1, <2>2 DEF Plan
  <2>4. q[i + 1].sess = NULL
    BY <1>2, <2>1, <2>3 DEF Plan
  <2> QED
    BY <2>1, <2>4, NullIsNone
<1>11. \/ Handling(s)' = Handling(s)
       \/ Handling(s)' = Handling(s) \ {w} /\ w \in Handling(s)
  <2>1. w \in Handling(s)' => w \in Handling(s)
    BY <1>3, <1>6, <1>7
  <2> QED
    BY <1>4, <1>5, <2>1, SMTT(30)
<1>12. ASSUME s # r.sess PROVE Handling(s)' = Handling(s)
  <2>1. \A v \in Workers : v \in Handling(s)' <=> v \in Handling(s)
    BY <1>5, <1>8, <1>12
  <2> QED
    BY <1>4, <2>1
<1>13. r.kind \in {"recv", "close"} /\ s = r.sess => Handling(s)' = Handling(s) \ {w}
  BY <1>9, <1>10, <1>11
<1> QED
  BY <1>9, <1>11, <1>12, <1>13 DEF r

\* The effect of a new operation.
LEMMA OpAdded ==
  ASSUME NEW op, op \notin live, live' = live \cup {op}, Taken' = Taken, NEW s
  PROVE  Outstanding(s)' = IF op.kind \in {"accept", "recv"} /\ op.sess = s
                           THEN Outstanding(s) \cup {op} ELSE Outstanding(s)
<1>1. op \notin Taken
  BY DEF Taken
<1>2. live' \ Taken' = (live \ Taken) \cup {op}
  BY <1>1
<1>3. /\ Outstanding(s) = {o \in live \ Taken : o.kind \in {"accept", "recv"} /\ o.sess = s}
      /\ Outstanding(s)' = {o \in live' \ Taken' : o.kind \in {"accept", "recv"} /\ o.sess = s}
  BY OutstandingIs
<1>4. CASE op.kind \in {"accept", "recv"} /\ op.sess = s
  BY <1>2, <1>3, <1>4
<1>5. CASE ~(op.kind \in {"accept", "recv"} /\ op.sess = s)
  BY <1>2, <1>3, <1>5
<1> QED
  BY <1>4, <1>5

\* A request hands a fresh operation to a ring, or nothing happens.
LEMMA RequestEffect ==
  ASSUME TypeOK, RefInv, ~fault, NEW r \in Requests,
         \E n \in 1 .. MaxAlike : Alike(r, n) \notin live,
         RequestIO(r), UNCHANGED <<sq, inflight, cq, holding, pc, fault>>
  PROVE  /\ [RingNext]_ringVars /\ request_index' \in Workers
         /\ UNCHANGED <<Taken, Unseen>>
         /\ \/ UNCHANGED live
            \/ \E op \in Ops \ live :
                 /\ live' = live \cup {op}
                 /\ op.kind = r.kind /\ op.sess = r.sess /\ op.buf = r.buf
<1> DEFINE op == Fresh(r)
<1>0. RingTypeOK /\ request_index \in Workers
  BY DEF TypeOK
<1>1. /\ op \in Ops /\ op \notin live
      /\ op.kind = r.kind /\ op.sess = r.sess /\ op.buf = r.buf
  BY FreshIs
<1> HIDE DEF op
<1>2. Unseen' = Unseen
  BY DEF Unseen
<1>3. CASE PushRequest(request_index, op)
           /\ request_index' = (request_index + 1) % ThreadCount
  <2>1. live' = live \cup {op}
    BY <1>3 DEF PushRequest
  <2>2. Request(request_index, op)
    BY <1>1, <1>3 DEF Request
  <2>3. RingNext
    BY <1>0, <1>1, <2>2 DEF RingNext
  <2>4. Taken' = Taken
    <3>1. ASSUME NEW w \in Workers, holding[w] PROVE Head(cq[w]).op \in live
      <4>1. cq[w] # <<>>
        BY <1>0, <3>1 DEF RingTypeOK
      <4>2. Head(cq[w]) = cq[w][1] /\ 1 \in DOMAIN cq[w]
        BY <1>0, <4>1, CqIs
      <4> QED
        BY <1>0, <4>2, CompletedLive
    <3> QED
      BY <2>1, <3>1 DEF Taken
  <2>5. request_index' \in Workers
    <3>1. ThreadCount \in Nat \ {0} /\ Workers = 0 .. ThreadCount - 1
      BY ServiceAssumption
    <3>2. request_index + 1 \in Nat
      BY <1>0, <3>1
    <3> DEFINE k == request_index + 1
    <3> HIDE DEF k
    <3>3. k % ThreadCount \in 0 .. ThreadCount - 1
      BY <3>1, <3>2, DivMod DEF k
    <3> QED
      BY <1>3, <3>1, <3>3 DEF k
  <2> QED
    BY <1>1, <1>2, <2>1, <2>3, <2>4, <2>5
<1>4. CASE UNCHANGED <<live, request_queue, request_index>>
  BY <1>0, <1>2, <1>4 DEF ringVars, Taken
<1> QED
  BY <1>3, <1>4 DEF RequestIO, op

\* Taking a completion keeps the sessions exclusive.
LEMMA TakeSessInv ==
  ASSUME NEW w \in Workers, NEW h \in Entries, TodoInv, SessInv, todo[w] = <<>>,
         live \subseteq Ops, h.op \in live \ Taken, live' = live, Taken' = Taken \cup {h.op},
         todo' = [todo EXCEPT ![w] = Handler(h.op, h.res)],
         sessions_queue' = sessions_queue
  PROVE  SessInv'
<1> DEFINE q == Handler(h.op, h.res)
<1>0. h.op \in Ops /\ h.res \in Results /\ h.op.sess \in Sessions
  BY OperationIs DEF Entries
<1>1. q # <<>> => h.op.kind \in {"accept", "recv"}
  BY <1>0, HandlerIs
<1>2. ASSUME NEW s \in Sessions
      PROVE  /\ Outstanding(s)' = Outstanding(s) \ {h.op}
             /\ Handling(s)' = IF s = h.op.sess /\ q # <<>>
                               THEN Handling(s) \cup {w} ELSE Handling(s)
             /\ h.op \in Outstanding(s) <=>
                  s = h.op.sess /\ h.op.kind \in {"accept", "recv"}
  BY TakeSession
<1> HIDE DEF q
<1>3. ASSUME NEW s \in Sessions
      PROVE  /\ \A a, b \in Outstanding(s)' : a = b
             /\ \A a, b \in Handling(s)' : a = b
             /\ Outstanding(s)' # {} => Handling(s)' = {}
                                        /\ s \notin Range(sessions_queue)
             /\ Handling(s)' # {} => s \notin Range(sessions_queue)
             /\ Idle(s) => Idle(s)'
  <2>1. CASE s = h.op.sess /\ q # <<>>
    <3>1. h.op \in Outstanding(s)
      BY <1>1, <1>2, <2>1
    <3>2. Outstanding(s) = {h.op} /\ Handling(s) = {} /\ s \notin Range(sessions_queue)
      BY <3>1 DEF SessInv
    <3>3. Outstanding(s)' = {} /\ Handling(s)' = {w}
      BY <1>2, <2>1, <3>2
    <3> QED
      BY <3>1, <3>2, <3>3 DEF Idle
  <2>2. CASE ~(s = h.op.sess /\ q # <<>>)
    <3>1. Handling(s)' = Handling(s) /\ Outstanding(s)' \subseteq Outstanding(s)
      BY <1>2, <2>2
    <3> QED
      BY <3>1 DEF SessInv, Idle
  <2> QED
    BY <2>1, <2>2
<1>4. \A op \in live : op.kind = "close" => Idle(op.sess)'
  <2>1. ASSUME NEW op \in live, op.kind = "close" PROVE Idle(op.sess)'
    <3>1. Idle(op.sess)
      BY <2>1 DEF SessInv
    <3>2. op.sess \in Sessions
      BY OperationIs
    <3> QED
      BY <1>3, <3>1, <3>2
  <2> QED
    BY <2>1
<1> QED
  BY <1>3, <1>4 DEF SessInv

\* A session that is in the pool or in a handler has no outstanding operation,
\* so an operation for its next one is free.
LEMMA AcceptOrRecvFree ==
  ASSUME RingTypeOK, NEW r \in Requests, r.kind \in {"accept", "recv"},
         Outstanding(r.sess) = {}
  PROVE  \E n \in 1 .. MaxAlike : Alike(r, n) \notin live
<1>1. ASSUME NEW n \in 1 .. MaxAlike, Alike(r, n) \in live
      PROVE  Alike(r, n) \in Taken
  <2>1. Alike(r, n).kind \in {"accept", "recv"} /\ Alike(r, n).sess = r.sess
    BY AlikeIs
  <2>2. Alike(r, n) \notin Outstanding(r.sess)
    OBVIOUS
  <2> QED
    BY <1>1, <2>1, <2>2, OutstandingIs
<1> QED
  BY <1>1, FreshFound

\* Service::request_accept_one takes a session out of the pool for good, even
\* if no operation is acquired for it.
LEMMA AcceptOneEffect ==
  ASSUME TypeOK, RefInv, SessInv, ~fault, RequestAcceptOne,
         UNCHANGED <<sq, inflight, cq, holding, pc, fault>>
  PROVE  /\ [RingNext]_ringVars /\ request_index' \in Workers
         /\ UNCHANGED <<Taken, Unseen>>
         /\ sessions_queue' \in Seq(Sessions)
         /\ \/ UNCHANGED <<live, sessions_queue>>
            \/ \E s \in Sessions :
                 /\ s \in Range(sessions_queue)
                 /\ Range(sessions_queue') = Range(sessions_queue) \ {s}
                 /\ IsInjective(sessions_queue')
                 /\ \/ UNCHANGED live
                    \/ \E op \in Ops \ live :
                         /\ live' = live \cup {op}
                         /\ op.kind = "accept" /\ op.sess = s
<1>0. RingTypeOK /\ request_index \in Workers /\ sessions_queue \in Seq(Sessions)
  BY DEF TypeOK
<1>1. CASE sessions_queue = <<>>
  <2>1. UNCHANGED <<live, request_queue, sessions_queue, request_index>>
    BY <1>1 DEF RequestAcceptOne
  <2> QED
    BY <1>0, <2>1 DEF ringVars, Taken, Unseen
<1>2. CASE sessions_queue # <<>>
  <2> DEFINE s == Head(sessions_queue)
             r == Call("accept", s, NULL)
             t == Tail(sessions_queue)
  <2>1. RequestIO(r) /\ sessions_queue' = t
    BY <1>2 DEF RequestAcceptOne
  <2>2. /\ s \in Sessions /\ t \in Seq(Sessions)
        /\ s \in Range(sessions_queue) /\ Range(t) = Range(sessions_queue) \ {s}
        /\ IsInjective(t)
    BY <1>0, <1>2, HeadTailProperties, DistinctTail DEF SessInv
  <2>3. r \in Requests /\ r.kind = "accept" /\ r.sess = s
    BY <2>2 DEF Requests, Call
  <2> HIDE DEF s, r, t
  <2>4. Outstanding(s) = {}
    BY <2>2 DEF SessInv
  <2>5. \E n \in 1 .. MaxAlike : Alike(r, n) \notin live
    BY <1>0, <2>3, <2>4, AcceptOrRecvFree
  <2>6. /\ [RingNext]_ringVars /\ request_index' \in Workers
        /\ UNCHANGED <<Taken, Unseen>>
    BY <2>1, <2>3, <2>5, RequestEffect
  <2>7. \/ UNCHANGED live
        \/ \E op \in Ops \ live : /\ live' = live \cup {op}
                                  /\ op.kind = "accept" /\ op.sess = s
    BY <2>1, <2>3, <2>5, RequestEffect
  <2> QED
    BY <2>1, <2>2, <2>6, <2>7
<1> QED
  BY <1>1, <1>2

\* It keeps the sessions exclusive.
LEMMA AcceptOneSessInv ==
  ASSUME SessInv, live \subseteq Ops, Taken' = Taken,
         \A s \in Sessions : Handling(s)' = Handling(s), NEW s \in Sessions,
         s \in Range(sessions_queue),
         Range(sessions_queue') = Range(sessions_queue) \ {s},
         IsInjective(sessions_queue'),
         \/ UNCHANGED live
         \/ \E op \in Ops \ live : /\ live' = live \cup {op}
                                   /\ op.kind = "accept" /\ op.sess = s
  PROVE  SessInv'
<1>1. \A t \in Sessions \ {s} : Outstanding(t)' = Outstanding(t)
  <2> SUFFICES ASSUME NEW t \in Sessions \ {s} PROVE Outstanding(t)' = Outstanding(t)
    OBVIOUS
  <2>1. CASE UNCHANGED live
    BY <2>1, OutstandingIs
  <2>2. ASSUME NEW op \in Ops \ live, live' = live \cup {op}, op.sess = s
        PROVE  Outstanding(t)' = Outstanding(t)
    BY <2>2, OpAdded
  <2> QED
    BY <2>1, <2>2
<1>2. Outstanding(s) = {} /\ Handling(s) = {}
  BY DEF SessInv
<1>3. \A a, b \in Outstanding(s)' : a = b
  <2>1. CASE UNCHANGED live
    BY <1>2, <2>1, OutstandingIs
  <2>2. ASSUME NEW op \in Ops \ live, live' = live \cup {op}, op.sess = s
        PROVE  \A a, b \in Outstanding(s)' : a = b
    <3>1. Outstanding(s)' \subseteq {op}
      BY <1>2, <2>2, OpAdded
    <3> QED
      BY <3>1
  <2> QED
    BY <2>1, <2>2
<1>4. ASSUME NEW op \in live', op.kind = "close" PROVE Idle(op.sess)'
  <2>1. op \in live
    BY <1>4
  <2>2. op.sess \in Sessions /\ Idle(op.sess)
    BY <1>4, <2>1, OperationIs DEF SessInv
  <2>3. op.sess # s
    BY <2>2 DEF Idle
  <2> QED
    BY <1>1, <2>2, <2>3 DEF Idle
<1>5. ASSUME NEW t \in Sessions
      PROVE  /\ \A a, b \in Outstanding(t)' : a = b
             /\ \A a, b \in Handling(t)' : a = b
             /\ Outstanding(t)' # {} => Handling(t)' = {}
                                        /\ t \notin Range(sessions_queue')
             /\ Handling(t)' # {} => t \notin Range(sessions_queue')
  <2>1. CASE t = s
    BY <1>2, <1>3, <2>1
  <2>2. CASE t # s
    BY <1>1, <2>2 DEF SessInv
  <2> QED
    BY <2>1, <2>2
<1> QED
  BY <1>4, <1>5 DEF SessInv

\* A handler's next call, other than for another accept, is a request that a
\* free operation is found for.
LEMMA CallFree ==
  ASSUME RingTypeOK, TodoInv, SessInv, BufInv, NEW w \in Workers, todo[w] # <<>>,
         Head(todo[w]).kind # "accept_one"
  PROVE  /\ Head(todo[w]) \in Requests /\ Head(todo[w]).kind # "accept"
         /\ \E n \in 1 .. MaxAlike : Alike(Head(todo[w]), n) \notin live
<1> DEFINE r == Head(todo[w])
<1>1. Plan(todo[w]) /\ todo[w][1] = r /\ 1 \in DOMAIN todo[w] /\ r \in Calls
  BY PlanTail DEF TodoInv
<1> HIDE DEF r
<1>2. /\ r.kind \in {"recv", "send", "close"} /\ r.sess \in Sessions
      /\ IF r.kind = "send" THEN r.buf \in Buffers ELSE r.buf = NULL
  BY <1>1 DEF Plan, Calls, r
<1>3. r \in Requests
  BY <1>1, <1>2 DEF Calls, Requests
<1>4. w \in Handling(r.sess)
  BY <1>1, HandlingIs
<1>5. CASE r.kind = "recv"
  <2>1. Outstanding(r.sess) = {}
    BY <1>2, <1>4 DEF SessInv
  <2> QED
    BY <1>2, <1>3, <1>5, <2>1, AcceptOrRecvFree DEF r
<1>6. 1 \in 1 .. MaxAlike
  BY ServiceAssumption DEF MaxAlike
<1>7. CASE r.kind = "close"
  <2>1. ASSUME Alike(r, 1) \in live PROVE FALSE
    <3>1. Alike(r, 1).kind = "close" /\ Alike(r, 1).sess = r.sess
      BY <1>3, <1>6, <1>7, AlikeIs
    <3>2. Idle(r.sess)
      BY <2>1, <3>1 DEF SessInv
    <3> QED
      BY <1>4, <3>2 DEF Idle
  <2> QED
    BY <1>2, <1>3, <1>6, <2>1 DEF r
<1>8. CASE r.kind = "send"
  <2>1. Pending(r.buf) /\ r.buf \in Buffers
    BY <1>1, <1>2, <1>8 DEF Pending, Sends
  <2>2. Writing(r.buf) = {}
    BY <2>1 DEF BufInv
  <2>3. ASSUME Alike(r, 1) \in live PROVE FALSE
    <3>1. Alike(r, 1).kind = "send" /\ Alike(r, 1).buf = r.buf
      BY <1>3, <1>6, <1>8, AlikeIs
    <3> QED
      BY <2>2, <2>3, <3>1 DEF Writing
  <2> QED
    BY <1>2, <1>3, <1>6, <2>3 DEF r
<1> QED
  BY <1>2, <1>5, <1>7, <1>8

\* Such a call keeps the sessions exclusive.
LEMMA CallSessInv ==
  ASSUME SessInv, TodoInv, live \subseteq Ops, Taken' = Taken,
         sessions_queue' = sessions_queue,
         NEW w \in Workers, todo[w] # <<>>,
         todo' = [todo EXCEPT ![w] = Tail(todo[w])],
         Head(todo[w]) \in Requests, Head(todo[w]).kind # "accept",
         \/ UNCHANGED live
         \/ \E op \in Ops \ live :
              /\ live' = live \cup {op}
              /\ op.kind = Head(todo[w]).kind /\ op.sess = Head(todo[w]).sess
  PROVE  SessInv'
<1> DEFINE r == Head(todo[w])
           s == r.sess
<1>0. s \in Sessions /\ r.kind \in {"recv", "send", "close"}
  BY DEF Requests
<1>1. ASSUME NEW t \in Sessions
      PROVE  /\ t # s => Handling(t)' = Handling(t)
             /\ t = s => /\ w \in Handling(t)
                         /\ Handling(t)' \in {Handling(t), Handling(t) \ {w}}
                         /\ r.kind \in {"recv", "close"} =>
                              Handling(t)' = Handling(t) \ {w}
  BY PopSession
<1> HIDE DEF r
<1>2. /\ Handling(s) = {w} /\ Outstanding(s) = {} /\ s \notin Range(sessions_queue)
  BY <1>0, <1>1 DEF SessInv
<1>3. ASSUME NEW t \in Sessions
      PROVE  \/ Outstanding(t)' = Outstanding(t)
             \/ t = s /\ r.kind = "recv" /\ \E op : Outstanding(t)' = {op}
  <2>1. CASE UNCHANGED live
    BY <2>1, OutstandingIs
  <2>2. ASSUME NEW op \in Ops \ live, live' = live \cup {op}, op.sess = s,
               op.kind = r.kind
        PROVE  \/ Outstanding(t)' = Outstanding(t)
               \/ t = s /\ r.kind = "recv" /\ Outstanding(t)' = {op}
    <3>1. Outstanding(t)' = IF op.kind \in {"accept", "recv"} /\ op.sess = t
                            THEN Outstanding(t) \cup {op} ELSE Outstanding(t)
      BY <2>2, OpAdded
    <3> QED
      BY <1>0, <1>2, <2>2, <3>1
  <2> QED
    BY <2>1, <2>2 DEF r
<1>4. ASSUME NEW t \in Sessions
      PROVE  /\ \A a, b \in Outstanding(t)' : a = b
             /\ \A a, b \in Handling(t)' : a = b
             /\ Outstanding(t)' # {} => Handling(t)' = {}
                                        /\ t \notin Range(sessions_queue)
             /\ Handling(t)' # {} => t \notin Range(sessions_queue)
             /\ Idle(t) => Idle(t)'
  <2>1. CASE t # s
    BY <1>1, <1>3, <2>1 DEF SessInv, Idle
  <2>2. CASE t = s /\ Outstanding(t)' = Outstanding(t)
    <3>1. Handling(t)' \subseteq {w} /\ Outstanding(t)' = {}
      BY <1>1, <1>2, <2>2
    <3> QED
      BY <1>2, <2>2, <3>1 DEF Idle
  <2>3. CASE t = s /\ r.kind = "recv" /\ \E op : Outstanding(t)' = {op}
    <3>1. Handling(t)' = {}
      BY <1>1, <1>2, <2>3
    <3> QED
      BY <1>2, <2>3, <3>1 DEF Idle
  <2> QED
    BY <1>3, <2>1, <2>2, <2>3
<1>5. ASSUME NEW op \in live', op.kind = "close" PROVE Idle(op.sess)'
  <2>1. CASE op \in live
    BY <1>4, <1>5, <2>1, OperationIs DEF SessInv
  <2>2. CASE op \notin live
    <3>1. op.kind = r.kind /\ op.sess = s
      BY <1>5, <2>2 DEF r
    <3> DEFINE t == op.sess
    <3>2. t \in Sessions /\ t = s /\ r.kind = "close"
      BY <1>0, <1>5, <3>1
    <3> HIDE DEF t, s
    <3>3. Handling(t)' = Handling(t) \ {w} /\ Handling(t) = {w}
      BY <1>1, <1>2, <3>2
    <3>4. Outstanding(t)' = {}
      BY <1>2, <1>3, <3>2
    <3>5. t \notin Range(sessions_queue')
      BY <1>2, <3>2
    <3>6. Idle(t)'
      BY <3>3, <3>4, <3>5 DEF Idle
    <3> QED
      BY <3>6 DEF t
  <2> QED
    BY <2>1, <2>2
<1> QED
  BY <1>4, <1>5 DEF SessInv

\* Giving an operation back keeps the sessions exclusive.
LEMMA RetireSessInv ==
  ASSUME SessInv, NEW op \in Taken, live' = live \ {op}, Taken' = Taken \ {op},
         UNCHANGED <<todo, sessions_queue>>
  PROVE  SessInv' /\ \A s \in Sessions : UNCHANGED <<Outstanding(s), Handling(s)>>
<1>1. live' \ Taken' = live \ Taken
  BY DEF Taken
<1>2. ASSUME NEW s PROVE Outstanding(s)' = Outstanding(s) /\ Handling(s)' = Handling(s)
  <2>1. Outstanding(s)' = Outstanding(s)
    BY <1>1, OutstandingIs
  <2>2. Handling(s)' = Handling(s)
    BY DEF Handling
  <2> QED
    BY <2>1, <2>2
<1>3. \A s : Idle(s)' = Idle(s)
  BY <1>2 DEF Idle
<1> QED
  BY <1>2, <1>3 DEF SessInv

-----------------------------------------------------------------------------
(* Messages and buffers.                                                   *)

\* No buffer is in two plans or twice in one.
PlansApart ==
  \A w, v \in Workers : \A i \in Sends(w), j \in Sends(v) :
    todo[w][i].buf = todo[v][j].buf => w = v /\ i = j

\* The buffer of an answer belongs to a message.
LEMMA BufferIs == \A b \in Buffers : b[1] \in Messages
BY DEF Buffers

\* What does not touch the operations, the handlers and the connections.
LEMMA BuffersUnchanged ==
  ASSUME MsgInv, BufInv, InboxInv,
         UNCHANGED <<live, Taken, Unseen, todo, sent, inbox, stream>>
  PROVE  MsgInv' /\ BufInv' /\ InboxInv'
<1>1. Completed' = Completed
  BY DEF Completed
<1>2. \A w : Sends(w)' = Sends(w)
  BY DEF Sends
<1>3. \A b : /\ Pending(b)' = Pending(b) /\ Writing(b)' = Writing(b)
             /\ Streamed(b)' = Streamed(b)
  BY <1>2 DEF Pending, Writing, Streamed
<1>4. \A m : Received(m)' = Received(m) /\ Reported(m)' = Reported(m)
  BY DEF Received, Reported
<1>5. MsgInv'
  BY <1>3, <1>4 DEF MsgInv
<1>6. BufInv'
  BY <1>1, <1>2, <1>3 DEF BufInv
<1> QED
  BY <1>5, <1>6 DEF InboxInv

\* The answers to the messages of a completion are planned.
LEMMA TakeBuffers ==
  ASSUME NEW w \in Workers, NEW h \in Entries, TodoInv, todo[w] = <<>>,
         MsgInv, BufInv, h \in Unseen,
         \A e \in Unseen : e.op = h.op => e = h,
         live' = live, Unseen' = Unseen \ {h}, Taken' = Taken \cup {h.op},
         todo' = [todo EXCEPT ![w] = Handler(h.op, h.res)],
         UNCHANGED <<sent, inbox, stream>>
  PROVE  MsgInv' /\ BufInv'
<1> DEFINE q == Handler(h.op, h.res)
<1>0. h.op \in Ops /\ h.res \in Results
  BY DEF Entries
<1>1. /\ Plan(q) /\ IsInjective(h.res.msgs)
      /\ \A i \in DOMAIN q : q[i].kind = "send" => q[i].buf[1] \in Range(h.res.msgs)
      /\ \A i, j \in DOMAIN q : /\ q[i].kind = "send" /\ q[j].kind = "send"
                                /\ q[i].buf = q[j].buf
                                => i = j
  BY <1>0, HandlerIs DEF MsgInv
<1>2. todo'[w] = q /\ \A v \in Workers : v # w => todo'[v] = todo[v]
  BY DEF TodoInv
<1> HIDE DEF q
<1>3. ASSUME NEW i \in Sends(w)'
      PROVE  /\ i \in DOMAIN q /\ q[i].kind = "send" /\ q[i].buf \in Buffers
             /\ todo'[w][i] = q[i] /\ h \in Reported(q[i].buf[1])
             /\ ~Pending(q[i].buf) /\ Writing(q[i].buf) = {} /\ ~Streamed(q[i].buf)
             /\ Received(q[i].buf[1]) /\ Reported(q[i].buf[1]) = {h}
  <2>1. i \in DOMAIN q /\ q[i].kind = "send" /\ todo'[w][i] = q[i]
    BY <1>2, <1>3 DEF Sends
  <2>2. q[i].buf \in Buffers /\ q[i].buf[1] \in Range(h.res.msgs)
    BY <1>1, <2>1 DEF Plan
  <2> DEFINE b == q[i].buf
  <2> HIDE DEF b
  <2>3. b \in Buffers /\ b[1] \in Messages /\ h \in Reported(b[1])
    BY <2>2, BufferIs DEF Reported, b
  <2>4. ~Pending(b) /\ Writing(b) = {} /\ ~Streamed(b)
    BY <2>3 DEF MsgInv
  <2>5. Received(b[1]) /\ Reported(b[1]) = {h}
    BY <2>3 DEF MsgInv
  <2> QED
    BY <2>1, <2>3, <2>4, <2>5 DEF b
<1>4. \A v \in Workers : v # w => Sends(v)' = Sends(v)
  BY <1>2 DEF Sends
<1>5. PlansApart'
  <2> SUFFICES ASSUME NEW u \in Workers, NEW v \in Workers,
                      NEW i \in Sends(u)', NEW j \in Sends(v)',
                      todo'[u][i].buf = todo'[v][j].buf
               PROVE  u = v /\ i = j
    BY DEF PlansApart
  <2>1. CASE u = w /\ v = w
    BY <1>1, <1>3, <2>1
  <2>2. CASE u = w /\ v # w
    <3>1. j \in Sends(v) /\ todo[v][j].buf = todo'[w][i].buf
      BY <1>2, <1>4, <2>2
    <3>2. Pending(todo'[w][i].buf)
      BY <3>1 DEF Pending
    <3> QED
      BY <1>3, <2>2, <3>2
  <2>3. CASE u # w /\ v = w
    <3>1. i \in Sends(u) /\ todo[u][i].buf = todo'[w][j].buf
      BY <1>2, <1>4, <2>3
    <3>2. Pending(todo'[w][j].buf)
      BY <3>1 DEF Pending
    <3> QED
      BY <1>3, <2>3, <3>2
  <2>4. CASE u # w /\ v # w
    BY <1>2, <1>4, <2>4 DEF BufInv
  <2> QED
    BY <2>1, <2>2, <2>3, <2>4
<1>6. ASSUME NEW b \in Buffers
      PROVE  /\ Writing(b)' = Writing(b) /\ Streamed(b)' = Streamed(b)
             /\ Pending(b)' => \/ Pending(b)
                               \/ /\ Writing(b) = {} /\ ~Streamed(b)
                                  /\ Received(b[1]) /\ Reported(b[1]) = {h}
  <2>1. Writing(b)' = Writing(b) /\ Streamed(b)' = Streamed(b)
    BY DEF Writing, Streamed
  <2>2. ASSUME Pending(b)'
        PROVE  \/ Pending(b)
               \/ /\ Writing(b) = {} /\ ~Streamed(b)
                  /\ Received(b[1]) /\ Reported(b[1]) = {h}
    <3>1. PICK v \in Workers : \E i \in Sends(v)' : todo'[v][i].buf = b
      BY <2>2 DEF Pending
    <3>2. PICK i \in Sends(v)' : todo'[v][i].buf = b
      BY <3>1
    <3>3. CASE v = w
      BY <1>3, <3>2, <3>3
    <3>4. CASE v # w
      BY <1>2, <1>4, <3>2, <3>4 DEF Pending
    <3> QED
      BY <3>3, <3>4
  <2> QED
    BY <2>1, <2>2
<1>7. \A m : Reported(m)' = Reported(m) \ {h} /\ Received(m)' = Received(m)
  BY DEF Reported, Received
<1>8. Completed' = Completed
  <2>1. ASSUME NEW o PROVE o \in Completed' <=> o \in Completed
    <3>1. o \in Completed' <=> o \in Taken' \/ \E e \in Unseen' : o = e.op
      BY DEF Completed
    <3>2. o \in Completed <=> o \in Taken \/ \E e \in Unseen : o = e.op
      BY DEF Completed
    <3> QED
      BY <3>1, <3>2
  <2> QED
    BY <2>1
<1>9. MsgInv'
  <2>1. \A e \in Unseen' : IsInjective(e.res.msgs)
    BY DEF MsgInv
  <2>2. ASSUME NEW m \in Messages
        PROVE  /\ \A e, f \in Reported(m)' : e = f
               /\ Reported(m)' # {} => Received(m)'
    BY <1>7 DEF MsgInv
  <2>3. ASSUME NEW b \in Buffers, Pending(b)' \/ Writing(b)' # {} \/ Streamed(b)'
        PROVE  Received(b[1])' /\ Reported(b[1])' = {}
    <3>1. Received(b[1]) /\ Reported(b[1]) \subseteq {h}
      BY <1>6, <2>3 DEF MsgInv
    <3> QED
      BY <1>7, <3>1
  <2> QED
    BY <2>1, <2>2, <2>3 DEF MsgInv
<1>10. BufInv'
  <2>1. ASSUME NEW b \in Buffers
        PROVE  /\ Pending(b)' => Writing(b)' = {} /\ ~Streamed(b)'
               /\ \A o, p \in Writing(b)' : o = p
               /\ \A o \in Writing(b)' : o \notin Completed' => ~Streamed(b)'
    BY <1>6, <1>8 DEF BufInv
  <2>2. stream' \in [Conns -> Seq(Buffers)] /\ \A c \in Conns : IsInjective(stream'[c])
    BY DEF BufInv
  <2> QED
    BY <1>5, <2>1, <2>2 DEF BufInv, PlansApart
<1> QED
  BY <1>9, <1>10

\* A handler's next call takes a buffer out of its plan.
LEMMA PopPlans ==
  ASSUME NEW w \in Workers, TodoInv, BufInv, todo[w] # <<>>,
         todo' = [todo EXCEPT ![w] = Tail(todo[w])]
  PROVE  /\ PlansApart' /\ \A b \in Buffers : Pending(b)' => Pending(b)
         /\ \A b \in Buffers : Head(todo[w]).kind = "send" /\ Head(todo[w]).buf = b
                               => Pending(b) /\ ~Pending(b)'
<1> DEFINE q == todo[w]
           t == Tail(todo[w])
           r == Head(todo[w])
<1>1. todo'[w] = t /\ \A v \in Workers : v # w => todo'[v] = todo[v]
  BY DEF TodoInv
<1>2. Plan(q) /\ q # <<>>
  BY DEF TodoInv
<1>3. /\ r = q[1] /\ 1 \in DOMAIN q
      /\ \A i \in DOMAIN t : i + 1 \in DOMAIN q /\ t[i] = q[i + 1]
      /\ t \in Seq(Calls)
  BY <1>2, PlanTail
<1>4. \A i \in DOMAIN t : i \in Nat \ {0}
  BY <1>3, LenProperties
<1> HIDE DEF t, r
<1>5. ASSUME NEW v \in Workers, NEW i \in Sends(v)'
      PROVE  /\ v = w => /\ i + 1 \in Sends(w) /\ todo'[v][i] = todo[w][i + 1]
                         /\ i \in Nat \ {0}
             /\ v # w => i \in Sends(v) /\ todo'[v][i] = todo[v][i]
  BY <1>1, <1>3, <1>4, <1>5 DEF Sends
<1>6. PlansApart
  BY DEF PlansApart, BufInv
<1>7. PlansApart'
  <2> SUFFICES ASSUME NEW u \in Workers, NEW v \in Workers,
                      NEW i \in Sends(u)', NEW j \in Sends(v)',
                      todo'[u][i].buf = todo'[v][j].buf
               PROVE  u = v /\ i = j
    BY DEF PlansApart
  <2>1. CASE u = w /\ v = w
    <3>1. /\ i + 1 \in Sends(w) /\ j + 1 \in Sends(w) /\ i \in Nat /\ j \in Nat
          /\ todo[w][i + 1].buf = todo[w][j + 1].buf
      BY <1>5, <2>1
    <3>2. i + 1 = j + 1
      BY <1>6, <3>1 DEF PlansApart
    <3> QED
      BY <2>1, <3>1, <3>2
  <2>2. CASE u = w /\ v # w
    <3>1. /\ i + 1 \in Sends(w) /\ j \in Sends(v)
          /\ todo[w][i + 1].buf = todo[v][j].buf
      BY <1>5, <2>2
    <3> QED
      BY <1>6, <2>2, <3>1 DEF PlansApart
  <2>3. CASE u # w /\ v = w
    <3>1. /\ i \in Sends(u) /\ j + 1 \in Sends(w)
          /\ todo[u][i].buf = todo[w][j + 1].buf
      BY <1>5, <2>3
    <3> QED
      BY <1>6, <2>3, <3>1 DEF PlansApart
  <2>4. CASE u # w /\ v # w
    BY <1>5, <1>6, <2>4 DEF PlansApart
  <2> QED
    BY <2>1, <2>2, <2>3, <2>4
<1>8. ASSUME NEW b, Pending(b)'
      PROVE  \E v \in Workers : \E i \in Sends(v) :
               todo[v][i].buf = b /\ ~(v = w /\ i = 1)
  <2>1. PICK v \in Workers : \E i \in Sends(v)' : todo'[v][i].buf = b
    BY <1>8 DEF Pending
  <2>2. PICK i \in Sends(v)' : todo'[v][i].buf = b
    BY <2>1
  <2>3. CASE v = w
    <3>1. i + 1 \in Sends(w) /\ todo'[v][i] = todo[w][i + 1] /\ i \in Nat \ {0}
      BY <1>5, <2>3
    <3>2. todo[w][i + 1].buf = b
      BY <2>2, <3>1
    <3>3. \A k \in Nat \ {0} : k + 1 # 1
      OBVIOUS
    <3>4. i + 1 # 1
      BY <3>1, <3>3
    <3> QED
      BY <3>1, <3>2, <3>4
  <2>4. CASE v # w
    BY <1>5, <2>2, <2>4
  <2> QED
    BY <2>3, <2>4
<1>9. ASSUME NEW b \in Buffers, r.kind = "send", r.buf = b
      PROVE  Pending(b) /\ ~Pending(b)'
  <2>1. 1 \in Sends(w) /\ todo[w][1].buf = b
    BY <1>3, <1>9 DEF Sends
  <2>2. Pending(b)
    BY <2>1 DEF Pending
  <2>3. ASSUME Pending(b)' PROVE FALSE
    <3>1. PICK v \in Workers : \E i \in Sends(v) :
            todo[v][i].buf = b /\ ~(v = w /\ i = 1)
      BY <1>8, <2>3
    <3> QED
      BY <1>6, <2>1, <3>1 DEF PlansApart
  <2> QED
    BY <2>2, <2>3
<1> QED
  BY <1>7, <1>8, <1>9 DEF Pending, r

\* A new operation writes at most a buffer that leaves a plan.
LEMMA RequestBuffers ==
  ASSUME MsgInv, BufInv, PlansApart', \A b \in Buffers : Pending(b)' => Pending(b),
         UNCHANGED <<Taken, Unseen, sent, inbox, stream>>,
         \/ UNCHANGED live
         \/ \E op \in Ops \ live :
              /\ live' = live \cup {op}
              /\ op.kind = "send" => Pending(op.buf) /\ ~Pending(op.buf)'
  PROVE  MsgInv' /\ BufInv'
<1>1. /\ Completed' = Completed
      /\ \A m : Received(m)' = Received(m) /\ Reported(m)' = Reported(m)
      /\ \A b : Streamed(b)' = Streamed(b)
  BY DEF Completed, Received, Reported, Streamed
<1>2. ASSUME NEW b \in Buffers
      PROVE  \/ Writing(b)' = Writing(b)
             \/ /\ Pending(b) /\ ~Pending(b)' /\ \E op : Writing(b)' = {op}
                /\ Writing(b) = {} /\ ~Streamed(b)
  <2>1. CASE UNCHANGED live
    BY <2>1 DEF Writing
  <2>2. ASSUME NEW op \in Ops \ live, live' = live \cup {op},
               op.kind = "send" => Pending(op.buf) /\ ~Pending(op.buf)'
        PROVE  \/ Writing(b)' = Writing(b)
               \/ /\ Pending(b) /\ ~Pending(b)' /\ Writing(b)' = {op}
                  /\ Writing(b) = {} /\ ~Streamed(b)
    <3>1. CASE op.kind = "send" /\ op.buf = b
      <4>1. Pending(b) /\ ~Pending(b)' /\ Writing(b) = {} /\ ~Streamed(b)
        BY <2>2, <3>1 DEF BufInv
      <4>2. Writing(b)' = Writing(b) \cup {op}
        BY <2>2, <3>1 DEF Writing
      <4> QED
        BY <4>1, <4>2
    <3>2. CASE ~(op.kind = "send" /\ op.buf = b)
      BY <2>2, <3>2 DEF Writing
    <3> QED
      BY <3>1, <3>2
  <2> QED
    BY <2>1, <2>2
<1>3. MsgInv'
  <2>1. \A b \in Buffers : Pending(b)' \/ Writing(b)' # {} \/ Streamed(b)'
                           => Received(b[1])' /\ Reported(b[1])' = {}
    BY <1>1, <1>2 DEF MsgInv
  <2>2. /\ \A e \in Unseen' : IsInjective(e.res.msgs)
        /\ \A m \in Messages : /\ \A e, f \in Reported(m)' : e = f
                               /\ Reported(m)' # {} => Received(m)'
    BY <1>1 DEF MsgInv
  <2> QED
    BY <2>1, <2>2 DEF MsgInv
<1>4. BufInv'
  <2>1. ASSUME NEW b \in Buffers
        PROVE  /\ Pending(b)' => Writing(b)' = {} /\ ~Streamed(b)'
               /\ \A o, p \in Writing(b)' : o = p
               /\ \A o \in Writing(b)' : o \notin Completed' => ~Streamed(b)'
    <3>1. CASE Writing(b)' = Writing(b)
      BY <1>1, <3>1 DEF BufInv
    <3>2. CASE /\ ~Pending(b)' /\ \E op : Writing(b)' = {op} /\ ~Streamed(b)
      BY <1>1, <3>2
    <3> QED
      BY <1>2, <3>1, <3>2
  <2>2. stream' \in [Conns -> Seq(Buffers)] /\ \A c \in Conns : IsInjective(stream'[c])
    BY DEF BufInv
  <2> QED
    BY <2>1, <2>2 DEF BufInv, PlansApart
<1> QED
  BY <1>3, <1>4

\* An operation goes back to the pool when its buffer has been written or given
\* up.
LEMMA RetireBuffers ==
  ASSUME MsgInv, BufInv, NEW op \in Taken, \A e \in Unseen : e.op # op,
         live' = live \ {op}, Taken' = Taken \ {op},
         UNCHANGED <<Unseen, todo, sent, inbox, stream>>
  PROVE  MsgInv' /\ BufInv'
<1>1. Completed' = Completed \ {op}
  BY DEF Completed
<1>2. \A w : Sends(w)' = Sends(w)
  BY DEF Sends
<1>3. /\ \A m : Received(m)' = Received(m) /\ Reported(m)' = Reported(m)
      /\ \A b : Streamed(b)' = Streamed(b) /\ Pending(b)' = Pending(b)
  BY <1>2 DEF Received, Reported, Streamed, Pending
<1>4. \A b : Writing(b)' = Writing(b) \ {op}
  BY DEF Writing
<1>5. MsgInv'
  BY <1>3, <1>4 DEF MsgInv
<1>6. BufInv'
  <2>1. ASSUME NEW b \in Buffers
        PROVE  /\ Pending(b)' => Writing(b)' = {} /\ ~Streamed(b)'
               /\ \A o, p \in Writing(b)' : o = p
               /\ \A o \in Writing(b)' : o \notin Completed' => ~Streamed(b)'
    BY <1>1, <1>3, <1>4 DEF BufInv
  <2> QED
    BY <1>2, <2>1 DEF BufInv
<1> QED
  BY <1>5, <1>6

\* A completion that reports no message and writes nothing.
LEMMA CompleteNoMessage ==
  ASSUME MsgInv, BufInv, InboxInv, NEW e \in Entries, e.res.msgs = <<>>,
         Unseen' = Unseen \cup {e}, UNCHANGED <<live, Taken, todo, sent, inbox, stream>>
  PROVE  MsgInv' /\ BufInv' /\ InboxInv'
<1>1. Completed' = Completed \cup {e.op}
  BY DEF Completed
<1>2. \A w : Sends(w)' = Sends(w)
  BY DEF Sends
<1>3. /\ \A m : Received(m)' = Received(m)
      /\ \A b : /\ Streamed(b)' = Streamed(b) /\ Pending(b)' = Pending(b)
                /\ Writing(b)' = Writing(b)
  BY <1>2 DEF Received, Streamed, Pending, Writing
<1>4. IsInjective(e.res.msgs) /\ Range(e.res.msgs) = {}
  BY DistinctEmpty
<1>5. \A m : Reported(m)' = Reported(m)
  BY <1>4 DEF Reported
<1>6. MsgInv'
  <2>1. \A x \in Unseen' : IsInjective(x.res.msgs)
    BY <1>4 DEF MsgInv
  <2> QED
    BY <1>3, <1>5, <2>1 DEF MsgInv
<1>7. BufInv'
  BY <1>1, <1>2, <1>3 DEF BufInv
<1> QED
  BY <1>6, <1>7 DEF InboxInv

\* A buffer is written.
LEMMA CompleteSendBuffers ==
  ASSUME MsgInv, BufInv, InboxInv, NEW e \in Entries, e.res.msgs = <<>>,
         e.op \in live \ Completed, e.op.kind = "send", NEW c \in Conns,
         Unseen' = Unseen \cup {e},
         stream' = [stream EXCEPT ![c] = Append(stream[c], e.op.buf)],
         UNCHANGED <<live, Taken, todo, sent, inbox>>
  PROVE  MsgInv' /\ BufInv' /\ InboxInv'
<1> DEFINE b0 == e.op.buf
           t == Append(stream[c], b0)
<1>0. e.op \in Ops /\ b0 \in Buffers /\ stream[c] \in Seq(Buffers)
  BY OperationIs DEF Entries, BufInv
<1>1. Completed' = Completed \cup {e.op}
  BY DEF Completed
<1>2. \A w : Sends(w)' = Sends(w)
  BY DEF Sends
<1>3. /\ \A m : Received(m)' = Received(m)
      /\ \A b : Pending(b)' = Pending(b) /\ Writing(b)' = Writing(b)
  BY <1>2 DEF Received, Pending, Writing
<1>4. IsInjective(e.res.msgs) /\ Range(e.res.msgs) = {}
  BY DistinctEmpty
<1>5. \A m : Reported(m)' = Reported(m)
  BY <1>4 DEF Reported
<1>6. e.op \in Writing(b0) /\ ~Streamed(b0) /\ ~Pending(b0) /\ Writing(b0) = {e.op}
  <2>1. e.op \in Writing(b0)
    BY DEF Writing
  <2> HIDE DEF b0
  <2> QED
    BY <1>0, <2>1 DEF BufInv
<1>7. /\ t \in Seq(Buffers) /\ IsInjective(t)
      /\ Range(t) = Range(stream[c]) \cup {b0}
  <2>1. b0 \notin Range(stream[c]) /\ IsInjective(stream[c])
    BY <1>6 DEF Streamed, BufInv
  <2> HIDE DEF b0
  <2> QED
    BY <1>0, <2>1, DistinctAppend, AppendProperties
<1>8. stream'[c] = t /\ \A d \in Conns : d # c => stream'[d] = stream[d]
  BY DEF BufInv
<1> HIDE DEF t, b0
<1>9. stream' \in [Conns -> Seq(Buffers)] /\ \A d \in Conns : IsInjective(stream'[d])
  <2>1. stream' = [stream EXCEPT ![c] = t]
    BY DEF t, b0
  <2> QED
    BY <1>7, <1>8, <2>1 DEF BufInv
<1>10. \A b : Streamed(b)' <=> Streamed(b) \/ b = b0
  <2> SUFFICES ASSUME NEW b PROVE Streamed(b)' <=> Streamed(b) \/ b = b0
    OBVIOUS
  <2>1. Streamed(b)' <=> \E d \in Conns : b \in Range(stream'[d])
    BY DEF Streamed
  <2> QED
    BY <1>7, <1>8, <2>1 DEF Streamed
<1>11. MsgInv'
  <2>1. \A x \in Unseen' : IsInjective(x.res.msgs)
    BY <1>4 DEF MsgInv
  <2>2. \A b \in Buffers : Pending(b)' \/ Writing(b)' # {} \/ Streamed(b)'
                           => Received(b[1])' /\ Reported(b[1])' = {}
    BY <1>3, <1>5, <1>6, <1>10 DEF MsgInv
  <2>3. \A m \in Messages : /\ \A x, y \in Reported(m)' : x = y
                            /\ Reported(m)' # {} => Received(m)'
    BY <1>3, <1>5 DEF MsgInv
  <2> QED
    BY <2>1, <2>2, <2>3 DEF MsgInv
<1>12. BufInv'
  <2>1. ASSUME NEW b \in Buffers
        PROVE  /\ Pending(b)' => Writing(b)' = {} /\ ~Streamed(b)'
               /\ \A o, p \in Writing(b)' : o = p
               /\ \A o \in Writing(b)' : o \notin Completed' => ~Streamed(b)'
    <3>1. CASE b = b0
      BY <1>1, <1>3, <1>6, <3>1
    <3>2. CASE b # b0
      BY <1>1, <1>3, <1>10, <3>2 DEF BufInv
    <3> QED
      BY <3>1, <3>2
  <2> QED
    BY <1>2, <1>9, <2>1 DEF BufInv
<1> QED
  BY <1>11, <1>12 DEF InboxInv

\* A receive takes the first messages out of a connection.
LEMMA CompleteRecvBuffers ==
  ASSUME MsgInv, BufInv, InboxInv, NEW e \in Entries, NEW c \in Conns,
         NEW k \in 1 .. Len(inbox[c]), e.res.msgs = SubSeq(inbox[c], 1, k),
         Unseen' = Unseen \cup {e}, sent[c] \in Nat,
         inbox' = [inbox EXCEPT ![c] = SubSeq(inbox[c], k + 1, Len(inbox[c]))],
         UNCHANGED <<live, Taken, todo, sent, stream>>
  PROVE  MsgInv' /\ BufInv' /\ InboxInv'
<1> DEFINE q == inbox[c]
           n == Len(q)
           a == SubSeq(q, 1, k)
           z == SubSeq(q, k + 1, n)
<1>0. /\ q \in Seq(Messages) /\ n \in Nat /\ DOMAIN q = 1 .. n /\ IsInjective(q)
      /\ n <= sent[c] /\ \A m \in Range(q) : m[1] = c /\ m[2] <= sent[c]
      /\ k \in 1 .. n /\ k \in 0 .. n
  BY LenProperties DEF InboxInv
<1>1. /\ a \in Seq(Messages) /\ DOMAIN a = 1 .. k /\ \A i \in 1 .. k : a[i] = q[i]
  BY <1>0, PrefixIs
<1>2. /\ z \in Seq(Messages) /\ Len(z) = n - k
      /\ \A i \in 1 .. n - k : z[i] = q[k + i]
  BY <1>0, SuffixIs
<1>3. DOMAIN z = 1 .. n - k
  BY <1>2, LenProperties
<1>4. inbox' = [inbox EXCEPT ![c] = z] /\ e.res.msgs = a
  OBVIOUS
<1> HIDE DEF q, n, a, z
<1>5. inbox'[c] = z /\ \A d \in Conns : d # c => inbox'[d] = inbox[d]
  BY <1>4 DEF InboxInv
<1>6. IsInjective(a) /\ Range(a) \subseteq Range(q)
  <2>1. \A i \in 1 .. k : i \in 1 .. n
    BY <1>0
  <2>2. IsInjective(a)
    <3> SUFFICES ASSUME NEW i \in 1 .. k, NEW j \in 1 .. k, a[i] = a[j] PROVE i = j
      BY <1>1 DEF IsInjective
    <3>1. q[i] = q[j] /\ i \in 1 .. n /\ j \in 1 .. n
      BY <1>1, <2>1
    <3> QED
      BY <1>0, <3>1 DEF IsInjective
  <2>3. ASSUME NEW m \in Range(a) PROVE m \in Range(q)
    <3>1. PICK i \in 1 .. k : m = q[i]
      BY <1>1, <2>3 DEF Range
    <3>2. i \in DOMAIN q
      BY <1>0, <2>1
    <3> QED
      BY <3>1, <3>2 DEF Range
  <2> QED
    BY <2>2, <2>3
<1>7. \A i \in 1 .. n - k : k + i \in 1 .. n
  BY <1>0
<1>8. Range(z) \subseteq Range(q) /\ IsInjective(z)
  <2>1. ASSUME NEW m \in Range(z) PROVE m \in Range(q)
    <3>1. PICK i \in 1 .. n - k : m = z[i]
      BY <1>3, <2>1 DEF Range
    <3>2. m = q[k + i] /\ k + i \in DOMAIN q
      BY <1>0, <1>2, <1>7, <3>1
    <3> QED
      BY <3>2 DEF Range
  <2>2. ASSUME NEW i \in 1 .. n - k, NEW j \in 1 .. n - k, z[i] = z[j]
        PROVE  i = j
    <3>0. q[k + i] = q[k + j] /\ k + i \in DOMAIN q /\ k + j \in DOMAIN q
      BY <1>0, <1>2, <1>7, <2>2
    <3>1. k + i = k + j
      BY <1>0, <3>0 DEF IsInjective
    <3> QED
      BY <1>0, <3>1
  <2> QED
    BY <1>3, <2>1, <2>2 DEF IsInjective
<1>9. ASSUME NEW m \in Range(a) PROVE m \notin Range(z)
  <2>1. PICK i \in 1 .. k : m = q[i]
    BY <1>1 DEF Range
  <2>2. ASSUME NEW j \in 1 .. n - k, m = z[j] PROVE FALSE
    <3>1. q[i] = q[k + j] /\ k + j \in 1 .. n /\ i \in 1 .. n /\ i # k + j
      BY <1>0, <1>2, <1>7, <2>1, <2>2
    <3> QED
      BY <1>0, <3>1 DEF IsInjective
  <2> QED
    BY <1>3, <2>2 DEF Range
<1>10. InboxInv'
  <2>1. inbox' \in [Conns -> Seq(Messages)]
    BY <1>2, <1>4 DEF InboxInv
  <2>2. ASSUME NEW d \in Conns
        PROVE  /\ IsInjective(inbox'[d]) /\ Len(inbox'[d]) <= sent[d]
               /\ \A m \in Range(inbox'[d]) : m[1] = d /\ m[2] <= sent[d]
    <3>1. CASE d = c
      <4>1. Len(z) <= sent[c]
        BY <1>0, <1>2
      <4> QED
        BY <1>0, <1>5, <1>8, <3>1, <4>1
    <3>2. CASE d # c
      BY <1>5, <3>2 DEF InboxInv
    <3> QED
      BY <3>1, <3>2
  <2> QED
    BY <2>1, <2>2 DEF InboxInv
<1>11. \A m \in Messages : m[1] \in Conns
  BY DEF Messages
<1>12. ASSUME NEW m \in Messages, Received(m) PROVE Received(m)'
  <2>1. m[2] <= sent[m[1]] /\ m \notin Range(inbox[m[1]])
    BY <1>12 DEF Received
  <2>2. m \notin Range(inbox'[m[1]])
    <3>1. CASE m[1] = c
      BY <1>5, <1>8, <2>1, <3>1 DEF q
    <3>2. CASE m[1] # c
      BY <1>5, <1>11, <2>1, <3>2
    <3> QED
      BY <3>1, <3>2
  <2> QED
    BY <2>1, <2>2 DEF Received
<1>13. ASSUME NEW m \in Messages, m \in Range(a)
       PROVE  Received(m)' /\ ~Received(m)
  <2>1. m \in Range(q) /\ m[1] = c /\ m[2] <= sent[c] /\ m \notin Range(z)
    BY <1>0, <1>6, <1>9, <1>13
  <2>2. ~Received(m)
    BY <2>1 DEF Received, q
  <2>3. Received(m)'
    BY <1>5, <2>1 DEF Received
  <2> QED
    BY <2>2, <2>3
<1>14. Completed' = Completed \cup {e.op}
  BY DEF Completed
<1>15. \A w : Sends(w)' = Sends(w)
  BY DEF Sends
<1>16. \A b : /\ Pending(b)' = Pending(b) /\ Writing(b)' = Writing(b)
              /\ Streamed(b)' = Streamed(b)
  BY <1>15 DEF Pending, Writing, Streamed
<1>17. ASSUME NEW m \in Messages
       PROVE  /\ m \in Range(a) => Reported(m)' = Reported(m) \cup {e}
              /\ m \notin Range(a) => Reported(m)' = Reported(m)
  BY <1>4 DEF Reported
<1>18. MsgInv'
  <2>1. \A x \in Unseen' : IsInjective(x.res.msgs)
    BY <1>4, <1>6 DEF MsgInv
  <2>2. ASSUME NEW m \in Messages
        PROVE  /\ \A x, y \in Reported(m)' : x = y
               /\ Reported(m)' # {} => Received(m)'
    <3>1. CASE m \in Range(a)
      <4>1. Reported(m) = {} /\ Received(m)'
        BY <1>13, <3>1 DEF MsgInv
      <4> QED
        BY <1>17, <3>1, <4>1
    <3>2. CASE m \notin Range(a)
      BY <1>12, <1>17, <3>2 DEF MsgInv
    <3> QED
      BY <3>1, <3>2
  <2>3. ASSUME NEW b \in Buffers, Pending(b)' \/ Writing(b)' # {} \/ Streamed(b)'
        PROVE  Received(b[1])' /\ Reported(b[1])' = {}
    <3>1. Received(b[1]) /\ Reported(b[1]) = {} /\ b[1] \in Messages
      BY <1>16, <2>3, BufferIs DEF MsgInv
    <3>2. b[1] \notin Range(a)
      BY <1>13, <3>1
    <3> QED
      BY <1>12, <1>17, <3>1, <3>2
  <2> QED
    BY <2>1, <2>2, <2>3 DEF MsgInv
<1>19. BufInv'
  BY <1>14, <1>15, <1>16 DEF BufInv
<1> QED
  BY <1>10, <1>18, <1>19

\* A client sends its next message.
LEMMA ClientSendBuffers ==
  ASSUME MsgInv, BufInv, InboxInv, NEW c \in Conns, sent \in [Conns -> 0 .. MaxMessages],
         sent[c] < MaxMessages, sent' = [sent EXCEPT ![c] = sent[c] + 1],
         inbox' = [inbox EXCEPT ![c] = Append(inbox[c], <<c, sent[c] + 1>>)],
         UNCHANGED <<live, Taken, Unseen, todo, stream>>
  PROVE  MsgInv' /\ BufInv' /\ InboxInv'
<1> DEFINE q == inbox[c]
           n == sent[c]
           m0 == <<c, n + 1>>
           z == Append(q, m0)
<1>0. /\ q \in Seq(Messages) /\ IsInjective(q) /\ Len(q) <= n
      /\ \A m \in Range(q) : m[1] = c /\ m[2] <= n
      /\ n \in Nat /\ n + 1 \in 1 .. MaxMessages
  BY ServiceAssumption DEF InboxInv
<1>1. m0 \in Messages /\ m0[1] = c /\ m0[2] = n + 1
  BY <1>0 DEF Messages
<1>2. inbox' = [inbox EXCEPT ![c] = z] /\ sent' = [sent EXCEPT ![c] = n + 1]
  OBVIOUS
<1>3. m0 \notin Range(q)
  BY <1>0, <1>1
<1> HIDE DEF q, n, m0
<1>4. /\ z \in Seq(Messages) /\ IsInjective(z) /\ Range(z) = Range(q) \cup {m0}
      /\ Len(z) = Len(q) + 1 /\ Len(q) \in Nat
  BY <1>0, <1>1, <1>3, DistinctAppend, AppendProperties, LenProperties
<1> HIDE DEF z
<1>5. /\ inbox'[c] = z /\ \A d \in Conns : d # c => inbox'[d] = inbox[d]
      /\ sent'[c] = n + 1 /\ \A d \in Conns : d # c => sent'[d] = sent[d]
  BY <1>2 DEF InboxInv
<1>6. \A m \in Messages : m[2] \in Nat /\ m[1] \in Conns
  BY DEF Messages
<1>7. InboxInv'
  <2>1. inbox' \in [Conns -> Seq(Messages)]
    BY <1>2, <1>4 DEF InboxInv
  <2>2. ASSUME NEW d \in Conns
        PROVE  /\ IsInjective(inbox'[d]) /\ Len(inbox'[d]) <= sent'[d]
               /\ \A m \in Range(inbox'[d]) : m[1] = d /\ m[2] <= sent'[d]
    <3>1. CASE d = c
      <4>1. Len(z) <= n + 1
        BY <1>0, <1>4
      <4>2. ASSUME NEW m \in Range(z) PROVE m[1] = c /\ m[2] <= n + 1
        <5>1. CASE m = m0
          BY <1>0, <1>1, <5>1
        <5>2. CASE m # m0
          <6>1. m \in Range(q) /\ m \in Messages
            BY <1>0, <1>4, <5>2, RangeOfSeq
          <6> QED
            BY <1>0, <1>6, <6>1
        <5> QED
          BY <5>1, <5>2
      <4> QED
        BY <1>4, <1>5, <3>1, <4>1, <4>2
    <3>2. CASE d # c
      BY <1>5, <3>2 DEF InboxInv
    <3> QED
      BY <3>1, <3>2
  <2> QED
    BY <2>1, <2>2 DEF InboxInv
<1>8. ASSUME NEW m \in Messages, Received(m) PROVE Received(m)'
  <2>1. m[2] <= sent[m[1]] /\ m \notin Range(inbox[m[1]])
    BY <1>8 DEF Received
  <2>2. m[2] <= sent'[m[1]] /\ m \notin Range(inbox'[m[1]])
    <3>1. CASE m[1] = c
      <4>1. m[2] <= n /\ m[2] \in Nat /\ m \notin Range(q)
        BY <1>6, <2>1, <3>1 DEF n, q
      <4>2. m # m0 /\ m[2] <= n + 1
        BY <1>0, <1>1, <4>1
      <4> QED
        BY <1>4, <1>5, <3>1, <4>1, <4>2
    <3>2. CASE m[1] # c
      BY <1>5, <1>6, <2>1, <3>2
    <3> QED
      BY <3>1, <3>2
  <2> QED
    BY <2>2 DEF Received
<1>9. Completed' = Completed
  BY DEF Completed
<1>10. \A w : Sends(w)' = Sends(w)
  BY DEF Sends
<1>11. \A b : /\ Pending(b)' = Pending(b) /\ Writing(b)' = Writing(b)
              /\ Streamed(b)' = Streamed(b)
  BY <1>10 DEF Pending, Writing, Streamed
<1>12. \A m : Reported(m)' = Reported(m)
  BY DEF Reported
<1>13. MsgInv'
  BY <1>8, <1>11, <1>12, BufferIs DEF MsgInv
<1>14. BufInv'
  BY <1>9, <1>10, <1>11 DEF BufInv
<1> QED
  BY <1>7, <1>13, <1>14

-----------------------------------------------------------------------------
(* Descriptors of entries and connections of operations.                   *)

\* Steps that neither prepare, nor submit, nor finish an operation.
LEMMA SqeUnchanged ==
  ASSUME SqeInv, UNCHANGED <<sqe_fd, file, sq, inflight>>,
         live \ Completed \subseteq (live \ Completed)'
  PROVE  SqeInv'
BY DEF SqeInv

\* An overlay has the entries of both.
LEMMA OverlayIs ==
  ASSUME NEW f, NEW g
  PROVE  /\ DOMAIN Overlay(g, f) = DOMAIN g \cup DOMAIN f
         /\ \A o \in DOMAIN g : Overlay(g, f)[o] = g[o]
         /\ \A o \in DOMAIN f \ DOMAIN g : Overlay(g, f)[o] = f[o]
BY DEF Overlay

\* The kernel is given entries that have their descriptor.
LEMMA SqeSubmitted ==
  ASSUME SqeInv, UNCHANGED <<live, Completed>>, NetType, NEW w \in Workers,
         DOMAIN sqe_fd \subseteq DOMAIN sqe_fd',
         DOMAIN sqe_fd' \subseteq live \ Completed,
         \A o \in DOMAIN sqe_fd' : sqe_fd'[o] \in Fds \cup {NULL},
         \A v \in Workers \ {w} : inflight'[v] = inflight[v] /\ sq'[v] = sq[v],
         inflight'[w] \subseteq inflight[w] \cup DOMAIN sqe_fd',
         \A i \in DOMAIN sq'[w] : sq'[w][i] \in DOMAIN sqe_fd',
         file' = Overlay(Resolve(inflight'[w] \ inflight[w]), file)
  PROVE  SqeInv'
<1> DEFINE new == inflight'[w] \ inflight[w]
           g == Resolve(new)
<1>1. DOMAIN g = new /\ new \subseteq DOMAIN sqe_fd'
  BY DEF Resolve
<1>2. \A o \in new : g[o] \in Conns \cup {NULL}
  <2> SUFFICES ASSUME NEW o \in new PROVE g[o] \in Conns \cup {NULL}
    OBVIOUS
  <2>1. g[o] = IF sqe_fd'[o] = NULL THEN NULL ELSE fd_table[sqe_fd'[o]]
    BY DEF Resolve
  <2>2. sqe_fd'[o] \in Fds \cup {NULL}
    BY <1>1
  <2> QED
    BY <2>1, <2>2 DEF NetType
<1>3. file' = Overlay(g, file)
  OBVIOUS
<1> HIDE DEF g
<1>4. /\ DOMAIN file' = new \cup DOMAIN file
      /\ \A o \in new : file'[o] = g[o]
      /\ \A o \in DOMAIN file \ new : file'[o] = file[o]
  <2> HIDE DEF new
  <2>1. /\ DOMAIN Overlay(g, file) = DOMAIN g \cup DOMAIN file
        /\ \A o \in DOMAIN g : Overlay(g, file)[o] = g[o]
        /\ \A o \in DOMAIN file \ DOMAIN g : Overlay(g, file)[o] = file[o]
    BY OverlayIs, ZenonT(40)
  <2> QED
    BY <1>1, <1>3, <2>1
<1>5. DOMAIN file' \subseteq live \ Completed
  BY <1>1, <1>4 DEF SqeInv
<1>6. \A o \in DOMAIN file' : file'[o] \in Conns \cup {NULL}
  BY <1>2, <1>4 DEF SqeInv
<1>7. ASSUME NEW v \in Workers
      PROVE  /\ inflight'[v] \subseteq DOMAIN file' \cap DOMAIN sqe_fd'
             /\ \A i \in DOMAIN sq'[v] : sq'[v][i] \in DOMAIN sqe_fd'
  <2>1. CASE v = w
    <3>1. inflight[w] \subseteq DOMAIN file \cap DOMAIN sqe_fd
      BY DEF SqeInv
    <3> QED
      BY <1>1, <1>4, <2>1, <3>1
  <2>2. CASE v # w
    BY <1>4, <2>2 DEF SqeInv
  <2> QED
    BY <2>1, <2>2
<1> QED
  BY <1>5, <1>6, <1>7 DEF SqeInv

\* A finished operation has neither.
LEMMA SqeCompleted ==
  ASSUME RingTypeOK, RefInv, ~fault, SqeInv, NEW w \in Workers, NEW op, NEW res \in Results,
         CompleteOperation(w, op, res)
  PROVE  SqeInv'
<1>0. Complete(w, op, res)
  BY DEF CompleteOperation
<1>1. /\ op \in live \ Completed /\ live' = live /\ Taken' = Taken
      /\ Unseen' = Unseen \cup {[op |-> op, res |-> res]}
  BY <1>0, CompleteEffect
<1>2. Completed' = Completed \cup {op}
  <2> DEFINE e == [op |-> op, res |-> res]
  <2>1. e.op = op
    OBVIOUS
  <2>2. Unseen' = Unseen \cup {e}
    BY <1>1
  <2> HIDE DEF e
  <2> QED
    BY <1>1, <2>1, <2>2 DEF Completed
<1>3. /\ DOMAIN sqe_fd' = DOMAIN sqe_fd \ {op} /\ DOMAIN file' = DOMAIN file \ {op}
      /\ \A o \in DOMAIN sqe_fd' : sqe_fd'[o] = sqe_fd[o]
      /\ \A o \in DOMAIN file' : file'[o] = file[o]
  BY DEF CompleteOperation, Forget
<1>4. /\ sq' = sq /\ op \in inflight[w] /\ op \in Ops
      /\ \A v \in Workers : inflight'[v] = IF v = w THEN inflight[w] \ {op}
                                                    ELSE inflight[v]
  BY <1>0 DEF Complete, RingTypeOK
<1>5. ASSUME NEW v \in Workers
      PROVE  op \notin inflight'[v] /\ \A i \in DOMAIN sq[v] : sq[v][i] # op
  <2>1. /\ inflight[v] = Held(v, "kernel") /\ op \in Held(w, "kernel")
        /\ \A i \in DOMAIN sq[v] : sq[v][i] \in Held(v, "prepared")
    BY <1>4, HeldIs DEF Range
  <2>2. op \notin Held(v, "prepared") /\ (v # w => op \notin Held(v, "kernel"))
    BY <1>4, <2>1 DEF RefInv, Apart, Places
  <2> QED
    BY <1>4, <2>1, <2>2
<1>6. \A v \in Workers : inflight'[v] \subseteq inflight[v]
  BY <1>4
<1>7. ASSUME NEW v \in Workers
      PROVE  /\ inflight'[v] \subseteq DOMAIN file' \cap DOMAIN sqe_fd'
             /\ \A i \in DOMAIN sq'[v] : sq'[v][i] \in DOMAIN sqe_fd'
  BY <1>3, <1>4, <1>5, <1>6 DEF SqeInv
<1> QED
  BY <1>1, <1>2, <1>3, <1>7 DEF SqeInv

-----------------------------------------------------------------------------
(* Every step keeps the invariant.                                         *)

\* The rings' own part.
LEMMA RingPart ==
  ASSUME ServiceInv, [RingNext]_ringVars
  PROVE  RingTypeOK' /\ RefInv'
BY RingType, RefStep DEF ServiceInv

\* The part that a step outside the handlers and the kernel leaves alone.
LEMMA QuietPart ==
  ASSUME ServiceInv,
         UNCHANGED <<live, cq, holding, todo, sessions_queue, sent, inbox, stream>>
  PROVE  /\ TodoInv' /\ SessInv' /\ InboxInv' /\ MsgInv' /\ BufInv'
         /\ UNCHANGED <<Taken, Unseen, Completed>>
         /\ \A s \in Sessions : UNCHANGED <<Outstanding(s), Handling(s)>>
<1>1. UNCHANGED <<Taken, Unseen, Completed>>
  BY ViewsUnchanged
<1>2. SessInv' /\ \A s \in Sessions : UNCHANGED <<Outstanding(s), Handling(s)>>
  BY <1>1, SessUnchanged DEF ServiceInv
<1>3. MsgInv' /\ BufInv' /\ InboxInv'
  BY <1>1, BuffersUnchanged DEF ServiceInv
<1>4. TodoInv'
  BY DEF ServiceInv, TodoInv
<1> QED
  BY <1>1, <1>2, <1>3, <1>4

\* ServiceBuilder::build and the start of the threads.
LEMMA BuildKeeps ==
  ASSUME ServiceInv, Build \/ StartThread
  PROVE  ServiceInv' /\ [RingNext]_ringVars
<1>1. UNCHANGED <<ringVars, sessions_queue, request_index, socket_fd, todo,
                  sockets, clients, stream>>
  BY DEF Build, StartThread
<1>2. UNCHANGED <<live, request_queue, sq, inflight, cq, holding, pc, fault,
                  sessions_queue, request_index, socket_fd, todo, sqe_fd, file,
                  fd_table, shut, peer, sent, inbox, stream>>
  BY <1>1 DEF ringVars, sockets, clients
<1>3. RingTypeOK' /\ RefInv'
  BY <1>1, RingPart
<1>4. /\ TodoInv' /\ SessInv' /\ InboxInv' /\ MsgInv' /\ BufInv'
      /\ UNCHANGED Completed
  BY <1>2, QuietPart
<1>5. SqeInv'
  BY <1>2, <1>4, SqeUnchanged DEF ServiceInv
<1>6. PcInv' /\ NetType'
  BY <1>2 DEF ServiceInv, PcInv, NetType
<1>7. BootType' /\ BootInv'
  <2>1. CASE Build
    <3>1. started' = started /\ booted' = booted /\ acceptor = "none"
          /\ acceptor' \in {"listening", "deaf"}
      BY <2>1 DEF Build
    <3>2. BootType'
      BY <1>2, <3>1 DEF ServiceInv, BootType
    <3> QED
      BY <1>2, <3>1, <3>2 DEF ServiceInv, BootInv
  <2>2. CASE StartThread
    <3>1. started' = started + 1 /\ started < ThreadCount /\ booted' = booted
          /\ acceptor' = acceptor /\ acceptor # "none" /\ booted = Backlog /\ ~fault
      BY <2>2 DEF StartThread
    <3>2. started' \in 0 .. ThreadCount /\ started' > 0
      BY <3>1, ServiceAssumption DEF ServiceInv, BootType
    <3>3. BootType'
      BY <1>2, <3>1, <3>2 DEF ServiceInv, BootType
    <3> QED
      BY <3>1, <3>2, <3>3 DEF BootInv
  <2> QED
    BY <2>1, <2>2
<1> QED
  BY <1>1, <1>3, <1>4, <1>5, <1>6, <1>7 DEF ServiceInv

\* Another accept keeps everything but the pool and the operations.
LEMMA AcceptOneKeeps ==
  ASSUME ServiceInv, ~fault, RequestAcceptOne,
         UNCHANGED <<sq, inflight, cq, holding, pc, fault>>,
         UNCHANGED <<socket_fd, sqe_fd, file, fd_table, shut, peer, sent, inbox, stream>>,
         \A s \in Sessions : Handling(s)' = Handling(s),
         PlansApart', \A b \in Buffers : Pending(b)' => Pending(b)
  PROVE  /\ RingTypeOK' /\ RefInv' /\ NetType' /\ SessInv' /\ InboxInv' /\ MsgInv'
         /\ BufInv' /\ SqeInv' /\ request_index' \in Workers
         /\ sessions_queue' \in Seq(Sessions) /\ [RingNext]_ringVars
<1>0. TypeOK /\ RefInv /\ SessInv /\ MsgInv /\ BufInv /\ SqeInv /\ live \subseteq Ops
  BY InvTypeOK DEF ServiceInv, RingTypeOK
<1>1. /\ [RingNext]_ringVars /\ request_index' \in Workers
      /\ Taken' = Taken /\ Unseen' = Unseen /\ sessions_queue' \in Seq(Sessions)
  BY <1>0, AcceptOneEffect
<1>2. \/ UNCHANGED <<live, sessions_queue>>
      \/ \E s \in Sessions :
           /\ s \in Range(sessions_queue)
           /\ Range(sessions_queue') = Range(sessions_queue) \ {s}
           /\ IsInjective(sessions_queue')
           /\ \/ UNCHANGED live
              \/ \E op \in Ops \ live :
                   /\ live' = live \cup {op}
                   /\ op.kind = "accept" /\ op.sess = s
  BY <1>0, AcceptOneEffect
<1>3. RingTypeOK' /\ RefInv'
  BY <1>1, RingPart
<1>4. SessInv'
  <2>1. CASE UNCHANGED <<live, sessions_queue>>
    <3>1. \A s \in Sessions : Outstanding(s)' = Outstanding(s)
      BY <1>1, <2>1, OutstandingIs
    <3>2. \A s \in Sessions : Idle(s)' = Idle(s)
      BY <2>1, <3>1 DEF Idle
    <3>3. \A op \in live : op.sess \in Sessions
      BY <1>0, OperationIs
    <3> QED
      BY <1>0, <2>1, <3>1, <3>2, <3>3 DEF SessInv
  <2>2. ASSUME NEW s \in Sessions,
               s \in Range(sessions_queue),
               Range(sessions_queue') = Range(sessions_queue) \ {s},
               IsInjective(sessions_queue'),
               \/ UNCHANGED live
               \/ \E op \in Ops \ live : /\ live' = live \cup {op}
                                         /\ op.kind = "accept" /\ op.sess = s
        PROVE  SessInv'
    BY <1>0, <1>1, <2>2, AcceptOneSessInv
  <2> QED
    BY <1>2, <2>1, <2>2
<1>5. \/ UNCHANGED live
      \/ \E op \in Ops \ live : live' = live \cup {op} /\ op.kind = "accept"
  BY <1>2
<1>6. MsgInv' /\ BufInv'
  <2>1. \/ UNCHANGED live
        \/ \E op \in Ops \ live :
             /\ live' = live \cup {op}
             /\ op.kind = "send" => Pending(op.buf) /\ ~Pending(op.buf)'
    BY <1>5
  <2> QED
    BY <1>0, <1>1, <2>1, RequestBuffers
<1>7. SqeInv'
  <2>1. live \subseteq live' /\ Completed' = Completed
    BY <1>1, <1>5 DEF Completed
  <2> QED
    BY <1>0, <2>1, SqeUnchanged
<1>8. NetType' /\ InboxInv'
  BY DEF ServiceInv, NetType, InboxInv
<1> QED
  BY <1>1, <1>3, <1>4, <1>6, <1>7, <1>8

\* The last loop of Service::initialize.
LEMMA InitializeKeeps ==
  ASSUME ServiceInv, InitializeAccept
  PROVE  ServiceInv' /\ [RingNext]_ringVars
<1>1. /\ acceptor # "none" /\ booted < Backlog /\ booted' = booted + 1
      /\ RequestAcceptOne
      /\ UNCHANGED <<acceptor, started, sq, inflight, cq, holding, pc, fault,
                     socket_fd, todo, sqe_fd, file, fd_table, shut, peer, sent,
                     inbox, stream>>
  BY DEF InitializeAccept, sockets, clients
<1>2. started = 0 /\ ~fault
  <2>1. /\ Backlog \in Nat /\ booted \in 0 .. Backlog /\ started \in 0 .. ThreadCount
        /\ ThreadCount \in Nat
    BY ServiceAssumption DEF ServiceInv, BootType
  <2>2. ~(started > 0)
    BY <1>1, <2>1 DEF ServiceInv, BootInv
  <2> QED
    BY <2>1, <2>2 DEF ServiceInv, BootInv
<1>3. /\ \A s \in Sessions : Handling(s)' = Handling(s)
      /\ PlansApart' /\ \A b \in Buffers : Pending(b)' => Pending(b)
  <2>1. \A w : Sends(w)' = Sends(w)
    BY <1>1 DEF Sends
  <2>2. ASSUME NEW s \in Sessions PROVE Handling(s)' = Handling(s)
    BY <1>1 DEF Handling
  <2>3. PlansApart'
    BY <1>1, <2>1 DEF ServiceInv, BufInv, PlansApart
  <2>4. \A b \in Buffers : Pending(b)' => Pending(b)
    BY <1>1, <2>1 DEF Pending
  <2> QED
    BY <2>2, <2>3, <2>4
<1>4. /\ RingTypeOK' /\ RefInv' /\ NetType' /\ SessInv' /\ InboxInv' /\ MsgInv'
      /\ BufInv' /\ SqeInv' /\ request_index' \in Workers
      /\ sessions_queue' \in Seq(Sessions) /\ [RingNext]_ringVars
  BY <1>1, <1>2, <1>3, AcceptOneKeeps
<1>5. TodoInv' /\ PcInv'
  BY <1>1 DEF ServiceInv, TodoInv, PcInv
<1>6. booted' \in 0 .. Backlog
  BY <1>1, ServiceAssumption DEF ServiceInv, BootType
<1>7. BootType' /\ BootInv'
  BY <1>1, <1>2, <1>4, <1>6 DEF ServiceInv, BootType, BootInv
<1> QED
  BY <1>4, <1>5, <1>7 DEF ServiceInv

\* wait_one and the start of handle_completion.
LEMMA TakeKeeps ==
  ASSUME ServiceInv, NEW w \in Workers, ~fault, w < started, TakeCompletion(w)
  PROVE  ServiceInv' /\ [RingNext]_ringVars
<1>0. /\ RingTypeOK /\ RefInv /\ PcInv /\ TodoInv /\ SessInv /\ MsgInv /\ BufInv
      /\ InboxInv /\ SqeInv /\ BootType /\ BootInv /\ live \subseteq Ops
  BY DEF ServiceInv, RingTypeOK
<1>1. /\ WaitOne(w)
      /\ UNCHANGED <<acceptor, booted, started, sessions_queue, request_index,
                     sqe_fd, file, fd_table, shut, peer, sent, inbox, stream>>
  BY DEF TakeCompletion, bootVars, sockets, clients
<1>2. /\ UNCHANGED <<live, request_queue, sq, inflight, cq, fault>>
      /\ pc[w] = "wait"
  BY <1>1 DEF WaitOne
<1>3. [RingNext]_ringVars
  BY <1>1 DEF RingNext, Worker
<1>4. RingTypeOK' /\ RefInv'
  BY <1>3, RingPart
<1>5. todo[w] = <<>> /\ ~holding[w]
  BY <1>0, <1>2 DEF PcInv
<1>6. NetType' /\ BootInv' /\ InboxInv'
  BY <1>1, <1>2 DEF ServiceInv, NetType, BootInv, InboxInv
<1>7. CASE cq[w] # <<>>
  <2> DEFINE h == Head(cq[w])
  <2>1. /\ h \in Entries /\ h \in Unseen /\ h.op \in live \ Taken
        /\ \A e \in Unseen : e.op = h.op => e = h
        /\ Unseen' = Unseen \ {h} /\ Taken' = Taken \cup {h.op}
    BY <1>0, <1>1, <1>7, TakeEffect
  <2>2. /\ todo' = [todo EXCEPT ![w] = Handler(h.op, h.res)]
        /\ socket_fd' = IF h.op.kind = "accept" /\ h.res.ok
                        THEN [socket_fd EXCEPT ![h.op.sess] = h.res.fd]
                        ELSE socket_fd
    BY <1>7 DEF TakeCompletion
  <2> HIDE DEF h
  <2>3. h.op \in Ops /\ h.res \in Results
    BY <2>1 DEF Entries
  <2>4. h.op.sess \in Sessions /\ h.res.fd \in Fds \cup {NULL}
    BY <2>3, OperationIs, OutcomeIs
  <2>5. Plan(Handler(h.op, h.res))
    BY <2>3, HandlerIs
  <2>6. TodoInv'
    <3> DEFINE q == Handler(h.op, h.res)
    <3>1. Plan(q) /\ q \in Seq(Calls) /\ todo' = [todo EXCEPT ![w] = q]
      BY <2>2, <2>5 DEF Plan
    <3> HIDE DEF q
    <3> QED
      BY <1>0, <3>1 DEF TodoInv
  <2>7. SessInv'
    BY <1>0, <1>1, <1>2, <1>5, <2>1, <2>2, TakeSessInv
  <2>8. MsgInv' /\ BufInv'
    BY <1>0, <1>1, <1>2, <1>5, <2>1, <2>2, TakeBuffers
  <2>9. Completed' = Completed
    <3>1. ASSUME NEW o PROVE o \in Completed' <=> o \in Completed
      <4>1. o \in Completed' <=> o \in Taken' \/ \E e \in Unseen' : o = e.op
        BY DEF Completed
      <4>2. o \in Completed <=> o \in Taken \/ \E e \in Unseen : o = e.op
        BY DEF Completed
      <4> QED
        BY <2>1, <4>1, <4>2
    <3> QED
      BY <3>1
  <2>10. SqeInv'
    BY <1>0, <1>1, <1>2, <2>9, SqeUnchanged
  <2>11. PcInv'
    <3>1. /\ pc' = [pc EXCEPT ![w] = "handle"]
          /\ \A v \in Workers : v # w => holding'[v] = holding[v] /\ todo'[v] = todo[v]
      BY <1>0, <1>1, <1>7, <2>2 DEF WaitOne, RingTypeOK, TodoInv
    <3> QED
      BY <1>0, <3>1 DEF PcInv, RingTypeOK
  <2>12. BootType'
    BY <1>0, <1>1, <2>2, <2>4 DEF BootType
  <2> QED
    BY <1>3, <1>4, <1>6, <2>6, <2>7, <2>8, <2>10, <2>11, <2>12 DEF ServiceInv
<1>8. CASE cq[w] = <<>>
  <2>1. UNCHANGED <<todo, socket_fd>>
    BY <1>8 DEF TakeCompletion
  <2>2. holding' = holding
    BY <1>0, <1>1, <1>8, TakeNothing
  <2>3. /\ TodoInv' /\ SessInv' /\ MsgInv' /\ BufInv' /\ UNCHANGED Completed
    BY <1>1, <1>2, <2>1, <2>2, QuietPart
  <2>4. SqeInv'
    BY <1>0, <1>1, <1>2, <2>3, SqeUnchanged
  <2>5. PcInv'
    <3>1. pc' = [pc EXCEPT ![w] = "flush"]
      BY <1>1, <1>8 DEF WaitOne
    <3> QED
      BY <1>0, <1>5, <2>1, <2>2, <3>1 DEF PcInv, RingTypeOK
  <2>6. BootType'
    BY <1>0, <1>1, <2>1 DEF BootType
  <2> QED
    BY <1>3, <1>4, <1>6, <2>3, <2>4, <2>5, <2>6 DEF ServiceInv
<1> QED
  BY <1>7, <1>8

\* The handler makes its next request.
LEMMA CallKeeps ==
  ASSUME ServiceInv, NEW w \in Workers, ~fault, w < started, HandlerRequest(w)
  PROVE  ServiceInv' /\ [RingNext]_ringVars
<1>0. /\ TypeOK /\ RingTypeOK /\ RefInv /\ PcInv /\ TodoInv /\ SessInv /\ MsgInv
      /\ BufInv /\ InboxInv /\ SqeInv /\ BootType /\ BootInv /\ live \subseteq Ops
  BY InvTypeOK DEF ServiceInv, RingTypeOK
<1>1. /\ pc[w] = "handle" /\ todo[w] # <<>>
      /\ todo' = [todo EXCEPT ![w] = Tail(todo[w])]
      /\ UNCHANGED <<sq, inflight, cq, holding, pc, fault, acceptor, booted, started,
                     socket_fd, sqe_fd, file, fd_table, shut, peer, sent, inbox,
                     stream>>
  BY DEF HandlerRequest, bootVars, sockets, clients
<1> DEFINE r == Head(todo[w])
<1>2. /\ PlansApart' /\ \A b \in Buffers : Pending(b)' => Pending(b)
      /\ \A b \in Buffers : r.kind = "send" /\ r.buf = b => Pending(b) /\ ~Pending(b)'
  BY <1>0, <1>1, PopPlans
<1>3. TodoInv'
  <2> DEFINE t == Tail(todo[w])
  <2>1. t \in Seq(Calls) /\ Plan(t) /\ todo' = [todo EXCEPT ![w] = t]
    BY <1>0, <1>1, PlanTail DEF TodoInv
  <2> HIDE DEF t
  <2> QED
    BY <1>0, <2>1 DEF TodoInv
<1>4. PcInv'
  <2>1. \A v \in Workers : v # w => todo'[v] = todo[v]
    BY <1>0, <1>1 DEF TodoInv
  <2> QED
    BY <1>0, <1>1, <2>1 DEF PcInv
<1>5. BootInv' /\ NetType' /\ InboxInv'
  BY <1>1 DEF ServiceInv, BootInv, NetType, InboxInv
<1>6. CASE r.kind = "accept_one" /\ RequestAcceptOne
  <2>1. r.sess = NULL
    <3>1. Plan(todo[w]) /\ r = todo[w][1] /\ 1 \in DOMAIN todo[w]
      BY <1>0, <1>1, PlanTail DEF TodoInv
    <3> QED
      BY <1>6, <3>1 DEF Plan
  <2>2. \A s \in Sessions : Handling(s)' = Handling(s)
    BY <1>0, <1>1, <2>1, NullIsNone, PopSession
  <2>3. /\ RingTypeOK' /\ RefInv' /\ SessInv' /\ MsgInv' /\ BufInv' /\ SqeInv'
        /\ request_index' \in Workers /\ sessions_queue' \in Seq(Sessions)
        /\ [RingNext]_ringVars
    BY <1>1, <1>2, <1>6, <2>2, AcceptOneKeeps
  <2>4. BootType'
    BY <1>0, <1>1, <2>3 DEF BootType
  <2> QED
    BY <1>3, <1>4, <1>5, <2>3, <2>4 DEF ServiceInv
<1>7. CASE r.kind # "accept_one" /\ RequestIO(r) /\ UNCHANGED sessions_queue
  <2>1. /\ r \in Requests /\ r.kind # "accept"
        /\ \E n \in 1 .. MaxAlike : Alike(r, n) \notin live
    BY <1>0, <1>1, <1>7, CallFree
  <2> HIDE DEF r
  <2>2. /\ [RingNext]_ringVars /\ request_index' \in Workers
        /\ Taken' = Taken /\ Unseen' = Unseen
        /\ \/ UNCHANGED live
           \/ \E op \in Ops \ live :
                /\ live' = live \cup {op}
                /\ op.kind = r.kind /\ op.sess = r.sess /\ op.buf = r.buf
    BY <1>0, <1>1, <1>7, <2>1, RequestEffect
  <2>3. RingTypeOK' /\ RefInv'
    BY <2>2, RingPart
  <2>4. SessInv'
    <3>1. \/ UNCHANGED live
          \/ \E op \in Ops \ live : /\ live' = live \cup {op}
                                    /\ op.kind = r.kind /\ op.sess = r.sess
      BY <2>2
    <3> QED
      BY <1>0, <1>1, <1>7, <2>1, <2>2, <3>1, CallSessInv DEF r
  <2>5. MsgInv' /\ BufInv'
    <3>1. \/ UNCHANGED live
          \/ \E op \in Ops \ live :
               /\ live' = live \cup {op}
               /\ op.kind = "send" => Pending(op.buf) /\ ~Pending(op.buf)'
      <4>1. ASSUME NEW op \in Ops \ live, op.kind = r.kind, op.buf = r.buf,
                   op.kind = "send"
            PROVE  Pending(op.buf) /\ ~Pending(op.buf)'
        <5>1. op.buf \in Buffers
          BY <4>1, OperationIs
        <5> QED
          BY <1>2, <4>1, <5>1
      <4> QED
        BY <2>2, <4>1
    <3> QED
      BY <1>0, <1>1, <1>2, <2>2, <3>1, RequestBuffers
  <2>6. SqeInv'
    <3>1. live \subseteq live' /\ Completed' = Completed
      BY <2>2 DEF Completed
    <3> QED
      BY <1>0, <1>1, <3>1, SqeUnchanged
  <2>7. BootType'
    BY <1>0, <1>1, <1>7, <2>2 DEF BootType
  <2> QED
    BY <1>3, <1>4, <1>5, <2>3, <2>4, <2>5, <2>6, <2>7, <2>2 DEF ServiceInv
<1> QED
  BY <1>6, <1>7 DEF HandlerRequest

\* The end of a handler, the start of a flush.
LEMMA LoopKeeps ==
  ASSUME ServiceInv, NEW w \in Workers, ~fault, w < started,
         \/ HandlerReturns(w)
         \/ BeginFlush(w) /\ UNCHANGED <<sessionVars, sockets, clients, stream>>
  PROVE  ServiceInv' /\ [RingNext]_ringVars
<1>1. UNCHANGED <<live, request_queue, sq, inflight, cq, holding, fault, acceptor,
                  booted, started, sessions_queue, request_index, socket_fd, todo,
                  sqe_fd, file, fd_table, shut, peer, sent, inbox, stream>>
  BY DEF HandlerReturns, Handle, Handled, BeginFlush, sessionVars, bootVars, sockets,
         clients
<1>2. Handle(w) \/ BeginFlush(w)
  BY DEF HandlerReturns
<1>3. [RingNext]_ringVars
  BY <1>2 DEF RingNext, Worker
<1>4. RingTypeOK' /\ RefInv'
  BY <1>3, RingPart
<1>5. /\ TodoInv' /\ SessInv' /\ InboxInv' /\ MsgInv' /\ BufInv'
      /\ UNCHANGED Completed
  BY <1>1, QuietPart
<1>6. SqeInv'
  BY <1>1, <1>5, SqeUnchanged DEF ServiceInv
<1>7. /\ todo[w] = <<>>
      /\ \E p \in {"flush", "tasks", "prepare"} : pc' = [pc EXCEPT ![w] = p]
  <2>1. CASE HandlerReturns(w)
    BY <2>1 DEF HandlerReturns, Handle, Handled
  <2>2. CASE BeginFlush(w)
    BY <2>2 DEF BeginFlush, ServiceInv, PcInv
  <2> QED
    BY <2>1, <2>2
<1>8. PcInv'
  BY <1>1, <1>7 DEF ServiceInv, RingTypeOK, PcInv
<1>9. BootType' /\ NetType' /\ BootInv'
  BY <1>1 DEF ServiceInv, BootType, NetType, BootInv
<1> QED
  BY <1>3, <1>4, <1>5, <1>6, <1>8, <1>9 DEF ServiceInv

\* request_io of an operation writes its descriptor into the entry.
LEMMA PrepareKeeps ==
  ASSUME ServiceInv, NEW w \in Workers, ~fault, w < started, PrepareOperation(w)
  PROVE  ServiceInv' /\ [RingNext]_ringVars
<1>0. /\ RingTypeOK /\ RefInv /\ PcInv /\ SqeInv /\ BootType /\ NetType /\ BootInv
  BY DEF ServiceInv
<1> DEFINE op == Head(request_queue[w])
           f == [o \in {op} |-> EntryFd(o)]
<1>1. /\ Prepare(w) /\ request_queue[w] # <<>>
      /\ sqe_fd' = Overlay(f, sqe_fd)
      /\ file' = Overlay(Resolve(inflight'[w] \ inflight[w]), file)
      /\ shut' = IF op.kind = "close" THEN shut \cup ({ConnOf(op.sess)} \ {NULL})
                                      ELSE shut
      /\ UNCHANGED <<live, cq, holding, pc, acceptor, booted, started, sessions_queue,
                     request_index, socket_fd, todo, fd_table, peer, sent, inbox,
                     stream>>
  BY DEF PrepareOperation, Prepare, sessionVars, bootVars, clients
<1>2. [RingNext]_ringVars
  BY <1>1 DEF RingNext, Worker
<1>3. RingTypeOK' /\ RefInv'
  BY <1>2, RingPart
<1>4. /\ TodoInv' /\ SessInv' /\ InboxInv' /\ MsgInv' /\ BufInv'
      /\ UNCHANGED Completed
  BY <1>1, QuietPart
<1>5. op \in Ops /\ op \in live \ Completed
  <2>1. request_queue[w] \in Seq(Ops)
    BY <1>0 DEF RingTypeOK
  <2>2. op = request_queue[w][1] /\ 1 \in DOMAIN request_queue[w] /\ op \in Ops
    BY <1>1, <2>1, EmptySeq, LenProperties, HeadTailProperties
  <2> QED
    BY <1>0, <2>2, CompletedLive
<1>6. op.sess \in Sessions /\ EntryFd(op) \in Fds \cup {NULL}
  BY <1>0, <1>5, OperationIs DEF EntryFd, BootType
<1>7. /\ DOMAIN f = {op} /\ f[op] \in Fds \cup {NULL}
  BY <1>6
<1>8. \/ sq' = [sq EXCEPT ![w] = Append(sq[w], op)] /\ inflight' = inflight
      \/ /\ sq' = [sq EXCEPT ![w] = <<>>]
         /\ inflight' = [inflight EXCEPT ![w] = inflight[w] \cup SeqToSet(sq[w])
                                                            \cup {op}]
      \/ UNCHANGED <<sq, inflight>>
  BY <1>1 DEF Prepare
<1> HIDE DEF f, op
<1>9. /\ DOMAIN sqe_fd' = {op} \cup DOMAIN sqe_fd
      /\ \A o \in DOMAIN sqe_fd' : sqe_fd'[o] \in Fds \cup {NULL}
  <2>1. /\ DOMAIN Overlay(f, sqe_fd) = DOMAIN f \cup DOMAIN sqe_fd
        /\ \A o \in DOMAIN f : Overlay(f, sqe_fd)[o] = f[o]
        /\ \A o \in DOMAIN sqe_fd \ DOMAIN f : Overlay(f, sqe_fd)[o] = sqe_fd[o]
    BY OverlayIs
  <2>2. /\ DOMAIN sqe_fd' = {op} \cup DOMAIN sqe_fd
        /\ sqe_fd'[op] = f[op]
        /\ \A o \in DOMAIN sqe_fd \ {op} : sqe_fd'[o] = sqe_fd[o]
    BY <1>1, <1>7, <2>1
  <2> QED
    BY <1>0, <1>7, <2>2 DEF SqeInv
<1>10. /\ \A v \in Workers \ {w} : inflight'[v] = inflight[v] /\ sq'[v] = sq[v]
       /\ inflight'[w] \subseteq inflight[w] \cup DOMAIN sqe_fd'
       /\ \A i \in DOMAIN sq'[w] : sq'[w][i] \in DOMAIN sqe_fd'
  <2>1. /\ sq \in [Workers -> Seq(Ops)] /\ inflight \in [Workers -> SUBSET Ops]
        /\ \A i \in DOMAIN sq[w] : sq[w][i] \in DOMAIN sqe_fd
    BY <1>0 DEF RingTypeOK, SqeInv
  <2>2. CASE sq' = [sq EXCEPT ![w] = Append(sq[w], op)] /\ inflight' = inflight
    <3>0. sq[w] \in Seq(Ops)
      BY <2>1
    <3> DEFINE q == Append(sq[w], op)
               n == Len(sq[w])
    <3>1. /\ DOMAIN q = 1 .. n + 1 /\ n \in Nat /\ DOMAIN sq[w] = 1 .. n
          /\ \A i \in 1 .. n : q[i] = sq[w][i]
          /\ q[n + 1] = op
      BY <1>5, <3>0, AppendProperties, LenProperties
    <3>2. sq'[w] = q /\ \A v \in Workers \ {w} : sq'[v] = sq[v]
      BY <2>1, <2>2
    <3> HIDE DEF q, n
    <3>3. ASSUME NEW i \in 1 .. n + 1 PROVE q[i] \in DOMAIN sqe_fd'
      <4>1. i \in 1 .. n \/ i = n + 1
        BY <3>1
      <4> QED
        BY <1>9, <2>1, <3>1, <4>1
    <3> QED
      BY <2>2, <3>1, <3>2, <3>3
  <2>3. CASE /\ sq' = [sq EXCEPT ![w] = <<>>]
             /\ inflight' = [inflight EXCEPT ![w] = inflight[w] \cup SeqToSet(sq[w])
                                                                \cup {op}]
    <3>1. /\ sq'[w] = <<>> /\ inflight'[w] = inflight[w] \cup SeqToSet(sq[w]) \cup {op}
          /\ \A v \in Workers \ {w} : inflight'[v] = inflight[v] /\ sq'[v] = sq[v]
      BY <2>1, <2>3
    <3>2. SeqToSet(sq[w]) \subseteq DOMAIN sqe_fd
      BY <2>1 DEF SeqToSet
    <3>3. DOMAIN sq'[w] = {}
      BY <3>1
    <3> QED
      BY <1>9, <3>1, <3>2, <3>3
  <2>4. CASE UNCHANGED <<sq, inflight>>
    BY <1>9, <2>1, <2>4
  <2> QED
    BY <1>8, <2>2, <2>3, <2>4
<1>11. SqeInv'
  <2>1. DOMAIN sqe_fd \subseteq DOMAIN sqe_fd' /\ DOMAIN sqe_fd' \subseteq live \ Completed
    BY <1>0, <1>5, <1>9 DEF SqeInv
  <2> QED
    BY <1>0, <1>1, <1>4, <1>9, <1>10, <2>1, SqeSubmitted
<1>12. NetType'
  <2>1. ConnOf(op.sess) \in Conns \cup {NULL}
    BY <1>0, <1>6 DEF ConnOf, BootType, NetType
  <2>2. shut' \subseteq Conns
    BY <1>0, <1>1, <2>1 DEF NetType
  <2> QED
    BY <1>0, <1>1, <2>2 DEF NetType
<1>13. PcInv' /\ BootType'
  BY <1>0, <1>1 DEF PcInv, BootType
<1>14. BootInv'
  <2>1. started > 0
    BY <1>0, ServiceAssumption DEF BootType
  <2> QED
    BY <1>0, <1>1, <2>1 DEF BootInv
<1> QED
  BY <1>2, <1>3, <1>4, <1>11, <1>12, <1>13, <1>14 DEF ServiceInv

\* The end of a flush.
LEMMA SubmitKeeps ==
  ASSUME ServiceInv, NEW w \in Workers, ~fault, w < started, SubmitAll(w)
  PROVE  ServiceInv' /\ [RingNext]_ringVars
<1>0. /\ RingTypeOK /\ PcInv /\ SqeInv /\ BootType /\ NetType /\ BootInv
  BY DEF ServiceInv
<1>1. /\ Submit(w) /\ pc[w] = "prepare" /\ pc' = [pc EXCEPT ![w] = "tasks"]
      /\ sq' = [sq EXCEPT ![w] = <<>>]
      /\ inflight' = [inflight EXCEPT ![w] = inflight[w] \cup SeqToSet(sq[w])]
      /\ file' = Overlay(Resolve(inflight'[w] \ inflight[w]), file)
      /\ UNCHANGED <<live, cq, holding, fault, acceptor, booted, started,
                     sessions_queue, request_index, socket_fd, todo, sqe_fd,
                     fd_table, shut, peer, sent, inbox, stream>>
  BY DEF SubmitAll, Submit, sessionVars, bootVars, clients
<1>2. [RingNext]_ringVars
  BY <1>1 DEF RingNext, Worker
<1>3. RingTypeOK' /\ RefInv'
  BY <1>2, RingPart
<1>4. /\ TodoInv' /\ SessInv' /\ InboxInv' /\ MsgInv' /\ BufInv'
      /\ UNCHANGED Completed
  BY <1>1, QuietPart
<1>5. /\ \A v \in Workers \ {w} : inflight'[v] = inflight[v] /\ sq'[v] = sq[v]
      /\ inflight'[w] \subseteq inflight[w] \cup DOMAIN sqe_fd'
      /\ \A i \in DOMAIN sq'[w] : sq'[w][i] \in DOMAIN sqe_fd'
  <2>1. /\ sq \in [Workers -> Seq(Ops)] /\ inflight \in [Workers -> SUBSET Ops]
        /\ \A i \in DOMAIN sq[w] : sq[w][i] \in DOMAIN sqe_fd
    BY <1>0 DEF RingTypeOK, SqeInv
  <2>2. /\ sq'[w] = <<>> /\ inflight'[w] = inflight[w] \cup SeqToSet(sq[w])
        /\ \A v \in Workers \ {w} : inflight'[v] = inflight[v] /\ sq'[v] = sq[v]
    BY <1>1, <2>1
  <2>3. SeqToSet(sq[w]) \subseteq DOMAIN sqe_fd
    BY <2>1 DEF SeqToSet
  <2>4. DOMAIN sq'[w] = {}
    BY <2>2
  <2> QED
    BY <1>1, <2>2, <2>3, <2>4
<1>6. SqeInv'
  <2>1. /\ DOMAIN sqe_fd \subseteq DOMAIN sqe_fd' /\ DOMAIN sqe_fd' \subseteq live \ Completed
        /\ \A o \in DOMAIN sqe_fd' : sqe_fd'[o] \in Fds \cup {NULL}
    BY <1>0, <1>1 DEF SqeInv
  <2> QED
    BY <1>0, <1>1, <1>4, <1>5, <2>1, SqeSubmitted
<1>7. PcInv'
  BY <1>0, <1>1 DEF PcInv, RingTypeOK
<1>8. BootType' /\ NetType' /\ BootInv'
  BY <1>0, <1>1 DEF BootType, NetType, BootInv
<1> QED
  BY <1>2, <1>3, <1>4, <1>6, <1>7, <1>8 DEF ServiceInv

\* ~IOCompletion gives the operation back.
LEMMA RetireKeeps ==
  ASSUME ServiceInv, NEW w \in Workers, ~fault, w < started, Retire(w),
         UNCHANGED <<sessionVars, sockets, clients, stream>>
  PROVE  ServiceInv' /\ [RingNext]_ringVars
<1>0. /\ RingTypeOK /\ RefInv /\ PcInv /\ SqeInv /\ BootType /\ NetType /\ BootInv
      /\ TodoInv /\ SessInv /\ MsgInv /\ BufInv /\ InboxInv
  BY DEF ServiceInv
<1>1. /\ pc[w] = "tasks" /\ pc' = [pc EXCEPT ![w] = "wait"]
      /\ holding' = [holding EXCEPT ![w] = FALSE]
      /\ UNCHANGED <<request_queue, sq, inflight, fault, acceptor, booted, started,
                     sessions_queue, request_index, socket_fd, todo, sqe_fd, file,
                     fd_table, shut, peer, sent, inbox, stream>>
  BY DEF Retire, sessionVars, bootVars, sockets, clients
<1>2. [RingNext]_ringVars
  BY DEF RingNext, Worker
<1>3. RingTypeOK' /\ RefInv'
  BY <1>2, RingPart
<1>4. PcInv'
  <2>1. todo[w] = <<>>
    BY <1>0, <1>1 DEF PcInv
  <2>2. ~holding'[w] /\ \A v \in Workers : v # w => holding'[v] = holding[v]
    BY <1>0, <1>1, ZenonT(40) DEF RingTypeOK
  <2>3. \A v \in Workers : pc'[v] = IF v = w THEN "wait" ELSE pc[v]
    BY <1>0, <1>1 DEF RingTypeOK
  <2> QED
    BY <1>0, <1>1, <2>1, <2>2, <2>3 DEF PcInv
<1>5. BootType' /\ NetType' /\ BootInv' /\ TodoInv' /\ InboxInv'
  BY <1>0, <1>1 DEF BootType, NetType, BootInv, TodoInv, InboxInv
<1>6. SessInv' /\ MsgInv' /\ BufInv' /\ SqeInv'
  <2>1. CASE holding[w]
    <3>1. PICK op \in Taken : /\ live' = live \ {op} /\ Taken' = Taken \ {op}
                              /\ Unseen' = Unseen
                              /\ \A e \in Unseen : e.op # op
      BY <1>0, <2>1, RetireEffect
    <3>2. SessInv'
      BY <1>0, <1>1, <3>1, RetireSessInv
    <3>3. MsgInv' /\ BufInv'
      BY <1>0, <1>1, <3>1, RetireBuffers
    <3>4. Completed' = Completed \ {op} /\ op \in Completed
      BY <3>1 DEF Completed
    <3>5. SqeInv'
      BY <1>0, <1>1, <3>1, <3>4, SqeUnchanged
    <3> QED
      BY <3>2, <3>3, <3>5
  <2>2. CASE ~holding[w]
    <3>1. UNCHANGED <<live, cq>>
      BY <2>2 DEF Retire
    <3>2. holding' = holding
      <4>1. \A v \in Workers : holding'[v] = holding[v]
        BY <1>0, <1>1, <2>2, ZenonT(40) DEF RingTypeOK
      <4>2. holding \in [Workers -> BOOLEAN] /\ holding' \in [Workers -> BOOLEAN]
        BY <1>0, <1>3 DEF RingTypeOK
      <4> QED
        BY <4>1, <4>2
    <3>3. SessInv' /\ MsgInv' /\ BufInv' /\ UNCHANGED Completed
      BY <1>1, <3>1, <3>2, QuietPart
    <3>4. SqeInv'
      BY <1>0, <1>1, <3>1, <3>3, SqeUnchanged
    <3> QED
      BY <3>3, <3>4
  <2> QED
    BY <2>1, <2>2
<1> QED
  BY <1>2, <1>3, <1>4, <1>5, <1>6 DEF ServiceInv

\* What a completion may report.
LEMMA ResultIs ==
  ASSUME NEW b \in BOOLEAN, NEW f \in Fds \cup {NULL}, NEW q \in Seq(Messages),
         Len(q) <= MaxMessages
  PROVE  [ok |-> b, fd |-> f, msgs |-> q] \in Results
<1>1. /\ Len(q) \in 0 .. MaxMessages
  BY LenProperties, ServiceAssumption
<1>2. q \in [1 .. Len(q) -> Messages]
  BY LenProperties
<1> DEFINE M == UNION {[1 .. n -> Messages] : n \in 0 .. MaxMessages}
<1>3. q \in M
  BY <1>1, <1>2
<1> HIDE DEF M
<1>4. [ok |-> b, fd |-> f, msgs |-> q] \in [ok : BOOLEAN, fd : Fds \cup {NULL}, msgs : M]
  BY <1>3, Zenon
<1>5. Results = [ok : BOOLEAN, fd : Fds \cup {NULL}, msgs : M]
  BY ServiceAssumption DEF Outcomes, M
<1> QED
  BY <1>4, <1>5

\* The outcomes without messages.
LEMMA NoMessageResult ==
  ASSUME NEW f \in Fds \cup {NULL}
  PROVE  /\ [ok |-> TRUE, fd |-> f, msgs |-> <<>>] \in Results
         /\ [ok |-> TRUE, fd |-> f, msgs |-> <<>>].msgs = <<>>
         /\ Failed \in Results /\ Failed.msgs = <<>>
         /\ Done \in Results /\ Done.msgs = <<>>
<1>1. <<>> \in Seq(Messages) /\ Len(<<>>) <= MaxMessages /\ NULL \in Fds \cup {NULL}
  BY EmptySeq, ServiceAssumption
<1>2. TRUE \in BOOLEAN /\ FALSE \in BOOLEAN
  OBVIOUS
<1>3. \A b \in BOOLEAN, g \in Fds \cup {NULL} : [ok |-> b, fd |-> g, msgs |-> <<>>] \in Results
  BY <1>1, ResultIs
<1>4. \A b, g : [ok |-> b, fd |-> g, msgs |-> <<>>].msgs = <<>>
  OBVIOUS
<1> QED
  BY <1>1, <1>2, <1>3, <1>4, Zenon DEF Failed, Done

\* The kernel finishes an operation: what is the same for all of them.
LEMMA CompleteKeeps ==
  ASSUME ServiceInv, ~fault, NEW w \in Workers, NEW op, NEW res \in Results,
         CompleteOperation(w, op, res), UNCHANGED <<sessionVars, shut, peer, sent>>,
         fd_table' \in [Fds -> Conns \cup {NULL}], MsgInv', BufInv', InboxInv'
  PROVE  ServiceInv' /\ [RingNext]_ringVars
<1>0. /\ RingTypeOK /\ RefInv /\ PcInv /\ SqeInv /\ BootType /\ NetType /\ BootInv
      /\ TodoInv /\ SessInv
  BY DEF ServiceInv
<1>1. /\ Complete(w, op, res) /\ op \in inflight[w]
      /\ UNCHANGED <<live, request_queue, sq, holding, pc, fault, acceptor, booted,
                     started, sessions_queue, request_index, socket_fd, todo, shut,
                     peer, sent>>
  BY DEF CompleteOperation, Complete, sessionVars, bootVars
<1>2. [RingNext]_ringVars
  BY <1>1 DEF RingNext, Kernel
<1>3. RingTypeOK' /\ RefInv'
  BY <1>2, RingPart
<1>4. SessInv'
  <2>1. live' = live /\ Taken' = Taken
    BY <1>0, <1>1, CompleteEffect
  <2> QED
    BY <1>0, <1>1, <2>1, SessUnchanged
<1>5. SqeInv'
  BY <1>0, SqeCompleted
<1>6. BootType' /\ NetType' /\ BootInv' /\ PcInv' /\ TodoInv'
  BY <1>0, <1>1 DEF BootType, NetType, BootInv, PcInv, TodoInv
<1> QED
  BY <1>2, <1>3, <1>4, <1>5, <1>6 DEF ServiceInv

\* A completion without messages that writes nothing.
LEMMA CompleteQuietly ==
  ASSUME ServiceInv, ~fault, NEW w \in Workers, NEW op, NEW res \in Results,
         res.msgs = <<>>, CompleteOperation(w, op, res),
         UNCHANGED <<sessionVars, shut, peer, sent, inbox, stream>>,
         fd_table' \in [Fds -> Conns \cup {NULL}]
  PROVE  ServiceInv' /\ [RingNext]_ringVars
<1> DEFINE e == [op |-> op, res |-> res]
<1>1. RingTypeOK /\ RefInv /\ Complete(w, op, res) /\ todo' = todo
  BY DEF ServiceInv, CompleteOperation, sessionVars
<1>2. op \in Ops
  BY <1>1 DEF Complete, RingTypeOK
<1>3. e \in Entries /\ e.res.msgs = <<>>
  BY <1>2 DEF Entries
<1>4. live' = live /\ Taken' = Taken /\ Unseen' = Unseen \cup {e}
  BY <1>1, CompleteEffect
<1> HIDE DEF e
<1>5. MsgInv' /\ BufInv' /\ InboxInv'
  BY <1>1, <1>3, <1>4, CompleteNoMessage DEF ServiceInv
<1> QED
  BY <1>5, CompleteKeeps

\* A connection is accepted, or accept fails.
LEMMA AcceptKeeps ==
  ASSUME ServiceInv, ~fault, NEW w \in Workers, NEW op, CompleteAccept(w, op),
         UNCHANGED <<sessionVars, shut, peer, sent>>
  PROVE  ServiceInv' /\ [RingNext]_ringVars
<1>0. fd_table \in [Fds -> Conns \cup {NULL}] /\ UNCHANGED <<inbox, stream>>
  BY DEF ServiceInv, NetType, CompleteAccept
<1>1. ASSUME NEW c \in Waiting, NEW f \in Free,
             CompleteOperation(w, op, [ok |-> TRUE, fd |-> f, msgs |-> <<>>]),
             fd_table' = [fd_table EXCEPT ![f] = c]
      PROVE  ServiceInv' /\ [RingNext]_ringVars
  <2> DEFINE res == [ok |-> TRUE, fd |-> f, msgs |-> <<>>]
  <2>1. f \in Fds /\ c \in Conns
    BY DEF Waiting, Free
  <2>2. res \in Results /\ res.msgs = <<>>
    BY <2>1, NoMessageResult
  <2>3. fd_table' \in [Fds -> Conns \cup {NULL}]
    BY <1>0, <1>1, <2>1
  <2>4. CompleteOperation(w, op, res)
    BY <1>1
  <2> HIDE DEF res
  <2> QED
    BY <1>0, <2>2, <2>3, <2>4, CompleteQuietly
<1>2. CASE CompleteOperation(w, op, Failed) /\ UNCHANGED fd_table
  <2>1. Failed \in Results /\ Failed.msgs = <<>>
    BY NoMessageResult
  <2> QED
    BY <1>0, <1>2, <2>1, CompleteQuietly
<1> QED
  BY <1>1, <1>2 DEF CompleteAccept

\* A descriptor is closed.
LEMMA CloseKeeps ==
  ASSUME ServiceInv, ~fault, NEW w \in Workers, NEW op, CompleteClose(w, op),
         UNCHANGED <<sessionVars, shut, peer, sent>>
  PROVE  ServiceInv' /\ [RingNext]_ringVars
<1>1. fd_table \in [Fds -> Conns \cup {NULL}] /\ SqeInv
  BY DEF ServiceInv, NetType
<1>2. /\ CompleteOperation(w, op, Done) /\ UNCHANGED <<inbox, stream>>
      /\ fd_table' = IF sqe_fd[op] = NULL THEN fd_table
                     ELSE [fd_table EXCEPT ![sqe_fd[op]] = NULL]
  BY DEF CompleteClose
<1>3. op \in inflight[w]
  BY <1>2 DEF CompleteOperation, Complete
<1>4. sqe_fd[op] \in Fds \cup {NULL}
  BY <1>1, <1>3 DEF SqeInv
<1>5. fd_table' \in [Fds -> Conns \cup {NULL}]
  BY <1>1, <1>2, <1>4
<1>6. Done \in Results /\ Done.msgs = <<>>
  BY NoMessageResult
<1> QED
  BY <1>2, <1>5, <1>6, CompleteQuietly

\* The connection an operation works on.
LEMMA FileIs ==
  ASSUME ServiceInv, NEW w \in Workers, NEW op \in inflight[w], ~Broken(file[op])
  PROVE  file[op] \in Conns
<1>1. file[op] \in Conns \cup {NULL}
  BY DEF ServiceInv, SqeInv
<1> QED
  BY <1>1 DEF Broken

\* A buffer is written, or the connection is not there any more.
LEMMA SendKeeps ==
  ASSUME ServiceInv, ~fault, NEW w \in Workers, NEW op, CompleteSend(w, op),
         UNCHANGED <<sessionVars, shut, peer, sent>>
  PROVE  ServiceInv' /\ [RingNext]_ringVars
<1> DEFINE c == file[op]
<1>0. /\ fd_table' \in [Fds -> Conns \cup {NULL}] /\ UNCHANGED inbox
      /\ op.kind = "send"
  BY DEF ServiceInv, NetType, CompleteSend
<1>r. /\ Failed \in Results /\ Failed.msgs = <<>>
      /\ Done \in Results /\ Done.msgs = <<>>
  BY NoMessageResult
<1>1. CASE /\ ~Broken(c) /\ CompleteOperation(w, op, Done)
           /\ stream' = [stream EXCEPT ![c] = Append(stream[c], op.buf)]
  <2> DEFINE res == Done
             e == [op |-> op, res |-> res]
  <2>0. res \in Results /\ res.msgs = <<>>
    BY <1>r
  <2>4. CompleteOperation(w, op, res)
    BY <1>1
  <2> HIDE DEF res
  <2>1. /\ RingTypeOK /\ RefInv /\ MsgInv /\ BufInv /\ InboxInv
        /\ Complete(w, op, res) /\ todo' = todo
        /\ op \in inflight[w]
    BY <2>4 DEF ServiceInv, CompleteOperation, Complete, sessionVars
  <2>2. op \in Ops /\ c \in Conns
    BY <1>1, <2>1, FileIs DEF RingTypeOK
  <2>3. e \in Entries /\ e.res.msgs = <<>> /\ e.op = op
    BY <2>0, <2>2 DEF Entries
  <2>5. op \in live \ Completed /\ live' = live /\ Taken' = Taken /\ Unseen' = Unseen \cup {e}
    BY <2>0, <2>1, CompleteEffect
  <2> HIDE DEF e, c
  <2>6. MsgInv' /\ BufInv' /\ InboxInv'
    <3>1. stream' = [stream EXCEPT ![c] = Append(stream[c], e.op.buf)]
      BY <1>1, <2>3
    <3>2. e.op \in live \ Completed /\ e.op.kind = "send"
      BY <1>0, <2>3, <2>5
    <3> QED
      BY <1>0, <2>1, <2>2, <2>3, <2>5, <3>1, <3>2, CompleteSendBuffers
  <2> QED
    BY <1>0, <2>0, <2>4, <2>6, CompleteKeeps
<1>2. CASE CompleteOperation(w, op, Failed) /\ UNCHANGED stream
  BY <1>0, <1>r, <1>2, CompleteQuietly
<1> QED
  BY <1>1, <1>2 DEF CompleteSend

\* A receive reports what waits in the connection.
LEMMA ReceivedResult ==
  ASSUME ServiceInv, NEW c \in Conns, NEW k \in 1 .. Len(inbox[c])
  PROVE  [ok |-> TRUE, fd |-> NULL, msgs |-> SubSeq(inbox[c], 1, k)] \in Results
<1> DEFINE q == SubSeq(inbox[c], 1, k)
<1>1. /\ inbox[c] \in Seq(Messages) /\ Len(inbox[c]) <= sent[c]
      /\ sent[c] \in Nat /\ sent[c] <= MaxMessages /\ Len(inbox[c]) \in Nat
      /\ k \in 0 .. Len(inbox[c]) /\ k \in Nat
  BY ServiceAssumption, LenProperties DEF ServiceInv, NetType, InboxInv
<1>2. q \in Seq(Messages) /\ DOMAIN q = 1 .. k
  BY <1>1, PrefixIs
<1>3. Len(q) = k
  BY <1>1, <1>2, LenProperties
<1> HIDE DEF q
<1>4. Len(q) <= MaxMessages
  BY <1>1, <1>3, ServiceAssumption
<1>5. NULL \in Fds \cup {NULL} /\ TRUE \in BOOLEAN
  OBVIOUS
<1>6. [ok |-> TRUE, fd |-> NULL, msgs |-> q] \in Results
  BY <1>2, <1>4, <1>5, ResultIs
<1> QED
  BY <1>6 DEF q

\* A receive takes messages, or reports the end of the stream or an error.
LEMMA RecvKeeps ==
  ASSUME ServiceInv, ~fault, NEW w \in Workers, NEW op, CompleteRecv(w, op),
         UNCHANGED <<sessionVars, shut, peer, sent>>
  PROVE  ServiceInv' /\ [RingNext]_ringVars
<1> DEFINE c == file[op]
<1>0. /\ fd_table' \in [Fds -> Conns \cup {NULL}] /\ UNCHANGED stream
      /\ RingTypeOK /\ RefInv /\ MsgInv /\ BufInv /\ InboxInv
      /\ sent \in [Conns -> 0 .. MaxMessages] /\ todo' = todo
  BY DEF ServiceInv, NetType, CompleteRecv, sessionVars
<1>r. /\ Failed \in Results /\ Failed.msgs = <<>>
      /\ Done \in Results /\ Done.msgs = <<>>
  BY NoMessageResult
<1>1. ASSUME NEW k \in 1 .. Len(inbox[c]), ~Broken(c),
             CompleteOperation(w, op, [ok |-> TRUE, fd |-> NULL,
                                       msgs |-> SubSeq(inbox[c], 1, k)]),
             inbox' = [inbox EXCEPT ![c] = SubSeq(inbox[c], k + 1, Len(inbox[c]))]
      PROVE  ServiceInv' /\ [RingNext]_ringVars
  <2> DEFINE q == SubSeq(inbox[c], 1, k)
             res == [ok |-> TRUE, fd |-> NULL, msgs |-> q]
             e == [op |-> op, res |-> res]
  <2>1. op \in inflight[w] /\ Complete(w, op, res)
    BY <1>1 DEF CompleteOperation, Complete
  <2>2. op \in Ops /\ c \in Conns
    BY <1>0, <1>1, <2>1, FileIs DEF RingTypeOK
  <2>4. res.msgs = q
    OBVIOUS
  <2>5. res \in Results
    BY <2>2, ReceivedResult
  <2>6. CompleteOperation(w, op, res)
    BY <1>1
  <2>7. e.op = op /\ e.res = res
    OBVIOUS
  <2> HIDE DEF res
  <2>8. e \in Entries
    BY <2>2, <2>5 DEF Entries
  <2>9. live' = live /\ Taken' = Taken /\ Unseen' = Unseen \cup {e}
    BY <1>0, <2>1, <2>5, CompleteEffect
  <2>10. e.res.msgs = SubSeq(inbox[c], 1, k)
    BY <2>4, <2>7
  <2> HIDE DEF e, c, q
  <2>11. MsgInv' /\ BufInv' /\ InboxInv'
    <3>1. sent[c] \in Nat
      BY <1>0, <2>2, ServiceAssumption
    <3> QED
      BY <1>0, <1>1, <2>2, <2>8, <2>9, <2>10, <3>1, CompleteRecvBuffers
  <2> QED
    BY <1>0, <2>5, <2>6, <2>11, CompleteKeeps
<1>2. CASE CompleteOperation(w, op, Failed) /\ UNCHANGED inbox
  BY <1>0, <1>r, <1>2, CompleteQuietly
<1>3. CASE CompleteOperation(w, op, Done) /\ UNCHANGED inbox
  BY <1>0, <1>r, <1>3, CompleteQuietly
<1> QED
  BY <1>1, <1>2, <1>3 DEF CompleteRecv

\* The kernel's steps.
LEMMA KernelKeeps ==
  ASSUME ServiceInv, NEW w \in Workers, NEW op, KernelStep(w, op)
  PROVE  ServiceInv' /\ [RingNext]_ringVars
BY AcceptKeeps, RecvKeeps, SendKeeps, CloseKeeps DEF KernelStep

\* The clients' steps.
LEMMA ClientKeeps ==
  ASSUME ServiceInv, NEW c \in Conns, Client(c)
  PROVE  ServiceInv' /\ [RingNext]_ringVars
<1>0. /\ RingTypeOK /\ RefInv /\ PcInv /\ SqeInv /\ BootType /\ NetType /\ BootInv
      /\ TodoInv /\ SessInv /\ MsgInv /\ BufInv /\ InboxInv
  BY DEF ServiceInv
<1>1. /\ UNCHANGED ringVars
      /\ UNCHANGED <<live, request_queue, sq, inflight, cq, holding, pc, fault,
                     acceptor, booted, started, sessions_queue, request_index,
                     socket_fd, todo, sqe_fd, file, fd_table, shut, stream>>
  BY DEF Client, ringVars, sessionVars, bootVars, sockets
<1>2. RingTypeOK' /\ RefInv' /\ [RingNext]_ringVars
  BY <1>1, RingPart
<1>3. UNCHANGED <<Taken, Unseen, Completed>>
  BY <1>1, ViewsUnchanged
<1>4. SessInv' /\ SqeInv'
  BY <1>0, <1>1, <1>3, SessUnchanged, SqeUnchanged
<1>5. BootType' /\ BootInv' /\ PcInv' /\ TodoInv'
  BY <1>0, <1>1 DEF BootType, BootInv, PcInv, TodoInv
<1>6. NetType' /\ MsgInv' /\ BufInv' /\ InboxInv'
  <2>1. CASE Connect(c) \/ ClientLeaves(c)
    <3>1. /\ peer' \in [Conns -> {"none", "up", "closed", "reset"}]
          /\ UNCHANGED <<sent, inbox>>
      BY <1>0, <2>1 DEF Connect, ClientLeaves, NetType
    <3>2. MsgInv' /\ BufInv' /\ InboxInv'
      BY <1>0, <1>1, <1>3, <3>1, BuffersUnchanged
    <3> QED
      BY <1>0, <1>1, <3>1, <3>2 DEF NetType
  <2>2. CASE ClientSend(c)
    <3>1. /\ sent[c] < MaxMessages /\ sent' = [sent EXCEPT ![c] = sent[c] + 1]
          /\ inbox' = [inbox EXCEPT ![c] = Append(inbox[c], <<c, sent[c] + 1>>)]
          /\ peer' = peer
      BY <2>2 DEF ClientSend
    <3>2. sent \in [Conns -> 0 .. MaxMessages]
      BY <1>0 DEF NetType
    <3>3. MsgInv' /\ BufInv' /\ InboxInv'
      BY <1>0, <1>1, <1>3, <3>1, <3>2, ClientSendBuffers
    <3>4. sent[c] + 1 \in 0 .. MaxMessages
      BY <3>1, <3>2, ServiceAssumption
    <3>5. sent' \in [Conns -> 0 .. MaxMessages]
      BY <3>1, <3>2, <3>4
    <3> QED
      BY <1>0, <1>1, <3>1, <3>3, <3>5 DEF NetType
  <2> QED
    BY <2>1, <2>2 DEF Client
<1> QED
  BY <1>2, <1>4, <1>5, <1>6 DEF ServiceInv

\* The service is built with nothing requested.
LEMMA InitKeeps == Init => ServiceInv
<1> SUFFICES ASSUME Init PROVE ServiceInv
  OBVIOUS
<1>0. RingInit
  BY DEF Init
<1>1. RingTypeOK /\ RefInv
  BY <1>0, RingInitType, RefInit
<1>2. /\ live = {} /\ ~fault
      /\ \A w \in Workers : /\ cq[w] = <<>> /\ sq[w] = <<>> /\ inflight[w] = {}
                            /\ ~holding[w]
  BY <1>0, Zenon DEF RingInit
<1>3. /\ \A S : <<>> \in Seq(S)
      /\ Len(<<>>) = 0 /\ DOMAIN <<>> = {} /\ Range(<<>>) = {} /\ IsInjective(<<>>)
  BY EmptySeq, DistinctEmpty
<1>4. Taken = {} /\ Unseen = {}
  <2>1. ASSUME NEW e PROVE e \notin Unseen
    BY <1>2, <1>3, UnseenIs
  <2> QED
    BY <1>2, <2>1 DEF Taken
<1>5. \A w \in Workers : todo[w] = <<>>
  BY DEF Init
<1>6. PcInv
  BY <1>2, <1>5 DEF PcInv
<1>7. TodoInv
  <2>1. Plan(<<>>)
    BY <1>3 DEF Plan
  <2>2. todo \in [Workers -> Seq(Calls)]
    BY <1>3 DEF Init
  <2> QED
    BY <1>5, <2>1, <2>2 DEF TodoInv
<1>8. sessions_queue \in Seq(Sessions) /\ IsInjective(sessions_queue)
  <2>1. SessionCount \in Nat /\ Sessions = 1 .. SessionCount
    BY ServiceAssumption DEF Sessions
  <2>2. sessions_queue = [i \in 1 .. SessionCount |-> i]
    BY DEF Init
  <2>3. sessions_queue \in [1 .. SessionCount -> Sessions]
    BY <2>1, <2>2
  <2>4. sessions_queue \in Seq(Sessions)
    BY <2>1, <2>3, SeqDef
  <2> QED
    BY <2>2, <2>4 DEF IsInjective
<1>9. SessInv
  <2>1. ASSUME NEW s PROVE Outstanding(s) = {} /\ Handling(s) = {}
    <3>1. Outstanding(s) = {}
      BY <1>2, OutstandingIs
    <3>2. Handling(s) = {}
      BY <1>3, <1>5, HandlingIs
    <3> QED
      BY <3>1, <3>2
  <2> QED
    BY <1>2, <1>8, <2>1 DEF SessInv
<1>10. BootType /\ BootInv
  <2>1. /\ acceptor = "none" /\ booted = 0 /\ started = 0 /\ request_index = 0
        /\ socket_fd = [s \in Sessions |-> NULL]
    BY DEF Init
  <2>2. 0 \in Workers /\ Backlog \in Nat /\ ThreadCount \in Nat
    BY ServiceAssumption
  <2>3. 0 \in 0 .. Backlog /\ 0 \in 0 .. ThreadCount /\ ~(0 > 0)
    BY <2>2
  <2>4. socket_fd \in [Sessions -> Fds \cup {NULL}]
    BY <2>1
  <2> QED
    BY <1>2, <1>8, <2>1, <2>2, <2>3, <2>4 DEF BootType, BootInv
<1>11. NetType
  <2>1. 0 \in 0 .. MaxMessages
    BY ServiceAssumption
  <2> QED
    BY <2>1 DEF Init, NetType
<1>12. /\ \A c \in Conns : inbox[c] = <<>> /\ stream[c] = <<>> /\ sent[c] = 0
       /\ inbox \in [Conns -> Seq(Messages)] /\ stream \in [Conns -> Seq(Buffers)]
  BY <1>3 DEF Init
<1>13. InboxInv
  BY <1>3, <1>12 DEF InboxInv
<1>14. /\ \A w \in Workers : Sends(w) = {}
       /\ \A b \in Buffers : ~Pending(b) /\ Writing(b) = {} /\ ~Streamed(b)
       /\ \A m : Reported(m) = {}
  <2>1. \A w \in Workers : Sends(w) = {}
    BY <1>3, <1>5 DEF Sends
  <2> QED
    BY <1>2, <1>3, <1>4, <1>12, <2>1 DEF Pending, Writing, Streamed, Reported
<1>15. MsgInv
  BY <1>4, <1>14 DEF MsgInv
<1>16. BufInv
  BY <1>3, <1>12, <1>14 DEF BufInv
<1>17. SqeInv
  <2>1. DOMAIN sqe_fd = {} /\ DOMAIN file = {}
    BY <1>3 DEF Init
  <2> QED
    BY <1>2, <1>3, <2>1 DEF SqeInv
<1> QED
  BY <1>1, <1>6, <1>7, <1>9, <1>10, <1>11, <1>13, <1>15, <1>16, <1>17 DEF ServiceInv

\* Every step keeps the invariant, and is one of the rings or none.
LEMMA StepKeeps ==
  ASSUME ServiceInv, [Next]_vars
  PROVE  ServiceInv' /\ [RingNext]_ringVars
<1>1. CASE UNCHANGED vars
  <2>1. /\ UNCHANGED ringVars
        /\ UNCHANGED <<live, request_queue, sq, inflight, cq, holding, pc, fault,
                       acceptor, booted, started, sessions_queue, request_index,
                       socket_fd, todo, sqe_fd, file, fd_table, shut, peer, sent,
                       inbox, stream>>
    BY <1>1 DEF vars, ringVars, sessionVars, bootVars, sockets, clients
  <2>2. RingTypeOK' /\ RefInv'
    BY <2>1, RingPart
  <2>3. /\ TodoInv' /\ SessInv' /\ InboxInv' /\ MsgInv' /\ BufInv'
        /\ UNCHANGED Completed
    BY <2>1, QuietPart
  <2>4. SqeInv'
    BY <2>1, <2>3, SqeUnchanged DEF ServiceInv
  <2>5. BootType' /\ NetType' /\ BootInv' /\ PcInv'
    BY <2>1 DEF ServiceInv, BootType, NetType, BootInv, PcInv
  <2> QED
    BY <2>1, <2>2, <2>3, <2>4, <2>5 DEF ServiceInv
<1>2. CASE Boot
  BY <1>2, BuildKeeps, InitializeKeeps DEF Boot
<1>3. ASSUME NEW w \in Workers, WorkerStep(w)
      PROVE  ServiceInv' /\ [RingNext]_ringVars
  <2>0. ~fault /\ w < started
    BY <1>3 DEF WorkerStep
  <2>1. CASE TakeCompletion(w)
    BY <2>0, <2>1, TakeKeeps
  <2>2. CASE HandlerRequest(w)
    BY <2>0, <2>2, CallKeeps
  <2>3. CASE HandlerReturns(w)
    BY <2>0, <2>3, LoopKeeps
  <2>4. CASE PrepareOperation(w)
    BY <2>0, <2>4, PrepareKeeps
  <2>5. CASE SubmitAll(w)
    BY <2>0, <2>5, SubmitKeeps
  <2>6. CASE FlushOrRetire(w)
    BY <2>0, <2>6, LoopKeeps, RetireKeeps DEF FlushOrRetire
  <2> QED
    BY <1>3, <2>1, <2>2, <2>3, <2>4, <2>5, <2>6 DEF WorkerStep
<1>4. ASSUME NEW w \in Workers, NEW op \in inflight[w], KernelStep(w, op)
      PROVE  ServiceInv' /\ [RingNext]_ringVars
  BY <1>4, KernelKeeps
<1>5. ASSUME NEW c \in Conns, Client(c)
      PROVE  ServiceInv' /\ [RingNext]_ringVars
  BY <1>5, ClientKeeps
<1> QED
  BY <1>1, <1>2, <1>3, <1>4, <1>5 DEF Next

-----------------------------------------------------------------------------
(* Theorems.                                                               *)

\* The variables of the service keep their types: in particular every
\* descriptor a session or an entry holds is one of the process, and every
\* request of a handler is one Service::request_io can carry out.
THEOREM ServiceTypeCorrect == Spec => []TypeOK
<1>1. Init => ServiceInv
  BY InitKeeps
<1>2. ServiceInv /\ [Next]_vars => ServiceInv'
  BY StepKeeps
<1>3. ServiceInv => TypeOK
  BY InvTypeOK
<1> QED
  BY <1>1, <1>2, <1>3, PTL DEF Spec

\* The service implements the rings of IORing: whatever it does is a step of
\* one ring or none, and Service::request_io only ever queues an operation
\* that is not in use.  What is proved of the rings holds in the service.
THEOREM ServiceUsesRing == Spec => UsesRing
<1>1. Init => ServiceInv /\ RingInit
  BY InitKeeps DEF Init
<1>2. ServiceInv /\ [Next]_vars => ServiceInv' /\ [RingNext]_ringVars
  BY StepKeeps
<1> QED
  BY <1>1, <1>2, PTL DEF Spec, UsesRing, RingSpec

\* The parts of the invariant that concern sessions count them.
LEMMA OnePlacePerSession == ServiceInv => SessionExclusive
<1> SUFFICES ASSUME ServiceInv, NEW s \in Sessions
             PROVE  Cardinality(Outstanding(s)) + Cardinality(Handling(s))
                      + Cardinality(Pooled(s)) <= 1
  BY DEF SessionExclusive
<1>1. SessInv
  BY DEF ServiceInv
<1>2. \A a, b \in Pooled(s) : a = b
  BY <1>1 DEF SessInv, Pooled, IsInjective
<1>3. Pooled(s) # {} => s \in Range(sessions_queue)
  BY DEF Pooled, Range
<1>4. ASSUME NEW S, \A a, b \in S : a = b
      PROVE  (S = {} /\ Cardinality(S) = 0) \/ (S # {} /\ Cardinality(S) = 1)
  <2>1. CASE S = {}
    <3>1. Cardinality({}) = 0
      BY FS_EmptySet
    <3> QED
      BY <2>1, <3>1
  <2>2. ASSUME NEW x \in S PROVE S # {} /\ Cardinality(S) = 1
    <3>1. S = {x}
      BY <1>4
    <3> QED
      BY <3>1, FS_Singleton
  <2> QED
    BY <2>1, <2>2
<1>5. /\ \A a, b \in Outstanding(s) : a = b
      /\ \A a, b \in Handling(s) : a = b
      /\ Outstanding(s) # {} => Handling(s) = {} /\ Pooled(s) = {}
      /\ Handling(s) # {} => Pooled(s) = {}
  BY <1>1, <1>3 DEF SessInv
<1>6. /\ \/ Outstanding(s) = {} /\ Cardinality(Outstanding(s)) = 0
         \/ Outstanding(s) # {} /\ Cardinality(Outstanding(s)) = 1
      /\ \/ Handling(s) = {} /\ Cardinality(Handling(s)) = 0
         \/ Handling(s) # {} /\ Cardinality(Handling(s)) = 1
      /\ \/ Pooled(s) = {} /\ Cardinality(Pooled(s)) = 0
         \/ Pooled(s) # {} /\ Cardinality(Pooled(s)) = 1
  BY <1>2, <1>4, <1>5
<1> QED
  BY <1>5, <1>6

\* A session is free once, or waits for one accept or receive, or has one
\* handler: the unlocked receive buffer of ServiceSession has one user on
\* any number of threads, whatever fails.
THEOREM SessionsExclusive == Spec => []SessionExclusive
<1>1. Init => ServiceInv
  BY InitKeeps
<1>2. ServiceInv /\ [Next]_vars => ServiceInv'
  BY StepKeeps
<1>3. ServiceInv => SessionExclusive
  BY OnePlacePerSession
<1> QED
  BY <1>1, <1>2, <1>3, PTL DEF Spec

\* However the completions of a connection are spread over the threads, no
\* SendBuffer of an answer is written to a connection twice.
THEOREM AnswersOnce == Spec => []EchoOnce
<1>1. Init => ServiceInv
  BY InitKeeps
<1>2. ServiceInv /\ [Next]_vars => ServiceInv'
  BY StepKeeps
<1>3. ServiceInv => EchoOnce
  BY DEF ServiceInv, BufInv, IsInjective, EchoOnce
<1> QED
  BY <1>1, <1>2, <1>3, PTL DEF Spec

\* So each operation the service has requested is referred to once: in one
\* queue or ring, with the kernel, or by the worker that handles its completion.
THEOREM ServiceOperationOnce == Spec => []OneReference
BY ServiceUsesRing, OperationReferencedOnce, PTL DEF UsesRing

\* A request_io of the service uses a null submission entry only in a flush that
\* found more requested operations than the ring has entries: pending accepts,
\* receives and sends that the kernel works on do not bring it nearer.
THEOREM ServiceNullEntryOnlyInBurst == Spec => []NullEntryNeedsBurst
BY ServiceUsesRing, NullEntryOnlyInBurst, PTL DEF UsesRing

-----------------------------------------------------------------------------
(* The life of a session.                                                  *)

\* Phase, from what is outstanding for a session, who handles it and where
\* it is in the pool.
PhaseFrom(O, H, P) ==
  LET waits == {op.kind : op \in O} IN
  CASE P # {} -> "free"
    [] "accept" \in waits -> "accepting"
    [] waits = {"recv"} -> "receiving"
    [] waits = {} /\ H # {} -> "serving"
    [] OTHER -> "gone"

\* It is what Phase says, now and in the next state.
LEMMA PhaseIs ==
  ASSUME NEW s
  PROVE  /\ Phase(s) = PhaseFrom(Outstanding(s), Handling(s), Pooled(s))
         /\ Phase(s)' = PhaseFrom(Outstanding(s)', Handling(s)', Pooled(s)')
BY DEF Phase, PhaseFrom

\* The phases of a session that is in one place.
LEMMA PhaseCases ==
  ASSUME NEW O, NEW H, NEW P, NEW op
  PROVE  /\ P # {} /\ O = {} /\ H = {} => PhaseFrom(O, H, P) = "free"
         /\ P = {} /\ O = {op} /\ op.kind = "accept" => PhaseFrom(O, H, P) = "accepting"
         /\ P = {} /\ O = {op} /\ op.kind = "recv" => PhaseFrom(O, H, P) = "receiving"
         /\ P = {} /\ O = {} /\ H # {} => PhaseFrom(O, H, P) = "serving"
         /\ P = {} /\ O = {} /\ H = {} => PhaseFrom(O, H, P) = "gone"
<1> DEFINE waits == {o.kind : o \in O}
<1>0. PhaseFrom(O, H, P) = CASE P # {} -> "free"
                             [] "accept" \in waits -> "accepting"
                             [] waits = {"recv"} -> "receiving"
                             [] waits = {} /\ H # {} -> "serving"
                             [] OTHER -> "gone"
  BY DEF PhaseFrom
<1>1. /\ O = {} => waits = {}
      /\ O = {op} => waits = {op.kind}
  OBVIOUS
<1> HIDE DEF waits
<1>2. CASE O = {}
  <2>1. waits = {} /\ "accept" \notin waits /\ waits # {"recv"} /\ O # {op}
    BY <1>1, <1>2
  <2> QED
    BY <1>0, <1>2, <2>1
<1>3. CASE O = {op}
  <2>1. waits = {op.kind} /\ O # {} /\ waits # {}
    BY <1>1, <1>3
  <2>2. op.kind = "accept" => "accept" \in waits /\ waits # {"recv"}
    BY <2>1
  <2>3. op.kind = "recv" => "accept" \notin waits /\ waits = {"recv"}
    BY <2>1
  <2> QED
    BY <1>0, <2>1, <2>2, <2>3
<1> QED
  BY <1>2, <1>3
LEMMA PhaseOfOne ==
  ASSUME NEW O, NEW H, NEW P, \A a, b \in O : a = b,
         \A o \in O : o.kind \in {"accept", "recv"},
         O # {} => H = {} /\ P = {}, H # {} => P = {}
  PROVE  /\ P # {} => PhaseFrom(O, H, P) = "free"
         /\ \A o \in O : PhaseFrom(O, H, P) = IF o.kind = "accept" THEN "accepting"
                                                                   ELSE "receiving"
         /\ H # {} => PhaseFrom(O, H, P) = "serving"
         /\ O = {} /\ H = {} /\ P = {} => PhaseFrom(O, H, P) = "gone"
<1>1. ASSUME NEW o \in O
      PROVE  PhaseFrom(O, H, P) = IF o.kind = "accept" THEN "accepting" ELSE "receiving"
  <2>1. O = {o} /\ P = {} /\ o.kind \in {"accept", "recv"}
    OBVIOUS
  <2> QED
    BY <2>1, PhaseCases
<1>2. P # {} => PhaseFrom(O, H, P) = "free"
  BY PhaseCases
<1>3. /\ H # {} => PhaseFrom(O, H, P) = "serving"
      /\ O = {} /\ H = {} /\ P = {} => PhaseFrom(O, H, P) = "gone"
  BY PhaseCases
<1> QED
  BY <1>1, <1>2, <1>3

\* A session's phase tells the place it is in.
LEMMA PhaseNow ==
  ASSUME SessInv, NEW s \in Sessions
  PROVE  /\ s \in Range(sessions_queue) => Phase(s) = "free"
         /\ \A o \in Outstanding(s) :
              Phase(s) = IF o.kind = "accept" THEN "accepting" ELSE "receiving"
         /\ Handling(s) # {} => Phase(s) = "serving"
         /\ Idle(s) => Phase(s) = "gone"
<1>1. Pooled(s) # {} <=> s \in Range(sessions_queue)
  BY DEF Pooled, Range
<1>2. \A o \in Outstanding(s) : o.kind \in {"accept", "recv"}
  BY DEF Outstanding
<1>3. /\ \A a, b \in Outstanding(s) : a = b
      /\ Outstanding(s) # {} => Handling(s) = {} /\ Pooled(s) = {}
      /\ Handling(s) # {} => Pooled(s) = {}
  BY <1>1 DEF SessInv
<1>4. Idle(s) => Outstanding(s) = {} /\ Handling(s) = {} /\ Pooled(s) = {}
  BY <1>1 DEF Idle
<1> QED
  BY <1>1, <1>2, <1>3, <1>4, PhaseOfOne, PhaseIs

\* The same of the next state.
LEMMA PhaseNext ==
  ASSUME SessInv', NEW s \in Sessions
  PROVE  /\ s \in Range(sessions_queue') => Phase(s)' = "free"
         /\ \A o \in Outstanding(s)' :
              Phase(s)' = IF o.kind = "accept" THEN "accepting" ELSE "receiving"
         /\ Handling(s)' # {} => Phase(s)' = "serving"
         /\ Idle(s)' => Phase(s)' = "gone"
<1>1. Pooled(s)' # {} <=> s \in Range(sessions_queue')
  BY DEF Pooled, Range
<1>2. \A o \in Outstanding(s)' : o.kind \in {"accept", "recv"}
  BY DEF Outstanding
<1>3. /\ \A a, b \in Outstanding(s)' : a = b
      /\ Outstanding(s)' # {} => Handling(s)' = {} /\ Pooled(s)' = {}
      /\ Handling(s)' # {} => Pooled(s)' = {}
  BY <1>1 DEF SessInv
<1>4. Idle(s)' => Outstanding(s)' = {} /\ Handling(s)' = {} /\ Pooled(s)' = {}
  BY <1>1 DEF Idle
<1> QED
  BY <1>1, <1>2, <1>3, <1>4, PhaseOfOne, PhaseIs

\* A session that nothing happens to keeps its phase.
LEMMA PhaseSame ==
  ASSUME NEW s, Outstanding(s)' = Outstanding(s), Handling(s)' = Handling(s),
         s \in Range(sessions_queue') <=> s \in Range(sessions_queue),
         SessInv, SessInv', s \in Sessions
  PROVE  Phase(s)' = Phase(s)
<1>1. CASE s \in Range(sessions_queue)
  BY <1>1, PhaseNow, PhaseNext
<1>2. CASE Outstanding(s) # {}
  BY <1>2, PhaseNow, PhaseNext
<1>3. CASE Handling(s) # {}
  BY <1>3, PhaseNow, PhaseNext
<1>4. CASE s \notin Range(sessions_queue) /\ Outstanding(s) = {} /\ Handling(s) = {}
  <2>1. Idle(s) /\ Idle(s)'
    BY <1>4 DEF Idle
  <2> QED
    BY <2>1, PhaseNow, PhaseNext
<1> QED
  BY <1>1, <1>2, <1>3, <1>4

LifeStep == Lifecycle!Next \/ UNCHANGED Lifecycle!lifeVars

\* A step that moves no session.
LEMMA CalmStep ==
  ASSUME SessInv, SessInv', UNCHANGED <<todo, sessions_queue, socket_fd>>,
         live' \ Taken' = live \ Taken
  PROVE  LifeStep
<1>1. ASSUME NEW s \in Sessions PROVE Phase(s)' = Phase(s)
  <2>1. Outstanding(s)' = Outstanding(s)
    BY OutstandingIs
  <2>2. Handling(s)' = Handling(s)
    BY DEF Handling
  <2> QED
    BY <2>1, <2>2, PhaseSame
<1> QED
  BY <1>1 DEF LifeStep, Lifecycle!lifeVars

\* A step that moves one session.
LEMMA OneMove ==
  ASSUME NEW s \in Sessions, \A t \in Sessions \ {s} : Phase(t)' = Phase(t),
         \/ Phase(s)' = Phase(s) /\ socket_fd' = socket_fd
         \/ <<Phase(s), Phase(s)'>> \in Lifecycle!Moves /\ socket_fd' = socket_fd
         \/ /\ Phase(s) = "accepting" /\ Phase(s)' = "serving"
            /\ \E d \in Fds : socket_fd' = [socket_fd EXCEPT ![s] = d]
  PROVE  LifeStep
<1>1. CASE Phase(s)' = Phase(s) /\ socket_fd' = socket_fd
  BY <1>1 DEF LifeStep, Lifecycle!lifeVars
<1>2. CASE <<Phase(s), Phase(s)'>> \in Lifecycle!Moves /\ socket_fd' = socket_fd
  <2>1. Lifecycle!Step(s)
    BY <1>2 DEF Lifecycle!Step
  <2> QED
    BY <2>1 DEF LifeStep, Lifecycle!Next
<1>3. CASE /\ Phase(s) = "accepting" /\ Phase(s)' = "serving"
           /\ \E d \in Fds : socket_fd' = [socket_fd EXCEPT ![s] = d]
  <2>1. <<Phase(s), Phase(s)'>> \in Lifecycle!Moves
    BY <1>3 DEF Lifecycle!Moves
  <2>2. Lifecycle!Step(s)
    BY <1>3, <2>1 DEF Lifecycle!Step
  <2> QED
    BY <2>2 DEF LifeStep, Lifecycle!Next
<1> QED
  BY <1>1, <1>2, <1>3

\* A successful accept reports a descriptor.
AcceptInv ==
  \A e \in Unseen : e.op.kind = "accept" /\ e.res.ok => e.res.fd \in Fds

\* A step that leaves the completions, the handlers and the pool alone.
LEMMA QuietLife ==
  ASSUME ServiceInv, ServiceInv', AcceptInv,
         UNCHANGED <<live, cq, holding, todo, sessions_queue, socket_fd>>
  PROVE  LifeStep /\ AcceptInv'
<1>1. UNCHANGED <<live, Taken, Unseen>>
  BY ViewsUnchanged
<1>2. SessInv /\ SessInv'
  BY DEF ServiceInv
<1>3. LifeStep
  BY <1>1, <1>2, CalmStep
<1> QED
  BY <1>1, <1>3 DEF AcceptInv

\* The end of a wait.
LEMMA TakeLife ==
  ASSUME ServiceInv, ServiceInv', AcceptInv, ~fault, NEW w \in Workers,
         TakeCompletion(w)
  PROVE  LifeStep /\ AcceptInv'
<1>0. /\ RingTypeOK /\ RefInv /\ PcInv /\ TodoInv /\ SessInv /\ SessInv'
  BY DEF ServiceInv
<1>1. /\ WaitOne(w) /\ UNCHANGED sessions_queue
  BY DEF TakeCompletion
<1>2. live' = live /\ todo[w] = <<>>
  BY <1>0, <1>1 DEF WaitOne, PcInv
<1>3. CASE cq[w] = <<>>
  <2>1. UNCHANGED <<live, cq, holding>>
    BY <1>0, <1>1, <1>3, TakeNothing
  <2>2. UNCHANGED <<todo, socket_fd>>
    BY <1>3 DEF TakeCompletion
  <2> QED
    BY <1>1, <2>1, <2>2, QuietLife
<1>4. CASE cq[w] # <<>>
  <2> DEFINE h == Head(cq[w])
             q == Handler(h.op, h.res)
  <2>1. /\ h \in Entries /\ h \in Unseen /\ h.op \in live \ Taken
        /\ Unseen' = Unseen \ {h} /\ Taken' = Taken \cup {h.op}
    BY <1>0, <1>1, <1>4, TakeEffect
  <2>2. /\ todo' = [todo EXCEPT ![w] = q]
        /\ socket_fd' = IF h.op.kind = "accept" /\ h.res.ok
                        THEN [socket_fd EXCEPT ![h.op.sess] = h.res.fd]
                        ELSE socket_fd
    BY <1>4 DEF TakeCompletion
  <2>3. AcceptInv'
    BY <2>1 DEF AcceptInv
  <2> HIDE DEF h
  <2>4. h.op \in Ops /\ h.res \in Results /\ h.op.sess \in Sessions
        /\ h.op.kind \in {"accept", "recv", "send", "close"} /\ h.res.ok \in BOOLEAN
    BY <2>1, OperationIs, OutcomeIs DEF Entries
  <2>5. q = <<>> <=> h.op.kind # "recv" /\ ~(h.op.kind = "accept" /\ h.res.ok)
    BY <2>4, HandlerIs
  <2>s. PICK s \in Sessions : s = h.op.sess
    BY <2>4
  <2>6. ASSUME NEW t \in Sessions
        PROVE  /\ Outstanding(t)' = Outstanding(t) \ {h.op}
               /\ Handling(t)' = IF t = s /\ q # <<>> THEN Handling(t) \cup {w}
                                                      ELSE Handling(t)
               /\ h.op \in Outstanding(t) <=>
                    t = s /\ h.op.kind \in {"accept", "recv"}
    BY <1>0, <1>2, <2>1, <2>2, <2>s, TakeSession
  <2> HIDE DEF q
  <2>7. ASSUME NEW t \in Sessions \ {s} PROVE Phase(t)' = Phase(t)
    <3>1. /\ Outstanding(t)' = Outstanding(t) \ {h.op} /\ h.op \notin Outstanding(t)
          /\ Handling(t)' = Handling(t)
      BY <2>6
    <3> QED
      BY <1>0, <1>1, <3>1, PhaseSame
  <2>8. CASE h.op.kind \in {"accept", "recv"}
    <3>1. h.op \in Outstanding(s)
      BY <2>6, <2>8
    <3>2. Phase(s) = IF h.op.kind = "accept" THEN "accepting" ELSE "receiving"
      BY <1>0, <3>1, PhaseNow
    <3>3. Outstanding(s)' = {} /\ s \notin Range(sessions_queue)
      BY <1>0, <2>6, <3>1 DEF SessInv
    <3>4. Handling(s) = {}
      BY <1>0, <3>1 DEF SessInv
    <3>5. CASE q # <<>>
      <4>1. Handling(s)' # {}
        BY <2>6, <3>5
      <4>2. Phase(s)' = "serving"
        BY <1>0, <4>1, PhaseNext
      <4>3. CASE h.op.kind = "accept"
        <5>1. h.res.ok /\ h.res.fd \in Fds
          BY <2>1, <2>5, <3>5, <4>3 DEF AcceptInv
        <5>2. \E d \in Fds : socket_fd' = [socket_fd EXCEPT ![s] = d]
          BY <2>2, <2>s, <4>3, <5>1
        <5> QED
          BY <2>3, <2>7, <3>2, <4>2, <4>3, <5>2, OneMove
      <4>4. CASE h.op.kind = "recv"
        <5>1. <<Phase(s), Phase(s)'>> \in Lifecycle!Moves
          BY <3>2, <4>2, <4>4 DEF Lifecycle!Moves
        <5>2. socket_fd' = socket_fd
          BY <2>2, <4>4
        <5> QED
          BY <2>3, <2>7, <5>1, <5>2, OneMove
      <4> QED
        BY <2>8, <4>3, <4>4
    <3>6. CASE q = <<>>
      <4>1. h.op.kind = "accept" /\ ~h.res.ok
        BY <2>5, <2>8, <3>6
      <4>2. Idle(s)'
        BY <1>1, <2>6, <3>3, <3>4, <3>6 DEF Idle
      <4>3. Phase(s)' = "gone"
        BY <1>0, <4>2, PhaseNext
      <4>4. <<Phase(s), Phase(s)'>> \in Lifecycle!Moves
        BY <3>2, <4>1, <4>3 DEF Lifecycle!Moves
      <4>5. socket_fd' = socket_fd
        BY <2>2, <4>1
      <4> QED
        BY <2>3, <2>7, <4>4, <4>5, OneMove
    <3> QED
      BY <3>5, <3>6
  <2>9. CASE h.op.kind \notin {"accept", "recv"}
    <3>1. q = <<>> /\ socket_fd' = socket_fd
      BY <2>2, <2>5, <2>9
    <3>2. Outstanding(s)' = Outstanding(s) /\ Handling(s)' = Handling(s)
      BY <2>6, <2>9, <3>1
    <3>3. Phase(s)' = Phase(s)
      BY <1>0, <1>1, <3>2, PhaseSame
    <3> QED
      BY <2>3, <2>7, <3>1, <3>3, OneMove
  <2> QED
    BY <2>8, <2>9
<1> QED
  BY <1>3, <1>4

\* A session is taken out of the pool.
LEMMA AcceptOneLife ==
  ASSUME ServiceInv, ServiceInv', AcceptInv, ~fault, RequestAcceptOne,
         UNCHANGED <<sq, inflight, cq, holding, pc, fault, socket_fd>>,
         \A s \in Sessions : Handling(s)' = Handling(s)
  PROVE  LifeStep /\ AcceptInv'
<1>0. TypeOK /\ RefInv /\ SessInv /\ SessInv'
  BY InvTypeOK DEF ServiceInv
<1>1. Taken' = Taken /\ Unseen' = Unseen
  BY <1>0, AcceptOneEffect
<1>2. AcceptInv'
  BY <1>1 DEF AcceptInv
<1>3. \/ UNCHANGED <<live, sessions_queue>>
      \/ \E s \in Sessions :
           /\ s \in Range(sessions_queue)
           /\ Range(sessions_queue') = Range(sessions_queue) \ {s}
           /\ \/ UNCHANGED live
              \/ \E op \in Ops \ live :
                   /\ live' = live \cup {op}
                   /\ op.kind = "accept" /\ op.sess = s
  BY <1>0, AcceptOneEffect
<1>4. CASE UNCHANGED <<live, sessions_queue>>
  <2>1. \A s \in Sessions : Outstanding(s)' = Outstanding(s)
    BY <1>1, <1>4, OutstandingIs
  <2>2. \A s \in Sessions : Phase(s)' = Phase(s)
    BY <1>0, <1>4, <2>1, PhaseSame
  <2>3. LifeStep
    BY <2>2 DEF LifeStep, Lifecycle!lifeVars
  <2> QED
    BY <1>2, <2>3
<1>5. ASSUME NEW s \in Sessions, s \in Range(sessions_queue),
             Range(sessions_queue') = Range(sessions_queue) \ {s},
             \/ UNCHANGED live
             \/ \E op \in Ops \ live : /\ live' = live \cup {op}
                                       /\ op.kind = "accept" /\ op.sess = s
      PROVE  LifeStep
  <2>0. Phase(s) = "free" /\ Outstanding(s) = {} /\ Handling(s) = {}
    BY <1>0, <1>5, PhaseNow DEF SessInv
  <2>1. CASE UNCHANGED live
    <3>1. \A t \in Sessions : Outstanding(t)' = Outstanding(t)
      BY <1>1, <2>1, OutstandingIs
    <3>2. \A t \in Sessions \ {s} : Phase(t)' = Phase(t)
      BY <1>0, <1>5, <3>1, PhaseSame
    <3>3. Idle(s)'
      BY <1>5, <2>0, <3>1 DEF Idle
    <3>4. Phase(s)' = "gone"
      BY <1>0, <3>3, PhaseNext
    <3>5. <<Phase(s), Phase(s)'>> \in Lifecycle!Moves
      BY <2>0, <3>4 DEF Lifecycle!Moves
    <3> QED
      BY <3>2, <3>5, OneMove
  <2>2. ASSUME NEW op \in Ops \ live, live' = live \cup {op}, op.kind = "accept",
               op.sess = s
        PROVE  LifeStep
    <3>1. /\ \A t \in Sessions \ {s} : Outstanding(t)' = Outstanding(t)
          /\ Outstanding(s)' = {op}
      BY <1>1, <2>0, <2>2, OpAdded
    <3>2. \A t \in Sessions \ {s} : Phase(t)' = Phase(t)
      BY <1>0, <1>5, <3>1, PhaseSame
    <3>3. Phase(s)' = "accepting"
      BY <1>0, <2>2, <3>1, PhaseNext
    <3>4. <<Phase(s), Phase(s)'>> \in Lifecycle!Moves
      BY <2>0, <3>3 DEF Lifecycle!Moves
    <3> QED
      BY <3>2, <3>4, OneMove
  <2> QED
    BY <1>5, <2>1, <2>2
<1> QED
  BY <1>2, <1>3, <1>4, <1>5

\* The last loop of Service::initialize.
LEMMA InitializeLife ==
  ASSUME ServiceInv, ServiceInv', AcceptInv, InitializeAccept
  PROVE  LifeStep /\ AcceptInv'
<1>1. /\ RequestAcceptOne /\ booted < Backlog
      /\ UNCHANGED <<started, sq, inflight, cq, holding, pc, fault, socket_fd, todo>>
  BY DEF InitializeAccept
<1>2. ~fault
  <2>1. Backlog \in Nat /\ booted \in 0 .. Backlog
    BY ServiceAssumption DEF ServiceInv, BootType
  <2> QED
    BY <1>1, <2>1 DEF ServiceInv, BootInv
<1>3. \A s \in Sessions : Handling(s)' = Handling(s)
  BY <1>1 DEF Handling
<1> QED
  BY <1>1, <1>2, <1>3, AcceptOneLife

\* The handler's requests end the work on a session.
LEMMA CallLife ==
  ASSUME ServiceInv, ServiceInv', AcceptInv, ~fault, NEW w \in Workers,
         HandlerRequest(w)
  PROVE  LifeStep /\ AcceptInv'
<1>0. TypeOK /\ RingTypeOK /\ RefInv /\ TodoInv /\ BufInv /\ SessInv /\ SessInv'
  BY InvTypeOK DEF ServiceInv
<1>1. /\ todo[w] # <<>> /\ todo' = [todo EXCEPT ![w] = Tail(todo[w])]
      /\ UNCHANGED <<sq, inflight, cq, holding, pc, fault, socket_fd>>
  BY DEF HandlerRequest
<1> DEFINE r == Head(todo[w])
<1>2. CASE r.kind = "accept_one" /\ RequestAcceptOne
  <2>1. r.sess = NULL
    <3>1. Plan(todo[w]) /\ r = todo[w][1] /\ 1 \in DOMAIN todo[w]
      BY <1>0, <1>1, PlanTail DEF TodoInv
    <3> QED
      BY <1>2, <3>1 DEF Plan
  <2>2. \A s \in Sessions : Handling(s)' = Handling(s)
    BY <1>0, <1>1, <2>1, NullIsNone, PopSession
  <2> QED
    BY <1>1, <1>2, <2>2, AcceptOneLife
<1>3. CASE r.kind # "accept_one" /\ RequestIO(r) /\ UNCHANGED sessions_queue
  <2>1. /\ r \in Requests /\ r.kind # "accept"
        /\ \E n \in 1 .. MaxAlike : Alike(r, n) \notin live
    BY <1>0, <1>1, <1>3, CallFree
  <2>2. PICK s \in Sessions : s = r.sess
    BY <2>1 DEF Requests
  <2>3. ASSUME NEW t \in Sessions
        PROVE  /\ t # s => Handling(t)' = Handling(t)
               /\ t = s => /\ w \in Handling(t)
                           /\ Handling(t)' \in {Handling(t), Handling(t) \ {w}}
                           /\ r.kind \in {"recv", "close"} =>
                                Handling(t)' = Handling(t) \ {w}
    BY <1>0, <1>1, <2>2, PopSession
  <2> HIDE DEF r
  <2>4. /\ Taken' = Taken /\ Unseen' = Unseen
        /\ \/ UNCHANGED live
           \/ \E op \in Ops \ live :
                /\ live' = live \cup {op}
                /\ op.kind = r.kind /\ op.sess = r.sess /\ op.buf = r.buf
    BY <1>0, <1>1, <1>3, <2>1, RequestEffect
  <2>5. AcceptInv'
    BY <2>4 DEF AcceptInv
  <2>6. /\ Handling(s) = {w} /\ Outstanding(s) = {} /\ s \notin Range(sessions_queue)
        /\ Phase(s) = "serving"
    <3>1. w \in Handling(s)
      BY <2>3
    <3>2. Handling(s) = {w} /\ Outstanding(s) = {} /\ s \notin Range(sessions_queue)
      BY <1>0, <3>1 DEF SessInv
    <3> QED
      BY <1>0, <3>1, <3>2, PhaseNow
  <2>7. ASSUME NEW t \in Sessions
        PROVE  \/ Outstanding(t)' = Outstanding(t)
               \/ t = s /\ \E op : Outstanding(t)' = {op} /\ op.kind = "recv"
    <3>1. CASE UNCHANGED live
      BY <2>4, <3>1, OutstandingIs
    <3>2. ASSUME NEW op \in Ops \ live, live' = live \cup {op}, op.kind = r.kind,
                 op.sess = s
          PROVE  \/ Outstanding(t)' = Outstanding(t)
                 \/ t = s /\ \E o : Outstanding(t)' = {o} /\ o.kind = "recv"
      <4>1. Outstanding(t)' = IF op.kind \in {"accept", "recv"} /\ op.sess = t
                              THEN Outstanding(t) \cup {op} ELSE Outstanding(t)
        BY <2>4, <3>2, OpAdded
      <4> QED
        BY <2>1, <2>6, <3>2, <4>1
    <3> QED
      BY <2>2, <2>4, <3>1, <3>2
  <2>8. ASSUME NEW t \in Sessions \ {s} PROVE Phase(t)' = Phase(t)
    <3>1. Outstanding(t)' = Outstanding(t) /\ Handling(t)' = Handling(t)
      BY <2>3, <2>7
    <3> QED
      BY <1>0, <1>3, <3>1, PhaseSame
  <2>9. Phase(s)' \in {"serving", "receiving", "gone"}
    <3>1. CASE Outstanding(s)' = Outstanding(s)
      <4>1. CASE Handling(s)' # {}
        BY <1>0, <4>1, PhaseNext
      <4>2. CASE Handling(s)' = {}
        <5>1. Idle(s)'
          BY <1>3, <2>6, <3>1, <4>2 DEF Idle
        <5> QED
          BY <1>0, <5>1, PhaseNext
      <4> QED
        BY <4>1, <4>2
    <3>2. ASSUME NEW op, Outstanding(s)' = {op}, op.kind = "recv"
          PROVE  Phase(s)' = "receiving"
      BY <1>0, <3>2, PhaseNext
    <3> QED
      BY <2>7, <3>1, <3>2
  <2>10. Phase(s)' = Phase(s) \/ <<Phase(s), Phase(s)'>> \in Lifecycle!Moves
    BY <2>6, <2>9 DEF Lifecycle!Moves
  <2> QED
    BY <1>1, <2>5, <2>8, <2>10, OneMove
<1> QED
  BY <1>2, <1>3 DEF HandlerRequest

\* An operation whose completion was held is given back.
LEMMA RetireLife ==
  ASSUME ServiceInv, ServiceInv', AcceptInv, ~fault, NEW w \in Workers, Retire(w),
         UNCHANGED <<todo, sessions_queue, socket_fd>>
  PROVE  LifeStep /\ AcceptInv'
<1>0. RingTypeOK /\ RingTypeOK' /\ RefInv /\ SessInv /\ SessInv'
  BY DEF ServiceInv
<1>1. CASE holding[w]
  <2>1. PICK op \in Taken : /\ live' = live \ {op} /\ Taken' = Taken \ {op}
                            /\ Unseen' = Unseen
    BY <1>0, <1>1, RetireEffect
  <2>2. live' \ Taken' = live \ Taken
    BY <2>1
  <2>3. LifeStep
    BY <1>0, <2>2, CalmStep
  <2> QED
    BY <2>1, <2>3 DEF AcceptInv
<1>2. CASE ~holding[w]
  <2>1. UNCHANGED <<live, cq>> /\ holding' = [holding EXCEPT ![w] = FALSE]
    BY <1>2 DEF Retire
  <2>2. \A v \in Workers : holding'[v] = holding[v]
    BY <1>0, <1>2, <2>1, ZenonT(40) DEF RingTypeOK
  <2>3. holding \in [Workers -> BOOLEAN] /\ holding' \in [Workers -> BOOLEAN]
    BY <1>0 DEF RingTypeOK
  <2>4. holding' = holding
    BY <2>2, <2>3
  <2> QED
    BY <2>1, <2>4, QuietLife
<1> QED
  BY <1>1, <1>2

\* The kernel finishes an operation.
LEMMA KernelLife ==
  ASSUME ServiceInv, ServiceInv', AcceptInv, NEW w \in Workers, NEW op,
         KernelStep(w, op)
  PROVE  LifeStep /\ AcceptInv'
<1>0. /\ RingTypeOK /\ RefInv /\ SessInv /\ SessInv' /\ ~fault
      /\ UNCHANGED <<todo, sessions_queue, socket_fd>>
  BY DEF ServiceInv, KernelStep, sessionVars
<1>1. ASSUME NEW res \in Results, CompleteOperation(w, op, res),
             op.kind = "accept" /\ res.ok => res.fd \in Fds
      PROVE  LifeStep /\ AcceptInv'
  <2> DEFINE e == [op |-> op, res |-> res]
  <2>1. /\ live' = live /\ Taken' = Taken /\ Unseen' = Unseen \cup {e}
    BY <1>0, <1>1, CompleteEffect DEF CompleteOperation
  <2>2. e.op = op /\ e.res = res
    OBVIOUS
  <2> HIDE DEF e
  <2>3. AcceptInv'
    BY <1>1, <2>1, <2>2 DEF AcceptInv
  <2>4. LifeStep
    BY <1>0, <2>1, CalmStep
  <2> QED
    BY <2>3, <2>4
<1>r. /\ Failed \in Results /\ Done \in Results
  BY NoMessageResult
<1>2. CASE CompleteAccept(w, op)
  <2>1. ASSUME NEW f \in Free,
               CompleteOperation(w, op, [ok |-> TRUE, fd |-> f, msgs |-> <<>>])
        PROVE  LifeStep /\ AcceptInv'
    <3> DEFINE res == [ok |-> TRUE, fd |-> f, msgs |-> <<>>]
    <3>1. f \in Fds
      BY DEF Free
    <3>2. res \in Results /\ res.fd = f
      BY <3>1, NoMessageResult
    <3>3. CompleteOperation(w, op, res)
      BY <2>1
    <3> HIDE DEF res
    <3> QED
      BY <1>1, <3>1, <3>2, <3>3
  <2>2. CASE CompleteOperation(w, op, Failed)
    <3>1. ~Failed.ok
      BY Zenon DEF Failed
    <3> QED
      BY <1>1, <1>r, <2>2, <3>1
  <2> QED
    BY <1>2, <2>1, <2>2 DEF CompleteAccept
<1>3. CASE CompleteRecv(w, op)
  <2> DEFINE c == file[op]
  <2>0. op.kind # "accept"
    BY <1>3 DEF CompleteRecv
  <2>1. CASE CompleteOperation(w, op, Failed) \/ CompleteOperation(w, op, Done)
    BY <1>1, <1>r, <2>0, <2>1
  <2>2. ASSUME NEW k \in 1 .. Len(inbox[c]), ~Broken(c),
               CompleteOperation(w, op, [ok |-> TRUE, fd |-> NULL,
                                         msgs |-> SubSeq(inbox[c], 1, k)])
        PROVE  LifeStep /\ AcceptInv'
    <3> DEFINE res == [ok |-> TRUE, fd |-> NULL, msgs |-> SubSeq(inbox[c], 1, k)]
    <3>1. CompleteOperation(w, op, res)
      BY <2>2
    <3>2. c \in Conns
      BY <2>2, FileIs DEF CompleteOperation, Complete
    <3>3. res \in Results
      BY <3>2, ReceivedResult
    <3> HIDE DEF res
    <3> QED
      BY <1>1, <2>0, <3>1, <3>3
  <2> QED
    BY <1>3, <2>1, <2>2 DEF CompleteRecv
<1>4. CASE CompleteSend(w, op) \/ CompleteClose(w, op)
  <2>1. op.kind # "accept"
    BY <1>4 DEF CompleteSend, CompleteClose
  <2>2. CompleteOperation(w, op, Done) \/ CompleteOperation(w, op, Failed)
    BY <1>4 DEF CompleteSend, CompleteClose
  <2> QED
    BY <1>1, <1>r, <2>1, <2>2
<1> QED
  BY <1>2, <1>3, <1>4 DEF KernelStep

\* Every step moves at most one session.
LEMMA LifeSteps ==
  ASSUME ServiceInv, ServiceInv', AcceptInv, [Next]_vars
  PROVE  LifeStep /\ AcceptInv'
<1> DEFINE Calm == UNCHANGED <<live, cq, holding, todo, sessions_queue, socket_fd>>
<1>0. ASSUME Calm PROVE LifeStep /\ AcceptInv'
  BY <1>0, QuietLife
<1>1. CASE UNCHANGED vars
  <2>1. Calm
    BY <1>1 DEF vars, ringVars, sessionVars
  <2> QED
    BY <1>0, <2>1
<1>2. CASE Boot
  <2>1. CASE Build \/ StartThread
    <3>1. Calm
      BY <2>1 DEF Build, StartThread, ringVars
    <3> QED
      BY <1>0, <3>1
  <2> QED
    BY <1>2, <2>1, InitializeLife DEF Boot
<1>3. ASSUME NEW w \in Workers, WorkerStep(w)
      PROVE  LifeStep /\ AcceptInv'
  <2>0. ~fault
    BY <1>3 DEF WorkerStep
  <2>1. CASE TakeCompletion(w)
    BY <2>0, <2>1, TakeLife
  <2>2. CASE HandlerRequest(w)
    BY <2>0, <2>2, CallLife
  <2>3. CASE HandlerReturns(w)
    <3>1. Calm
      BY <2>3 DEF HandlerReturns, Handle, Handled, sessionVars
    <3> QED
      BY <1>0, <3>1
  <2>4. CASE PrepareOperation(w)
    <3>1. Calm
      BY <2>4 DEF PrepareOperation, Prepare, sessionVars
    <3> QED
      BY <1>0, <3>1
  <2>5. CASE SubmitAll(w)
    <3>1. Calm
      BY <2>5 DEF SubmitAll, Submit, sessionVars
    <3> QED
      BY <1>0, <3>1
  <2>6. CASE FlushOrRetire(w)
    <3>1. UNCHANGED <<todo, sessions_queue, socket_fd>>
      BY <2>6 DEF FlushOrRetire, sessionVars
    <3>2. CASE BeginFlush(w)
      <4>1. Calm
        BY <3>1, <3>2 DEF BeginFlush
      <4> QED
        BY <1>0, <4>1
    <3> QED
      BY <2>0, <2>6, <3>1, <3>2, RetireLife DEF FlushOrRetire
  <2> QED
    BY <1>3, <2>1, <2>2, <2>3, <2>4, <2>5, <2>6 DEF WorkerStep
<1>4. ASSUME NEW w \in Workers, NEW op \in inflight[w], KernelStep(w, op)
      PROVE  LifeStep /\ AcceptInv'
  BY <1>4, KernelLife
<1>5. ASSUME NEW c \in Conns, Client(c)
      PROVE  LifeStep /\ AcceptInv'
  <2>1. Calm
    BY <1>5 DEF Client, ringVars, sessionVars
  <2> QED
    BY <1>0, <2>1
<1> QED
  BY <1>1, <1>2, <1>3, <1>4, <1>5 DEF Next

\* At the start every session is in the pool.
LEMMA LifeInit == Init => Lifecycle!Init /\ AcceptInv
<1> SUFFICES ASSUME Init PROVE Lifecycle!Init /\ AcceptInv
  OBVIOUS
<1>1. SessInv
  BY InitKeeps DEF ServiceInv
<1>2. ASSUME NEW s \in Sessions PROVE Phase(s) = "free"
  <2>1. s \in Range(sessions_queue)
    BY DEF Init, Sessions, Range
  <2> QED
    BY <1>1, <2>1, PhaseNow
<1>3. Unseen = {}
  <2>1. \A w \in Workers : cq[w] = <<>>
    BY DEF Init, RingInit
  <2>2. DOMAIN <<>> = {}
    BY EmptySeq
  <2> QED
    BY <2>1, <2>2, UnseenIs
<1> QED
  BY <1>2, <1>3 DEF Lifecycle!Init, Init, AcceptInv

\* The service implements SessionLifecycle: the pool, the rings and the
\* handlers on all threads take each session through its phases one at a
\* time, and TakeCompletion stores a descriptor only in a session that waited
\* for a connection.
THEOREM SessionsFollowLifecycle == Spec => LifecycleFollowed
<1>1. Init => ServiceInv /\ AcceptInv /\ Lifecycle!Init
  BY InitKeeps, LifeInit
<1>2. ServiceInv /\ [Next]_vars => ServiceInv'
  BY StepKeeps
<1>3. /\ ServiceInv /\ ServiceInv' /\ AcceptInv /\ [Next]_vars
      => AcceptInv' /\ [Lifecycle!Next]_(Lifecycle!lifeVars)
  BY LifeSteps DEF LifeStep
<1> QED
  BY <1>1, <1>2, <1>3, PTL DEF Spec, LifecycleFollowed, Lifecycle!Spec

-----------------------------------------------------------------------------
(* Answers go where their messages came from, as long as no client resets  *)
(* its connection.                                                         *)

\* The session has a connection.
Served(s) == ConnOf(s) \in Conns

\* What the handlers still request.
Plans == UNION {Range(todo[w]) : w \in Workers}

\* No session gets a connection twice.
FreshInv ==
  /\ \A s \in Range(sessions_queue) : socket_fd[s] = NULL
  /\ \A op \in live \ Taken : op.kind = "accept" => socket_fd[op.sess] = NULL
  /\ \A c \in Conns : peer[c] # "reset"

\* An operation or a request belongs to the connection of its session.
Own(r) ==
  /\ r.kind # "close"
  /\ r.kind \in {"recv", "send"} => Served(r.sess)
  /\ r.kind = "send" => r.buf[1][1] = ConnOf(r.sess)

OwnInv == \A r \in live \cup Plans : Own(r)

\* So do entries, what the kernel works on, and what it reports.
FileInv ==
  /\ \A op \in DOMAIN sqe_fd : op.kind # "accept" => sqe_fd[op] = socket_fd[op.sess]
  /\ \A op \in DOMAIN file : op.kind # "accept" => file[op] = ConnOf(op.sess)

Reports(e) ==
  /\ e.op.kind = "accept" /\ e.res.ok =>
       e.res.fd \in Fds /\ fd_table[e.res.fd] \in Conns
  /\ e.op.kind = "recv" =>
       e.res.ok /\ \A m \in Range(e.res.msgs) : m[1] = ConnOf(e.op.sess)

SeenInv == \A e \in Unseen : Reports(e)

EchoInv == FreshInv /\ OwnInv /\ FileInv /\ SeenInv /\ EchoToClient

\* What a handler plans, with its kinds.
LEMMA HandlerKinds ==
  ASSUME NEW op \in Ops, NEW res \in Results, op.kind = "recv" => res.ok
  PROVE  \A i \in DOMAIN Handler(op, res) : Handler(op, res)[i].kind # "close"
<1> DEFINE s == op.sess
           q == Handler(op, res)
<1>0. s \in Sessions /\ res.msgs \in Seq(Messages)
  BY OperationIs, OutcomeIs
<1>1. CASE op.kind = "recv"
  <2>1. q = OnReceived(s, res.msgs)
    BY <1>1 DEF Handler
  <2> HIDE DEF q, s
  <2>2. \A i \in DOMAIN q : q[i].kind \in {"send", "recv"}
    BY <1>0, <2>1, OnReceivedIs
  <2> QED
    BY <2>2 DEF q
<1>2. CASE op.kind = "accept" /\ res.ok
  <2>1. q = <<Call("recv", s, NULL), Call("accept_one", NULL, NULL)>>
    BY <1>2 DEF Handler, OnAccepted
  <2>2. DOMAIN q = {1, 2} /\ q[1].kind = "recv" /\ q[2].kind = "accept_one"
    BY <2>1 DEF Call
  <2> HIDE DEF q
  <2>3. \A i \in DOMAIN q : q[i].kind # "close"
    BY <2>2
  <2> QED
    BY <2>3 DEF q
<1>3. CASE op.kind # "recv" /\ ~(op.kind = "accept" /\ res.ok)
  <2>1. q = <<>>
    BY <1>3 DEF Handler
  <2>2. DOMAIN q = {}
    BY <2>1
  <2> QED
    BY <2>2
<1> QED
  BY <1>1, <1>2, <1>3

\* The connection of a session, now and in the next state.
LEMMA ConnIs ==
  ASSUME NEW s \in Sessions
  PROVE  /\ ConnOf(s) = IF socket_fd[s] = NULL THEN NULL ELSE fd_table[socket_fd[s]]
         /\ ConnOf(s)' = IF socket_fd'[s] = NULL THEN NULL ELSE fd_table'[socket_fd'[s]]
         /\ Served(s) => ConnOf(s) \in Conns /\ socket_fd[s] # NULL
         /\ Served(s)' <=> ConnOf(s)' \in Conns
<1>1. NULL \notin Conns
  BY ServiceAssumption
<1> QED
  BY <1>1 DEF ConnOf, Served

\* A step that keeps the connections of the sessions that have one.
ConnsKept ==
  /\ \A s \in Sessions : Served(s) => /\ ConnOf(s)' = ConnOf(s) /\ Served(s)'
                                      /\ socket_fd'[s] = socket_fd[s]
  /\ \A f \in Fds : fd_table[f] \in Conns => fd_table'[f] = fd_table[f]

\* Connections stay while descriptors are only taken.
LEMMA ConnsStay ==
  ASSUME BootType, socket_fd' = socket_fd,
         \A f \in Fds : fd_table[f] \in Conns => fd_table'[f] = fd_table[f]
  PROVE  ConnsKept
<1> SUFFICES ASSUME NEW s \in Sessions, Served(s)
             PROVE  /\ ConnOf(s)' = ConnOf(s) /\ Served(s)'
                    /\ socket_fd'[s] = socket_fd[s]
  BY DEF ConnsKept
<1>1. socket_fd[s] \in Fds /\ fd_table[socket_fd[s]] \in Conns
  BY ConnIs DEF BootType
<1>2. ConnOf(s)' = ConnOf(s)
  BY <1>1, ConnIs
<1> QED
  BY <1>1, <1>2, ConnIs

\* What is requested concerns a session.
LEMMA RequestedIs ==
  ASSUME RingTypeOK, TodoInv, NEW r \in live \cup Plans, r.kind \in {"recv", "send"}
  PROVE  r.sess \in Sessions
<1>1. CASE r \in live
  BY <1>1, OperationIs DEF RingTypeOK
<1>2. CASE r \in Plans
  <2>1. PICK w \in Workers : r \in Range(todo[w])
    BY <1>2 DEF Plans
  <2>2. PICK i \in DOMAIN todo[w] : r = todo[w][i]
    BY <2>1 DEF Range
  <2> QED
    BY <2>2 DEF TodoInv, Plan
<1> QED
  BY <1>1, <1>2

\* Requests keep their connection, and new ones have theirs.
LEMMA OwnKept ==
  ASSUME RingTypeOK, TodoInv, OwnInv, ConnsKept, NEW N, \A r \in N : Own(r)',
         live' \cup Plans' \subseteq live \cup Plans \cup N
  PROVE  OwnInv'
<1> SUFFICES ASSUME NEW r \in live' \cup Plans' PROVE Own(r)'
  BY DEF OwnInv
<1>1. CASE r \in N
  BY <1>1
<1>2. CASE r \in live \cup Plans
  <2>1. Own(r)
    BY <1>2 DEF OwnInv
  <2>2. CASE r.kind \in {"recv", "send"}
    <3>1. r.sess \in Sessions /\ Served(r.sess)
      BY <1>2, <2>1, <2>2, RequestedIs DEF Own
    <3>2. ConnOf(r.sess)' = ConnOf(r.sess) /\ Served(r.sess)'
      BY <3>1 DEF ConnsKept
    <3> QED
      BY <2>1, <3>2 DEF Own
  <2>3. CASE r.kind \notin {"recv", "send"}
    BY <2>1, <2>3 DEF Own
  <2> QED
    BY <2>2, <2>3
<1> QED
  BY <1>1, <1>2

\* The operations of a session with a connection.
LEMMA LiveServed ==
  ASSUME RingTypeOK, TodoInv, OwnInv, NEW op \in live, op.kind # "accept"
  PROVE  op.kind \in {"recv", "send"} /\ op.sess \in Sessions /\ Served(op.sess)
<1>1. op.kind \in {"accept", "recv", "send", "close"} /\ op.sess \in Sessions
  BY OperationIs DEF RingTypeOK
<1> QED
  BY <1>1 DEF OwnInv, Own

\* Entries keep their connection.
LEMMA FileKept ==
  ASSUME ServiceInv, OwnInv, FileInv, ConnsKept,
         DOMAIN sqe_fd' \subseteq DOMAIN sqe_fd, DOMAIN file' \subseteq DOMAIN file,
         \A o \in DOMAIN sqe_fd' : sqe_fd'[o] = sqe_fd[o],
         \A o \in DOMAIN file' : file'[o] = file[o]
  PROVE  FileInv'
<1>0. RingTypeOK /\ TodoInv /\ DOMAIN sqe_fd \subseteq live /\ DOMAIN file \subseteq live
  BY DEF ServiceInv, SqeInv
<1>1. ASSUME NEW op \in live, op.kind # "accept"
      PROVE  socket_fd'[op.sess] = socket_fd[op.sess] /\ ConnOf(op.sess)' = ConnOf(op.sess)
  <2>1. op.sess \in Sessions /\ Served(op.sess)
    BY <1>0, <1>1, LiveServed
  <2> QED
    BY <2>1 DEF ConnsKept
<1> QED
  BY <1>0, <1>1 DEF FileInv

\* Completions keep theirs, and new ones have it.
LEMMA SeenKept ==
  ASSUME ServiceInv, ~fault, OwnInv, SeenInv, ConnsKept, NEW N, \A e \in N : Reports(e)',
         Unseen' \subseteq Unseen \cup N
  PROVE  SeenInv'
<1>0. RingTypeOK /\ RefInv /\ TodoInv
  BY DEF ServiceInv
<1> SUFFICES ASSUME NEW e \in Unseen, Reports(e) PROVE Reports(e)'
  BY DEF SeenInv
<1>1. e.op \in live
  BY <1>0, CompletedLive DEF Completed
<1>2. CASE e.op.kind = "recv"
  <2>1. e.op.sess \in Sessions /\ Served(e.op.sess)
    BY <1>0, <1>1, <1>2, LiveServed
  <2>2. ConnOf(e.op.sess)' = ConnOf(e.op.sess)
    BY <2>1 DEF ConnsKept
  <2> QED
    BY <1>2, <2>2 DEF Reports
<1>3. CASE e.op.kind # "recv"
  BY <1>3 DEF Reports, ConnsKept
<1> QED
  BY <1>2, <1>3

\* Sessions without a connection stay so.
LEMMA FreshKept ==
  ASSUME FreshInv, socket_fd' = socket_fd, \A c \in Conns : peer'[c] # "reset",
         Range(sessions_queue') \subseteq Range(sessions_queue),
         \A op \in live' \ Taken' :
           op.kind = "accept" => op \in live \ Taken \/ op.sess \in Range(sessions_queue)
  PROVE  FreshInv'
BY DEF FreshInv

\* A step that moves no message.
LEMMA CalmEcho ==
  ASSUME ServiceInv, EchoInv, ~fault, live' \subseteq live,
         live' \ Taken' \subseteq live \ Taken, Unseen' \subseteq Unseen,
         UNCHANGED <<todo, sessions_queue, socket_fd, fd_table, sqe_fd, file, stream>>,
         \A c \in Conns : peer'[c] # "reset"
  PROVE  EchoInv'
<1>0. RingTypeOK /\ TodoInv /\ BootType /\ FreshInv /\ OwnInv /\ FileInv /\ SeenInv
  BY DEF ServiceInv, EchoInv
<1>1. ConnsKept
  BY <1>0, ConnsStay
<1>2. Plans' = Plans
  BY DEF Plans
<1>3. OwnInv'
  <2>0. PICK N : N = {}
    OBVIOUS
  <2>1. live' \cup Plans' \subseteq live \cup Plans \cup N
    BY <1>2
  <2>2. \A r \in N : Own(r)'
    BY <2>0
  <2> QED
    BY <1>0, <1>1, <2>1, <2>2, OwnKept
<1>4. FileInv'
  BY <1>0, <1>1, FileKept
<1>5. SeenInv'
  <2>0. PICK N : N = {}
    OBVIOUS
  <2>1. Unseen' \subseteq Unseen \cup N
    OBVIOUS
  <2>2. \A e \in N : Reports(e)'
    BY <2>0
  <2> QED
    BY <1>0, <1>1, <2>1, <2>2, SeenKept
<1>6. FreshInv'
  BY <1>0, FreshKept
<1>7. EchoToClient'
  BY DEF EchoInv, EchoToClient
<1> QED
  BY <1>3, <1>4, <1>5, <1>6, <1>7 DEF EchoInv

\* Preparing and submitting writes the descriptors of the sessions.
LEMMA SubmitEcho ==
  ASSUME ServiceInv, ServiceInv', EchoInv, ~fault, NEW w \in Workers,
         UNCHANGED <<live, cq, holding, todo, sessions_queue, socket_fd, fd_table, peer,
                     stream>>,
         file' = Overlay(Resolve(inflight'[w] \ inflight[w]), file),
         \A o \in DOMAIN sqe_fd' : o.kind # "accept" => sqe_fd'[o] = socket_fd[o.sess]
  PROVE  EchoInv'
<1> DEFINE new == inflight'[w] \ inflight[w]
           g == Resolve(new)
<1>0. RingTypeOK /\ TodoInv /\ BootType /\ FreshInv /\ OwnInv /\ FileInv /\ SeenInv
      /\ SqeInv /\ SqeInv'
  BY DEF ServiceInv, EchoInv
<1>1. ConnsKept
  BY <1>0, ConnsStay
<1>2. Plans' = Plans /\ Taken' = Taken /\ Unseen' = Unseen
  BY ViewsUnchanged DEF Plans
<1>3. OwnInv'
  <2>0. PICK N : N = {}
    OBVIOUS
  <2>1. live' \cup Plans' \subseteq live \cup Plans \cup N
    BY <1>2
  <2>2. \A r \in N : Own(r)'
    BY <2>0
  <2> QED
    BY <1>0, <1>1, <2>1, <2>2, OwnKept
<1>4. SeenInv'
  <2>0. PICK N : N = {}
    OBVIOUS
  <2>1. Unseen' \subseteq Unseen \cup N
    BY <1>2
  <2>2. \A e \in N : Reports(e)'
    BY <2>0
  <2> QED
    BY <1>0, <1>1, <2>1, <2>2, SeenKept
<1>5. FreshInv'
  <2>1. \A c \in Conns : peer'[c] # "reset"
    BY <1>0 DEF FreshInv
  <2> QED
    BY <1>0, <1>2, <2>1, FreshKept
<1>6. FileInv'
  <2>1. new \subseteq DOMAIN sqe_fd'
    BY <1>0 DEF SqeInv
  <2>2. /\ DOMAIN g = new
        /\ \A o \in new : g[o] = IF sqe_fd'[o] = NULL THEN NULL ELSE fd_table[sqe_fd'[o]]
    BY DEF Resolve
  <2>3. file' = Overlay(g, file)
    OBVIOUS
  <2> HIDE DEF g, new
  <2>4. /\ DOMAIN Overlay(g, file) = DOMAIN g \cup DOMAIN file
        /\ \A o \in DOMAIN g : Overlay(g, file)[o] = g[o]
        /\ \A o \in DOMAIN file \ DOMAIN g : Overlay(g, file)[o] = file[o]
    BY OverlayIs, ZenonT(40)
  <2>5. /\ DOMAIN file' = new \cup DOMAIN file
        /\ \A o \in new : file'[o] = g[o]
        /\ \A o \in DOMAIN file \ new : file'[o] = file[o]
    BY <2>2, <2>3, <2>4
  <2>6. \A s : ConnOf(s)' = ConnOf(s)
    BY DEF ConnOf
  <2>7. ASSUME NEW o \in DOMAIN file', o.kind # "accept"
        PROVE  file'[o] = ConnOf(o.sess)
    <3>1. CASE o \in new
      BY <2>1, <2>2, <2>5, <2>7, <3>1, SMTT(30) DEF ConnOf
    <3>2. CASE o \notin new
      BY <1>0, <2>5, <2>7, <3>2 DEF FileInv
    <3> QED
      BY <3>1, <3>2
  <2> QED
    BY <2>6, <2>7 DEF FileInv
<1>7. EchoToClient'
  BY DEF EchoInv, EchoToClient
<1> QED
  BY <1>3, <1>4, <1>5, <1>6, <1>7 DEF EchoInv

\* request_io of an operation.
LEMMA PrepareEcho ==
  ASSUME ServiceInv, ServiceInv', EchoInv, ~fault, NEW w \in Workers,
         PrepareOperation(w) \/ SubmitAll(w)
  PROVE  EchoInv'
<1>0. FileInv
  BY DEF EchoInv
<1>1. CASE PrepareOperation(w)
  <2> DEFINE op == Head(request_queue[w])
             f == [o \in {op} |-> EntryFd(o)]
  <2>1. /\ sqe_fd' = Overlay(f, sqe_fd)
        /\ file' = Overlay(Resolve(inflight'[w] \ inflight[w]), file)
        /\ UNCHANGED <<live, cq, holding, todo, sessions_queue, socket_fd, fd_table,
                       peer, stream>>
    BY <1>1 DEF PrepareOperation, Prepare, sessionVars, clients
  <2>2. DOMAIN f = {op} /\ f[op] = EntryFd(op)
    OBVIOUS
  <2> HIDE DEF f, op
  <2>3. /\ DOMAIN Overlay(f, sqe_fd) = DOMAIN f \cup DOMAIN sqe_fd
        /\ \A o \in DOMAIN f : Overlay(f, sqe_fd)[o] = f[o]
        /\ \A o \in DOMAIN sqe_fd \ DOMAIN f : Overlay(f, sqe_fd)[o] = sqe_fd[o]
    BY OverlayIs, ZenonT(40)
  <2>4. /\ DOMAIN sqe_fd' = {op} \cup DOMAIN sqe_fd
        /\ sqe_fd'[op] = EntryFd(op)
        /\ \A o \in DOMAIN sqe_fd \ {op} : sqe_fd'[o] = sqe_fd[o]
    BY <2>1, <2>2, <2>3
  <2>5. op.kind # "accept" => EntryFd(op) = socket_fd[op.sess]
    BY DEF EntryFd
  <2>6. \A o \in DOMAIN sqe_fd' : o.kind # "accept" => sqe_fd'[o] = socket_fd[o.sess]
    BY <1>0, <2>4, <2>5 DEF FileInv
  <2> QED
    BY <2>1, <2>6, SubmitEcho
<1>2. CASE SubmitAll(w)
  <2>1. /\ sqe_fd' = sqe_fd
        /\ file' = Overlay(Resolve(inflight'[w] \ inflight[w]), file)
        /\ UNCHANGED <<live, cq, holding, todo, sessions_queue, socket_fd, fd_table,
                       peer, stream>>
    BY <1>2 DEF SubmitAll, Submit, sessionVars, clients
  <2>2. \A o \in DOMAIN sqe_fd' : o.kind # "accept" => sqe_fd'[o] = socket_fd[o.sess]
    BY <1>0, <2>1 DEF FileInv
  <2> QED
    BY <2>1, <2>2, SubmitEcho
<1> QED
  BY <1>1, <1>2

\* A completion is handled: an accepted connection becomes the session's, and
\* the answers to received messages are planned for the session they came by.
LEMMA TakeEcho ==
  ASSUME ServiceInv, ServiceInv', EchoInv, ~fault, NEW w \in Workers,
         TakeCompletion(w)
  PROVE  EchoInv'
<1>0. /\ RingTypeOK /\ RefInv /\ PcInv /\ TodoInv /\ SessInv /\ SqeInv /\ BootType
      /\ FreshInv /\ OwnInv /\ FileInv /\ SeenInv
  BY DEF ServiceInv, EchoInv
<1>1. /\ WaitOne(w)
      /\ UNCHANGED <<sessions_queue, sqe_fd, file, fd_table, peer, stream>>
  BY DEF TakeCompletion, sockets, clients
<1>2. live' = live /\ todo[w] = <<>>
  BY <1>0, <1>1 DEF WaitOne, PcInv
<1>p. \A c \in Conns : peer'[c] # "reset"
  BY <1>0, <1>1 DEF FreshInv
<1>3. CASE cq[w] = <<>>
  <2>1. UNCHANGED <<Unseen, Taken>>
    BY <1>0, <1>1, <1>3, TakeNothing
  <2>2. UNCHANGED <<todo, socket_fd>>
    BY <1>3 DEF TakeCompletion
  <2> QED
    BY <1>1, <1>2, <1>p, <2>1, <2>2, CalmEcho
<1>4. CASE cq[w] # <<>>
  <2> DEFINE h == Head(cq[w])
             q == Handler(h.op, h.res)
  <2>1. /\ h \in Entries /\ h \in Unseen /\ h.op \in live \ Taken
        /\ Unseen' = Unseen \ {h} /\ Taken' = Taken \cup {h.op}
    BY <1>0, <1>1, <1>4, TakeEffect
  <2>2. /\ todo' = [todo EXCEPT ![w] = q]
        /\ socket_fd' = IF h.op.kind = "accept" /\ h.res.ok
                        THEN [socket_fd EXCEPT ![h.op.sess] = h.res.fd]
                        ELSE socket_fd
    BY <1>4 DEF TakeCompletion
  <2> HIDE DEF h
  <2>3. h.op \in Ops /\ h.res \in Results /\ h.op.sess \in Sessions /\ Reports(h)
    BY <1>0, <2>1, OperationIs DEF Entries, SeenInv
  <2>4. PICK s \in Sessions : s = h.op.sess
    BY <2>3
  <2>5. /\ Plan(q)
        /\ \A i \in DOMAIN q : /\ q[i].sess \in {h.op.sess, NULL}
                               /\ q[i].kind = "send" => q[i].buf[1] \in Range(h.res.msgs)
        /\ q # <<>> => h.op.kind = "recv" \/ (h.op.kind = "accept" /\ h.res.ok)
        /\ h.op.kind = "accept" => \A i \in DOMAIN q : q[i].kind # "send"
    <3>1. /\ Plan(q)
          /\ \A i \in DOMAIN q : /\ q[i].sess \in {h.op.sess, NULL}
                                 /\ q[i].kind = "send" => q[i].buf[1] \in Range(h.res.msgs)
          /\ q # <<>> => h.op.kind = "recv" \/ (h.op.kind = "accept" /\ h.res.ok)
      BY <2>3, HandlerIs
    <3>2. CASE h.op.kind = "accept" /\ h.res.ok
      <4>1. q = <<Call("recv", h.op.sess, NULL), Call("accept_one", NULL, NULL)>>
        BY <3>2 DEF Handler, OnAccepted
      <4>2. DOMAIN q = {1, 2} /\ q[1].kind = "recv" /\ q[2].kind = "accept_one"
        BY <4>1 DEF Call
      <4> HIDE DEF q
      <4> QED
        BY <3>1, <4>2
    <3>3. CASE ~(h.op.kind = "accept" /\ h.res.ok)
      <4>1. h.op.kind = "accept" => q = <<>>
        BY <3>1, <3>3
      <4>2. DOMAIN <<>> = {}
        OBVIOUS
      <4> HIDE DEF q
      <4> QED
        BY <3>1, <4>1, <4>2
    <3> QED
      BY <3>2, <3>3
  <2>6. \A i \in DOMAIN q : q[i].kind # "close"
    <3>1. h.op.kind = "recv" => h.res.ok
      BY <2>3 DEF Reports
    <3> QED
      BY <2>3, <3>1, HandlerKinds
  <2> HIDE DEF q
  <2>7. /\ h.op.kind = "accept" => ~Served(s)
        /\ h.op.kind = "recv" => Served(s)
    <3>1. h.op.kind = "accept" => socket_fd[s] = NULL
      BY <1>0, <2>1, <2>4 DEF FreshInv
    <3>2. h.op.kind = "recv" => Served(s)
      BY <1>0, <2>1, <2>4 DEF OwnInv, Own
    <3> QED
      BY <3>1, <3>2, ConnIs
  <2>8. /\ h.op.kind # "accept" => socket_fd' = socket_fd
        /\ \A t \in Sessions : t # s => socket_fd'[t] = socket_fd[t]
    BY <1>0, <2>2, <2>4 DEF BootType
  <2>9. ConnsKept
    <3>1. ASSUME NEW t \in Sessions, Served(t)
          PROVE  /\ ConnOf(t)' = ConnOf(t) /\ Served(t)' /\ socket_fd'[t] = socket_fd[t]
      <4>1. socket_fd'[t] = socket_fd[t]
        BY <2>7, <2>8, <3>1
      <4>2. ConnOf(t)' = ConnOf(t)
        BY <1>1, <4>1, ConnIs
      <4> QED
        BY <3>1, <4>1, <4>2, ConnIs
    <3> QED
      BY <1>1, <3>1 DEF ConnsKept
  <2>10. ASSUME NEW r \in Range(q) PROVE Own(r)'
    <3>1. PICK i \in DOMAIN q : r = q[i]
      BY DEF Range
    <3>2. /\ r.kind # "close"
          /\ r.kind \in {"recv", "send"} => r.sess = s
          /\ r.kind = "send" => h.op.kind = "recv" /\ r.buf[1] \in Range(h.res.msgs)
      <4>1. q # <<>>
        BY <3>1
      <4>2. r.kind # "accept_one" => r.sess \in Sessions
        BY <2>5, <3>1 DEF Plan
      <4> QED
        BY <2>4, <2>5, <2>6, <3>1, <4>1, <4>2, NullIsNone
    <3>3. Served(s)'
      <4>1. CASE h.op.kind = "recv"
        BY <2>7, <2>9, <4>1 DEF ConnsKept
      <4>2. CASE h.op.kind = "accept" /\ h.res.ok
        <5>1. h.res.fd \in Fds /\ fd_table[h.res.fd] \in Conns
          BY <2>3, <4>2 DEF Reports
        <5>2. socket_fd'[s] = h.res.fd
          BY <1>0, <2>2, <2>4, <4>2 DEF BootType
        <5>3. ConnOf(s)' = fd_table[h.res.fd]
          BY <1>1, <5>1, <5>2, ConnIs, NullIsNone
        <5> QED
          BY <5>1, <5>3, ConnIs
      <4>3. q # <<>>
        BY <3>1
      <4> QED
        BY <2>5, <4>1, <4>2, <4>3
    <3>4. r.kind = "send" => r.buf[1][1] = ConnOf(s)'
      <4>1. h.op.kind = "recv" => /\ ConnOf(s)' = ConnOf(s)
                                  /\ \A m \in Range(h.res.msgs) : m[1] = ConnOf(s)
        BY <2>3, <2>4, <2>7, <2>9 DEF ConnsKept, Reports
      <4> QED
        BY <3>2, <4>1
    <3> QED
      BY <3>2, <3>3, <3>4 DEF Own
  <2>11. OwnInv'
    <3>1. \A v \in Workers : todo'[v] = IF v = w THEN q ELSE todo[v]
      BY <1>0, <2>2 DEF TodoInv
    <3>2. Plans' \subseteq Plans \cup Range(q)
      BY <3>1 DEF Plans
    <3>3. PICK N : N = Range(q)
      OBVIOUS
    <3>4. /\ \A r \in N : Own(r)'
          /\ live' \cup Plans' \subseteq live \cup Plans \cup N
      BY <1>2, <2>10, <3>2, <3>3
    <3> QED
      BY <1>0, <2>9, <3>4, OwnKept
  <2>12. FileInv'
    BY <1>0, <1>1, <2>9, FileKept
  <2>13. SeenInv'
    <3>0. PICK N : N = {}
      OBVIOUS
    <3>1. Unseen' \subseteq Unseen \cup N /\ \A e \in N : Reports(e)'
      BY <2>1, <3>0
    <3> QED
      BY <1>0, <2>9, <3>1, SeenKept
  <2>14. FreshInv'
    <3>1. CASE h.op.kind # "accept"
      BY <1>0, <1>1, <1>2, <1>p, <2>1, <2>8, <3>1, FreshKept
    <3>2. CASE h.op.kind = "accept"
      <4>1. h.op \in Outstanding(s)
        BY <2>1, <2>4, <3>2, OutstandingIs
      <4>2. s \notin Range(sessions_queue) /\ \A o \in Outstanding(s) : o = h.op
        BY <1>0, <4>1 DEF SessInv
      <4>3. ASSUME NEW o \in live \ Taken', o.kind = "accept"
            PROVE  socket_fd'[o.sess] = NULL
        <5>1. o \in live \ Taken /\ o # h.op
          BY <2>1, <4>3
        <5>2. o.sess \in Sessions
          BY <1>0, <4>3, OperationIs DEF RingTypeOK
        <5>3. o.sess # s
          BY <4>2, <4>3, <5>1, OutstandingIs
        <5> QED
          BY <1>0, <2>8, <4>3, <5>1, <5>2, <5>3 DEF FreshInv
      <4>4. ASSUME NEW t \in Range(sessions_queue) PROVE socket_fd'[t] = NULL
        <5>1. sessions_queue \in Seq(Sessions)
          BY <1>0 DEF BootType
        <5>2. t \in Sessions
          BY <4>4, <5>1, ElementOfSeq, LenProperties DEF Range
        <5> QED
          BY <1>0, <2>8, <4>2, <5>2 DEF FreshInv
      <4> QED
        BY <1>1, <1>2, <1>p, <4>3, <4>4 DEF FreshInv
    <3> QED
      BY <3>1, <3>2
  <2>15. EchoToClient'
    BY <1>1 DEF EchoInv, EchoToClient
  <2> QED
    BY <2>11, <2>12, <2>13, <2>14, <2>15 DEF EchoInv
<1> QED
  BY <1>3, <1>4

\* A request of a handler, or of Service::initialize.
LEMMA RequestEcho ==
  ASSUME ServiceInv, EchoInv, ~fault, Plans' \subseteq Plans,
         UNCHANGED <<Taken, Unseen, socket_fd, fd_table, sqe_fd, file, peer, stream>>,
         Range(sessions_queue') \subseteq Range(sessions_queue),
         \/ UNCHANGED live
         \/ \E op \in Ops \ live :
              /\ live' = live \cup {op}
              /\ \/ op.kind = "accept" /\ op.sess \in Range(sessions_queue)
                 \/ op.kind # "accept" /\ \E r \in Plans : /\ op.kind = r.kind
                                                           /\ op.sess = r.sess
                                                           /\ op.buf = r.buf
  PROVE  EchoInv'
<1>0. RingTypeOK /\ TodoInv /\ BootType /\ FreshInv /\ OwnInv /\ FileInv /\ SeenInv
  BY DEF ServiceInv, EchoInv
<1>1. ConnsKept
  BY <1>0, ConnsStay
<1>2. \A r : Own(r)' = Own(r)
  BY DEF Own, Served, ConnOf
<1>3. OwnInv' /\ FreshInv'
  <2>p. \A c \in Conns : peer'[c] # "reset"
    BY <1>0 DEF FreshInv
  <2>1. CASE UNCHANGED live
    <3>1. OwnInv'
      BY <1>0, <1>2, <2>1 DEF OwnInv
    <3>2. FreshInv'
      BY <1>0, <2>1, <2>p, FreshKept
    <3> QED
      BY <3>1, <3>2
  <2>2. ASSUME NEW op \in Ops \ live, live' = live \cup {op},
               \/ op.kind = "accept" /\ op.sess \in Range(sessions_queue)
               \/ op.kind # "accept" /\ \E r \in Plans : /\ op.kind = r.kind
                                                         /\ op.sess = r.sess
                                                         /\ op.buf = r.buf
        PROVE  OwnInv' /\ FreshInv'
    <3>1. Own(op)
      <4>1. CASE op.kind = "accept"
        BY <4>1 DEF Own
      <4>2. ASSUME NEW r \in Plans, op.kind = r.kind, op.sess = r.sess, op.buf = r.buf
            PROVE  Own(op)
        <5>1. Own(r)
          BY <1>0 DEF OwnInv
        <5> QED
          BY <4>2, <5>1 DEF Own
      <4> QED
        BY <2>2, <4>1, <4>2
    <3>2. OwnInv'
      BY <1>0, <1>2, <2>2, <3>1 DEF OwnInv
    <3>3. \A o \in live' \ Taken' :
            o.kind = "accept" => o \in live \ Taken \/ o.sess \in Range(sessions_queue)
      BY <2>2
    <3>4. FreshInv'
      BY <1>0, <2>p, <3>3, FreshKept
    <3> QED
      BY <3>2, <3>4
  <2> QED
    BY <2>1, <2>2
<1>4. FileInv'
  BY <1>0, <1>1, FileKept
<1>5. SeenInv'
  <2>0. PICK N : N = {}
    OBVIOUS
  <2>1. Unseen' \subseteq Unseen \cup N /\ \A e \in N : Reports(e)'
    BY <2>0
  <2> QED
    BY <1>0, <1>1, <2>1, SeenKept
<1>6. EchoToClient'
  BY DEF EchoInv, EchoToClient
<1> QED
  BY <1>3, <1>4, <1>5, <1>6 DEF EchoInv

\* Service::request_accept_one.
LEMMA AcceptOneEcho ==
  ASSUME ServiceInv, EchoInv, ~fault, RequestAcceptOne, Plans' \subseteq Plans,
         UNCHANGED <<sq, inflight, cq, holding, pc, fault>>,
         UNCHANGED <<socket_fd, fd_table, sqe_fd, file, peer, stream>>
  PROVE  EchoInv'
<1>0. TypeOK /\ RefInv /\ SessInv
  BY InvTypeOK DEF ServiceInv
<1>1. Taken' = Taken /\ Unseen' = Unseen
  BY <1>0, AcceptOneEffect
<1>2. \/ UNCHANGED <<live, sessions_queue>>
      \/ \E s \in Sessions :
           /\ s \in Range(sessions_queue)
           /\ Range(sessions_queue') = Range(sessions_queue) \ {s}
           /\ \/ UNCHANGED live
              \/ \E op \in Ops \ live :
                   /\ live' = live \cup {op}
                   /\ op.kind = "accept" /\ op.sess = s
  BY <1>0, AcceptOneEffect
<1>3. Range(sessions_queue') \subseteq Range(sessions_queue)
  BY <1>2
<1>4. \/ UNCHANGED live
      \/ \E op \in Ops \ live :
           /\ live' = live \cup {op}
           /\ op.kind = "accept" /\ op.sess \in Range(sessions_queue)
  BY <1>2
<1> QED
  BY <1>1, <1>3, <1>4, RequestEcho

\* The handler's requests.
LEMMA CallEcho ==
  ASSUME ServiceInv, EchoInv, ~fault, NEW w \in Workers, HandlerRequest(w)
  PROVE  EchoInv'
<1>0. TypeOK /\ RingTypeOK /\ RefInv /\ TodoInv /\ BufInv /\ SessInv
  BY InvTypeOK DEF ServiceInv
<1>1. /\ todo[w] # <<>> /\ todo' = [todo EXCEPT ![w] = Tail(todo[w])]
      /\ UNCHANGED <<sq, inflight, cq, holding, pc, fault, socket_fd, fd_table, sqe_fd,
                     file, peer, stream>>
  BY DEF HandlerRequest, sockets, clients
<1> DEFINE r == Head(todo[w])
           t == Tail(todo[w])
<1>2. /\ r = todo[w][1] /\ 1 \in DOMAIN todo[w]
      /\ \A i \in DOMAIN t : i + 1 \in DOMAIN todo[w] /\ t[i] = todo[w][i + 1]
  BY <1>0, <1>1, PlanTail DEF TodoInv
<1>3. \A v \in Workers : todo'[v] = IF v = w THEN t ELSE todo[v]
  BY <1>0, <1>1 DEF TodoInv
<1>4. r \in Plans
  BY <1>2 DEF Plans, Range
<1> HIDE DEF r, t
<1>5. Range(t) \subseteq Range(todo[w])
  BY <1>2 DEF Range
<1>6. Plans' \subseteq Plans
  BY <1>3, <1>5 DEF Plans
<1>7. CASE r.kind = "accept_one" /\ RequestAcceptOne
  BY <1>1, <1>6, <1>7, AcceptOneEcho
<1>8. CASE r.kind # "accept_one" /\ RequestIO(r) /\ UNCHANGED sessions_queue
  <2>1. /\ r \in Requests /\ r.kind # "accept"
        /\ \E n \in 1 .. MaxAlike : Alike(r, n) \notin live
    BY <1>0, <1>1, <1>8, CallFree DEF r
  <2>2. /\ Taken' = Taken /\ Unseen' = Unseen
        /\ \/ UNCHANGED live
           \/ \E op \in Ops \ live :
                /\ live' = live \cup {op}
                /\ op.kind = r.kind /\ op.sess = r.sess /\ op.buf = r.buf
    BY <1>0, <1>1, <1>8, <2>1, RequestEffect
  <2>3. \/ UNCHANGED live
        \/ \E op \in Ops \ live :
             /\ live' = live \cup {op}
             /\ op.kind # "accept" /\ \E p \in Plans : /\ op.kind = p.kind
                                                       /\ op.sess = p.sess
                                                       /\ op.buf = p.buf
    BY <1>4, <2>1, <2>2
  <2> QED
    BY <1>1, <1>6, <1>8, <2>2, <2>3, RequestEcho
<1> QED
  BY <1>7, <1>8 DEF HandlerRequest, r

\* An operation whose completion was held is given back.
LEMMA RetireEcho ==
  ASSUME ServiceInv, ServiceInv', EchoInv, ~fault, NEW w \in Workers, Retire(w),
         UNCHANGED <<sessionVars, sockets, clients, stream>>
  PROVE  EchoInv'
<1>0. /\ RingTypeOK /\ RingTypeOK' /\ RefInv
      /\ UNCHANGED <<todo, sessions_queue, socket_fd, fd_table, sqe_fd, file, stream>>
      /\ \A c \in Conns : peer'[c] # "reset"
  BY DEF ServiceInv, EchoInv, FreshInv, sessionVars, sockets, clients
<1>1. CASE holding[w]
  <2>1. PICK op \in Taken : /\ live' = live \ {op} /\ Taken' = Taken \ {op}
                            /\ Unseen' = Unseen
    BY <1>0, <1>1, RetireEffect
  <2> QED
    BY <1>0, <2>1, CalmEcho
<1>2. CASE ~holding[w]
  <2>1. UNCHANGED <<live, cq>> /\ holding' = [holding EXCEPT ![w] = FALSE]
    BY <1>2 DEF Retire
  <2>2. \A v \in Workers : holding'[v] = holding[v]
    BY <1>0, <1>2, <2>1, ZenonT(40) DEF RingTypeOK
  <2>3. holding \in [Workers -> BOOLEAN] /\ holding' \in [Workers -> BOOLEAN]
    BY <1>0 DEF RingTypeOK
  <2>4. holding' = holding
    BY <2>2, <2>3
  <2>5. UNCHANGED <<live, Taken, Unseen>>
    BY <2>1, <2>4, ViewsUnchanged
  <2> QED
    BY <1>0, <2>5, CalmEcho
<1> QED
  BY <1>1, <1>2

\* The kernel finishes an operation: what is the same for all of them.
LEMMA CompleteEcho ==
  ASSUME ServiceInv, EchoInv, ~fault, NEW w \in Workers, NEW op, NEW res \in Results,
         CompleteOperation(w, op, res), UNCHANGED <<sessionVars, peer>>,
         \A f \in Fds : fd_table[f] \in Conns => fd_table'[f] = fd_table[f],
         Reports([op |-> op, res |-> res])', EchoToClient'
  PROVE  EchoInv'
<1>0. /\ RingTypeOK /\ RefInv /\ TodoInv /\ BootType
      /\ FreshInv /\ OwnInv /\ FileInv /\ SeenInv
      /\ UNCHANGED <<todo, sessions_queue, socket_fd>>
      /\ \A c \in Conns : peer'[c] # "reset"
  BY DEF ServiceInv, EchoInv, FreshInv, sessionVars
<1>1. ConnsKept
  BY <1>0, ConnsStay
<1>2. live' = live /\ Taken' = Taken /\ Unseen' = Unseen \cup {[op |-> op, res |-> res]}
  BY <1>0, CompleteEffect DEF CompleteOperation
<1>3. OwnInv'
  <2>0. PICK N : N = {}
    OBVIOUS
  <2>1. live' \cup Plans' \subseteq live \cup Plans \cup N /\ \A r \in N : Own(r)'
    BY <1>0, <1>2, <2>0 DEF Plans
  <2> QED
    BY <1>0, <1>1, <2>1, OwnKept
<1>4. FileInv'
  <2>1. /\ DOMAIN sqe_fd' = DOMAIN sqe_fd \ {op} /\ DOMAIN file' = DOMAIN file \ {op}
        /\ \A o \in DOMAIN sqe_fd' : sqe_fd'[o] = sqe_fd[o]
        /\ \A o \in DOMAIN file' : file'[o] = file[o]
    BY DEF CompleteOperation, Forget
  <2> QED
    BY <1>0, <1>1, <2>1, FileKept
<1>5. SeenInv'
  <2>0. PICK N : N = {[op |-> op, res |-> res]}
    OBVIOUS
  <2>1. Unseen' \subseteq Unseen \cup N /\ \A e \in N : Reports(e)'
    BY <1>2, <2>0
  <2> QED
    BY <1>0, <1>1, <2>1, SeenKept
<1>6. FreshInv'
  BY <1>0, <1>2, FreshKept
<1> QED
  BY <1>3, <1>4, <1>5, <1>6 DEF EchoInv

\* The kernel's steps.
LEMMA KernelEcho ==
  ASSUME ServiceInv, EchoInv, NEW w \in Workers, NEW op, KernelStep(w, op)
  PROVE  EchoInv'
<1>0. /\ RingTypeOK /\ RefInv /\ TodoInv /\ SqeInv /\ BootType /\ NetType /\ InboxInv
      /\ BufInv /\ FreshInv /\ OwnInv /\ FileInv /\ EchoToClient /\ ~fault
      /\ UNCHANGED <<sessionVars, peer>> /\ socket_fd' = socket_fd /\ op \in inflight[w]
  BY DEF ServiceInv, EchoInv, KernelStep, sessionVars
<1>1. op \in live /\ op \in DOMAIN file /\ op \in Ops /\ op.sess \in Sessions
  BY <1>0, OperationIs DEF SqeInv, RingTypeOK
<1>r. /\ Failed \in Results /\ Done \in Results /\ Done.msgs = <<>>
  BY NoMessageResult
<1>2. ASSUME op.kind # "accept"
      PROVE  /\ op.kind \in {"recv", "send"} /\ file[op] = ConnOf(op.sess)
             /\ file[op] \in Conns /\ ~Broken(file[op])
  <2>1. op.kind \in {"recv", "send"} /\ Served(op.sess)
    BY <1>0, <1>1, <1>2, LiveServed
  <2>2. file[op] = ConnOf(op.sess) /\ file[op] \in Conns
    BY <1>0, <1>1, <1>2, <2>1, ConnIs DEF FileInv
  <2> QED
    BY <1>0, <2>1, <2>2, ServiceAssumption DEF Broken, FreshInv
<1>3. CASE CompleteAccept(w, op)
  <2>0. op.kind = "accept" /\ stream' = stream
    BY <1>3 DEF CompleteAccept
  <2>1. ASSUME NEW c \in Waiting, NEW f \in Free,
               CompleteOperation(w, op, [ok |-> TRUE, fd |-> f, msgs |-> <<>>]),
               fd_table' = [fd_table EXCEPT ![f] = c]
        PROVE  EchoInv'
    <3> DEFINE res == [ok |-> TRUE, fd |-> f, msgs |-> <<>>]
               e == [op |-> op, res |-> res]
    <3>1. f \in Fds /\ c \in Conns /\ fd_table[f] = NULL /\ NULL \notin Conns
      BY ServiceAssumption DEF Waiting, Free
    <3>2. res \in Results /\ res.fd = f
      BY <3>1, NoMessageResult
    <3>3. /\ fd_table'[f] = c
          /\ \A g \in Fds : fd_table[g] \in Conns => fd_table'[g] = fd_table[g]
      BY <1>0, <2>1, <3>1 DEF NetType
    <3>4. CompleteOperation(w, op, res)
      BY <2>1
    <3>5. e.op = op /\ e.res = res
      OBVIOUS
    <3> HIDE DEF res
    <3>6. Reports(e)'
      <4> HIDE DEF e
      <4> QED
        BY <2>0, <3>1, <3>2, <3>3, <3>5 DEF Reports
    <3>7. EchoToClient'
      BY <1>0, <2>0 DEF EchoToClient
    <3> QED
      BY <1>0, <3>2, <3>3, <3>4, <3>6, <3>7, CompleteEcho
  <2>2. CASE CompleteOperation(w, op, Failed) /\ UNCHANGED fd_table
    <3> DEFINE res == Failed
               e == [op |-> op, res |-> res]
    <3>1. res \in Results /\ CompleteOperation(w, op, res)
      BY <1>r, <2>2
    <3>2. ~res.ok
      BY Zenon DEF Failed
    <3>3. e.op = op /\ e.res = res
      OBVIOUS
    <3> HIDE DEF res
    <3>4. Reports(e)'
      <4> HIDE DEF e
      <4> QED
        BY <2>0, <3>2, <3>3 DEF Reports
    <3>5. EchoToClient'
      BY <1>0, <2>0 DEF EchoToClient
    <3> QED
      BY <1>0, <2>2, <3>1, <3>4, <3>5, CompleteEcho
  <2> QED
    BY <1>3, <2>1, <2>2 DEF CompleteAccept
<1>4. CASE CompleteRecv(w, op)
  <2> DEFINE c == file[op]
  <2>0. op.kind = "recv" /\ UNCHANGED <<stream, fd_table>>
    BY <1>4 DEF CompleteRecv
  <2>1. c = ConnOf(op.sess) /\ c \in Conns /\ ~Broken(c)
    BY <1>2, <2>0
  <2>2. EchoToClient'
    BY <1>0, <2>0 DEF EchoToClient
  <2>3. ConnOf(op.sess)' = ConnOf(op.sess)
    BY <1>0, <2>0 DEF ConnOf
  <2>4. ASSUME NEW res \in Results, CompleteOperation(w, op, res), res.ok,
               \A m \in Range(res.msgs) : m[1] = c
        PROVE  EchoInv'
    <3> DEFINE e == [op |-> op, res |-> res]
    <3>1. e.op = op /\ e.res = res
      OBVIOUS
    <3>2. Reports(e)'
      <4> HIDE DEF e, c
      <4> QED
        BY <2>0, <2>1, <2>3, <2>4, <3>1 DEF Reports
    <3> QED
      BY <1>0, <2>0, <2>2, <2>4, <3>2, CompleteEcho
  <2>5. CASE CompleteOperation(w, op, Done)
    <3>1. Done.ok
      BY Zenon DEF Done
    <3>2. Range(Done.msgs) = {}
      BY <1>r, DistinctEmpty
    <3> QED
      BY <1>r, <2>4, <2>5, <3>1, <3>2
  <2>6. ASSUME NEW k \in 1 .. Len(inbox[c]),
               CompleteOperation(w, op, [ok |-> TRUE, fd |-> NULL,
                                         msgs |-> SubSeq(inbox[c], 1, k)])
        PROVE  EchoInv'
    <3> DEFINE q == SubSeq(inbox[c], 1, k)
               res == [ok |-> TRUE, fd |-> NULL, msgs |-> q]
    <3>1. res \in Results /\ CompleteOperation(w, op, res)
      BY <2>1, <2>6, ReceivedResult
    <3>2. res.ok
      BY Zenon
    <3>3. res.msgs = q
      OBVIOUS
    <3>4. \A m \in Range(q) : m[1] = c
      <4>1. /\ inbox[c] \in Seq(Messages) /\ Len(inbox[c]) \in Nat
            /\ DOMAIN inbox[c] = 1 .. Len(inbox[c])
            /\ k \in 0 .. Len(inbox[c])
            /\ \A m \in Range(inbox[c]) : m[1] = c
        BY <1>0, <2>1, LenProperties DEF InboxInv
      <4>2. DOMAIN q = 1 .. k /\ \A i \in 1 .. k : q[i] = inbox[c][i]
        BY <4>1, PrefixIs
      <4>3. \A i \in 1 .. k : i \in DOMAIN inbox[c]
        BY <4>1
      <4> HIDE DEF q, c
      <4> QED
        BY <4>1, <4>2, <4>3 DEF Range
    <3> HIDE DEF res
    <3> QED
      BY <2>4, <3>1, <3>2, <3>3, <3>4
  <2> QED
    BY <1>4, <2>1, <2>5, <2>6 DEF CompleteRecv
<1>5. CASE CompleteSend(w, op)
  <2> DEFINE c == file[op]
  <2>0. op.kind = "send" /\ UNCHANGED fd_table
    BY <1>5 DEF CompleteSend
  <2>1. c = ConnOf(op.sess) /\ c \in Conns
    BY <1>2, <2>0
  <2>2. op.buf[1][1] = c
    BY <1>0, <1>1, <2>0, <2>1 DEF OwnInv, Own
  <2>3. ASSUME NEW res \in Results, CompleteOperation(w, op, res), EchoToClient'
        PROVE  EchoInv'
    <3> DEFINE e == [op |-> op, res |-> res]
    <3>1. e.op = op
      OBVIOUS
    <3>2. Reports(e)'
      <4> HIDE DEF e
      <4> QED
        BY <2>0, <3>1 DEF Reports
    <3> QED
      BY <1>0, <2>0, <2>3, <3>2, CompleteEcho
  <2>4. CASE CompleteOperation(w, op, Failed) /\ UNCHANGED stream
    <3>1. EchoToClient'
      BY <1>0, <2>4 DEF EchoToClient
    <3> QED
      BY <1>r, <2>3, <2>4, <3>1
  <2>5. CASE /\ CompleteOperation(w, op, Done)
             /\ stream' = [stream EXCEPT ![c] = Append(stream[c], op.buf)]
    <3> DEFINE b == op.buf
               z == Append(stream[c], b)
    <3>1. /\ stream \in [Conns -> Seq(Buffers)] /\ b \in Buffers /\ stream[c] \in Seq(Buffers)
          /\ Len(stream[c]) \in Nat /\ DOMAIN stream[c] = 1 .. Len(stream[c])
      BY <1>0, <1>1, <2>0, <2>1, OperationIs, LenProperties DEF BufInv
    <3>2. /\ z \in Seq(Buffers) /\ Len(z) = Len(stream[c]) + 1
          /\ \A i \in 1 .. Len(stream[c]) : z[i] = stream[c][i]
          /\ z[Len(stream[c]) + 1] = b
      BY <3>1, AppendProperties
    <3>3. DOMAIN z = 1 .. Len(stream[c]) + 1
      BY <3>2, LenProperties
    <3>4. stream'[c] = z /\ \A d \in Conns : d # c => stream'[d] = stream[d]
      BY <2>1, <2>5, <3>1
    <3>5. \A i \in DOMAIN stream[c] : stream[c][i][1][1] = c
      BY <1>0, <2>1 DEF EchoToClient
    <3> HIDE DEF z, b, c
    <3>6. \A i \in DOMAIN z : z[i][1][1] = c
      <4> SUFFICES ASSUME NEW i \in DOMAIN z PROVE z[i][1][1] = c
        OBVIOUS
      <4>1. CASE i = Len(stream[c]) + 1
        BY <2>2, <3>2, <4>1 DEF b
      <4>2. CASE i # Len(stream[c]) + 1
        <5>1. i \in 1 .. Len(stream[c])
          BY <3>1, <3>3, <4>2
        <5> QED
          BY <3>1, <3>2, <3>5, <5>1
      <4> QED
        BY <4>1, <4>2
    <3>7. EchoToClient'
      BY <1>0, <3>4, <3>6 DEF EchoToClient
    <3> QED
      BY <1>r, <2>3, <2>5, <3>7
  <2> QED
    BY <1>5, <2>4, <2>5 DEF CompleteSend
<1>6. CASE CompleteClose(w, op)
  BY <1>2, <1>6 DEF CompleteClose
<1> QED
  BY <1>3, <1>4, <1>5, <1>6 DEF KernelStep

\* The last loop of Service::initialize.
LEMMA InitializeEcho ==
  ASSUME ServiceInv, EchoInv, InitializeAccept
  PROVE  EchoInv'
<1>1. /\ RequestAcceptOne /\ booted < Backlog
      /\ UNCHANGED <<sq, inflight, cq, holding, pc, fault, todo>>
      /\ UNCHANGED <<socket_fd, fd_table, sqe_fd, file, peer, stream>>
  BY DEF InitializeAccept, sockets, clients
<1>2. ~fault
  <2>1. Backlog \in Nat /\ booted \in 0 .. Backlog
    BY ServiceAssumption DEF ServiceInv, BootType
  <2> QED
    BY <1>1, <2>1 DEF ServiceInv, BootInv
<1>3. Plans' \subseteq Plans
  BY <1>1 DEF Plans
<1> QED
  BY <1>1, <1>2, <1>3, AcceptOneEcho

\* A client that does not reset its connection.
LEMMA ClientEcho ==
  ASSUME Resetting = {}, ServiceInv, EchoInv, NEW c \in Conns, Client(c)
  PROVE  EchoInv'
<1>1. /\ ~fault
      /\ UNCHANGED <<live, cq, holding, todo, sessions_queue, socket_fd, fd_table, sqe_fd,
                     file, stream>>
  BY DEF Client, ringVars, sessionVars, sockets
<1>2. UNCHANGED <<live, Taken, Unseen>>
  BY <1>1, ViewsUnchanged
<1>3. peer \in [Conns -> {"none", "up", "closed", "reset"}]
      /\ \A d \in Conns : peer[d] # "reset"
  BY DEF ServiceInv, NetType, EchoInv, FreshInv
<1>4. \A d \in Conns : peer'[d] # "reset"
  <2>1. CASE Connect(c)
    BY <1>3, <2>1 DEF Connect
  <2>2. CASE ClientSend(c)
    BY <1>3, <2>2 DEF ClientSend
  <2>3. CASE ClientLeaves(c)
    BY <1>3, <2>3 DEF ClientLeaves
  <2> QED
    BY <2>1, <2>2, <2>3 DEF Client
<1> QED
  BY <1>1, <1>2, <1>4, CalmEcho

\* Every step keeps answers and connections together.
LEMMA EchoSteps ==
  ASSUME Resetting = {}, ServiceInv, ServiceInv', EchoInv, [Next]_vars
  PROVE  EchoInv'
<1> DEFINE Calm == UNCHANGED <<live, cq, holding, todo, sessions_queue, socket_fd,
                               fd_table, sqe_fd, file, peer, stream>>
<1>0. ASSUME Calm, ~fault PROVE EchoInv'
  <2>1. UNCHANGED <<live, Taken, Unseen>>
    BY <1>0, ViewsUnchanged
  <2>2. \A c \in Conns : peer'[c] # "reset"
    BY <1>0 DEF EchoInv, FreshInv
  <2> QED
    BY <1>0, <2>1, <2>2, CalmEcho
<1>1. CASE UNCHANGED vars
  <2>1. Calm
    BY <1>1 DEF vars, ringVars, sessionVars, sockets, clients
  <2>2. UNCHANGED <<live, Taken, Unseen>>
    BY <2>1, ViewsUnchanged
  <2>3. FreshInv'
    BY <2>1, <2>2 DEF EchoInv, FreshInv
  <2>4. Plans' = Plans /\ \A r : Own(r)' = Own(r)
    BY <2>1 DEF Plans, Own, Served, ConnOf
  <2>5. OwnInv'
    BY <2>2, <2>4 DEF EchoInv, OwnInv
  <2>6. (\A s : ConnOf(s)' = ConnOf(s)) /\ \A e : Reports(e)' = Reports(e)
    BY <2>1 DEF Reports, ConnOf
  <2>7. FileInv' /\ SeenInv'
    BY <2>1, <2>2, <2>6 DEF EchoInv, FileInv, SeenInv
  <2>8. EchoToClient'
    BY <2>1 DEF EchoInv, EchoToClient
  <2> QED
    BY <2>3, <2>5, <2>7, <2>8 DEF EchoInv
<1>2. CASE Boot
  <2>1. CASE Build
    <3>1. Calm
      BY <2>1 DEF Build, ringVars, sockets, clients
    <3>2. ~fault
      BY <2>1 DEF Build, ServiceInv, BootInv
    <3> QED
      BY <1>0, <3>1, <3>2
  <2>2. CASE StartThread
    <3>1. Calm
      BY <2>2 DEF StartThread, ringVars, sockets, clients
    <3>2. ~fault
      BY <2>2 DEF StartThread
    <3> QED
      BY <1>0, <3>1, <3>2
  <2> QED
    BY <1>2, <2>1, <2>2, InitializeEcho DEF Boot
<1>3. ASSUME NEW w \in Workers, WorkerStep(w)
      PROVE  EchoInv'
  <2>0. ~fault
    BY <1>3 DEF WorkerStep
  <2>1. CASE TakeCompletion(w)
    BY <2>0, <2>1, TakeEcho
  <2>2. CASE HandlerRequest(w)
    BY <2>0, <2>2, CallEcho
  <2>3. CASE HandlerReturns(w)
    <3>1. Calm
      BY <2>3 DEF HandlerReturns, Handle, Handled, sessionVars, sockets, clients
    <3> QED
      BY <1>0, <2>0, <3>1
  <2>4. CASE PrepareOperation(w) \/ SubmitAll(w)
    BY <2>0, <2>4, PrepareEcho
  <2>5. CASE FlushOrRetire(w)
    <3>1. UNCHANGED <<sessionVars, sockets, clients, stream>>
      BY <2>5 DEF FlushOrRetire
    <3>2. CASE BeginFlush(w)
      <4>1. Calm
        BY <3>1, <3>2 DEF BeginFlush, sessionVars, sockets, clients
      <4> QED
        BY <1>0, <2>0, <4>1
    <3>3. CASE Retire(w)
      BY <2>0, <3>1, <3>3, RetireEcho
    <3> QED
      BY <2>5, <3>2, <3>3 DEF FlushOrRetire
  <2> QED
    BY <1>3, <2>1, <2>2, <2>3, <2>4, <2>5 DEF WorkerStep
<1>4. ASSUME NEW w \in Workers, NEW op \in inflight[w], KernelStep(w, op)
      PROVE  EchoInv'
  BY <1>4, KernelEcho
<1>5. ASSUME NEW c \in Conns, Client(c)
      PROVE  EchoInv'
  BY <1>5, ClientEcho
<1> QED
  BY <1>1, <1>2, <1>3, <1>4, <1>5 DEF Next

\* At the start nothing is requested, connected or written.
LEMMA EchoInit == Init => EchoInv
<1> SUFFICES ASSUME Init PROVE EchoInv
  OBVIOUS
<1>0. DOMAIN <<>> = {}
  BY EmptySeq
<1>1. live = {} /\ \A w \in Workers : cq[w] = <<>> /\ todo[w] = <<>>
  BY DEF Init, RingInit
<1>2. Unseen = {} /\ Plans = {}
  <2>1. Unseen = {}
    BY <1>0, <1>1, UnseenIs
  <2>2. Plans = {}
    BY <1>0, <1>1 DEF Plans, Range
  <2> QED
    BY <2>1, <2>2
<1>3. FreshInv
  <2>1. Range(sessions_queue) \subseteq Sessions
    BY DEF Init, Sessions, Range
  <2> QED
    BY <1>1, <2>1 DEF Init, FreshInv
<1>4. OwnInv /\ SeenInv
  BY <1>1, <1>2 DEF OwnInv, SeenInv
<1>5. FileInv
  <2>1. sqe_fd = <<>> /\ file = <<>>
    BY DEF Init
  <2> QED
    BY <1>0, <2>1 DEF FileInv
<1>6. EchoToClient
  <2>1. \A c \in Conns : stream[c] = <<>>
    BY DEF Init
  <2> QED
    BY <1>0, <2>1 DEF EchoToClient
<1> QED
  BY <1>3, <1>4, <1>5, <1>6 DEF EchoInv

\* As long as no client resets its connection, an answer is written only to
\* the connection its message came from: a session gets one descriptor and
\* keeps it, so what request_io reads when it prepares an entry is still the
\* connection the handler answered.  It is the close after a failed receive
\* that breaks this, and only a reset makes a receive fail.
THEOREM AnswersReachTheirClient ==
  ASSUME Resetting = {}
  PROVE  Spec => []EchoToClient
<1>1. Init => ServiceInv /\ EchoInv
  BY InitKeeps, EchoInit
<1>2. ServiceInv /\ [Next]_vars => ServiceInv'
  BY StepKeeps
<1>3. ServiceInv /\ ServiceInv' /\ EchoInv /\ [Next]_vars => EchoInv'
  BY EchoSteps
<1>4. EchoInv => EchoToClient
  BY DEF EchoInv
<1> QED
  BY <1>1, <1>2, <1>3, <1>4, PTL DEF Spec

=============================================================================
