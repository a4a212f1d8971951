--------------------------- MODULE ObjectPoolProofs ---------------------------
(***************************************************************************)
(* Theorems about ObjectPool, for any number of threads, any sizes of      *)
(* chunk, cache and batch and any amount of memory.                        *)
(***************************************************************************)
EXTENDS ObjectPool, SequenceLemmas

-----------------------------------------------------------------------------
(* The inductive invariant.                                                *)

\* An idle thread has at most this many slots in its cache.
Low(c) == Len(c) <= (TlsCacheSize * 3) \div 4 \/ Len(c) <= BatchSize - 1

\* What a thread keeps between two steps, by its location, cache, slot in hand,
\* batch and counter: a slot in hand only while it is to be constructed, a
\* batch only in the loops that fill and empty one, and an empty cache while
\* it looks for slots elsewhere.
Kept(l, c, o, b, n) ==
  /\ IF l = "construct" THEN Len(o) = 1 ELSE o = <<>>
  /\ l \notin {"steal", "return"} => b = <<>>
  /\ Len(b) <= BatchSize
  /\ l \in {"pop", "steal"} => c = <<>>
  /\ l = "new" => n = 0
  /\ l = "fill" => n <= ChunkSize
  /\ Len(c) <= TlsCacheSize
  /\ IF l = "released"
     THEN Len(c) <= (TlsCacheSize * 3) \div 4 + 1 \/ Len(c) <= BatchSize
     ELSE Low(c)

ThreadKept(t) == Kept(pc[t], cache[t], obj[t], batch[t], count[t])

\* The flag is set as long as one thread allocates, and the chunk that is
\* being pushed is the only one not counted.
FlagKept ==
  /\ allocating <=> Allocators # {}
  /\ \A t, u \in Allocators : t = u
  /\ IF \E t \in Threads : pc[t] = "fill" THEN total_allocated + ChunkSize = allocated
                                          ELSE total_allocated = allocated

PoolKept == TypeOK /\ (\A t \in Threads : ThreadKept(t)) /\ FlagKept

Own    == {"cache", "obj", "batch", "chunk"}
Places == Own \cup {"queue", "user"}

\* The slots at place k: the free queue and the callers are common to all
\* threads, the other places are the thread's own.
Held(t, k) ==
  CASE k = "queue" -> Range(free_queue)
    [] k = "user"  -> used
    [] k = "cache" -> Range(cache[t])
    [] k = "obj"   -> Range(obj[t])
    [] k = "batch" -> Range(batch[t])
    [] k = "chunk" -> IF pc[t] = "fill"
                      THEN allocated - ChunkSize + count[t] + 1 .. allocated ELSE {}

\* No slot is at two places.
Apart ==
  /\ \A s \in Slots : ~(s \in Range(free_queue) /\ s \in used)
  /\ \A t, u \in Threads, k, l \in Places, s \in Slots :
       s \in Held(t, k) /\ s \in Held(u, l) => k = l /\ (k \in Own => t = u)

\* The slots allocated so far are those at some place.
Covered ==
  \A s \in Slots :
    s <= allocated <=> \/ s \in Range(free_queue) \cup used
                       \/ \E t \in Threads, k \in Own : s \in Held(t, k)

\* No sequence holds a slot twice.
NoRepeats ==
  /\ IsInjective(free_queue)
  /\ \A t \in Threads : /\ IsInjective(cache[t]) /\ IsInjective(obj[t])
                        /\ IsInjective(batch[t])

OwnerInv == Apart /\ Covered /\ NoRepeats

-----------------------------------------------------------------------------
(* Types, bounds and the flag.                                             *)

\* The parts of the invariant that concern one thread.
LEMMA ThreadHas ==
  ASSUME PoolKept, NEW t \in Threads
  PROVE  /\ pc[t] \in Locations /\ count[t] \in Nat
         /\ cache[t] \in Seq(Slots) /\ obj[t] \in Seq(Slots) /\ batch[t] \in Seq(Slots)
         /\ Kept(pc[t], cache[t], obj[t], batch[t], count[t])
BY DEF PoolKept, TypeOK, ThreadKept

\* A step changes what is the thread's own for that thread only.
OnlyOf(t) == /\ pc' = [pc EXCEPT ![t] = pc'[t]]
             /\ cache' = [cache EXCEPT ![t] = cache'[t]]
             /\ obj' = [obj EXCEPT ![t] = obj'[t]]
             /\ batch' = [batch EXCEPT ![t] = batch'[t]]
             /\ count' = [count EXCEPT ![t] = count'[t]]

SharedTyped ==
  /\ free_queue \in Seq(Slots) /\ used \subseteq Slots /\ allocating \in BOOLEAN
  /\ allocated \in 0 .. MaxSlots /\ total_allocated \in 0 .. MaxSlots

\* What must be shown of a thread that takes a step.
LEMMA ThreadUpdated ==
  ASSUME PoolKept, NEW t \in Threads, OnlyOf(t), SharedTyped',
         pc'[t] \in Locations, cache'[t] \in Seq(Slots), obj'[t] \in Seq(Slots),
         batch'[t] \in Seq(Slots), count'[t] \in Nat, 
         Kept(pc'[t], cache'[t], obj'[t], batch'[t], count'[t])
  PROVE  TypeOK' /\ \A u \in Threads : ThreadKept(u)'
<1>0. /\ pc \in [Threads -> Locations] /\ cache \in [Threads -> Seq(Slots)]
      /\ obj \in [Threads -> Seq(Slots)] /\ batch \in [Threads -> Seq(Slots)]
      /\ count \in [Threads -> Nat]
  BY DEF PoolKept, TypeOK
<1>1. /\ pc' \in [Threads -> Locations] /\ cache' \in [Threads -> Seq(Slots)]
      /\ obj' \in [Threads -> Seq(Slots)] /\ batch' \in [Threads -> Seq(Slots)]
      /\ count' \in [Threads -> Nat]
  BY <1>0 DEF OnlyOf
<1>2. ASSUME NEW u \in Threads
      PROVE  Kept(pc'[u], cache'[u], obj'[u], batch'[u], count'[u])
  <2>1. CASE u = t
    BY <2>1
  <2>2. CASE u # t
    BY <1>0, <2>2, ThreadHas DEF OnlyOf
  <2> QED
    BY <2>1, <2>2
<1>3. ASSUME NEW u \in Threads
      PROVE  /\ Len(cache'[u]) <= TlsCacheSize
             /\ Len(obj'[u]) <= 1 /\ Len(batch'[u]) <= BufferSize
  <2>1. /\ Len(batch'[u]) \in Nat /\ Len(obj'[u]) \in Nat /\ BatchSize <= BufferSize
        /\ BatchSize \in Nat /\ BufferSize \in Nat
    BY <1>1, LenProperties, PoolAssumption
  <2>2. Len(<<>>) = 0
    BY EmptySeq
  <2>3. Len(obj'[u]) <= 1
    <3>1. Len(obj'[u]) = 1 \/ obj'[u] = <<>>
      BY <1>2 DEF Kept
    <3>2. Len(obj'[u]) = 1 \/ Len(obj'[u]) = 0
      BY <2>2, <3>1
    <3> DEFINE m == Len(obj'[u])
    <3>3. m = 1 \/ m = 0
      BY <3>2
    <3> HIDE DEF m
    <3>4. m <= 1
      BY <3>3
    <3> QED
      BY <3>4 DEF m
  <2> QED
    BY <1>2, <2>1, <2>3 DEF Kept
<1>4. TypeOK'
  BY <1>1, <1>3 DEF TypeOK, SharedTyped
<1>5. \A u \in Threads : ThreadKept(u)'
  BY <1>2 DEF ThreadKept, Kept, Low
<1> QED
  BY <1>4, <1>5

Allocating == {"new", "fill", "clear"}

\* A step that neither begins nor ends an allocation.
LEMMA FlagUnchanged ==
  ASSUME PoolKept, NEW t \in Threads, OnlyOf(t),
         UNCHANGED <<allocating, allocated, total_allocated>>,
         pc'[t] = pc[t] \/ (pc[t] \notin Allocating /\ pc'[t] \notin Allocating)
  PROVE  FlagKept'
<1>1. pc \in [Threads -> Locations]
  BY DEF PoolKept, TypeOK
<1>2. \A u \in Threads : /\ pc'[u] \in Allocating <=> pc[u] \in Allocating
                         /\ pc'[u] = "fill" <=> pc[u] = "fill"
  BY <1>1 DEF OnlyOf, Allocating
<1>3. Allocators' = Allocators
  BY <1>2 DEF Allocators, Allocating
<1> QED
  BY <1>2, <1>3 DEF PoolKept, FlagKept

\* What the invariant says of the functions and of what is shared.
LEMMA PoolHas ==
  ASSUME PoolKept
  PROVE  /\ SharedTyped /\ pc \in [Threads -> Locations]
         /\ cache \in [Threads -> Seq(Slots)] /\ obj \in [Threads -> Seq(Slots)]
         /\ batch \in [Threads -> Seq(Slots)] /\ count \in [Threads -> Nat]
BY DEF PoolKept, TypeOK, SharedTyped

\* The sequence of one slot.
LEMMA SlotIs ==
  ASSUME NEW s \in Slots
  PROVE  <<s>> \in Seq(Slots) /\ Len(<<s>>) = 1 /\ Head(<<s>>) = s
OBVIOUS

\* A pop leaves a shorter queue and a slot in hand, or nothing changes.
LEMMA PopIs ==
  ASSUME PoolKept, NEW t \in Threads, NEW l1, NEW l2, PopInto(t, l1, l2)
  PROVE  /\ free_queue' \in Seq(Slots)
         /\ \/ /\ free_queue # <<>> /\ free_queue' = Tail(free_queue)
               /\ obj'[t] \in Seq(Slots) /\ Len(obj'[t]) = 1 /\ pc'[t] = l1
               /\ obj'[t] = <<Head(free_queue)>> /\ Head(free_queue) \in Slots
            \/ /\ free_queue = <<>> /\ free_queue' = free_queue
               /\ obj'[t] = obj[t] /\ pc'[t] = l2
         /\ obj' = [obj EXCEPT ![t] = obj'[t]] /\ pc' = [pc EXCEPT ![t] = pc'[t]]
<1>1. /\ free_queue \in Seq(Slots) /\ obj \in [Threads -> Seq(Slots)]
      /\ pc \in [Threads -> Locations]
  BY PoolHas DEF SharedTyped
<1>2. CASE free_queue # <<>>
  <2> DEFINE o == <<Head(free_queue)>>
  <2>1. Head(free_queue) \in Slots /\ Tail(free_queue) \in Seq(Slots)
    BY <1>1, <1>2, HeadTailProperties
  <2>2. o \in Seq(Slots) /\ Len(o) = 1
    BY <2>1, SlotIs
  <2>3. /\ obj' = [obj EXCEPT ![t] = o] /\ free_queue' = Tail(free_queue)
        /\ pc' = [pc EXCEPT ![t] = l1]
    BY <1>2 DEF PopInto, Goto
  <2> HIDE DEF o
  <2>4. obj'[t] = o /\ obj' = [obj EXCEPT ![t] = obj'[t]]
    BY <1>1, <2>3
  <2>5. pc'[t] = l1 /\ pc' = [pc EXCEPT ![t] = pc'[t]]
    BY <1>1, <2>3
  <2> QED
    BY <1>2, <2>1, <2>2, <2>3, <2>4, <2>5 DEF o
<1>3. CASE free_queue = <<>>
  <2>1. obj' = obj /\ free_queue' = free_queue /\ pc' = [pc EXCEPT ![t] = l2]
    BY <1>3 DEF PopInto, Goto
  <2>2. obj' = [obj EXCEPT ![t] = obj'[t]]
    BY <1>1, <2>1
  <2>3. pc'[t] = l2 /\ pc' = [pc EXCEPT ![t] = pc'[t]]
    BY <1>1, <2>1
  <2> QED
    BY <1>1, <1>3, <2>1, <2>2, <2>3
<1> QED
  BY <1>2, <1>3

\* The end of a sequence.
LEMMA FrontIs ==
  ASSUME NEW c \in Seq(Slots), c # <<>>
  PROVE  /\ Front(c) \in Seq(Slots) /\ Len(Front(c)) = Len(c) - 1
         /\ <<Back(c)>> \in Seq(Slots) /\ Len(<<Back(c)>>) = 1 /\ Back(c) \in Slots
<1>1. Len(c) \in Nat \ {0} /\ \A i \in 1 .. Len(c) : c[i] \in Slots
  BY EmptySeq, ElementOfSeq
<1>2. /\ Front(c) \in Seq(Slots)
      /\ Len(Front(c)) = IF 1 <= Len(c) - 1 THEN Len(c) - 1 - 1 + 1 ELSE 0
  <2>1. \A i \in 1 .. Len(c) - 1 : c[i] \in Slots
    BY <1>1
  <2> QED
    BY <1>1, <2>1, SubSeqProperties DEF Front
<1>3. Len(Front(c)) = Len(c) - 1
  <2> DEFINE m == Len(c)
             n == Len(Front(c))
  <2>1. m \in Nat \ {0} /\ n = IF 1 <= m - 1 THEN m - 1 - 1 + 1 ELSE 0
    BY <1>1, <1>2
  <2> HIDE DEF m, n
  <2>2. n = m - 1
    BY <2>1
  <2> QED
    BY <2>2 DEF m, n
<1>4. Back(c) \in Slots
  BY <1>1 DEF Back
<1> QED
  BY <1>2, <1>3, <1>4

\* A smaller cache than a low one is low.
LEMMA LowSmaller ==
  ASSUME NEW c \in Seq(Slots), NEW d \in Seq(Slots), Low(c), Len(d) <= Len(c)
  PROVE  Low(d)
<1>1. Len(c) \in Nat /\ Len(d) \in Nat
  BY LenProperties
<1>2. TlsCacheSize \in Nat /\ BatchSize \in Nat /\ (TlsCacheSize * 3) \div 4 \in Nat
  BY PoolAssumption
<1> QED
  BY <1>1, <1>2 DEF Low

\* A slot from the cache, or a look at the free queue.
LEMMA AcquireKept ==
  ASSUME PoolKept, NEW t \in Threads, Acquire(t)
  PROVE  PoolKept'
<1>0. /\ pc[t] = "idle" /\ count[t] \in Nat /\ cache[t] \in Seq(Slots)
      /\ batch[t] \in Seq(Slots) /\ obj[t] \in Seq(Slots)
      /\ Kept("idle", cache[t], obj[t], batch[t], count[t])
  BY ThreadHas DEF Acquire
<1>1. UNCHANGED <<free_queue, allocating, allocated, total_allocated, used, batch, count>>
  BY DEF Acquire
<1>2. SharedTyped' /\ batch'[t] = batch[t] /\ count'[t] = count[t]
  BY <1>1, PoolHas DEF SharedTyped
<1>3. OnlyOf(t)
  BY <1>1, PoolHas DEF Acquire, Goto, OnlyOf
<1>4. /\ pc'[t] \in Locations /\ pc'[t] \notin Allocating
      /\ cache'[t] \in Seq(Slots) /\ obj'[t] \in Seq(Slots)
      /\ Kept(pc'[t], cache'[t], obj'[t], batch[t], count[t])
  <2>1. CASE cache[t] # <<>>
    <3> DEFINE o == <<Back(cache[t])>>
               c == Front(cache[t])
    <3>1. o \in Seq(Slots) /\ Len(o) = 1 /\ c \in Seq(Slots) /\ Len(c) = Len(cache[t]) - 1
      BY <1>0, <2>1, FrontIs
    <3>2. obj'[t] = o /\ cache'[t] = c /\ pc'[t] = "construct"
      BY <2>1, PoolHas DEF Acquire, Goto
    <3> HIDE DEF o, c
    <3>3. Len(cache[t]) \in Nat /\ Len(c) <= Len(cache[t]) /\ TlsCacheSize \in Nat
      BY <1>0, <3>1, LenProperties, PoolAssumption
    <3>4. Low(c) /\ Len(c) <= TlsCacheSize
      BY <1>0, <3>1, <3>3, LowSmaller DEF Kept
    <3>5. Kept("construct", c, o, batch[t], count[t])
      BY <1>0, <3>1, <3>4 DEF Kept
    <3> QED
      BY <3>1, <3>2, <3>5 DEF Locations, Allocating
  <2>2. CASE cache[t] = <<>>
    <3>1. obj'[t] = obj[t] /\ cache'[t] = cache[t] /\ pc'[t] = "pop"
      BY <2>2, PoolHas DEF Acquire, Goto
    <3>2. Kept("pop", cache[t], obj[t], batch[t], count[t])
      BY <1>0, <2>2 DEF Kept
    <3> QED
      BY <1>0, <3>1, <3>2 DEF Locations, Allocating
  <2> QED
    BY <2>1, <2>2
<1>5. TypeOK' /\ \A u \in Threads : ThreadKept(u)'
  BY <1>0, <1>2, <1>3, <1>4, ThreadUpdated
<1>6. FlagKept'
  BY <1>0, <1>1, <1>3, <1>4, FlagUnchanged DEF Allocating
<1> QED
  BY <1>5, <1>6 DEF PoolKept

\* A pop in acquire: the slot is constructed, or the search goes on.
LEMMA PopKept ==
  ASSUME PoolKept, NEW t \in Threads, NEW l \in {"steal", "null", "retry"},
         PopInto(t, "construct", l), pc[t] \in {"pop", "popOwn", "retry"},
         l = "steal" => pc[t] = "pop",
         UNCHANGED <<cache, allocating, allocated, total_allocated, used, batch>>,
         count' = [count EXCEPT ![t] = count'[t]], count'[t] \in Nat
  PROVE  PoolKept'
<1>0. /\ cache[t] \in Seq(Slots) /\ batch[t] \in Seq(Slots) /\ obj[t] \in Seq(Slots)
      /\ Kept(pc[t], cache[t], obj[t], batch[t], count[t])
  BY ThreadHas
<1>1. SharedTyped' /\ batch'[t] = batch[t] /\ cache'[t] = cache[t]
  BY PopIs, PoolHas DEF SharedTyped
<1>2. OnlyOf(t)
  BY PopIs, PoolHas DEF OnlyOf
<1>3. /\ obj'[t] \in Seq(Slots)
      /\ \/ pc'[t] = "construct" /\ Len(obj'[t]) = 1
         \/ pc'[t] = l /\ obj'[t] = obj[t]
  BY <1>0, PopIs
<1>4. Kept(pc'[t], cache[t], obj'[t], batch[t], count'[t])
  BY <1>0, <1>3 DEF Kept
<1>5. pc'[t] \in Locations /\ pc'[t] \notin Allocating
  BY <1>3 DEF Locations, Allocating
<1>6. TypeOK' /\ \A u \in Threads : ThreadKept(u)'
  BY <1>0, <1>1, <1>2, <1>3, <1>4, <1>5, ThreadUpdated
<1>7. FlagKept'
  BY <1>2, <1>5, FlagUnchanged DEF Allocating
<1> QED
  BY <1>6, <1>7 DEF PoolKept

\* The pops of acquire.
LEMMA PopsKept ==
  ASSUME PoolKept, NEW t \in Threads, PopCentral(t) \/ PopOwn(t) \/ Retry(t)
  PROVE  PoolKept'
<1>0. count \in [Threads -> Nat]
  BY PoolHas
<1>1. CASE PopCentral(t)
  <2>1. count' = [count EXCEPT ![t] = count'[t]] /\ count'[t] \in Nat
    BY <1>0, <1>1 DEF PopCentral
  <2> QED
    BY <1>1, <2>1, PopKept DEF PopCentral
<1>2. CASE PopOwn(t)
  <2>1. count' = [count EXCEPT ![t] = count'[t]] /\ count'[t] \in Nat
    BY <1>0, <1>2 DEF PopOwn
  <2> QED
    BY <1>2, <2>1, PopKept DEF PopOwn
<1>3. CASE Retry(t)
  <2>1. count' = [count EXCEPT ![t] = count'[t]] /\ count'[t] \in Nat
    BY <1>0, <1>3 DEF Retry
  <2> QED
    BY <1>3, <2>1, PopKept DEF Retry
<1> QED
  BY <1>1, <1>2, <1>3

\* The batch grows by one, up to its size.
LEMMA StealKept ==
  ASSUME PoolKept, NEW t \in Threads, Steal(t)
  PROVE  PoolKept'
<1>0. /\ cache[t] \in Seq(Slots) /\ batch[t] \in Seq(Slots) /\ obj[t] \in Seq(Slots)
      /\ count[t] \in Nat /\ Kept("steal", cache[t], obj[t], batch[t], count[t])
      /\ pc[t] = "steal" /\ Len(batch[t]) < BatchSize
      /\ free_queue \in Seq(Slots) /\ free_queue # <<>>
  BY ThreadHas, PoolHas DEF Steal, SharedTyped
<1> DEFINE b == Append(batch[t], Head(free_queue))
<1>1. Head(free_queue) \in Slots /\ Tail(free_queue) \in Seq(Slots)
  BY <1>0, HeadTailProperties
<1>2. b \in Seq(Slots) /\ Len(b) = Len(batch[t]) + 1
  BY <1>0, <1>1, AppendProperties
<1>3. /\ batch' = [batch EXCEPT ![t] = b] /\ free_queue' = Tail(free_queue)
      /\ UNCHANGED <<cache, allocating, allocated, total_allocated, used, pc, obj, count>>
  BY DEF Steal
<1>4. Len(b) <= BatchSize
  BY <1>0, <1>2, LenProperties, PoolAssumption
<1> HIDE DEF b
<1>5. OnlyOf(t) /\ batch'[t] = b
  BY <1>3, PoolHas DEF OnlyOf
<1>6. SharedTyped'
  BY <1>1, <1>3, PoolHas DEF SharedTyped
<1>7. Kept("steal", cache[t], obj[t], b, count[t])
  BY <1>0, <1>4 DEF Kept
<1>8. /\ pc'[t] = "steal" /\ cache'[t] = cache[t] /\ obj'[t] = obj[t]
      /\ count'[t] = count[t] /\ "steal" \in Locations
  BY <1>0, <1>3 DEF Locations
<1>9. TypeOK' /\ \A u \in Threads : ThreadKept(u)'
  BY <1>0, <1>2, <1>5, <1>6, <1>7, <1>8, ThreadUpdated
<1>10. FlagKept'
  BY <1>0, <1>3, <1>5, <1>8, FlagUnchanged
<1> QED
  BY <1>9, <1>10 DEF PoolKept

\* A stolen batch fits the empty cache: add_batch drops nothing.
LEMMA AddBatchIs ==
  ASSUME NEW b \in Seq(Slots), b # <<>>, Len(b) <= BatchSize
  PROVE  /\ AddBatch(<<>>, Tail(b)) = Tail(b) /\ Tail(b) \in Seq(Slots)
         /\ Len(Tail(b)) <= BatchSize - 1 /\ Len(Tail(b)) <= TlsCacheSize
         /\ <<Head(b)>> \in Seq(Slots) /\ Len(<<Head(b)>>) = 1 /\ Head(b) \in Slots
<1> DEFINE r == Tail(b)
<1>1. r \in Seq(Slots) /\ Len(r) = Len(b) - 1 /\ Head(b) \in Slots
  BY HeadTailProperties
<1>2. Len(b) \in Nat /\ BatchSize \in Nat /\ TlsCacheSize \in Nat
      /\ BatchSize - 1 <= TlsCacheSize
  BY LenProperties, PoolAssumption
<1>3. Len(r) <= BatchSize - 1 /\ Len(r) <= TlsCacheSize /\ Len(r) \in Nat
  BY <1>1, <1>2, LenProperties
<1> HIDE DEF r
<1>4. Len(<<>>) = 0 /\ <<>> \o r = r /\ SubSeq(r, 1, Len(r)) = r
  BY <1>1, EmptySeq, ConcatEmptySeq, SubSeqFull
<1>5. AddBatch(<<>>, r) = r
  BY <1>2, <1>3, <1>4 DEF AddBatch
<1>6. <<Head(b)>> \in Seq(Slots) /\ Len(<<Head(b)>>) = 1
  BY <1>1, SlotIs
<1> QED
  BY <1>1, <1>3, <1>5, <1>6 DEF r

\* The stolen batch: one slot in hand, the rest in the cache.
LEMMA StealEndsKept ==
  ASSUME PoolKept, NEW t \in Threads, StealEnds(t)
  PROVE  PoolKept'
<1>0. /\ cache[t] = <<>> /\ batch[t] \in Seq(Slots) /\ obj[t] \in Seq(Slots)
      /\ count[t] \in Nat /\ Kept("steal", cache[t], obj[t], batch[t], count[t])
      /\ pc[t] = "steal" /\ Len(batch[t]) <= BatchSize
  BY ThreadHas DEF StealEnds, Kept
<1>1. UNCHANGED <<free_queue, allocating, allocated, total_allocated, used, count>>
  BY DEF StealEnds
<1>2. SharedTyped' /\ count'[t] = count[t]
  BY <1>1, PoolHas DEF SharedTyped
<1>3. OnlyOf(t)
  BY <1>1, PoolHas DEF StealEnds, Goto, OnlyOf
<1>4. /\ pc'[t] \in Locations /\ pc'[t] \notin Allocating
      /\ cache'[t] \in Seq(Slots) /\ obj'[t] \in Seq(Slots) /\ batch'[t] \in Seq(Slots)
      /\ Kept(pc'[t], cache'[t], obj'[t], batch'[t], count[t])
  <2>0. <<>> \in Seq(Slots) /\ Len(<<>>) = 0 /\ 0 <= BatchSize
    BY EmptySeq, PoolAssumption
  <2>1. CASE batch[t] = <<>>
    <3>1. obj'[t] = obj[t] /\ cache'[t] = cache[t] /\ batch'[t] = batch[t]
          /\ pc'[t] = "allocate"
      BY <2>1, PoolHas DEF StealEnds, Goto
    <3>2. Kept("allocate", cache[t], obj[t], batch[t], count[t])
      BY <1>0, <2>1 DEF Kept
    <3> QED
      BY <1>0, <2>0, <3>1, <3>2 DEF Locations, Allocating
  <2>2. CASE batch[t] # <<>>
    <3> DEFINE o == <<Head(batch[t])>>
               c == Tail(batch[t])
    <3>1. /\ AddBatch(<<>>, c) = c /\ c \in Seq(Slots)
          /\ Len(c) <= BatchSize - 1 /\ Len(c) <= TlsCacheSize
          /\ o \in Seq(Slots) /\ Len(o) = 1
      BY <1>0, <2>2, AddBatchIs
    <3>2. /\ obj' = [obj EXCEPT ![t] = o] /\ batch' = [batch EXCEPT ![t] = <<>>]
          /\ cache' = [cache EXCEPT ![t] = AddBatch(cache[t], c)]
          /\ pc' = [pc EXCEPT ![t] = "construct"]
      BY <2>2 DEF StealEnds, Goto
    <3> HIDE DEF o, c
    <3>3. cache' = [cache EXCEPT ![t] = c]
      BY <1>0, <3>1, <3>2
    <3>4. obj'[t] = o /\ cache'[t] = c /\ batch'[t] = <<>> /\ pc'[t] = "construct"
      BY <3>2, <3>3, PoolHas
    <3>5. Kept("construct", c, o, <<>>, count[t])
      BY <2>0, <3>1 DEF Kept, Low
    <3> QED
      BY <2>0, <3>1, <3>4, <3>5 DEF Locations, Allocating
  <2> QED
    BY <2>1, <2>2
<1>5. TypeOK' /\ \A u \in Threads : ThreadKept(u)'
  BY <1>0, <1>2, <1>3, <1>4, ThreadUpdated
<1>6. FlagKept'
  BY <1>0, <1>1, <1>3, <1>4, FlagUnchanged DEF Allocating
<1> QED
  BY <1>5, <1>6 DEF PoolKept

\* Whoever allocates is the only one, and knows what is counted.
LEMMA AllocatorIs ==
  ASSUME PoolKept, NEW t \in Threads
  PROVE  /\ pc[t] \in Allocating \/ ~allocating =>
              \A u \in Threads \ {t} : pc[u] \notin Allocating
         /\ pc[t] \in Allocating => allocating
         /\ pc[t] = "fill" => total_allocated + ChunkSize = allocated
         /\ (pc[t] \in Allocating \/ ~allocating) /\ pc[t] # "fill" =>
              total_allocated = allocated
<1>1. \A u \in Threads : u \in Allocators <=> pc[u] \in Allocating
  BY DEF Allocators, Allocating
<1>2. \A u \in Threads : pc[u] = "fill" => pc[u] \in Allocating
  BY DEF Allocating
<1>3. /\ allocating <=> Allocators # {}
      /\ \A u, v \in Allocators : u = v
      /\ IF \E u \in Threads : pc[u] = "fill" THEN total_allocated + ChunkSize = allocated
                                              ELSE total_allocated = allocated
  BY DEF PoolKept, FlagKept
<1>4. pc[t] \in Allocating \/ ~allocating =>
        \A u \in Threads \ {t} : pc[u] \notin Allocating
  BY <1>1, <1>3
<1>5. pc[t] \in Allocating => allocating
  BY <1>1, <1>3
<1> QED
  BY <1>2, <1>3, <1>4, <1>5

\* A step of the only thread that allocates, or of the one that begins to.
LEMMA FlagUpdated ==
  ASSUME PoolKept, NEW t \in Threads, OnlyOf(t),
         \A u \in Threads \ {t} : pc[u] \notin Allocating,
         allocating' <=> pc'[t] \in Allocating,
         IF pc'[t] = "fill" THEN total_allocated' + ChunkSize = allocated'
                            ELSE total_allocated' = allocated'
  PROVE  FlagKept'
<1>1. pc \in [Threads -> Locations]
  BY PoolHas
<1>2. \A u \in Threads \ {t} : pc'[u] = pc[u]
  BY <1>1 DEF OnlyOf
<1>3. \A u \in Threads : u \in Allocators' <=> u = t /\ pc'[t] \in Allocating
  BY <1>2 DEF Allocators, Allocating
<1>4. Allocators' \subseteq Threads
  BY DEF Allocators
<1>5. (\E u \in Threads : pc'[u] = "fill") <=> pc'[t] = "fill"
  BY <1>2 DEF Allocating
<1>6. allocating' <=> Allocators' # {}
  BY <1>3, <1>4
<1>7. \A u, v \in Allocators' : u = v
  BY <1>3, <1>4
<1> QED
  BY <1>5, <1>6, <1>7 DEF FlagKept

\* The flag: one thread begins to allocate, the others retry.
LEMMA TestAndSetKept ==
  ASSUME PoolKept, NEW t \in Threads, TestAndSet(t)
  PROVE  PoolKept'
<1>0. /\ cache[t] \in Seq(Slots) /\ batch[t] \in Seq(Slots) /\ obj[t] \in Seq(Slots)
      /\ Kept("allocate", cache[t], obj[t], batch[t], count[t])
      /\ pc[t] = "allocate" /\ allocating \in BOOLEAN
  BY ThreadHas, PoolHas DEF TestAndSet, SharedTyped
<1>1. UNCHANGED <<free_queue, cache, allocated, total_allocated, used, obj, batch>>
  BY DEF TestAndSet
<1>2. allocating'
  BY DEF TestAndSet
<1>3. allocating' \in BOOLEAN
  BY DEF TestAndSet
<1>4. SharedTyped'
  BY <1>1, <1>3, PoolHas DEF SharedTyped
<1>5. OnlyOf(t) /\ count'[t] = 0
  BY <1>1, PoolHas DEF TestAndSet, Goto, OnlyOf
<1>6. pc'[t] = IF allocating THEN "retry" ELSE "new"
  BY PoolHas DEF TestAndSet, Goto
<1>7. Kept(pc'[t], cache[t], obj[t], batch[t], 0) /\ pc'[t] \in Locations
  BY <1>0, <1>6 DEF Kept, Locations
<1>8. TypeOK' /\ \A u \in Threads : ThreadKept(u)'
  <2>1. cache'[t] = cache[t] /\ obj'[t] = obj[t] /\ batch'[t] = batch[t]
    BY <1>1
  <2> QED
    BY <1>0, <1>4, <1>5, <1>7, <2>1, ThreadUpdated
<1>9. FlagKept'
  <2>1. CASE allocating
    <3>1. UNCHANGED allocating
      BY <1>0, <1>2, <1>3, <2>1
    <3>2. pc[t] \notin Allocating /\ pc'[t] \notin Allocating
      BY <1>0, <1>6, <2>1 DEF Allocating
    <3> QED
      BY <1>1, <1>5, <3>1, <3>2, FlagUnchanged
  <2>2. CASE ~allocating
    <3>1. pc'[t] = "new" /\ pc'[t] \in Allocating
      BY <1>6, <2>2 DEF Allocating
    <3>2. /\ \A u \in Threads \ {t} : pc[u] \notin Allocating
          /\ total_allocated = allocated
      BY <1>0, <2>2, AllocatorIs
    <3> QED
      BY <1>1, <1>2, <1>5, <3>1, <3>2, FlagUpdated
  <2> QED
    BY <2>1, <2>2
<1> QED
  BY <1>8, <1>9 DEF PoolKept

\* The allocation itself: a new chunk is obtained, pushed, counted, and the
\* flag is cleared, also when there is no memory.
LEMMA AllocationKept ==
  ASSUME PoolKept, NEW t \in Threads,
         NewChunk(t) \/ Fill(t) \/ CountChunk(t) \/ ClearFlag(t)
  PROVE  PoolKept'
<1>0. /\ cache[t] \in Seq(Slots) /\ batch[t] \in Seq(Slots) /\ obj[t] \in Seq(Slots)
      /\ Kept(pc[t], cache[t], obj[t], batch[t], count[t]) /\ count[t] \in Nat
      /\ free_queue \in Seq(Slots) /\ used \subseteq Slots /\ allocating \in BOOLEAN
      /\ allocated \in 0 .. MaxSlots /\ total_allocated \in 0 .. MaxSlots
      /\ MaxSlots \in Nat /\ ChunkSize \in Nat \ {0}
  BY ThreadHas, PoolHas, PoolAssumption DEF SharedTyped
<1>1. UNCHANGED <<cache, used, obj, batch>>
  BY DEF NewChunk, Fill, CountChunk, ClearFlag
<1>2. pc[t] \in {"new", "fill", "clear"} /\ pc[t] \in Allocating
  BY DEF NewChunk, Fill, CountChunk, ClearFlag, Allocating
<1>3. /\ \A u \in Threads \ {t} : pc[u] \notin Allocating
      /\ allocating
      /\ pc[t] = "fill" => total_allocated + ChunkSize = allocated
      /\ pc[t] # "fill" => total_allocated = allocated
  BY <1>2, AllocatorIs
<1>4. OnlyOf(t)
  BY <1>1, PoolHas DEF NewChunk, Fill, CountChunk, ClearFlag, Goto, OnlyOf
<1>5. /\ pc'[t] \in Locations /\ count'[t] \in Nat
      /\ pc'[t] \notin {"construct", "steal", "return", "pop", "released", "new"}
      /\ pc'[t] = "fill" => count'[t] <= ChunkSize
      /\ SharedTyped'
      /\ allocating' <=> pc'[t] \in Allocating
      /\ IF pc'[t] = "fill" THEN total_allocated' + ChunkSize = allocated'
                            ELSE total_allocated' = allocated'
  <2>1. CASE NewChunk(t)
    <3>1. pc[t] = "new" /\ UNCHANGED <<free_queue, count, total_allocated>>
      BY <2>1 DEF NewChunk
    <3>2. CASE allocated + ChunkSize <= MaxSlots
      <4>1. /\ allocated' = allocated + ChunkSize /\ UNCHANGED allocating
            /\ pc'[t] = "fill"
        BY <1>0, <2>1, <3>2, PoolHas DEF NewChunk, Goto
      <4>2. SharedTyped'
        BY <1>0, <1>1, <3>1, <3>2, <4>1 DEF SharedTyped
      <4>3. count'[t] <= ChunkSize
        BY <1>0, <3>1 DEF Kept
      <4> QED
        BY <1>0, <1>3, <3>1, <4>1, <4>2, <4>3 DEF Locations, Allocating
    <3>3. CASE allocated + ChunkSize > MaxSlots
      <4>0. ~(allocated + ChunkSize <= MaxSlots)
        BY <1>0, <3>3
      <4>1. allocated' = allocated /\ pc'[t] = "retry" /\ ~allocating'
            /\ allocating' \in BOOLEAN
        <5>1. /\ allocating' = FALSE /\ pc' = [pc EXCEPT ![t] = "retry"]
              /\ allocated' = allocated
          BY <2>1, <4>0 DEF NewChunk, Goto
        <5>2. pc'[t] = "retry"
          BY <5>1, PoolHas
        <5> QED
          BY <5>1, <5>2
      <4>2. SharedTyped'
        BY <1>0, <1>1, <3>1, <4>1 DEF SharedTyped
      <4> QED
        BY <1>0, <1>3, <3>1, <4>1, <4>2 DEF Locations, Allocating
    <3> QED
      BY <1>0, <3>2, <3>3
  <2>2. CASE Fill(t)
    <3>1. /\ pc[t] = "fill" /\ count[t] < ChunkSize
          /\ UNCHANGED <<allocating, allocated, total_allocated, pc>>
          /\ count'[t] = count[t] + 1
      BY <2>2, PoolHas DEF Fill
    <3> DEFINE s == allocated - ChunkSize + count[t] + 1
    <3>2. s \in Slots
      BY <1>0, <1>3, <3>1, SMTT(30) DEF Slots
    <3>3. free_queue' = Append(free_queue, s)
      BY <2>2 DEF Fill
    <3> HIDE DEF s
    <3>4. free_queue' \in Seq(Slots)
      BY <1>0, <3>2, <3>3, AppendProperties
    <3>5. SharedTyped'
      BY <1>0, <1>1, <3>1, <3>4 DEF SharedTyped
    <3> QED
      BY <1>0, <1>2, <1>3, <3>1, <3>5 DEF Locations, Allocating
  <2>3. CASE CountChunk(t)
    <3>1. /\ pc[t] = "fill" /\ pc'[t] = "clear" /\ total_allocated' = total_allocated + ChunkSize
          /\ UNCHANGED <<free_queue, allocating, allocated, count>>
      BY <2>3, PoolHas DEF CountChunk, Goto
    <3>2. SharedTyped'
      BY <1>0, <1>1, <1>3, <3>1 DEF SharedTyped
    <3> QED
      BY <1>0, <1>3, <3>1, <3>2 DEF Locations, Allocating
  <2>4. CASE ClearFlag(t)
    <3>1. /\ pc[t] = "clear" /\ pc'[t] = "popOwn" /\ ~allocating' /\ allocating' \in BOOLEAN
          /\ UNCHANGED <<free_queue, allocated, total_allocated, count>>
      BY <2>4, PoolHas DEF ClearFlag, Goto
    <3>2. SharedTyped'
      BY <1>0, <1>1, <3>1 DEF SharedTyped
    <3> QED
      BY <1>0, <1>3, <3>1, <3>2 DEF Locations, Allocating
  <2> QED
    BY <2>1, <2>2, <2>3, <2>4
<1>6. Kept(pc'[t], cache[t], obj[t], batch[t], count'[t])
  BY <1>0, <1>2, <1>5 DEF Kept
<1>7. TypeOK' /\ \A u \in Threads : ThreadKept(u)'
  <2>1. cache'[t] = cache[t] /\ obj'[t] = obj[t] /\ batch'[t] = batch[t]
    BY <1>1
  <2> QED
    BY <1>0, <1>4, <1>5, <1>6, <2>1, ThreadUpdated
<1>8. FlagKept'
  BY <1>3, <1>4, <1>5, FlagUpdated
<1> QED
  BY <1>7, <1>8 DEF PoolKept

\* The end of acquire: a null pointer, or a slot constructed or given back.
LEMMA AcquireEndsKept ==
  ASSUME PoolKept, NEW t \in Threads, ReturnNull(t) \/ Construct(t)
  PROVE  PoolKept'
<1>0. /\ cache[t] \in Seq(Slots) /\ batch[t] \in Seq(Slots) /\ obj[t] \in Seq(Slots)
      /\ Kept(pc[t], cache[t], obj[t], batch[t], count[t]) /\ count[t] \in Nat
      /\ free_queue \in Seq(Slots) /\ used \subseteq Slots
  BY ThreadHas, PoolHas DEF SharedTyped
<1>1. UNCHANGED <<cache, allocating, allocated, total_allocated, batch, count>>
  BY DEF ReturnNull, Construct
<1>2. /\ pc[t] \in {"null", "retry", "construct"} /\ pc'[t] = "idle"
      /\ OnlyOf(t)
  BY <1>1, PoolHas DEF ReturnNull, Construct, Goto, OnlyOf
<1>3. obj'[t] = <<>> /\ SharedTyped'
  <2>1. CASE ReturnNull(t)
    <3>1. obj'[t] = obj[t] /\ obj[t] = <<>> /\ UNCHANGED <<free_queue, used>>
      BY <1>0, <2>1 DEF ReturnNull, Kept
    <3> QED
      BY <1>1, <3>1, PoolHas DEF SharedTyped
  <2>2. CASE Construct(t)
    <3>1. pc[t] = "construct" /\ Len(obj[t]) = 1
      BY <1>0, <2>2 DEF Construct, Kept
    <3>2. Head(obj[t]) \in Slots
      BY <1>0, <3>1, EmptySeq, HeadTailProperties
    <3>3. Append(free_queue, Head(obj[t])) \in Seq(Slots)
      BY <1>0, <3>2, AppendProperties
    <3>4. free_queue' \in Seq(Slots) /\ used' \subseteq Slots
      BY <1>0, <2>2, <3>2, <3>3 DEF Construct
    <3>5. obj'[t] = <<>>
      BY <2>2, PoolHas DEF Construct
    <3> QED
      BY <1>1, <3>4, <3>5, PoolHas DEF SharedTyped
  <2> QED
    BY <2>1, <2>2
<1>4. Kept("idle", cache[t], <<>>, batch[t], count[t])
  BY <1>0, <1>2 DEF Kept
<1>5. TypeOK' /\ \A u \in Threads : ThreadKept(u)'
  <2>1. cache'[t] = cache[t] /\ count'[t] = count[t] /\ batch'[t] = batch[t]
    BY <1>1
  <2>2. obj'[t] \in Seq(Slots) /\ pc'[t] \in Locations
    BY <1>2, <1>3, EmptySeq DEF Locations
  <2>3. Kept(pc'[t], cache'[t], obj'[t], batch'[t], count'[t])
    BY <1>2, <1>3, <1>4, <2>1
  <2> QED
    BY <1>0, <1>2, <1>3, <2>1, <2>2, <2>3, ThreadUpdated
<1>6. FlagKept'
  BY <1>1, <1>2, FlagUnchanged DEF Allocating
<1> QED
  BY <1>5, <1>6 DEF PoolKept

\* A slot comes back, to the cache if there is room.
LEMMA ReleaseKept ==
  ASSUME PoolKept, NEW t \in Threads, NEW s \in used, Release(t, s)
  PROVE  PoolKept'
<1>0. /\ cache[t] \in Seq(Slots) /\ batch[t] \in Seq(Slots) /\ obj[t] \in Seq(Slots)
      /\ Kept("idle", cache[t], obj[t], batch[t], count[t]) /\ count[t] \in Nat
      /\ free_queue \in Seq(Slots) /\ used \subseteq Slots /\ s \in Slots
      /\ pc[t] = "idle" /\ TlsCacheSize \in Nat /\ BatchSize \in Nat
      /\ (TlsCacheSize * 3) \div 4 \in Nat /\ Len(cache[t]) \in Nat
  BY ThreadHas, PoolHas, PoolAssumption, LenProperties DEF Release, SharedTyped
<1>1. UNCHANGED <<allocating, allocated, total_allocated, obj, batch, count>>
  BY DEF Release
<1>2. pc'[t] = "released" /\ OnlyOf(t)
  BY <1>1, PoolHas DEF Release, Goto, OnlyOf
<1>3. used' \subseteq Slots
  BY <1>0 DEF Release
<1>4. /\ cache'[t] \in Seq(Slots) /\ free_queue' \in Seq(Slots)
      /\ Len(cache'[t]) <= TlsCacheSize
      /\ Len(cache'[t]) \in Nat /\ Len(cache'[t]) <= Len(cache[t]) + 1
  <2>1. CASE Len(cache[t]) < TlsCacheSize
    <3> DEFINE c == Append(cache[t], s)
    <3>1. c \in Seq(Slots) /\ Len(c) = Len(cache[t]) + 1
      BY <1>0, AppendProperties
    <3>2. cache' = [cache EXCEPT ![t] = c] /\ free_queue' = free_queue
      BY <1>0, <2>1 DEF Release
    <3> HIDE DEF c
    <3>3. cache'[t] = c
      BY <3>2, PoolHas
    <3> QED
      BY <1>0, <2>1, <3>1, <3>2, <3>3
  <2>2. CASE Len(cache[t]) >= TlsCacheSize
    <3>1. Append(free_queue, s) \in Seq(Slots)
      BY <1>0, AppendProperties
    <3>2. free_queue' = Append(free_queue, s) /\ cache' = cache
      BY <1>0, <2>2 DEF Release
    <3>3. Len(cache[t]) <= TlsCacheSize
      BY <1>0 DEF Kept
    <3> QED
      BY <1>0, <3>1, <3>2, <3>3
  <2> QED
    BY <1>0, <2>1, <2>2
<1>5. \/ Len(cache'[t]) <= (TlsCacheSize * 3) \div 4 + 1
      \/ Len(cache'[t]) <= BatchSize
  <2>1. Low(cache[t])
    BY <1>0 DEF Kept
  <2> QED
    BY <1>0, <1>4, <2>1 DEF Low
<1>6. Kept("released", cache'[t], obj[t], batch[t], count[t])
  BY <1>0, <1>4, <1>5 DEF Kept
<1>7. TypeOK' /\ \A u \in Threads : ThreadKept(u)'
  <2>1. obj'[t] = obj[t] /\ count'[t] = count[t] /\ batch'[t] = batch[t]
    BY <1>1
  <2>2. SharedTyped' /\ pc'[t] \in Locations
    BY <1>1, <1>2, <1>3, <1>4, PoolHas DEF SharedTyped, Locations
  <2> QED
    BY <1>0, <1>2, <1>4, <1>6, <2>1, <2>2, ThreadUpdated
<1>8. FlagKept'
  BY <1>0, <1>1, <1>2, FlagUnchanged DEF Allocating
<1> QED
  BY <1>7, <1>8 DEF PoolKept

\* How many slots extract_batch takes.
BatchLength(c) ==
  CHOOSE k \in {BatchSize, BufferSize, Len(c)} :
    k <= BatchSize /\ k <= BufferSize /\ k <= Len(c)

\* What extract_batch leaves and what it takes.
LEMMA ExtractIs ==
  ASSUME NEW c \in Seq(Slots)
  PROVE  /\ BatchLength(c) \in 0 .. Len(c) /\ BatchLength(c) <= BatchSize
         /\ BatchLength(c) = BatchSize \/ BatchLength(c) = Len(c)
         /\ SubSeq(c, 1, Len(c) - BatchLength(c)) \in Seq(Slots)
         /\ Len(SubSeq(c, 1, Len(c) - BatchLength(c))) = Len(c) - BatchLength(c)
         /\ [i \in 1 .. BatchLength(c) |-> c[Len(c) + 1 - i]] \in Seq(Slots)
         /\ Len([i \in 1 .. BatchLength(c) |-> c[Len(c) + 1 - i]]) = BatchLength(c)
<1> DEFINE l == Len(c)
           n == BatchLength(c)
<1>1. /\ l \in Nat /\ \A i \in 1 .. l : c[i] \in Slots
      /\ BatchSize \in Nat /\ BufferSize \in Nat /\ BatchSize <= BufferSize
  BY LenProperties, ElementOfSeq, PoolAssumption
<1> HIDE DEF l
<1>2. \E k \in {BatchSize, BufferSize, l} : k <= BatchSize /\ k <= BufferSize /\ k <= l
  <2>1. BatchSize <= l \/ l <= BatchSize
    BY <1>1
  <2> QED
    BY <1>1, <2>1
<1>3. n \in {BatchSize, BufferSize, l} /\ n <= BatchSize /\ n <= BufferSize /\ n <= l
  BY <1>2 DEF BatchLength, l
<1> HIDE DEF n
<1>4. n \in 0 .. l /\ n <= BatchSize /\ (n = BatchSize \/ n = l)
  BY <1>1, <1>3
<1>5. SubSeq(c, 1, l - n) \in Seq(Slots) /\ Len(SubSeq(c, 1, l - n)) = l - n
  <2>1. /\ SubSeq(c, 1, l - n) \in Seq(Slots)
        /\ Len(SubSeq(c, 1, l - n)) = IF 1 <= l - n THEN l - n - 1 + 1 ELSE 0
    <3>1. l - n \in Int /\ \A i \in 1 .. l - n : c[i] \in Slots
      BY <1>1, <1>4
    <3> QED
      BY <3>1, SubSeqProperties
  <2> DEFINE m == Len(SubSeq(c, 1, l - n))
  <2>2. m = IF 1 <= l - n THEN l - n - 1 + 1 ELSE 0
    BY <2>1
  <2> HIDE DEF m
  <2>3. m = l - n
    BY <1>1, <1>4, <2>2
  <2> QED
    BY <2>1, <2>3 DEF m
<1>6. /\ [i \in 1 .. n |-> c[l + 1 - i]] \in Seq(Slots)
      /\ Len([i \in 1 .. n |-> c[l + 1 - i]]) = n
  <2> DEFINE b == [i \in 1 .. n |-> c[l + 1 - i]]
  <2>1. \A i \in 1 .. n : l + 1 - i \in 1 .. l
    BY <1>1, <1>4
  <2>2. b \in [1 .. n -> Slots] /\ n \in Nat
    BY <1>1, <1>4, <2>1
  <2> HIDE DEF b
  <2>3. b \in Seq(Slots)
    BY <2>2, SeqDef
  <2>4. Len(b) = n
    BY <2>2, <2>3, LenProperties
  <2> QED
    BY <2>3, <2>4 DEF b
<1> QED
  BY <1>4, <1>5, <1>6 DEF l, n

\* A cache that has grown too full gives a batch back, which leaves it low.
LEMMA CheckBatchReturnKept ==
  ASSUME PoolKept, NEW t \in Threads, CheckBatchReturn(t)
  PROVE  PoolKept'
<1>0. /\ cache[t] \in Seq(Slots) /\ batch[t] \in Seq(Slots) /\ obj[t] \in Seq(Slots)
      /\ Kept("released", cache[t], obj[t], batch[t], count[t]) /\ count[t] \in Nat
      /\ pc[t] = "released" /\ TlsCacheSize \in Nat /\ BatchSize \in Nat \ {0}
      /\ (TlsCacheSize * 3) \div 4 \in Nat /\ Len(cache[t]) \in Nat
  BY ThreadHas, PoolAssumption, LenProperties DEF CheckBatchReturn
<1>1. UNCHANGED <<free_queue, allocating, allocated, total_allocated, used, obj, count>>
  BY DEF CheckBatchReturn
<1>2. OnlyOf(t)
  BY <1>1, PoolHas DEF CheckBatchReturn, ExtractBatch, Goto, OnlyOf
<1>3. /\ pc'[t] \in {"return", "idle"}
      /\ cache'[t] \in Seq(Slots) /\ batch'[t] \in Seq(Slots)
      /\ Kept(pc'[t], cache'[t], obj[t], batch'[t], count[t])
  <2>1. CASE ShouldBatchReturn(cache[t])
    <3> DEFINE l == Len(cache[t])
               n == BatchLength(cache[t])
               c == SubSeq(cache[t], 1, l - n)
               b == [i \in 1 .. n |-> cache[t][l + 1 - i]]
    <3>1. /\ n \in 0 .. l /\ n <= BatchSize /\ (n = BatchSize \/ n = l)
          /\ c \in Seq(Slots) /\ Len(c) = l - n
          /\ b \in Seq(Slots) /\ Len(b) = n
      BY <1>0, ExtractIs
    <3>2. /\ batch' = [batch EXCEPT ![t] = b] /\ cache' = [cache EXCEPT ![t] = c]
          /\ pc' = [pc EXCEPT ![t] = "return"]
      BY <2>1 DEF CheckBatchReturn, ExtractBatch, BatchLength, Goto
    <3> HIDE DEF n, c, b
    <3>3. batch'[t] = b /\ cache'[t] = c /\ pc'[t] = "return"
      BY <3>2, PoolHas
    <3>4. /\ Len(cache[t]) <= TlsCacheSize
          /\ Len(cache[t]) <= (TlsCacheSize * 3) \div 4 + 1 \/ Len(cache[t]) <= BatchSize
      BY <1>0 DEF Kept
    <3>5. l > (TlsCacheSize * 3) \div 4
      BY <2>1 DEF ShouldBatchReturn
    <3> HIDE DEF l
    <3>6. Len(c) <= TlsCacheSize /\ Len(c) <= (TlsCacheSize * 3) \div 4
      BY <1>0, <3>1, <3>4, <3>5 DEF l
    <3>7. Kept("return", c, obj[t], b, count[t])
      BY <1>0, <3>1, <3>6 DEF Kept, Low
    <3> QED
      BY <3>1, <3>3, <3>7
  <2>2. CASE ~ShouldBatchReturn(cache[t])
    <3>1. batch'[t] = batch[t] /\ cache'[t] = cache[t] /\ pc'[t] = "idle"
      BY <2>2, PoolHas DEF CheckBatchReturn, Goto
    <3>2. Low(cache[t])
      BY <1>0, <2>2 DEF ShouldBatchReturn, Low
    <3>3. Kept("idle", cache[t], obj[t], batch[t], count[t])
      BY <1>0, <3>2 DEF Kept
    <3> QED
      BY <1>0, <3>1, <3>3
  <2> QED
    BY <2>1, <2>2
<1>4. TypeOK' /\ \A u \in Threads : ThreadKept(u)'
  <2>1. obj'[t] = obj[t] /\ count'[t] = count[t]
    BY <1>1
  <2>2. SharedTyped' /\ pc'[t] \in Locations
    BY <1>1, <1>3, PoolHas DEF SharedTyped, Locations
  <2> QED
    BY <1>0, <1>2, <1>3, <2>1, <2>2, ThreadUpdated
<1>5. FlagKept'
  BY <1>0, <1>1, <1>2, <1>3, FlagUnchanged DEF Allocating
<1> QED
  BY <1>4, <1>5 DEF PoolKept

\* A slot of the batch goes back to the free queue.
LEMMA BatchReturnKept ==
  ASSUME PoolKept, NEW t \in Threads, BatchReturn(t)
  PROVE  PoolKept'
<1>0. /\ cache[t] \in Seq(Slots) /\ batch[t] \in Seq(Slots) /\ obj[t] \in Seq(Slots)
      /\ Kept("return", cache[t], obj[t], batch[t], count[t]) /\ count[t] \in Nat
      /\ pc[t] = "return" /\ BatchSize \in Nat \ {0} /\ free_queue \in Seq(Slots)
  BY ThreadHas, PoolHas, PoolAssumption DEF BatchReturn, SharedTyped
<1>1. UNCHANGED <<cache, allocating, allocated, total_allocated, used, obj, count>>
  BY DEF BatchReturn
<1>2. OnlyOf(t)
  BY <1>1, PoolHas DEF BatchReturn, Goto, OnlyOf
<1>3. /\ pc'[t] \in {"return", "idle"} /\ free_queue' \in Seq(Slots)
      /\ batch'[t] \in Seq(Slots)
      /\ Kept(pc'[t], cache[t], obj[t], batch'[t], count[t])
  <2>1. CASE batch[t] # <<>>
    <3> DEFINE b == Tail(batch[t])
    <3>1. Head(batch[t]) \in Slots /\ b \in Seq(Slots) /\ Len(b) = Len(batch[t]) - 1
      BY <1>0, <2>1, HeadTailProperties
    <3>2. /\ free_queue' = Append(free_queue, Head(batch[t])) /\ pc' = pc
          /\ batch' = [batch EXCEPT ![t] = b]
      BY <2>1 DEF BatchReturn
    <3>3. free_queue' \in Seq(Slots)
      BY <1>0, <3>1, <3>2, AppendProperties
    <3> HIDE DEF b
    <3>4. batch'[t] = b /\ pc'[t] = "return"
      BY <1>0, <3>2, PoolHas
    <3>5. Len(b) <= BatchSize
      <4>1. Len(batch[t]) <= BatchSize
        BY <1>0 DEF Kept
      <4> QED
        BY <1>0, <3>1, <4>1, LenProperties
    <3>6. Kept("return", cache[t], obj[t], b, count[t])
      BY <1>0, <3>5 DEF Kept
    <3> QED
      BY <3>1, <3>3, <3>4, <3>6
  <2>2. CASE batch[t] = <<>>
    <3>1. batch'[t] = batch[t] /\ free_queue' = free_queue /\ pc'[t] = "idle"
      BY <2>2, PoolHas DEF BatchReturn, Goto
    <3>2. Kept("idle", cache[t], obj[t], batch[t], count[t])
      BY <1>0, <2>2 DEF Kept
    <3> QED
      BY <1>0, <3>1, <3>2
  <2> QED
    BY <2>1, <2>2
<1>4. TypeOK' /\ \A u \in Threads : ThreadKept(u)'
  <2>1. obj'[t] = obj[t] /\ count'[t] = count[t] /\ cache'[t] = cache[t]
    BY <1>1
  <2>2. SharedTyped' /\ pc'[t] \in Locations
    BY <1>1, <1>3, PoolHas DEF SharedTyped, Locations
  <2> QED
    BY <1>0, <1>2, <1>3, <2>1, <2>2, ThreadUpdated
<1>5. FlagKept'
  BY <1>0, <1>1, <1>2, <1>3, FlagUnchanged DEF Allocating
<1> QED
  BY <1>4, <1>5 DEF PoolKept

\* The constructor of the pool establishes the invariant.
LEMMA PoolInit == Init => PoolKept
<1> SUFFICES ASSUME Init PROVE PoolKept
  OBVIOUS
<1>0. /\ InitialCount \in Nat /\ TlsCacheSize \in Nat /\ BatchSize \in Nat \ {0}
      /\ BufferSize \in Nat /\ MaxSlots \in Nat /\ InitialCount <= MaxSlots
      /\ (TlsCacheSize * 3) \div 4 \in Nat
  BY PoolAssumption
<1>1. <<>> \in Seq(Slots) /\ Len(<<>>) = 0
  BY EmptySeq
<1>2. free_queue \in Seq(Slots)
  <2>1. free_queue \in [1 .. InitialCount -> Slots]
    BY <1>0 DEF Init, Slots
  <2> QED
    BY <1>0, <2>1, SeqDef
<1>3. /\ cache = [t \in Threads |-> <<>>] /\ obj = [t \in Threads |-> <<>>]
      /\ batch = [t \in Threads |-> <<>>] /\ count = [t \in Threads |-> 0]
      /\ pc = [t \in Threads |-> "idle"] /\ used = {}
      /\ allocated = InitialCount /\ total_allocated = InitialCount
  BY DEF Init
<1>4. /\ cache \in [Threads -> Seq(Slots)] /\ obj \in [Threads -> Seq(Slots)]
      /\ batch \in [Threads -> Seq(Slots)]
  BY <1>1, <1>3
<1>5. count \in [Threads -> Nat] /\ pc \in [Threads -> Locations]
  BY <1>3 DEF Locations
<1>6. ~allocating /\ allocating \in BOOLEAN
  BY DEF Init
<1>7. \A t \in Threads : /\ Len(cache[t]) <= TlsCacheSize
                         /\ Len(obj[t]) <= 1 /\ Len(batch[t]) <= BufferSize
  <2>1. \A t \in Threads : Len(cache[t]) = 0 /\ Len(obj[t]) = 0 /\ Len(batch[t]) = 0
    BY <1>1, <1>3
  <2>2. ASSUME NEW n, n = 0 PROVE n <= TlsCacheSize /\ n <= 1 /\ n <= BufferSize
    BY <1>0, <2>2
  <2> QED
    BY <2>1, <2>2
<1>8. TypeOK
  BY <1>0, <1>2, <1>3, <1>4, <1>5, <1>6, <1>7 DEF TypeOK
<1>9. \A t \in Threads : ThreadKept(t)
  <2>1. Low(<<>>)
    BY <1>0, <1>1 DEF Low
  <2>2. Len(<<>>) <= BatchSize /\ Len(<<>>) <= TlsCacheSize
    BY <1>0, <1>1
  <2>3. Kept("idle", <<>>, <<>>, <<>>, 0)
    BY <2>1, <2>2 DEF Kept
  <2> QED
    BY <1>3, <2>3 DEF ThreadKept
<1>10. FlagKept
  <2>1. Allocators = {} /\ ~\E t \in Threads : pc[t] = "fill"
    BY <1>3 DEF Allocators
  <2> QED
    BY <1>3, <1>6, <2>1 DEF FlagKept
<1> QED
  BY <1>8, <1>9, <1>10 DEF PoolKept

\* Every step keeps it.
LEMMA PoolStep == PoolKept /\ [Next]_vars => PoolKept'
<1> SUFFICES ASSUME PoolKept, [Next]_vars PROVE PoolKept'
  OBVIOUS
<1>1. CASE UNCHANGED vars
  BY <1>1 DEF PoolKept, TypeOK, ThreadKept, Kept, Low, FlagKept, Allocators, vars
<1>2. ASSUME NEW t \in Threads, Step(t) PROVE PoolKept'
  BY <1>2, PopsKept, StealKept, StealEndsKept, TestAndSetKept, AllocationKept,
     AcquireEndsKept, CheckBatchReturnKept, BatchReturnKept DEF Step
<1> QED
  BY <1>1, <1>2, AcquireKept, ReleaseKept DEF Next

\* No cache and no array on the stack grows beyond its size, and no chunk
\* beyond the memory, whatever the threads do.
THEOREM PoolTypeCorrect == Spec => []TypeOK
<1>1. PoolKept => TypeOK
  BY DEF PoolKept
<1> QED
  BY <1>1, PoolInit, PoolStep, PTL DEF Spec

\* An idle thread keeps little, for any sizes of cache and batch the
\* configuration allows.
THEOREM CachesGiveBack == Spec => []CacheGivesBack
<1>1. PoolKept => CacheGivesBack
  BY DEF PoolKept, ThreadKept, Kept, Low, CacheGivesBack
<1> QED
  BY <1>1, PoolInit, PoolStep, PTL DEF Spec

\* One thread allocates at a time, and every finished chunk is counted.
THEOREM OneAllocates == Spec => []AllocationExclusive
<1>1. PoolKept => AllocationExclusive
  <2> SUFFICES ASSUME PoolKept PROVE AllocationExclusive
    OBVIOUS
  <2>1. allocating => \E t \in Threads : Allocators = {t}
    BY DEF PoolKept, FlagKept, Allocators
  <2>2. ~allocating => Allocators = {} /\ total_allocated = allocated
    BY DEF PoolKept, FlagKept, Allocators
  <2> QED
    BY <2>1, <2>2 DEF AllocationExclusive
<1> QED
  BY <1>1, PoolInit, PoolStep, PTL DEF Spec

-----------------------------------------------------------------------------
(* One owner of every slot.                                                *)

\* The places, one by one.
LEMMA HeldIs ==
  ASSUME NEW t
  PROVE  /\ Held(t, "queue") = Range(free_queue) /\ Held(t, "user") = used
         /\ Held(t, "cache") = Range(cache[t]) /\ Held(t, "obj") = Range(obj[t])
         /\ Held(t, "batch") = Range(batch[t])
         /\ Held(t, "chunk") = IF pc[t] = "fill"
              THEN allocated - ChunkSize + count[t] + 1 .. allocated ELSE {}
BY DEF Held

\* The places after a step.
LEMMA HeldIsNext ==
  ASSUME NEW t
  PROVE  /\ Held(t, "queue")' = Range(free_queue') /\ Held(t, "user")' = used'
         /\ Held(t, "cache")' = Range(cache'[t]) /\ Held(t, "obj")' = Range(obj'[t])
         /\ Held(t, "batch")' = Range(batch'[t])
         /\ Held(t, "chunk")' = IF pc'[t] = "fill"
              THEN allocated' - ChunkSize + count'[t] + 1 .. allocated' ELSE {}
BY DEF Held

\* A step changes the places of one thread and the common ones.
LEMMA OthersKept ==
  ASSUME PoolKept, NEW t \in Threads, OnlyOf(t),
         allocated' = allocated \/ \A u \in Threads \ {t} : pc[u] # "fill"
  PROVE  \A u \in Threads \ {t}, k \in Own : Held(u, k)' = Held(u, k)
<1> SUFFICES ASSUME NEW u \in Threads \ {t}, NEW k \in Own
             PROVE  Held(u, k)' = Held(u, k)
  OBVIOUS
<1>1. /\ pc'[u] = pc[u] /\ cache'[u] = cache[u] /\ obj'[u] = obj[u]
      /\ batch'[u] = batch[u] /\ count'[u] = count[u]
  BY PoolHas DEF OnlyOf
<1>2. Held(u, "chunk")' = Held(u, "chunk")
  <2>1. CASE pc[u] = "fill"
    <3>1. allocated' = allocated
      BY <2>1
    <3> QED
      BY <1>1, <3>1, HeldIs, HeldIsNext
  <2>2. CASE pc[u] # "fill"
    BY <1>1, <2>2, HeldIs, HeldIsNext
  <2> QED
    BY <2>1, <2>2
<1> QED
  BY <1>1, <1>2, HeldIs, HeldIsNext DEF Own

\* The places of one thread and the common ones are rearranged: each slot stays
\* at one place, and the slots of N are new.
LEMMA PlacesMoved ==
  ASSUME Apart, Covered, NEW t \in Threads, NEW N,
         \A u \in Threads \ {t}, k \in Own : Held(u, k)' = Held(u, k),
         \A k, l \in Places, s \in Slots :
           s \in Held(t, k)' /\ s \in Held(t, l)' => k = l,
         \A s \in Slots : (\E k \in Places : s \in Held(t, k)') <=>
                            s \in N \/ \E k \in Places : s \in Held(t, k),
         \A s \in Slots : s <= allocated' <=> s \in N \/ s <= allocated,
         \A s \in N : ~(s <= allocated)
  PROVE  Apart' /\ Covered'
<1>1. \A u \in Threads, k \in Places :
        k \notin Own => Held(u, k)' = Held(t, k)' /\ Held(u, k) = Held(t, k)
  BY HeldIs, HeldIsNext DEF Places, Own
<1>2. /\ "queue" \in Places /\ "user" \in Places /\ Own \subseteq Places
      /\ \A k \in Places : k \in Own \/ k = "queue" \/ k = "user"
      /\ "queue" \notin Own /\ "user" \notin Own
  BY DEF Places, Own
<1>3. ASSUME NEW s \in Slots, NEW u \in Threads \ {t}, NEW k \in Own,
             s \in Held(u, k), NEW l \in Places, s \in Held(t, l)'
      PROVE  FALSE
  <2>1. s \in N \/ \E m \in Places : s \in Held(t, m)
    BY <1>3
  <2>2. CASE s \in N
    BY <1>3, <2>2 DEF Covered
  <2>3. ASSUME NEW m \in Places, s \in Held(t, m) PROVE FALSE
    BY <1>2, <1>3, <2>3 DEF Apart
  <2> QED
    BY <2>1, <2>2, <2>3
<1>4. Apart'
  <2> SUFFICES ASSUME NEW u \in Threads, NEW v \in Threads, NEW k \in Places,
                      NEW l \in Places, NEW s \in Slots,
                      s \in Held(u, k)', s \in Held(v, l)'
               PROVE  k = l /\ (k \in Own => u = v)
    <3>1. Held(t, "queue")' = Range(free_queue') /\ Held(t, "user")' = used'
      BY HeldIsNext
    <3>2. \A s \in Slots : ~(s \in Range(free_queue') /\ s \in used')
      BY <1>2, <3>1
    <3> QED
      BY <3>2 DEF Apart
  <2>1. CASE (u = t \/ k \notin Own) /\ (v = t \/ l \notin Own)
    <3>1. s \in Held(t, k)' /\ s \in Held(t, l)'
      BY <1>1, <2>1
    <3>2. k = l
      BY <3>1
    <3> QED
      BY <2>1, <3>2
  <2>2. CASE u # t /\ k \in Own /\ (v = t \/ l \notin Own)
    <3>1. s \in Held(u, k) /\ s \in Held(t, l)'
      BY <1>1, <2>2
    <3> QED
      BY <1>3, <2>2, <3>1
  <2>3. CASE v # t /\ l \in Own /\ (u = t \/ k \notin Own)
    <3>1. s \in Held(v, l) /\ s \in Held(t, k)'
      BY <1>1, <2>3
    <3> QED
      BY <1>3, <2>3, <3>1
  <2>4. CASE u # t /\ k \in Own /\ v # t /\ l \in Own
    <3>1. s \in Held(u, k) /\ s \in Held(v, l)
      BY <2>4
    <3> QED
      BY <3>1 DEF Apart
  <2> QED
    BY <2>1, <2>2, <2>3, <2>4
<1>5. Covered'
  <2> SUFFICES ASSUME NEW s \in Slots
               PROVE  s <= allocated' <=> \/ s \in Range(free_queue') \cup used'
                                          \/ \E u \in Threads, k \in Own : s \in Held(u, k)'
    BY DEF Covered
  <2>1. s <= allocated' <=> s \in N \/ s <= allocated
    OBVIOUS
  <2>2. (\E k \in Places : s \in Held(t, k)) <=>
          s \in Range(free_queue) \cup used \/ \E k \in Own : s \in Held(t, k)
    BY <1>2, HeldIs
  <2>3. (\E k \in Places : s \in Held(t, k)') <=>
          s \in Range(free_queue') \cup used' \/ \E k \in Own : s \in Held(t, k)'
    BY <1>2, HeldIsNext
  <2>4. s <= allocated <=> \/ \E k \in Places : s \in Held(t, k)
                           \/ \E u \in Threads \ {t}, k \in Own : s \in Held(u, k)
    BY <2>2 DEF Covered
  <2>5. (\E u \in Threads \ {t}, k \in Own : s \in Held(u, k)) <=>
          \E u \in Threads \ {t}, k \in Own : s \in Held(u, k)'
    OBVIOUS
  <2>6. s <= allocated' <=> \/ \E k \in Places : s \in Held(t, k)'
                            \/ \E u \in Threads \ {t}, k \in Own : s \in Held(u, k)'
    BY <2>1, <2>4, <2>5
  <2> QED
    BY <2>3, <2>6
<1> QED
  BY <1>4, <1>5

\* The sequences of one thread and the free queue are rearranged.
LEMMA RepeatsKept ==
  ASSUME PoolKept, NoRepeats, NEW t \in Threads, OnlyOf(t), IsInjective(free_queue'),
         IsInjective(cache'[t]), IsInjective(obj'[t]), IsInjective(batch'[t])
  PROVE  NoRepeats'
<1>1. \A u \in Threads \ {t} : /\ cache'[u] = cache[u] /\ obj'[u] = obj[u]
                               /\ batch'[u] = batch[u]
  BY PoolHas DEF OnlyOf
<1> QED
  BY <1>1 DEF NoRepeats

\* No sequence a thread works on holds a slot twice.
Tidy(t) == /\ IsInjective(free_queue) /\ IsInjective(cache[t]) /\ IsInjective(obj[t])
           /\ IsInjective(batch[t])

\* The slots of M go from place k to place l.
Moved(t, k, l, M) ==
  /\ k \in Places /\ l \in Places /\ k # l /\ M \subseteq Held(t, k)
  /\ \A m \in Places : Held(t, m)' = IF m = k THEN Held(t, m) \ M
                                     ELSE IF m = l THEN Held(t, m) \cup M
                                     ELSE Held(t, m)

\* Slots that go from one place to another still have one owner.
LEMMA MoveKept ==
  ASSUME PoolKept, OwnerInv, NEW t \in Threads, OnlyOf(t), allocated' = allocated,
         NEW k, NEW l, NEW M, Moved(t, k, l, M), Tidy(t)'
  PROVE  OwnerInv'
<1>0. Apart /\ Covered /\ NoRepeats
  BY DEF OwnerInv
<1>1. \A u \in Threads \ {t}, m \in Own : Held(u, m)' = Held(u, m)
  BY OthersKept
<1>2. \A m, n \in Places, s \in Slots : s \in Held(t, m) /\ s \in Held(t, n) => m = n
  BY <1>0 DEF Apart
<1>3. /\ Held(t, k)' = Held(t, k) \ M /\ Held(t, l)' = Held(t, l) \cup M
      /\ \A m \in Places \ {k, l} : Held(t, m)' = Held(t, m)
      /\ k \in Places /\ l \in Places /\ k # l /\ M \subseteq Held(t, k)
  BY DEF Moved
<1>4. \A m, n \in Places, s \in Slots : s \in Held(t, m)' /\ s \in Held(t, n)' => m = n
  <2> SUFFICES ASSUME NEW m \in Places, NEW n \in Places, NEW s \in Slots,
                      s \in Held(t, m)', s \in Held(t, n)'
               PROVE  m = n
    OBVIOUS
  <2>1. CASE s \in M
    <3>1. s \in Held(t, k)
      BY <1>3, <2>1
    <3>2. \A x \in Places : s \in Held(t, x)' => x = l
      BY <1>2, <1>3, <2>1, <3>1
    <3> QED
      BY <3>2
  <2>2. CASE s \notin M
    <3>1. s \in Held(t, m) /\ s \in Held(t, n)
      BY <1>3, <2>2
    <3> QED
      BY <1>2, <3>1
  <2> QED
    BY <2>1, <2>2
<1>5. \A s : (\E m \in Places : s \in Held(t, m)') <=> \E m \in Places : s \in Held(t, m)
  <2>1. ASSUME NEW s, NEW m \in Places, s \in Held(t, m)'
        PROVE  \E n \in Places : s \in Held(t, n)
    BY <1>3, <2>1
  <2>2. ASSUME NEW s, NEW m \in Places, s \in Held(t, m)
        PROVE  \E n \in Places : s \in Held(t, n)'
    <3>1. CASE s \in M
      BY <1>3, <3>1
    <3>2. CASE s \notin M
      BY <1>3, <2>2, <3>2
    <3> QED
      BY <3>1, <3>2
  <2> QED
    BY <2>1, <2>2
<1>6. Apart' /\ Covered'
  <2> DEFINE N == {}
  <2>1. /\ \A s \in Slots : (\E m \in Places : s \in Held(t, m)') <=>
                              s \in N \/ \E m \in Places : s \in Held(t, m)
        /\ \A s \in Slots : s <= allocated' <=> s \in N \/ s <= allocated
        /\ \A s \in N : ~(s <= allocated)
    BY <1>5
  <2> HIDE DEF N
  <2> QED
    BY <1>0, <1>1, <1>4, <2>1, PlacesMoved
<1>7. NoRepeats'
  BY <1>0, RepeatsKept DEF Tidy
<1> QED
  BY <1>6, <1>7 DEF OwnerInv

\* No slot moves.
LEMMA StayKept ==
  ASSUME PoolKept, OwnerInv, NEW t \in Threads, OnlyOf(t),
         UNCHANGED <<free_queue, used, cache, obj, batch, allocated>>,
         Held(t, "chunk")' = Held(t, "chunk")
  PROVE  OwnerInv'
<1>1. \A m \in Places : Held(t, m)' = Held(t, m)
  BY HeldIs, HeldIsNext DEF Places, Own
<1>2. Tidy(t)'
  BY DEF OwnerInv, NoRepeats, Tidy
<1> DEFINE k == "queue"
           l == "user"
           M == {}
<1>3. Moved(t, k, l, M)
  BY <1>1 DEF Moved, Places
<1> HIDE DEF k, l, M
<1> QED
  BY <1>2, <1>3, MoveKept

\* What the invariants say of the sequences a thread works on.
LEMMA OwnerHas ==
  ASSUME PoolKept, OwnerInv, NEW t \in Threads
  PROVE  /\ IsInjective(free_queue) /\ IsInjective(cache[t]) /\ IsInjective(obj[t])
         /\ IsInjective(batch[t])
         /\ free_queue \in Seq(Slots) /\ cache[t] \in Seq(Slots)
         /\ obj[t] \in Seq(Slots) /\ batch[t] \in Seq(Slots) /\ used \subseteq Slots
         /\ \A k, l \in Places, s \in Slots : s \in Held(t, k) /\ s \in Held(t, l) => k = l
BY ThreadHas, PoolHas DEF OwnerInv, NoRepeats, Apart, SharedTyped

\* Outside allocate_chunk a thread has no new chunk in hand.
LEMMA NoChunk ==
  ASSUME NEW t, pc[t] # "fill", pc'[t] # "fill"
  PROVE  Held(t, "chunk") = {} /\ Held(t, "chunk")' = {}
BY HeldIs, HeldIsNext

\* The last slot of a sequence.
LEMMA DistinctFront ==
  ASSUME NEW c \in Seq(Slots), c # <<>>
  PROVE  /\ Back(c) \in Range(c) /\ Range(c) = Range(Front(c)) \cup {Back(c)}
         /\ IsInjective(c) => IsInjective(Front(c)) /\ Back(c) \notin Range(Front(c))
<1> DEFINE n == 1
           a == Front(c)
           b == <<Back(c)>>
<1>1. Len(c) \in Nat \ {0}
  BY EmptySeq
<1>2. n \in 0 .. Len(c)
  BY <1>1
<1>3. DOMAIN a = 1 .. Len(c) - n /\ \A i \in 1 .. Len(c) - n : a[i] = c[i]
  <2>1. Len(c) - n \in 0 .. Len(c)
    BY <1>1
  <2> QED
    BY <2>1, PrefixIs DEF Front
<1>4. DOMAIN b = 1 .. n /\ \A i \in 1 .. n : b[i] = c[Len(c) + 1 - i]
  BY <1>1 DEF Back
<1>5. Range(b) = {Back(c)}
  BY DistinctSingle
<1> HIDE DEF n, a, b
<1>6. /\ Range(c) = Range(a) \cup Range(b)
      /\ IsInjective(c) => IsInjective(a) /\ Range(a) \cap Range(b) = {}
  <2>1. Cut(c, n, a, b)
    BY <1>3, <1>4 DEF Cut
  <2> QED
    BY <1>2, <2>1, DistinctSplit
<1> QED
  BY <1>5, <1>6 DEF a

\* Every step changes what is the thread's own for that thread only.
LEMMA StepOnly ==
  ASSUME PoolKept, NEW t \in Threads,
         Step(t) \/ Acquire(t) \/ \E s \in used : Release(t, s)
  PROVE  OnlyOf(t)
<1>0. /\ pc \in [Threads -> Locations] /\ cache \in [Threads -> Seq(Slots)]
      /\ obj \in [Threads -> Seq(Slots)] /\ batch \in [Threads -> Seq(Slots)]
      /\ count \in [Threads -> Nat]
  BY PoolHas
<1>1. CASE PopCentral(t) \/ PopOwn(t) \/ Retry(t)
  BY <1>0, <1>1 DEF PopCentral, PopOwn, Retry, PopInto, Goto, OnlyOf
<1>2. CASE Steal(t) \/ StealEnds(t)
  BY <1>0, <1>2 DEF Steal, StealEnds, Goto, OnlyOf
<1>3. CASE TestAndSet(t) \/ NewChunk(t) \/ Fill(t) \/ CountChunk(t) \/ ClearFlag(t)
  BY <1>0, <1>3 DEF TestAndSet, NewChunk, Fill, CountChunk, ClearFlag, Goto, OnlyOf
<1>4. CASE ReturnNull(t) \/ Construct(t) \/ Acquire(t) \/ \E s \in used : Release(t, s)
  BY <1>0, <1>4 DEF ReturnNull, Construct, Acquire, Release, Goto, OnlyOf
<1>5. CASE CheckBatchReturn(t) \/ BatchReturn(t)
  BY <1>0, <1>5 DEF CheckBatchReturn, BatchReturn, ExtractBatch, Goto, OnlyOf
<1> QED
  BY <1>1, <1>2, <1>3, <1>4, <1>5 DEF Step

\* The newest slot of the cache is taken in hand.
LEMMA AcquireOwner ==
  ASSUME PoolKept, OwnerInv, NEW t \in Threads, Acquire(t)
  PROVE  OwnerInv'
<1>0. OnlyOf(t) /\ pc[t] = "idle" /\ obj[t] = <<>>
  BY StepOnly, ThreadHas DEF Acquire, Kept
<1>1. UNCHANGED <<free_queue, allocated, used, batch, count>>
  BY DEF Acquire
<1>2. pc'[t] # "fill"
  BY PoolHas DEF Acquire, Goto
<1>3. Held(t, "chunk") = {} /\ Held(t, "chunk")' = {}
  BY <1>0, <1>2, NoChunk
<1>4. CASE cache[t] # <<>>
  <2> DEFINE x == Back(cache[t])
             k == "cache"
             l == "obj"
             M == {x}
  <2>1. obj'[t] = <<x>> /\ cache'[t] = Front(cache[t])
    BY <1>4, PoolHas DEF Acquire
  <2>2. /\ x \in Range(cache[t]) /\ Range(cache[t]) = Range(Front(cache[t])) \cup {x}
        /\ IsInjective(Front(cache[t])) /\ x \notin Range(Front(cache[t]))
    BY <1>4, OwnerHas, DistinctFront
  <2> HIDE DEF x
  <2>3. Range(<<x>>) = {x} /\ IsInjective(<<x>>) /\ Range(<<>>) = {}
    BY DistinctSingle, DistinctEmpty
  <2>4. k \in Places /\ l \in Places /\ k # l /\ M \subseteq Held(t, k)
    BY <2>2, HeldIs DEF Places, Own
  <2>5. Moved(t, k, l, M)
    <3>1. Held(t, "cache")' = Held(t, "cache") \ M
      BY <2>1, <2>2, HeldIs, HeldIsNext
    <3>2. Held(t, "obj")' = Held(t, "obj") \cup M
      BY <1>0, <2>1, <2>3, HeldIs, HeldIsNext
    <3>3. /\ Held(t, "queue")' = Held(t, "queue") /\ Held(t, "user")' = Held(t, "user")
          /\ Held(t, "batch")' = Held(t, "batch") /\ Held(t, "chunk")' = Held(t, "chunk")
      BY <1>1, <1>3, HeldIs, HeldIsNext
    <3> QED
      BY <2>4, <3>1, <3>2, <3>3 DEF Moved, Places, Own
  <2>6. Tidy(t)'
    BY <1>1, <2>1, <2>2, <2>3, OwnerHas DEF Tidy
  <2> HIDE DEF k, l, M
  <2> QED
    BY <1>0, <1>1, <2>5, <2>6, MoveKept
<1>5. CASE cache[t] = <<>>
  BY <1>0, <1>1, <1>3, <1>5, StayKept DEF Acquire
<1> QED
  BY <1>4, <1>5

\* A slot is popped into the thread's hand.
LEMMA PopOwner ==
  ASSUME PoolKept, OwnerInv, NEW t \in Threads, OnlyOf(t), obj[t] = <<>>,
         NEW l1, NEW l2, PopInto(t, l1, l2), l1 # "fill", l2 # "fill", pc[t] # "fill",
         UNCHANGED <<cache, allocated, used, batch>>
  PROVE  OwnerInv'
<1>1. pc'[t] # "fill"
  BY PopIs
<1>2. Held(t, "chunk") = {} /\ Held(t, "chunk")' = {}
  BY <1>1, NoChunk
<1>3. CASE free_queue # <<>>
  <2> DEFINE x == Head(free_queue)
             k == "queue"
             l == "obj"
             M == {x}
  <2>1. obj'[t] = <<x>> /\ free_queue' = Tail(free_queue)
    BY <1>3, PopIs
  <2>2. /\ x \in Range(free_queue) /\ Range(free_queue) = Range(Tail(free_queue)) \cup {x}
        /\ IsInjective(Tail(free_queue)) /\ x \notin Range(Tail(free_queue))
    BY <1>3, OwnerHas, DistinctTail
  <2> HIDE DEF x
  <2>3. Range(<<x>>) = {x} /\ IsInjective(<<x>>) /\ Range(<<>>) = {}
    BY DistinctSingle, DistinctEmpty
  <2>4. k \in Places /\ l \in Places /\ k # l /\ M \subseteq Held(t, k)
    BY <2>2, HeldIs DEF Places, Own
  <2>5. Moved(t, k, l, M)
    <3>1. Held(t, "queue")' = Held(t, "queue") \ M
      BY <2>1, <2>2, HeldIs, HeldIsNext
    <3>2. Held(t, "obj")' = Held(t, "obj") \cup M
      BY <2>1, <2>3, HeldIs, HeldIsNext
    <3>3. /\ Held(t, "user")' = Held(t, "user") /\ Held(t, "cache")' = Held(t, "cache")
          /\ Held(t, "batch")' = Held(t, "batch") /\ Held(t, "chunk")' = Held(t, "chunk")
      BY <1>2, HeldIs, HeldIsNext
    <3> QED
      BY <2>4, <3>1, <3>2, <3>3 DEF Moved, Places, Own
  <2>6. Tidy(t)'
    BY <2>1, <2>2, <2>3, OwnerHas DEF Tidy
  <2> HIDE DEF k, l, M
  <2> QED
    BY <2>5, <2>6, MoveKept
<1>4. CASE free_queue = <<>>
  <2>1. UNCHANGED <<free_queue, obj>>
    BY <1>4 DEF PopInto
  <2> QED
    BY <1>2, <2>1, StayKept
<1> QED
  BY <1>3, <1>4

\* The pops of acquire.
LEMMA PopsOwner ==
  ASSUME PoolKept, OwnerInv, NEW t \in Threads, PopCentral(t) \/ PopOwn(t) \/ Retry(t)
  PROVE  OwnerInv'
<1>0. OnlyOf(t)
  BY StepOnly DEF Step
<1>1. pc[t] \in {"pop", "popOwn", "retry"} /\ UNCHANGED <<cache, allocated, used, batch>>
  BY DEF PopCentral, PopOwn, Retry
<1>2. obj[t] = <<>> /\ pc[t] # "fill"
  BY <1>1, ThreadHas DEF Kept
<1>3. PICK l2 \in {"steal", "null", "retry"} : PopInto(t, "construct", l2)
  BY DEF PopCentral, PopOwn, Retry
<1> DEFINE l1 == "construct"
<1>4. l1 # "fill" /\ l2 # "fill" /\ PopInto(t, l1, l2)
  BY <1>3
<1> HIDE DEF l1
<1> QED
  BY <1>0, <1>1, <1>2, <1>4, PopOwner

\* A slot is stolen for the batch.
LEMMA StealOwner ==
  ASSUME PoolKept, OwnerInv, NEW t \in Threads, Steal(t)
  PROVE  OwnerInv'
<1>0. OnlyOf(t) /\ pc[t] = "steal" /\ free_queue # <<>>
      /\ free_queue \in Seq(Slots) /\ batch[t] \in Seq(Slots)
  BY StepOnly, OwnerHas DEF Steal, Step
<1>1. UNCHANGED <<cache, allocated, used, pc, obj, count>>
  BY DEF Steal
<1>2. Held(t, "chunk") = {} /\ Held(t, "chunk")' = {}
  BY <1>0, <1>1, NoChunk
<1> DEFINE x == Head(free_queue)
           k == "queue"
           l == "batch"
           M == {x}
<1>3. batch'[t] = Append(batch[t], x) /\ free_queue' = Tail(free_queue)
  BY PoolHas DEF Steal
<1>4. /\ x \in Range(free_queue) /\ Range(free_queue) = Range(Tail(free_queue)) \cup {x}
      /\ IsInjective(Tail(free_queue)) /\ x \notin Range(Tail(free_queue))
      /\ x \in Slots
  BY <1>0, OwnerHas, DistinctTail, HeadTailProperties
<1>5. k \in Places /\ l \in Places /\ k # l /\ M \subseteq Held(t, k)
  BY <1>4, HeldIs DEF Places, Own
<1> HIDE DEF x
<1>6. x \notin Range(batch[t])
  BY <1>4, <1>5, OwnerHas, HeldIs
<1>7. Range(Append(batch[t], x)) = Range(batch[t]) \cup {x} /\ IsInjective(Append(batch[t], x))
  BY <1>0, <1>4, <1>6, OwnerHas, DistinctAppend
<1>8. Moved(t, k, l, M)
  <2>1. Held(t, "queue")' = Held(t, "queue") \ M
    BY <1>3, <1>4, HeldIs, HeldIsNext
  <2>2. Held(t, "batch")' = Held(t, "batch") \cup M
    BY <1>3, <1>7, HeldIs, HeldIsNext
  <2>3. /\ Held(t, "user")' = Held(t, "user") /\ Held(t, "cache")' = Held(t, "cache")
        /\ Held(t, "obj")' = Held(t, "obj") /\ Held(t, "chunk")' = Held(t, "chunk")
    BY <1>1, <1>2, HeldIs, HeldIsNext
  <2> QED
    BY <1>5, <2>1, <2>2, <2>3 DEF Moved, Places, Own
<1>9. Tidy(t)'
  BY <1>1, <1>3, <1>4, <1>7, OwnerHas DEF Tidy
<1> HIDE DEF k, l, M
<1> QED
  BY <1>0, <1>1, <1>8, <1>9, MoveKept

\* The stolen batch is shared out between the thread's hand and its cache.
LEMMA StealEndsOwner ==
  ASSUME PoolKept, OwnerInv, NEW t \in Threads, StealEnds(t)
  PROVE  OwnerInv'
<1>0. /\ OnlyOf(t) /\ pc[t] = "steal" /\ obj[t] = <<>> /\ cache[t] = <<>>
      /\ batch[t] \in Seq(Slots) /\ Len(batch[t]) <= BatchSize
  BY StepOnly, ThreadHas DEF StealEnds, Step, Kept
<1>1. UNCHANGED <<free_queue, allocated, used, count>>
  BY DEF StealEnds
<1>2. pc'[t] # "fill"
  BY PoolHas DEF StealEnds, Goto
<1>3. Held(t, "chunk") = {} /\ Held(t, "chunk")' = {}
  BY <1>0, <1>2, NoChunk
<1>4. CASE batch[t] = <<>>
  BY <1>0, <1>1, <1>3, <1>4, StayKept DEF StealEnds
<1>5. CASE batch[t] # <<>>
  <2> DEFINE x == Head(batch[t])
             c == Tail(batch[t])
  <2>1. AddBatch(<<>>, c) = c /\ x \in Slots
    BY <1>0, <1>5, AddBatchIs
  <2>2. /\ obj' = [obj EXCEPT ![t] = <<x>>] /\ batch' = [batch EXCEPT ![t] = <<>>]
        /\ cache' = [cache EXCEPT ![t] = AddBatch(cache[t], c)]
    BY <1>5 DEF StealEnds
  <2>3. /\ Range(batch[t]) = Range(c) \cup {x} /\ IsInjective(c) /\ x \notin Range(c)
    BY <1>0, <1>5, OwnerHas, DistinctTail
  <2> HIDE DEF x, c
  <2>4. obj'[t] = <<x>> /\ batch'[t] = <<>> /\ cache'[t] = c
    BY <1>0, <2>1, <2>2, PoolHas
  <2>5. Range(<<x>>) = {x} /\ IsInjective(<<x>>) /\ Range(<<>>) = {} /\ IsInjective(<<>>)
    BY DistinctSingle, DistinctEmpty
  <2>6. /\ Held(t, "queue")' = Held(t, "queue") /\ Held(t, "user")' = Held(t, "user")
        /\ Held(t, "chunk")' = {} /\ Held(t, "batch")' = {}
        /\ Held(t, "obj")' = {x} /\ Held(t, "cache")' = Range(c)
    BY <1>1, <1>3, <2>4, <2>5, HeldIs, HeldIsNext
  <2>7. /\ Held(t, "chunk") = {} /\ Held(t, "batch") = Range(c) \cup {x}
        /\ Held(t, "obj") = {} /\ Held(t, "cache") = {}
    BY <1>0, <1>3, <2>3, <2>5, HeldIs
  <2>8. \A k, l \in Places, s \in Slots : s \in Held(t, k)' /\ s \in Held(t, l)' => k = l
    <3>1. \A k, l \in Places, s \in Slots : s \in Held(t, k) /\ s \in Held(t, l) => k = l
      BY OwnerHas
    <3>2. \A s \in Slots : s \in Held(t, "batch") =>
                             s \notin Held(t, "queue") /\ s \notin Held(t, "user")
      BY <3>1 DEF Places, Own
    <3>3. \A s \in Slots : ~(s \in Held(t, "queue") /\ s \in Held(t, "user"))
      BY <3>1 DEF Places, Own
    <3> QED
      BY <2>3, <2>6, <2>7, <3>2, <3>3 DEF Places, Own
  <2>9. \A s : (\E k \in Places : s \in Held(t, k)') <=> \E k \in Places : s \in Held(t, k)
    BY <2>6, <2>7 DEF Places, Own
  <2>10. Apart' /\ Covered'
    <3> DEFINE N == {}
    <3>1. /\ \A s \in Slots : (\E m \in Places : s \in Held(t, m)') <=>
                                s \in N \/ \E m \in Places : s \in Held(t, m)
          /\ \A s \in Slots : s <= allocated' <=> s \in N \/ s <= allocated
          /\ \A s \in N : ~(s <= allocated)
      BY <1>1, <2>9
    <3>2. \A u \in Threads \ {t}, k \in Own : Held(u, k)' = Held(u, k)
      BY <1>0, <1>1, OthersKept
    <3> HIDE DEF N
    <3> QED
      BY <2>8, <3>1, <3>2, PlacesMoved DEF OwnerInv
  <2>11. NoRepeats'
    BY <1>0, <1>1, <2>3, <2>4, <2>5, OwnerHas, RepeatsKept DEF OwnerInv
  <2> QED
    BY <2>10, <2>11 DEF OwnerInv
<1> QED
  BY <1>4, <1>5

\* Steps that move no slot: the flag is set or cleared, a chunk that is all
\* pushed is counted, a null pointer is returned.
LEMMA StillOwner ==
  ASSUME PoolKept, OwnerInv, NEW t \in Threads,
         TestAndSet(t) \/ CountChunk(t) \/ ClearFlag(t) \/ ReturnNull(t)
  PROVE  OwnerInv'
<1>0. OnlyOf(t)
  BY StepOnly DEF Step
<1>1. UNCHANGED <<free_queue, used, cache, obj, batch, allocated>>
  BY DEF TestAndSet, CountChunk, ClearFlag, ReturnNull
<1>2. pc'[t] # "fill"
  BY PoolHas DEF TestAndSet, CountChunk, ClearFlag, ReturnNull, Goto
<1>3. pc[t] = "fill" => count[t] = ChunkSize
  BY DEF TestAndSet, CountChunk, ClearFlag, ReturnNull
<1>4. Held(t, "chunk")' = Held(t, "chunk")
  <2>1. CASE pc[t] = "fill"
    <3>1. allocated \in Nat /\ ChunkSize \in Nat
      BY PoolHas, PoolAssumption DEF SharedTyped
    <3>2. allocated - ChunkSize + count[t] + 1 .. allocated = {}
      BY <1>3, <2>1, <3>1
    <3> QED
      BY <1>2, <2>1, <3>2, HeldIs, HeldIsNext
  <2>2. CASE pc[t] # "fill"
    BY <1>2, <2>2, NoChunk
  <2> QED
    BY <2>1, <2>2
<1> QED
  BY <1>0, <1>1, <1>4, StayKept

\* The slots of a new chunk are new.
LEMMA NewChunkOwner ==
  ASSUME PoolKept, OwnerInv, NEW t \in Threads, NewChunk(t)
  PROVE  OwnerInv'
<1>0. /\ OnlyOf(t) /\ pc[t] = "new" /\ count[t] = 0
      /\ allocated \in 0 .. MaxSlots /\ ChunkSize \in Nat \ {0} /\ MaxSlots \in Nat
  BY StepOnly, ThreadHas, PoolHas, PoolAssumption DEF NewChunk, Step, Kept, SharedTyped
<1>1. UNCHANGED <<free_queue, cache, used, obj, batch, count>>
  BY DEF NewChunk
<1>2. CASE allocated + ChunkSize <= MaxSlots
  <2> DEFINE N == allocated + 1 .. allocated + ChunkSize
  <2>0. allocated' = allocated + ChunkSize /\ pc'[t] = "fill"
    BY <1>0, <1>2, PoolHas DEF NewChunk, Goto
  <2>1. Held(t, "chunk") = {} /\ Held(t, "chunk")' = N
    <3>1. allocated' - ChunkSize + count'[t] + 1 = allocated + 1
      BY <1>0, <1>1, <2>0
    <3> QED
      BY <1>0, <2>0, <3>1, HeldIs, HeldIsNext
  <2>2. \A k \in Places \ {"chunk"} : Held(t, k)' = Held(t, k)
    BY <1>1, HeldIs, HeldIsNext DEF Places, Own
  <2>3. \A s \in N : ~(s <= allocated)
    BY <1>0
  <2>4. \A s \in Slots : s <= allocated' <=> s \in N \/ s <= allocated
    BY <1>0, <2>0 DEF Slots
  <2>5. \A s \in Slots : (\E k \in Places : s \in Held(t, k)') <=>
                           s \in N \/ \E k \in Places : s \in Held(t, k)
    <3>1. "chunk" \in Places
      BY DEF Places, Own
    <3> HIDE DEF N
    <3> QED
      BY <2>1, <2>2, <3>1
  <2>6. \A k, l \in Places, s \in Slots : s \in Held(t, k)' /\ s \in Held(t, l)' => k = l
    <3> HIDE DEF N
    <3>1. \A k \in Places, s \in Slots : s \in Held(t, k) => s <= allocated
      BY HeldIs DEF OwnerInv, Covered, Places
    <3>2. \A k, l \in Places, s \in Slots : s \in Held(t, k) /\ s \in Held(t, l) => k = l
      BY OwnerHas
    <3> QED
      BY <2>1, <2>2, <2>3, <3>1, <3>2
  <2>7. \A u \in Threads \ {t}, k \in Own : Held(u, k)' = Held(u, k)
    <3>1. pc[t] \in Allocating /\ "fill" \in Allocating
      BY <1>0 DEF Allocating
    <3>2. \A u \in Threads \ {t} : pc[u] # "fill"
      BY <3>1, AllocatorIs
    <3> QED
      BY <1>0, <3>2, OthersKept
  <2> HIDE DEF N
  <2>8. Apart' /\ Covered'
    BY <2>3, <2>4, <2>5, <2>6, <2>7, PlacesMoved DEF OwnerInv
  <2>9. NoRepeats'
    BY <1>1 DEF OwnerInv, NoRepeats
  <2> QED
    BY <2>8, <2>9 DEF OwnerInv
<1>3. CASE allocated + ChunkSize > MaxSlots
  <2>1. ~(allocated + ChunkSize <= MaxSlots)
    BY <1>0, <1>3
  <2>2. allocated' = allocated /\ pc'[t] # "fill"
    BY <2>1, PoolHas DEF NewChunk, Goto
  <2>3. Held(t, "chunk") = {} /\ Held(t, "chunk")' = {}
    BY <1>0, <2>2, NoChunk
  <2> QED
    BY <1>0, <1>1, <2>2, <2>3, StayKept
<1> QED
  BY <1>0, <1>2, <1>3

\* A slot of the new chunk is pushed.
LEMMA FillOwner ==
  ASSUME PoolKept, OwnerInv, NEW t \in Threads, Fill(t)
  PROVE  OwnerInv'
<1>0. /\ OnlyOf(t) /\ pc[t] = "fill" /\ count[t] < ChunkSize /\ count[t] \in Nat
      /\ free_queue \in Seq(Slots) /\ allocated \in 0 .. MaxSlots
      /\ ChunkSize \in Nat \ {0} /\ MaxSlots \in Nat
  BY StepOnly, ThreadHas, PoolHas, PoolAssumption DEF Fill, Step, SharedTyped
<1>1. /\ UNCHANGED <<cache, allocated, used, pc, obj, batch>>
      /\ count'[t] = count[t] + 1
  BY PoolHas DEF Fill
<1> DEFINE x == allocated - ChunkSize + count[t] + 1
           k == "chunk"
           l == "queue"
           M == {x}
<1>2. free_queue' = Append(free_queue, x)
  BY DEF Fill
<1>3. Held(t, "chunk") = x .. allocated /\ Held(t, "chunk")' = x + 1 .. allocated
  <2>1. allocated' - ChunkSize + count'[t] + 1 = x + 1
    BY <1>0, <1>1
  <2> QED
    BY <1>0, <1>1, <2>1, HeldIs, HeldIsNext
<1>4. x \in Int /\ x <= allocated
  BY <1>0
<1>5. x \in Slots
  <2>1. total_allocated + ChunkSize = allocated /\ total_allocated \in Nat
    BY <1>0, PoolHas DEF PoolKept, FlagKept, SharedTyped
  <2> QED
    BY <1>0, <2>1 DEF Slots
<1> HIDE DEF x
<1>6. x .. allocated = (x + 1 .. allocated) \cup {x} /\ x \notin x + 1 .. allocated
  BY <1>0, <1>4
<1>7. k \in Places /\ l \in Places /\ k # l /\ M \subseteq Held(t, k)
  BY <1>3, <1>6 DEF Places, Own
<1>8. x \notin Range(free_queue)
  BY <1>5, <1>7, OwnerHas, HeldIs
<1>9. /\ Range(Append(free_queue, x)) = Range(free_queue) \cup {x}
      /\ IsInjective(Append(free_queue, x))
  BY <1>0, <1>5, <1>8, OwnerHas, DistinctAppend
<1>10. Moved(t, k, l, M)
  <2>1. Held(t, "chunk")' = Held(t, "chunk") \ M
    BY <1>3, <1>6
  <2>2. Held(t, "queue")' = Held(t, "queue") \cup M
    BY <1>2, <1>9, HeldIs, HeldIsNext
  <2>3. /\ Held(t, "user")' = Held(t, "user") /\ Held(t, "cache")' = Held(t, "cache")
        /\ Held(t, "obj")' = Held(t, "obj") /\ Held(t, "batch")' = Held(t, "batch")
    BY <1>1, HeldIs, HeldIsNext
  <2> QED
    BY <1>7, <2>1, <2>2, <2>3 DEF Moved, Places, Own
<1>11. Tidy(t)'
  BY <1>1, <1>2, <1>9, OwnerHas DEF Tidy
<1> HIDE DEF k, l, M
<1> QED
  BY <1>0, <1>1, <1>10, <1>11, MoveKept

\* The slot in hand goes to the caller, or back to the free queue.
LEMMA ConstructOwner ==
  ASSUME PoolKept, OwnerInv, NEW t \in Threads, Construct(t)
  PROVE  OwnerInv'
<1>0. /\ OnlyOf(t) /\ pc[t] = "construct" /\ obj[t] \in Seq(Slots) /\ Len(obj[t]) = 1
      /\ free_queue \in Seq(Slots)
  BY StepOnly, ThreadHas, PoolHas DEF Construct, Step, Kept, SharedTyped
<1>1. /\ UNCHANGED <<cache, allocated, batch, count>> /\ pc'[t] # "fill"
      /\ obj'[t] = <<>>
  BY PoolHas DEF Construct, Goto
<1>2. Held(t, "chunk") = {} /\ Held(t, "chunk")' = {}
  BY <1>0, <1>1, NoChunk
<1> DEFINE x == Head(obj[t])
           k == "obj"
           M == {x}
<1>3. obj[t] = <<x>> /\ x \in Slots
  BY <1>0
<1>4. \/ used' = used \cup {x} /\ free_queue' = free_queue
      \/ used' = used /\ free_queue' = Append(free_queue, x)
  BY DEF Construct
<1> HIDE DEF x
<1>5. Range(obj[t]) = {x} /\ Range(<<>>) = {} /\ IsInjective(<<>>)
  BY <1>3, DistinctSingle, DistinctEmpty
<1>6. k \in Places /\ M = Held(t, "obj") /\ Held(t, "obj")' = {}
  BY <1>1, <1>5, HeldIs, HeldIsNext DEF Places, Own
<1>7. /\ Held(t, "cache")' = Held(t, "cache") /\ Held(t, "batch")' = Held(t, "batch")
      /\ Held(t, "chunk")' = Held(t, "chunk")
  BY <1>1, <1>2, HeldIs, HeldIsNext
<1>8. CASE used' = used \cup {x} /\ free_queue' = free_queue
  <2> DEFINE l == "user"
  <2>1. Moved(t, k, l, M)
    <3>1. Held(t, "user")' = Held(t, "user") \cup M
      BY <1>8, HeldIs, HeldIsNext
    <3>2. Held(t, "queue")' = Held(t, "queue")
      BY <1>8, HeldIs, HeldIsNext
    <3> QED
      BY <1>6, <1>7, <3>1, <3>2 DEF Moved, Places, Own
  <2>2. Tidy(t)'
    BY <1>1, <1>5, <1>8, OwnerHas DEF Tidy
  <2> HIDE DEF k, l, M
  <2> QED
    BY <1>0, <1>1, <2>1, <2>2, MoveKept
<1>9. CASE used' = used /\ free_queue' = Append(free_queue, x)
  <2> DEFINE l == "queue"
  <2>1. x \notin Range(free_queue)
    <3>1. x \in Held(t, "obj") /\ "obj" \in Places /\ "queue" \in Places
      BY <1>6 DEF Places, Own
    <3> QED
      BY <1>3, <3>1, OwnerHas, HeldIs
  <2>2. /\ Range(Append(free_queue, x)) = Range(free_queue) \cup {x}
        /\ IsInjective(Append(free_queue, x))
    BY <1>0, <1>3, <2>1, OwnerHas, DistinctAppend
  <2>3. Moved(t, k, l, M)
    <3>1. Held(t, "queue")' = Held(t, "queue") \cup M
      BY <1>9, <2>2, HeldIs, HeldIsNext
    <3>2. Held(t, "user")' = Held(t, "user")
      BY <1>9, HeldIs, HeldIsNext
    <3> QED
      BY <1>6, <1>7, <3>1, <3>2 DEF Moved, Places, Own
  <2>4. Tidy(t)'
    BY <1>1, <1>5, <1>9, <2>2, OwnerHas DEF Tidy
  <2> HIDE DEF k, l, M
  <2> QED
    BY <1>0, <1>1, <2>3, <2>4, MoveKept
<1> QED
  BY <1>4, <1>8, <1>9

\* A released slot goes to the cache, or to the free queue.
LEMMA ReleaseOwner ==
  ASSUME PoolKept, OwnerInv, NEW t \in Threads, NEW x \in used, Release(t, x)
  PROVE  OwnerInv'
<1>0. /\ OnlyOf(t) /\ pc[t] = "idle" /\ cache[t] \in Seq(Slots)
      /\ free_queue \in Seq(Slots) /\ x \in Slots
  BY StepOnly, ThreadHas, PoolHas DEF Release, SharedTyped
<1>1. /\ UNCHANGED <<allocated, obj, batch, count>> /\ pc'[t] # "fill"
      /\ used' = used \ {x}
  BY PoolHas DEF Release, Goto
<1>2. Held(t, "chunk") = {} /\ Held(t, "chunk")' = {}
  BY <1>0, <1>1, NoChunk
<1> DEFINE k == "user"
           M == {x}
<1>3. \/ cache'[t] = Append(cache[t], x) /\ free_queue' = free_queue
      \/ cache' = cache /\ free_queue' = Append(free_queue, x)
  BY PoolHas DEF Release
<1>4. k \in Places /\ M \subseteq Held(t, "user") /\ Held(t, "user")' = Held(t, "user") \ M
  BY <1>1, HeldIs, HeldIsNext DEF Places
<1>5. /\ Held(t, "obj")' = Held(t, "obj") /\ Held(t, "batch")' = Held(t, "batch")
      /\ Held(t, "chunk")' = Held(t, "chunk")
  BY <1>1, <1>2, HeldIs, HeldIsNext
<1>6. x \notin Range(free_queue) /\ x \notin Range(cache[t])
  <2>1. x \in Held(t, "user") /\ {"user", "queue", "cache"} \subseteq Places
    BY HeldIs DEF Places, Own
  <2> QED
    BY <1>0, <2>1, OwnerHas, HeldIs
<1>7. CASE cache'[t] = Append(cache[t], x) /\ free_queue' = free_queue
  <2> DEFINE l == "cache"
  <2>1. /\ Range(Append(cache[t], x)) = Range(cache[t]) \cup {x}
        /\ IsInjective(Append(cache[t], x))
    BY <1>0, <1>6, OwnerHas, DistinctAppend
  <2>2. Moved(t, k, l, M)
    <3>1. Held(t, "cache")' = Held(t, "cache") \cup M
      BY <1>7, <2>1, HeldIs, HeldIsNext
    <3>2. Held(t, "queue")' = Held(t, "queue")
      BY <1>7, HeldIs, HeldIsNext
    <3> QED
      BY <1>4, <1>5, <3>1, <3>2 DEF Moved, Places, Own
  <2>3. Tidy(t)'
    BY <1>1, <1>7, <2>1, OwnerHas DEF Tidy
  <2> HIDE DEF k, l, M
  <2> QED
    BY <1>0, <1>1, <2>2, <2>3, MoveKept
<1>8. CASE cache' = cache /\ free_queue' = Append(free_queue, x)
  <2> DEFINE l == "queue"
  <2>1. /\ Range(Append(free_queue, x)) = Range(free_queue) \cup {x}
        /\ IsInjective(Append(free_queue, x))
    BY <1>0, <1>6, OwnerHas, DistinctAppend
  <2>2. Moved(t, k, l, M)
    <3>1. Held(t, "queue")' = Held(t, "queue") \cup M
      BY <1>8, <2>1, HeldIs, HeldIsNext
    <3>2. Held(t, "cache")' = Held(t, "cache")
      BY <1>8, HeldIs, HeldIsNext
    <3> QED
      BY <1>4, <1>5, <3>1, <3>2 DEF Moved, Places, Own
  <2>3. Tidy(t)'
    BY <1>1, <1>8, <2>1, OwnerHas DEF Tidy
  <2> HIDE DEF k, l, M
  <2> QED
    BY <1>0, <1>1, <2>2, <2>3, MoveKept
<1> QED
  BY <1>3, <1>7, <1>8

\* The newest slots of a full cache become the batch.
LEMMA CheckBatchReturnOwner ==
  ASSUME PoolKept, OwnerInv, NEW t \in Threads, CheckBatchReturn(t)
  PROVE  OwnerInv'
<1>0. /\ OnlyOf(t) /\ pc[t] = "released" /\ cache[t] \in Seq(Slots) /\ batch[t] = <<>>
  BY StepOnly, ThreadHas DEF CheckBatchReturn, Step, Kept
<1>1. /\ UNCHANGED <<free_queue, allocated, used, obj, count>> /\ pc'[t] # "fill"
  BY PoolHas DEF CheckBatchReturn, Goto
<1>2. Held(t, "chunk") = {} /\ Held(t, "chunk")' = {}
  BY <1>0, <1>1, NoChunk
<1>3. CASE ShouldBatchReturn(cache[t])
  <2> DEFINE d == cache[t]
             n == BatchLength(d)
             c == SubSeq(d, 1, Len(d) - n)
             b == [i \in 1 .. n |-> d[Len(d) + 1 - i]]
             k == "cache"
             l == "batch"
             M == Range(b)
  <2>1. batch' = [batch EXCEPT ![t] = b] /\ cache' = [cache EXCEPT ![t] = c]
    BY <1>3 DEF CheckBatchReturn, ExtractBatch, BatchLength
  <2>2. n \in 0 .. Len(d) /\ Len(d) \in Nat
    BY <1>0, ExtractIs, LenProperties
  <2>3. DOMAIN c = 1 .. Len(d) - n /\ \A i \in 1 .. Len(d) - n : c[i] = d[i]
    <3>1. Len(d) - n \in 0 .. Len(d)
      BY <2>2
    <3> QED
      BY <1>0, <3>1, PrefixIs
  <2>4. DOMAIN b = 1 .. n /\ \A i \in 1 .. n : b[i] = d[Len(d) + 1 - i]
    OBVIOUS
  <2> HIDE DEF n, c, b
  <2>5. Cut(d, n, c, b)
    BY <2>3, <2>4 DEF Cut
  <2>6. /\ Range(d) = Range(c) \cup Range(b) /\ IsInjective(c) /\ IsInjective(b)
        /\ Range(c) \cap Range(b) = {}
    BY <1>0, <2>2, <2>5, OwnerHas, DistinctSplit
  <2>7. batch'[t] = b /\ cache'[t] = c
    BY <2>1, PoolHas
  <2>8. Range(<<>>) = {}
    BY DistinctEmpty
  <2>9. Moved(t, k, l, M)
    <3>1. Held(t, "cache")' = Held(t, "cache") \ M /\ M \subseteq Held(t, "cache")
      BY <2>6, <2>7, HeldIs, HeldIsNext
    <3>2. Held(t, "batch")' = Held(t, "batch") \cup M
      BY <1>0, <2>7, <2>8, HeldIs, HeldIsNext
    <3>3. /\ Held(t, "queue")' = Held(t, "queue") /\ Held(t, "user")' = Held(t, "user")
          /\ Held(t, "obj")' = Held(t, "obj") /\ Held(t, "chunk")' = Held(t, "chunk")
      BY <1>1, <1>2, HeldIs, HeldIsNext
    <3> QED
      BY <3>1, <3>2, <3>3 DEF Moved, Places, Own
  <2>10. Tidy(t)'
    BY <1>1, <2>6, <2>7, OwnerHas DEF Tidy
  <2> HIDE DEF k, l, M
  <2> QED
    BY <1>0, <1>1, <2>9, <2>10, MoveKept
<1>4. CASE ~ShouldBatchReturn(cache[t])
  BY <1>0, <1>1, <1>2, <1>4, StayKept DEF CheckBatchReturn
<1> QED
  BY <1>3, <1>4

\* A slot of the batch is pushed.
LEMMA BatchReturnOwner ==
  ASSUME PoolKept, OwnerInv, NEW t \in Threads, BatchReturn(t)
  PROVE  OwnerInv'
<1>0. /\ OnlyOf(t) /\ pc[t] = "return" /\ batch[t] \in Seq(Slots)
      /\ free_queue \in Seq(Slots)
  BY StepOnly, ThreadHas, PoolHas DEF BatchReturn, Step, SharedTyped
<1>1. /\ UNCHANGED <<cache, allocated, used, obj, count>> /\ pc'[t] # "fill"
  BY <1>0, PoolHas DEF BatchReturn, Goto
<1>2. Held(t, "chunk") = {} /\ Held(t, "chunk")' = {}
  BY <1>0, <1>1, NoChunk
<1>3. CASE batch[t] # <<>>
  <2> DEFINE x == Head(batch[t])
             b == Tail(batch[t])
             k == "batch"
             l == "queue"
             M == {x}
  <2>1. free_queue' = Append(free_queue, x) /\ batch' = [batch EXCEPT ![t] = b]
    BY <1>3 DEF BatchReturn
  <2>2. /\ Range(batch[t]) = Range(b) \cup {x} /\ IsInjective(b) /\ x \notin Range(b)
        /\ x \in Slots
    BY <1>0, <1>3, OwnerHas, DistinctTail, HeadTailProperties
  <2> HIDE DEF x, b
  <2>3. batch'[t] = b
    BY <2>1, PoolHas
  <2>4. x \notin Range(free_queue)
    <3>1. x \in Held(t, "batch") /\ {"batch", "queue"} \subseteq Places
      BY <2>2, HeldIs DEF Places, Own
    <3> QED
      BY <2>2, <3>1, OwnerHas, HeldIs
  <2>5. /\ Range(Append(free_queue, x)) = Range(free_queue) \cup {x}
        /\ IsInjective(Append(free_queue, x))
    BY <1>0, <2>2, <2>4, OwnerHas, DistinctAppend
  <2>6. Moved(t, k, l, M)
    <3>1. Held(t, "batch")' = Held(t, "batch") \ M /\ M \subseteq Held(t, "batch")
      BY <2>2, <2>3, HeldIs, HeldIsNext
    <3>2. Held(t, "queue")' = Held(t, "queue") \cup M
      BY <2>1, <2>5, HeldIs, HeldIsNext
    <3>3. /\ Held(t, "cache")' = Held(t, "cache") /\ Held(t, "user")' = Held(t, "user")
          /\ Held(t, "obj")' = Held(t, "obj") /\ Held(t, "chunk")' = Held(t, "chunk")
      BY <1>1, <1>2, HeldIs, HeldIsNext
    <3> QED
      BY <3>1, <3>2, <3>3 DEF Moved, Places, Own
  <2>7. Tidy(t)'
    BY <1>1, <2>1, <2>2, <2>3, <2>5, OwnerHas DEF Tidy
  <2> HIDE DEF k, l, M
  <2> QED
    BY <1>0, <1>1, <2>6, <2>7, MoveKept
<1>4. CASE batch[t] = <<>>
  BY <1>0, <1>1, <1>2, <1>4, StayKept DEF BatchReturn
<1> QED
  BY <1>3, <1>4

\* Every step keeps one owner per slot.
LEMMA OwnerStep == PoolKept /\ OwnerInv /\ [Next]_vars => OwnerInv'
<1> SUFFICES ASSUME PoolKept, OwnerInv, [Next]_vars PROVE OwnerInv'
  OBVIOUS
<1>1. CASE UNCHANGED vars
  <2>1. UNCHANGED <<free_queue, cache, allocated, used, pc, obj, batch, count>>
    BY <1>1 DEF vars
  <2>2. \A t, k : Held(t, k)' = Held(t, k)
    BY <2>1 DEF Held
  <2>3. Apart' /\ Covered'
    BY <2>1, <2>2 DEF OwnerInv, Apart, Covered
  <2>4. NoRepeats'
    BY <2>1 DEF OwnerInv, NoRepeats
  <2> QED
    BY <2>3, <2>4 DEF OwnerInv
<1>2. ASSUME NEW t \in Threads, Step(t) PROVE OwnerInv'
  BY <1>2, PopsOwner, StealOwner, StealEndsOwner, StillOwner, NewChunkOwner, FillOwner,
     ConstructOwner, CheckBatchReturnOwner, BatchReturnOwner DEF Step
<1>3. ASSUME NEW t \in Threads, Acquire(t) PROVE OwnerInv'
  BY <1>3, AcquireOwner
<1>4. ASSUME NEW t \in Threads, NEW s \in used, Release(t, s) PROVE OwnerInv'
  BY <1>4, ReleaseOwner
<1> QED
  BY <1>1, <1>2, <1>3, <1>4 DEF Next

\* The constructor of the pool gives every slot to the free queue.
LEMMA OwnerInit == Init => OwnerInv
<1> SUFFICES ASSUME Init PROVE OwnerInv
  OBVIOUS
<1>0. InitialCount \in Nat /\ allocated = InitialCount /\ used = {} /\ MaxSlots \in Nat
  BY PoolAssumption DEF Init
<1>1. /\ DOMAIN free_queue = 1 .. InitialCount
      /\ \A i \in 1 .. InitialCount : free_queue[i] = i
  BY DEF Init
<1>2. Range(free_queue) = 1 .. InitialCount /\ IsInjective(free_queue)
  BY <1>1 DEF Range, IsInjective
<1>3. \A t \in Threads : /\ cache[t] = <<>> /\ obj[t] = <<>> /\ batch[t] = <<>>
                         /\ pc[t] = "idle"
  BY DEF Init
<1>4. IsInjective(<<>>) /\ Range(<<>>) = {}
  BY DistinctEmpty
<1>5. \A t \in Threads : /\ Held(t, "queue") = 1 .. InitialCount
                         /\ \A k \in Places : k # "queue" => Held(t, k) = {}
  BY <1>0, <1>2, <1>3, <1>4, HeldIs DEF Places, Own
<1>6. Apart
  BY <1>0, <1>5 DEF Apart, Own
<1>7. Covered
  <2>1. \A t \in Threads, k \in Own : Held(t, k) = {}
    BY <1>5 DEF Places, Own
  <2>2. \A s \in Slots : s <= allocated <=> s \in Range(free_queue)
    BY <1>0, <1>2 DEF Slots
  <2> QED
    BY <1>0, <2>1, <2>2 DEF Covered
<1>8. NoRepeats
  BY <1>2, <1>3, <1>4 DEF NoRepeats
<1> QED
  BY <1>6, <1>7, <1>8 DEF OwnerInv

\* p is the reference that place k of thread t has to slot s.
OwnerAt(p, s, t, k) ==
  \/ k = "queue" /\ \E i \in DOMAIN free_queue : free_queue[i] = s /\ p = <<"queue", i>>
  \/ k = "user" /\ s \in used /\ p = <<"user", s>>
  \/ k = "cache" /\ \E i \in DOMAIN cache[t] : cache[t][i] = s /\ p = <<t, "cache", i>>
  \/ k = "obj" /\ \E i \in DOMAIN obj[t] : obj[t][i] = s /\ p = <<t, "obj", i>>
  \/ k = "batch" /\ \E i \in DOMAIN batch[t] : batch[t][i] = s /\ p = <<t, "batch", i>>
  \/ /\ k = "chunk" /\ pc[t] = "fill"
     /\ \E j \in count[t] + 1 .. ChunkSize :
          s = allocated - ChunkSize + j /\ p = <<t, "chunk", j>>

\* The owners of a slot, place by place.
LEMMA OwnersAre ==
  ASSUME NEW s, NEW p
  PROVE  p \in Owners(s) <=> \/ \E t : OwnerAt(p, s, t, "queue") \/ OwnerAt(p, s, t, "user")
                             \/ \E t \in Threads, k \in Own : OwnerAt(p, s, t, k)
<1>1. p \in Owners(s) <=>
        \/ \E i \in DOMAIN free_queue : free_queue[i] = s /\ p = <<"queue", i>>
        \/ s \in used /\ p = <<"user", s>>
        \/ \E t \in Threads :
             \/ \E i \in DOMAIN cache[t] : cache[t][i] = s /\ p = <<t, "cache", i>>
             \/ \E i \in DOMAIN obj[t] : obj[t][i] = s /\ p = <<t, "obj", i>>
             \/ \E i \in DOMAIN batch[t] : batch[t][i] = s /\ p = <<t, "batch", i>>
             \/ /\ pc[t] = "fill"
                /\ \E j \in count[t] + 1 .. ChunkSize :
                     s = allocated - ChunkSize + j /\ p = <<t, "chunk", j>>
  BY DEF Owners, At
<1>2. \A t : /\ OwnerAt(p, s, t, "queue") <=>
                  \E i \in DOMAIN free_queue : free_queue[i] = s /\ p = <<"queue", i>>
             /\ OwnerAt(p, s, t, "user") <=> s \in used /\ p = <<"user", s>>
             /\ (\E k \in Own : OwnerAt(p, s, t, k)) <=>
                  \/ \E i \in DOMAIN cache[t] : cache[t][i] = s /\ p = <<t, "cache", i>>
                  \/ \E i \in DOMAIN obj[t] : obj[t][i] = s /\ p = <<t, "obj", i>>
                  \/ \E i \in DOMAIN batch[t] : batch[t][i] = s /\ p = <<t, "batch", i>>
                  \/ /\ pc[t] = "fill"
                     /\ \E j \in count[t] + 1 .. ChunkSize :
                          s = allocated - ChunkSize + j /\ p = <<t, "chunk", j>>
  BY DEF OwnerAt, Own
<1> QED
  BY <1>1, <1>2

\* A place has an owner of a slot exactly when it holds the slot.
LEMMA OwnerIffHeld ==
  ASSUME PoolKept, NEW s \in Slots, NEW t, NEW k \in Places, k = "chunk" => t \in Threads
  PROVE  (\E p : OwnerAt(p, s, t, k)) <=> s \in Held(t, k)
<1>1. CASE k \in {"queue", "user", "cache", "obj", "batch"}
  <2>1. \A q : s \in Range(q) <=> \E i \in DOMAIN q : q[i] = s
    BY DEF Range
  <2>2. CASE k = "queue"
    BY <2>1, <2>2, HeldIs DEF OwnerAt
  <2>3. CASE k = "user"
    BY <2>3, HeldIs DEF OwnerAt
  <2>4. CASE k = "cache"
    BY <2>1, <2>4, HeldIs, ZenonT(40) DEF OwnerAt
  <2>5. CASE k = "obj"
    BY <2>1, <2>5, HeldIs, ZenonT(40) DEF OwnerAt
  <2>6. CASE k = "batch"
    BY <2>1, <2>6, HeldIs, ZenonT(40) DEF OwnerAt
  <2> QED
    BY <1>1, <2>2, <2>3, <2>4, <2>5, <2>6
<1>2. CASE k = "chunk"
  <2>1. /\ count[t] \in Nat /\ allocated \in Nat /\ ChunkSize \in Nat
        /\ s \in Nat
    BY <1>2, ThreadHas, PoolHas, PoolAssumption DEF SharedTyped, Slots
  <2>2. (\E j \in count[t] + 1 .. ChunkSize : s = allocated - ChunkSize + j) <=>
          s \in allocated - ChunkSize + count[t] + 1 .. allocated
    <3>1. ASSUME s \in allocated - ChunkSize + count[t] + 1 .. allocated
          PROVE  \E j \in count[t] + 1 .. ChunkSize : s = allocated - ChunkSize + j
      <4> DEFINE j == s - allocated + ChunkSize
      <4>1. j \in count[t] + 1 .. ChunkSize /\ s = allocated - ChunkSize + j
        BY <2>1, <3>1
      <4> QED
        BY <4>1
    <3>2. ASSUME NEW j \in count[t] + 1 .. ChunkSize, s = allocated - ChunkSize + j
          PROVE  s \in allocated - ChunkSize + count[t] + 1 .. allocated
      BY <2>1, <3>2
    <3> QED
      BY <3>1, <3>2
  <2>3. (\E p : OwnerAt(p, s, t, "chunk")) <=>
          pc[t] = "fill" /\ \E j \in count[t] + 1 .. ChunkSize : s = allocated - ChunkSize + j
    BY DEF OwnerAt
  <2> QED
    BY <1>2, <2>2, <2>3, HeldIs
<1> QED
  BY <1>1, <1>2 DEF Places, Own

\* A place has at most one reference to a slot.
LEMMA OwnerOnce ==
  ASSUME PoolKept, OwnerInv, NEW s \in Slots, NEW t, NEW k \in Places,
         k \in Own => t \in Threads, NEW p, NEW q,
         OwnerAt(p, s, t, k), OwnerAt(q, s, t, k)
  PROVE  p = q
<1>1. IsInjective(free_queue)
  BY DEF OwnerInv, NoRepeats
<1>2. k \in Own => IsInjective(cache[t]) /\ IsInjective(obj[t]) /\ IsInjective(batch[t])
  BY DEF OwnerInv, NoRepeats
<1>3. CASE k = "queue"
  BY <1>1, <1>3 DEF OwnerAt, IsInjective
<1>4. CASE k = "user"
  BY <1>4 DEF OwnerAt
<1>5. CASE k = "cache"
  BY <1>2, <1>5 DEF OwnerAt, IsInjective, Own
<1>6. CASE k = "obj"
  BY <1>2, <1>6 DEF OwnerAt, IsInjective, Own
<1>7. CASE k = "batch"
  BY <1>2, <1>7 DEF OwnerAt, IsInjective, Own
<1>8. CASE k = "chunk"
  <2>0. t \in Threads
    BY <1>8 DEF Own
  <2>1. count[t] \in Nat /\ allocated \in Nat /\ ChunkSize \in Nat
    BY <2>0, ThreadHas, PoolHas, PoolAssumption DEF SharedTyped, Slots
  <2>2. PICK i \in count[t] + 1 .. ChunkSize :
          s = allocated - ChunkSize + i /\ p = <<t, "chunk", i>>
    BY <1>8 DEF OwnerAt
  <2>3. PICK j \in count[t] + 1 .. ChunkSize :
          s = allocated - ChunkSize + j /\ q = <<t, "chunk", j>>
    BY <1>8 DEF OwnerAt
  <2>4. i = j
    BY <2>1, <2>2, <2>3
  <2> QED
    BY <2>2, <2>3, <2>4
<1> QED
  BY <1>3, <1>4, <1>5, <1>6, <1>7, <1>8 DEF Places, Own

\* The invariant says that every allocated slot has one owner.
LEMMA OwnerInvOneOwner == PoolKept /\ OwnerInv => OneOwner
<1> SUFFICES ASSUME PoolKept, OwnerInv PROVE OneOwner
  OBVIOUS
<1>0. Apart /\ Covered /\ allocated \in 0 .. MaxSlots /\ MaxSlots \in Nat
  BY PoolHas, PoolAssumption DEF OwnerInv, SharedTyped
<1>1. /\ "queue" \in Places /\ "user" \in Places /\ Own \subseteq Places
      /\ "queue" \notin Own /\ "user" \notin Own /\ "queue" # "chunk" /\ "user" # "chunk"
  BY DEF Places, Own
<1>2. ASSUME NEW s \in Slots, NEW p \in Owners(s)
      PROVE  \E t, k : /\ OwnerAt(p, s, t, k) /\ k \in Places
                       /\ (k \in Own => t \in Threads) /\ s \in Held(t, k)
  <2>1. PICK t, k : OwnerAt(p, s, t, k) /\ k \in Places /\ (k \in Own => t \in Threads)
    BY <1>1, <1>2, OwnersAre
  <2>2. k = "chunk" => t \in Threads
    BY <2>1 DEF Own
  <2> QED
    BY <2>1, <2>2, OwnerIffHeld
<1>3. \A s \in Slots : \A p \in Owners(s) : s <= allocated
  <2> SUFFICES ASSUME NEW s \in Slots, NEW p \in Owners(s) PROVE s <= allocated
    OBVIOUS
  <2>1. PICK t, k : k \in Places /\ (k \in Own => t \in Threads) /\ s \in Held(t, k)
    BY <1>2
  <2>2. k \in Own \/ s \in Range(free_queue) \cup used
    BY <2>1, HeldIs DEF Places
  <2> QED
    BY <1>0, <2>1, <2>2 DEF Covered
<1>4. ASSUME NEW s \in Slots, s <= allocated PROVE \E p : p \in Owners(s)
  <2>1. \/ s \in Range(free_queue) \/ s \in used
        \/ \E t \in Threads, k \in Own : s \in Held(t, k)
    BY <1>0, <1>4 DEF Covered
  <2>2. CASE s \in Range(free_queue) \/ s \in used
    <3> DEFINE t == 0
    <3>1. s \in Held(t, "queue") \/ s \in Held(t, "user")
      BY <2>2, HeldIs
    <3> HIDE DEF t
    <3> QED
      BY <1>1, <3>1, OwnerIffHeld, OwnersAre
  <2>3. ASSUME NEW t \in Threads, NEW k \in Own, s \in Held(t, k)
        PROVE  \E p : p \in Owners(s)
    BY <1>1, <2>3, OwnerIffHeld, OwnersAre
  <2> QED
    BY <2>1, <2>2, <2>3
<1>5. ASSUME NEW s \in Slots, NEW p \in Owners(s), NEW q \in Owners(s) PROVE p = q
  <2>1. PICK t, k : /\ OwnerAt(p, s, t, k) /\ k \in Places
                    /\ (k \in Own => t \in Threads) /\ s \in Held(t, k)
    BY <1>2
  <2>2. PICK u, l : /\ OwnerAt(q, s, u, l) /\ l \in Places
                    /\ (l \in Own => u \in Threads) /\ s \in Held(u, l)
    BY <1>2
  <2>3. k = l /\ (k \in Own => t = u)
    <3>1. \A v, w, m : m \in Places /\ m \notin Own => Held(v, m) = Held(w, m)
      BY HeldIs DEF Places
    <3>2. CASE k \notin Own /\ l \notin Own
      <4>1. \A v, m : m \in Places /\ m \notin Own =>
                        (m = "queue" /\ Held(v, m) = Range(free_queue))
                          \/ (m = "user" /\ Held(v, m) = used)
        BY HeldIs DEF Places
      <4> QED
        BY <1>0, <2>1, <2>2, <3>2, <4>1 DEF Apart
    <3>3. CASE k \in Own
      <4>1. PICK v \in Threads : s \in Held(v, l) /\ (l \in Own => v = u)
        BY <2>1, <2>2, <3>1, <3>3
      <4> QED
        BY <1>0, <2>1, <2>2, <3>3, <4>1 DEF Apart
    <3>4. CASE l \in Own
      <4>1. PICK v \in Threads : s \in Held(v, k) /\ (k \in Own => v = t)
        BY <2>1, <2>2, <3>1, <3>4
      <4> QED
        BY <1>0, <2>1, <2>2, <3>4, <4>1 DEF Apart
    <3> QED
      BY <3>2, <3>3, <3>4
  <2>4. OwnerAt(q, s, t, k)
    <3>1. CASE k \in Own
      BY <2>2, <2>3, <3>1
    <3>2. CASE k \notin Own
      <4>1. k = "queue" \/ k = "user"
        BY <2>1, <3>2 DEF Places
      <4> QED
        BY <2>2, <2>3, <4>1 DEF OwnerAt
    <3> QED
      BY <3>1, <3>2
  <2> QED
    BY <2>1, <2>4, OwnerOnce
<1>6. ASSUME NEW s \in 1 .. allocated PROVE \E p \in Owners(s) : Owners(s) = {p}
  <2>1. s \in Slots /\ s <= allocated
    BY <1>0 DEF Slots
  <2>2. PICK p : p \in Owners(s)
    BY <1>4, <2>1
  <2>3. Owners(s) = {p}
    BY <1>5, <2>1, <2>2
  <2> QED
    BY <2>2, <2>3
<1>7. ASSUME NEW s \in allocated + 1 .. MaxSlots PROVE Owners(s) = {}
  <2>1. s \in Slots /\ ~(s <= allocated)
    BY <1>0 DEF Slots
  <2> QED
    BY <1>3, <2>1
<1> QED
  BY <1>6, <1>7 DEF OneOwner

\* Whatever the threads steal, return, fail to construct or allocate, every
\* slot obtained from operator new is at exactly one place: in the free queue,
\* in one cache, in one thread's hands or with one caller.  No slot is handed
\* out twice and none is lost.
THEOREM EverySlotOwned == Spec => []OneOwner
<1>1. PoolKept /\ OwnerInv /\ [Next]_vars => PoolKept' /\ OwnerInv'
  BY PoolStep, OwnerStep
<1>2. Init => PoolKept /\ OwnerInv
  BY PoolInit, OwnerInit
<1>3. PoolKept /\ OwnerInv => OneOwner
  BY OwnerInvOneOwner
<1> QED
  BY <1>1, <1>2, <1>3, PTL DEF Spec

=============================================================================
