------------------------------ MODULE ObjectPool ------------------------------
(***************************************************************************)
(* ObjectPool and ThreadLocalCache: slots of memory chunks that circulate  *)
(* between a shared lock-free free_queue_, one cache per thread and the    *)
(* callers.  Every operation on free_queue_, allocating_ or the chunk list *)
(* is one step; a thread's cache is its own, so work on it is merged with  *)
(* the shared step next to it.                                             *)
(*                                                                         *)
(* Slots are numbered in the order chunks are allocated.  MaxSlots bounds  *)
(* the memory: beyond it operator new throws.                              *)
(***************************************************************************)
EXTENDS Naturals, Sequences

CONSTANTS
  Threads,        \* threads that call acquire and release
  InitialCount,   \* Config::initial_count
  ChunkSize,      \* Config::chunk_size
  TlsCacheSize,   \* Config::tls_cache_size
  BatchSize,      \* Config::batch_size
  BufferSize,     \* DEFAULT_BATCH_SIZE, the length of the arrays on the stack
  Retries,        \* attempts while another thread allocates (20)
  MaxSlots,       \* slots the allocator can provide
  CtorMayThrow    \* may the constructor of T throw?

\* The repository builds every pool with the default Config (16 <= 32).
ASSUME PoolAssumption ==
  /\ InitialCount \in Nat /\ ChunkSize \in Nat \ {0}
  /\ TlsCacheSize \in Nat /\ BatchSize \in Nat \ {0} /\ BufferSize \in Nat
  /\ Retries \in Nat /\ MaxSlots \in Nat /\ InitialCount <= MaxSlots
  /\ BatchSize <= BufferSize /\ BatchSize - 1 <= TlsCacheSize
  /\ CtorMayThrow \in BOOLEAN

Slots == 1 .. MaxSlots

VARIABLES
  free_queue,       \* ObjectPool::free_queue_
  cache,            \* ThreadLocalCache::cache_ of each thread
  allocating,       \* ObjectPool::allocating_
  allocated,        \* slots of the chunks obtained so far
  total_allocated,  \* ObjectPool::total_allocated_
  used,             \* slots in the hands of callers
  pc,               \* where the thread is in acquire or release
  obj,              \* the slot it has in hand, as a sequence of at most one
  batch,            \* its local array of slots
  count             \* its loop counter

vars == <<free_queue, cache, allocating, allocated, total_allocated, used,
          pc, obj, batch, count>>

\* The constructor of the pool allocates the first chunk.
Init ==
  /\ free_queue = [i \in 1 .. InitialCount |-> i]
  /\ cache = [t \in Threads |-> <<>>]
  /\ allocating = FALSE
  /\ allocated = InitialCount /\ total_allocated = InitialCount
  /\ used = {}
  /\ pc = [t \in Threads |-> "idle"]
  /\ obj = [t \in Threads |-> <<>>]
  /\ batch = [t \in Threads |-> <<>>]
  /\ count = [t \in Threads |-> 0]

Front(s) == SubSeq(s, 1, Len(s) - 1)
Back(s)  == s[Len(s)]

Goto(t, l) == pc' = [pc EXCEPT ![t] = l]

\* free_queue_.pop(obj): into obj if there is a slot, to l1 then, else to l2.
PopInto(t, l1, l2) ==
  \/ /\ free_queue # <<>>
     /\ obj' = [obj EXCEPT ![t] = <<Head(free_queue)>>]
     /\ free_queue' = Tail(free_queue)
     /\ Goto(t, l1)
  \/ /\ free_queue = <<>>
     /\ Goto(t, l2)
     /\ UNCHANGED <<obj, free_queue>>

-----------------------------------------------------------------------------
(* acquire.                                                                *)

\* try_acquire takes the newest slot of the thread's own cache.
Acquire(t) ==
  /\ pc[t] = "idle"
  /\ \/ /\ cache[t] # <<>>
        /\ obj' = [obj EXCEPT ![t] = <<Back(cache[t])>>]
        /\ cache' = [cache EXCEPT ![t] = Front(@)]
        /\ Goto(t, "construct")
     \/ /\ cache[t] = <<>>
        /\ Goto(t, "pop")
        /\ UNCHANGED <<obj, cache>>
  /\ UNCHANGED <<free_queue, allocating, allocated, total_allocated, used,
                 batch, count>>

PopCentral(t) ==
  /\ pc[t] = "pop"
  /\ PopInto(t, "construct", "steal")
  /\ UNCHANGED <<cache, allocating, allocated, total_allocated, used, batch,
                 count>>

\* Faulty variant: the loop runs once more than the array is long.
StealOffByOne(t) ==
  /\ pc[t] = "steal" /\ Len(batch[t]) <= BatchSize /\ free_queue # <<>>
  /\ batch' = [batch EXCEPT ![t] = Append(@, Head(free_queue))]
  /\ free_queue' = Tail(free_queue)
  /\ UNCHANGED <<cache, allocating, allocated, total_allocated, used, pc, obj,
                 count>>

\* batch_steal_from_central: one turn of the loop.
Steal(t) ==
  /\ pc[t] = "steal" /\ Len(batch[t]) < BatchSize /\ free_queue # <<>>
  /\ batch' = [batch EXCEPT ![t] = Append(@, Head(free_queue))]
  /\ free_queue' = Tail(free_queue)
  /\ UNCHANGED <<cache, allocating, allocated, total_allocated, used, pc, obj,
                 count>>

\* ThreadLocalCache::add_batch: what does not fit is dropped.
AddBatch(c, objects) ==
  LET room == TlsCacheSize - Len(c)
  IN  c \o SubSeq(objects, 1, IF Len(objects) <= room THEN Len(objects) ELSE room)

\* Faulty variant: the slot that is returned is cached as well.
StealEndsKeepsFirst(t) ==
  /\ pc[t] = "steal" /\ free_queue = <<>> /\ batch[t] # <<>>
  /\ obj' = [obj EXCEPT ![t] = <<Head(batch[t])>>]
  /\ cache' = [cache EXCEPT ![t] = AddBatch(@, batch[t])]
  /\ batch' = [batch EXCEPT ![t] = <<>>]
  /\ Goto(t, "construct")
  /\ UNCHANGED <<free_queue, allocating, allocated, total_allocated, used,
                 count>>

\* The end of the loop: the first slot is the result, the rest is cached.
StealEnds(t) ==
  /\ pc[t] = "steal"
  /\ Len(batch[t]) = BatchSize \/ free_queue = <<>>
  /\ \/ /\ batch[t] = <<>>
        /\ Goto(t, "allocate")
        /\ UNCHANGED <<obj, cache, batch>>
     \/ /\ batch[t] # <<>>
        /\ obj' = [obj EXCEPT ![t] = <<Head(batch[t])>>]
        /\ cache' = [cache EXCEPT ![t] = AddBatch(@, Tail(batch[t]))]
        /\ batch' = [batch EXCEPT ![t] = <<>>]
        /\ Goto(t, "construct")
  /\ UNCHANGED <<free_queue, allocating, allocated, total_allocated, used,
                 count>>

\* Faulty variant: the previous value of the flag is ignored.
TestAndSetIgnored(t) ==
  /\ pc[t] = "allocate"
  /\ allocating' = TRUE
  /\ count' = [count EXCEPT ![t] = 0]
  /\ Goto(t, "new")
  /\ UNCHANGED <<free_queue, cache, allocated, total_allocated, used, obj,
                 batch>>

\* allocate_chunk: whoever sets the flag allocates, everybody else retries.
TestAndSet(t) ==
  /\ pc[t] = "allocate"
  /\ allocating' = TRUE
  /\ count' = [count EXCEPT ![t] = 0]
  /\ Goto(t, IF allocating THEN "retry" ELSE "new")
  /\ UNCHANGED <<free_queue, cache, allocated, total_allocated, used, obj,
                 batch>>

\* Faulty variant: the flag stays set when operator new throws.
NewChunkKeepsFlag(t) ==
  /\ pc[t] = "new"
  /\ \/ /\ allocated + ChunkSize <= MaxSlots
        /\ allocated' = allocated + ChunkSize
        /\ Goto(t, "fill")
     \/ /\ allocated + ChunkSize > MaxSlots
        /\ Goto(t, "retry")
        /\ UNCHANGED allocated
  /\ UNCHANGED <<free_queue, cache, allocating, total_allocated, used, obj,
                 batch, count>>

\* operator new: a chunk of slots, or an exception, which clears the flag.
NewChunk(t) ==
  /\ pc[t] = "new"
  /\ \/ /\ allocated + ChunkSize <= MaxSlots
        /\ allocated' = allocated + ChunkSize
        /\ Goto(t, "fill")
        /\ UNCHANGED allocating
     \/ /\ allocated + ChunkSize > MaxSlots
        /\ allocating' = FALSE
        /\ Goto(t, "retry")
        /\ UNCHANGED allocated
  /\ UNCHANGED <<free_queue, cache, total_allocated, used, obj, batch, count>>

\* One turn of the loop that pushes the slots of the new chunk.
Fill(t) ==
  /\ pc[t] = "fill" /\ count[t] < ChunkSize
  /\ free_queue' = Append(free_queue, allocated - ChunkSize + count[t] + 1)
  /\ count' = [count EXCEPT ![t] = @ + 1]
  /\ UNCHANGED <<cache, allocating, allocated, total_allocated, used, pc, obj,
                 batch>>

\* The chunk is linked and counted.
CountChunk(t) ==
  /\ pc[t] = "fill" /\ count[t] = ChunkSize
  /\ total_allocated' = total_allocated + ChunkSize
  /\ Goto(t, "clear")
  /\ UNCHANGED <<free_queue, cache, allocating, allocated, used, obj, batch,
                 count>>

ClearFlag(t) ==
  /\ pc[t] = "clear"
  /\ allocating' = FALSE
  /\ Goto(t, "popOwn")
  /\ UNCHANGED <<free_queue, cache, allocated, total_allocated, used, obj,
                 batch, count>>

\* The thread that allocated takes a slot, if the others have left one.
PopOwn(t) ==
  /\ pc[t] = "popOwn"
  /\ PopInto(t, "construct", "null")
  /\ UNCHANGED <<cache, allocating, allocated, total_allocated, used, batch,
                 count>>

Retry(t) ==
  /\ pc[t] = "retry" /\ count[t] < Retries
  /\ PopInto(t, "construct", "retry")
  /\ count' = [count EXCEPT ![t] = @ + 1]
  /\ UNCHANGED <<cache, allocating, allocated, total_allocated, used, batch>>

\* acquire returns a null pointer: after Retries attempts, or in PopOwn.
ReturnNull(t) ==
  /\ pc[t] = "null" \/ (pc[t] = "retry" /\ count[t] = Retries)
  /\ Goto(t, "idle")
  /\ UNCHANGED <<free_queue, cache, allocating, allocated, total_allocated,
                 used, obj, batch, count>>

\* Placement new; if it throws, the slot goes back to the free queue.
Construct(t) ==
  /\ pc[t] = "construct"
  /\ \/ /\ used' = used \cup {Head(obj[t])}
        /\ UNCHANGED free_queue
     \/ /\ CtorMayThrow
        /\ free_queue' = Append(free_queue, Head(obj[t]))
        /\ UNCHANGED used
  /\ obj' = [obj EXCEPT ![t] = <<>>]
  /\ Goto(t, "idle")
  /\ UNCHANGED <<cache, allocating, allocated, total_allocated, batch, count>>

-----------------------------------------------------------------------------
(* release, which any thread may call for a slot in use.                   *)

\* The slot goes to the cache of the releasing thread, or to the free queue
\* when that cache is full.
Release(t, s) ==
  /\ pc[t] = "idle" /\ s \in used
  /\ used' = used \ {s}
  /\ \/ /\ Len(cache[t]) < TlsCacheSize
        /\ cache' = [cache EXCEPT ![t] = Append(@, s)]
        /\ UNCHANGED free_queue
     \/ /\ Len(cache[t]) >= TlsCacheSize
        /\ free_queue' = Append(free_queue, s)
        /\ UNCHANGED cache
  /\ Goto(t, "released")
  /\ UNCHANGED <<allocating, allocated, total_allocated, obj, batch, count>>

\* Faulty variant: only a cache beyond its size would be returned.
ShouldBatchReturnNever(c) == Len(c) > TlsCacheSize

ShouldBatchReturn(c) == Len(c) > (TlsCacheSize * 3) \div 4

\* extract_batch: the newest slots leave the cache, newest first.
ExtractBatch(t) ==
  LET l == Len(cache[t])
      n == CHOOSE k \in {BatchSize, BufferSize, l} :
             k <= BatchSize /\ k <= BufferSize /\ k <= l IN
  /\ batch' = [batch EXCEPT ![t] = [i \in 1 .. n |-> cache[t][l + 1 - i]]]
  /\ cache' = [cache EXCEPT ![t] = SubSeq(@, 1, l - n)]

CheckBatchReturn(t) ==
  /\ pc[t] = "released"
  /\ \/ /\ ShouldBatchReturn(cache[t])
        /\ ExtractBatch(t)
        /\ Goto(t, "return")
     \/ /\ ~ShouldBatchReturn(cache[t])
        /\ Goto(t, "idle")
        /\ UNCHANGED <<batch, cache>>
  /\ UNCHANGED <<free_queue, allocating, allocated, total_allocated, used, obj,
                 count>>

\* batch_return_to_central: one turn of the loop.
BatchReturn(t) ==
  /\ pc[t] = "return"
  /\ \/ /\ batch[t] # <<>>
        /\ free_queue' = Append(free_queue, Head(batch[t]))
        /\ batch' = [batch EXCEPT ![t] = Tail(@)]
        /\ UNCHANGED pc
     \/ /\ batch[t] = <<>>
        /\ Goto(t, "idle")
        /\ UNCHANGED <<free_queue, batch>>
  /\ UNCHANGED <<cache, allocating, allocated, total_allocated, used, obj,
                 count>>

-----------------------------------------------------------------------------
\* A call that has begun goes on.
Step(t) ==
  \/ PopCentral(t) \/ Steal(t) \/ StealEnds(t) \/ TestAndSet(t) \/ NewChunk(t)
  \/ Fill(t) \/ CountChunk(t) \/ ClearFlag(t) \/ PopOwn(t) \/ Retry(t)
  \/ ReturnNull(t) \/ Construct(t) \/ CheckBatchReturn(t) \/ BatchReturn(t)

Next ==
  \E t \in Threads : Step(t) \/ Acquire(t) \/ \E s \in used : Release(t, s)

Spec == Init /\ [][Next]_vars

FairSpec == Spec /\ \A t \in Threads : WF_vars(Step(t))

-----------------------------------------------------------------------------
(* Properties.                                                             *)

Locations == {"idle", "pop", "steal", "allocate", "new", "fill", "clear",
              "popOwn", "retry", "null", "construct", "released", "return"}

\* The shape of every variable of the pool; caches and the arrays on the
\* stack stay within the sizes they were created with.
TypeOK ==
  /\ free_queue \in Seq(Slots)
  /\ cache \in [Threads -> Seq(Slots)]
  /\ allocating \in BOOLEAN
  /\ allocated \in 0 .. MaxSlots /\ total_allocated \in 0 .. MaxSlots
  /\ used \subseteq Slots
  /\ pc \in [Threads -> Locations]
  /\ obj \in [Threads -> Seq(Slots)]
  /\ batch \in [Threads -> Seq(Slots)]
  /\ count \in [Threads -> Nat]
  /\ \A t \in Threads : /\ Len(cache[t]) <= TlsCacheSize
                        /\ Len(obj[t]) <= 1 /\ Len(batch[t]) <= BufferSize

At(s, q) == {i \in DOMAIN q : q[i] = s}

\* Every place that refers to slot s, the unpushed rest of a new chunk too.
Owners(s) ==
       {<<"queue", i>> : i \in At(s, free_queue)}
  \cup {<<"user", u>> : u \in used \cap {s}}
  \cup UNION {    {<<t, "cache", i>> : i \in At(s, cache[t])}
             \cup {<<t, "obj", i>> : i \in At(s, obj[t])}
             \cup {<<t, "batch", i>> : i \in At(s, batch[t])}
             \cup {<<t, "chunk", k>> : k \in
                     {j \in count[t] + 1 .. ChunkSize :
                        pc[t] = "fill" /\ s = allocated - ChunkSize + j}}
             : t \in Threads}

\* Whatever the threads steal, return or fail to construct, every allocated
\* slot has exactly one owner: no slot is handed out twice and none is lost.
OneOwner ==
  /\ \A s \in 1 .. allocated : \E p \in Owners(s) : Owners(s) = {p}
  /\ \A s \in allocated + 1 .. MaxSlots : Owners(s) = {}

\* An idle thread keeps at most three quarters of a cache, so what it has
\* released beyond that is available to the other threads.
CacheGivesBack ==
  \A t \in Threads :
    pc[t] = "idle" => \/ Len(cache[t]) <= (TlsCacheSize * 3) \div 4
                      \/ Len(cache[t]) <= BatchSize - 1

Allocators == {t \in Threads : pc[t] \in {"new", "fill", "clear"}}

\* allocating_ is held by exactly one thread while it is set, and the chunks
\* are all counted whenever it is not.
AllocationExclusive ==
  /\ allocating => \E t \in Threads : Allocators = {t}
  /\ ~allocating => Allocators = {} /\ total_allocated = allocated

\* The flag never stays set, also when operator new throws.
FlagReleased == allocating ~> ~allocating

=============================================================================
