-------------------------------- MODULE IORing --------------------------------
(***************************************************************************)
(* The I/O half of a worker thread: IORequestQueue (a lock-free queue of   *)
(* requested operations in front of an io_uring), IOCompletion, the life   *)
(* of a pooled IOOperation, and the loop of WorkerThread::routine that     *)
(* drives them.  What an operation does is left to the caller; Service.tla *)
(* adds it.                                                                *)
(*                                                                         *)
(* io_uring is external: a submission queue of QueueDepth entries, the     *)
(* operations the kernel has accepted, and a completion queue.             *)
(***************************************************************************)
EXTENDS Naturals, Sequences, FiniteSets

CONSTANTS
  Workers,     \* worker threads, each with its own IORequestQueue
  Ops,         \* IOOperation objects
  Results,     \* what a completion may report
  Closing,     \* operations whose request_io submits (IOOperationClose)
  QueueDepth   \* entries of a submission queue

ASSUME RingAssumption ==
  /\ QueueDepth \in Nat \ {0}
  /\ Closing \subseteq Ops

VARIABLES
  live,           \* operations acquired from the pool and not yet released
  request_queue,  \* IORequestQueue::request_queue_
  sq,             \* submission entries prepared and not yet submitted
  inflight,       \* operations the kernel is working on
  cq,             \* completion queue entries not yet marked seen
  holding,        \* does the routine hold the first entry of cq?
  pc,             \* where the worker is in WorkerThread::routine
  fault           \* set when a null submission entry is used

ringVars == <<live, request_queue, sq, inflight, cq, holding, pc, fault>>

RingInit ==
  /\ live = {}
  /\ request_queue = [w \in Workers |-> <<>>]
  /\ sq = [w \in Workers |-> <<>>]
  /\ inflight = [w \in Workers |-> {}]
  /\ cq = [w \in Workers |-> <<>>]
  /\ holding = [w \in Workers |-> FALSE]
  /\ pc = [w \in Workers |-> "wait"]
  /\ fault = FALSE

SeqToSet(s) == {s[i] : i \in DOMAIN s}

-----------------------------------------------------------------------------
\* Service::request_io<T>: the operation is acquired, referenced once, and
\* pushed to the queue of worker w.
PushRequest(w, op) ==
  /\ live' = live \cup {op}
  /\ request_queue' = [request_queue EXCEPT ![w] = Append(@, op)]

\* Faulty variant: wait_one(-1), which waits for a completion.
WaitOneBlocks(w) ==
  /\ pc[w] = "wait" /\ cq[w] # <<>>
  /\ holding' = [holding EXCEPT ![w] = TRUE]
  /\ pc' = [pc EXCEPT ![w] = "handle"]
  /\ UNCHANGED <<live, request_queue, sq, inflight, cq, fault>>

\* wait_one(0) takes a completion if there is one and never blocks.
WaitOne(w) ==
  /\ pc[w] = "wait"
  /\ holding' = [holding EXCEPT ![w] = (cq[w] # <<>>)]
  /\ pc' = [pc EXCEPT ![w] = IF cq[w] # <<>> THEN "handle" ELSE "flush"]
  /\ UNCHANGED <<live, request_queue, sq, inflight, cq, fault>>

\* handle_completion() calls the operation back, then the loop goes on.
Handled(w) ==
  /\ pc[w] = "handle"
  /\ pc' = [pc EXCEPT ![w] = "flush"]
  /\ UNCHANGED <<sq, inflight, cq, holding, fault>>

\* flush_requests() returns at once, without submitting, on an empty queue.
BeginFlush(w) ==
  /\ pc[w] = "flush"
  /\ pc' = [pc EXCEPT ![w] = IF request_queue[w] = <<>> THEN "tasks"
                                                        ELSE "prepare"]
  /\ UNCHANGED <<live, request_queue, sq, inflight, cq, holding, fault>>

\* One turn of the flush loop: request_io() of the operation takes a
\* submission entry; io_uring_get_sqe returns null when none is left.
Prepare(w) ==
  LET op == Head(request_queue[w]) IN
  /\ pc[w] = "prepare" /\ request_queue[w] # <<>>
  /\ request_queue' = [request_queue EXCEPT ![w] = Tail(@)]
  /\ \/ /\ Len(sq[w]) < QueueDepth /\ op \notin Closing
        /\ sq' = [sq EXCEPT ![w] = Append(@, op)]
        /\ UNCHANGED <<inflight, fault>>
     \/ /\ Len(sq[w]) < QueueDepth /\ op \in Closing
        /\ sq' = [sq EXCEPT ![w] = <<>>]
        /\ inflight' = [inflight EXCEPT ![w] = @ \cup SeqToSet(sq[w]) \cup {op}]
        /\ UNCHANGED fault
     \/ /\ Len(sq[w]) = QueueDepth
        /\ fault' = TRUE
        /\ UNCHANGED <<sq, inflight>>
  /\ UNCHANGED <<live, cq, holding, pc>>

\* Faulty variant: the flush submits only when the ring is full, and leaves the
\* entries of a small batch for a later turn.
SubmitLate(w) ==
  /\ pc[w] = "prepare" /\ request_queue[w] = <<>>
  /\ IF Len(sq[w]) = QueueDepth
     THEN /\ sq' = [sq EXCEPT ![w] = <<>>]
          /\ inflight' = [inflight EXCEPT ![w] = @ \cup SeqToSet(sq[w])]
     ELSE UNCHANGED <<sq, inflight>>
  /\ pc' = [pc EXCEPT ![w] = "tasks"]
  /\ UNCHANGED <<live, request_queue, cq, holding, fault>>

\* The queue is empty: the flush ends with io_uring_submit.
Submit(w) ==
  /\ pc[w] = "prepare" /\ request_queue[w] = <<>>
  /\ sq' = [sq EXCEPT ![w] = <<>>]
  /\ inflight' = [inflight EXCEPT ![w] = @ \cup SeqToSet(sq[w])]
  /\ pc' = [pc EXCEPT ![w] = "tasks"]
  /\ UNCHANGED <<live, request_queue, cq, holding, fault>>

\* Faulty variant: the entry is not marked seen.
RetireUnseen(w) ==
  /\ pc[w] = "tasks"
  /\ pc' = [pc EXCEPT ![w] = "wait"]
  /\ holding' = [holding EXCEPT ![w] = FALSE]
  /\ live' = IF holding[w] THEN live \ {Head(cq[w]).op} ELSE live
  /\ UNCHANGED <<request_queue, sq, inflight, cq, fault>>

\* The end of the routine: after the task layer had its turn, ~IOCompletion
\* marks the entry seen and drops the reference it adopted, so the operation
\* goes back to the pool.
Retire(w) ==
  /\ pc[w] = "tasks"
  /\ pc' = [pc EXCEPT ![w] = "wait"]
  /\ holding' = [holding EXCEPT ![w] = FALSE]
  /\ IF holding[w]
     THEN /\ cq' = [cq EXCEPT ![w] = Tail(@)]
          /\ live' = live \ {Head(cq[w]).op}
     ELSE UNCHANGED <<cq, live>>
  /\ UNCHANGED <<request_queue, sq, inflight, fault>>

\* The kernel finishes an operation.
Complete(w, op, res) ==
  /\ op \in inflight[w]
  /\ inflight' = [inflight EXCEPT ![w] = @ \ {op}]
  /\ cq' = [cq EXCEPT ![w] = Append(@, [op |-> op, res |-> res])]
  /\ UNCHANGED <<live, request_queue, sq, holding, pc, fault>>

-----------------------------------------------------------------------------
\* The ring on its own: any worker's queue may be handed any fresh operation.
Request(w, op) ==
  /\ op \notin live
  /\ PushRequest(w, op)
  /\ UNCHANGED <<sq, inflight, cq, holding, pc, fault>>

Handle(w) == Handled(w) /\ UNCHANGED <<live, request_queue>>

Worker(w) ==
  /\ ~fault
  /\ \/ WaitOne(w) \/ Handle(w) \/ BeginFlush(w) \/ Prepare(w) \/ Submit(w)
     \/ Retire(w)

Kernel(w) ==
  /\ ~fault
  /\ \E op \in inflight[w], res \in Results : Complete(w, op, res)

RingNext ==
  \E w \in Workers :
    \/ Worker(w)
    \/ Kernel(w)
    \/ ~fault /\ \E op \in Ops : Request(w, op)

RingSpec == RingInit /\ [][RingNext]_ringVars

-----------------------------------------------------------------------------
(* Properties.                                                             *)

\* The shape of every variable of the ring; the routine holds an entry only
\* while there is one, and no ring has more entries than its depth.
RingTypeOK ==
  /\ live \subseteq Ops
  /\ request_queue \in [Workers -> Seq(Ops)]
  /\ sq \in [Workers -> Seq(Ops)]
  /\ inflight \in [Workers -> SUBSET Ops]
  /\ cq \in [Workers -> Seq([op : Ops, res : Results])]
  /\ holding \in [Workers -> BOOLEAN]
  /\ pc \in [Workers -> {"wait", "handle", "flush", "prepare", "tasks"}]
  /\ fault \in BOOLEAN
  /\ \A w \in Workers : /\ holding[w] => cq[w] # <<>>
                        /\ Len(sq[w]) <= QueueDepth

\* Every reference the program or the kernel keeps to an operation.
References(op) ==
  UNION {    {<<w, "queued", i>> : i \in {j \in DOMAIN request_queue[w] :
                                            request_queue[w][j] = op}}
        \cup {<<w, "prepared", i>> : i \in {j \in DOMAIN sq[w] : sq[w][j] = op}}
        \cup {<<w, "kernel", 0>> : x \in inflight[w] \cap {op}}
        \cup {<<w, "completed", i>> : i \in {j \in DOMAIN cq[w] :
                                              cq[w][j].op = op}} : w \in Workers}

\* An operation is out of the pool exactly as long as one queue, submission
\* entry, kernel request or completion refers to it, and never two of them:
\* the raw pointer handed to the ring as user data is neither released early,
\* nor submitted twice, nor forgotten.
OneReference ==
  ~fault => \A op \in Ops :
              IF op \in live THEN \E p \in References(op) : References(op) = {p}
                             ELSE References(op) = {}

Submitted(op) == \E w \in Workers : op \in inflight[w] \/ \E i \in DOMAIN cq[w] :
                                                            cq[w][i].op = op

\* Operations out of the pool that the kernel has not been given.
Unsubmitted == {op \in live : ~Submitted(op)}

\* A null submission entry, which no request_io checks for, is only met in the
\* middle of a flush that took more operations from its queue than the ring has
\* entries: a flush leaves no entry unsubmitted behind, and the operations the
\* kernel works on, however many, take no entry away.
NullEntryNeedsBurst ==
  /\ \A w \in Workers : pc[w] # "prepare" => sq[w] = <<>>
  /\ fault => \E w \in Workers : /\ pc[w] = "prepare" /\ Len(sq[w]) = QueueDepth
                                /\ Cardinality(Unsubmitted) > QueueDepth

\* A requested operation reaches the kernel even if no completion ever
\* arrives: wait_one(0) does not block the loop in front of flush_requests.
RequestReachesKernel ==
  \A op \in Ops : op \in live ~> Submitted(op) \/ fault

=============================================================================
