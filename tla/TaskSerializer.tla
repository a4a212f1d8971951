---------------------------- MODULE TaskSerializer ----------------------------
(***************************************************************************)
(* The task layer: TaskSerializer (a lock-free queue of tasks that are     *)
(* meant to run one at a time) and TaskDistributor (a lock-free queue of   *)
(* serializers that worker threads take turns to drain).                   *)
(*                                                                         *)
(* A boost::lockfree::queue is a sequence and each of its operations one   *)
(* atomic step; everything between two such operations of a thread is      *)
(* interleaved with the other threads.                                     *)
(*                                                                         *)
(* TaskDistributor.h declares g_task_distributor and                       *)
(* tl_process_task_serializer `static`: every translation unit has its own *)
(* object.  Copy[tu] names the object the unit tu uses, so that the same   *)
(* text covers the ordinary build (every unit its own) and a build in      *)
(* which units are merged.                                                 *)
(***************************************************************************)
EXTENDS Naturals, Sequences

CONSTANTS
  Threads,              \* threads that run WorkerThread::routine
  Serializers,          \* TaskSerializer objects (actors, the log handler)
  Tasks,                \* tasks that may be requested, each at most once
  NULL,                 \* nullptr
  Clear,                \* the task &TaskSerializer::clear of set_destroy
  MaxProcessTaskCount,  \* TaskDistributor::MAX_PROCESS_TASK_COUNT
  Copy,                 \* the object of the header's statics in each unit
  Nested,               \* may a running task request tasks?
  Destroyers            \* threads that may call set_destroy

\* The translation units that use the statics of TaskDistributor.h.
TUs == {"TaskSerializer", "TaskDistributor", "WorkerThread"}

Copies == {Copy[tu] : tu \in TUs}

AnyTask == Tasks \cup {Clear}

ASSUME TaskAssumption ==
  /\ NULL \notin Serializers /\ NULL \notin AnyTask /\ NULL \notin Copies
  /\ Clear \notin Tasks
  /\ MaxProcessTaskCount \in Nat \ {0}
  /\ DOMAIN Copy = TUs
  /\ Nested \in BOOLEAN
  /\ Destroyers \subseteq Threads

VARIABLES
  task_queue,        \* TaskSerializer::task_queue_
  state,             \* TaskSerializer::state_
  alive,             \* serializers not deleted yet
  serializer_queue,  \* TaskDistributor::serializer_queue_, per copy
  tl,                \* tl_process_task_serializer, per copy and thread
  push,              \* the thread's call of TaskSerializer::push
  proc,              \* its call of TaskDistributor::process_task_serializer
  destroy,           \* the serializer its set_destroy call is working on
  requested,         \* tasks created so far
  finished,          \* tasks whose invoke() has returned
  pushed, taken,     \* history: order of queue pushes, order of pops
  started,           \* history: order in which invoke() was called
  fault              \* how the program died, "none" while it lives

queues  == <<task_queue, serializer_queue>>
history == <<requested, finished, pushed, taken, started>>
vars    == <<task_queue, state, alive, serializer_queue, tl, push, proc,
             destroy, requested, finished, pushed, taken, started, fault>>

NoPush == [phase |-> "none", ser |-> NULL, task |-> NULL, wasEmpty |-> FALSE]

Idle == [phase |-> "idle", dist |-> NULL, count |-> 0, task |-> NULL,
         trigger |-> NULL]

\* The serializer a thread is processing, as TaskDistributor.cc sees it.
Current(t) == tl[Copy["TaskDistributor"]][t]

Init ==
  /\ task_queue = [s \in Serializers |-> <<>>]
  /\ state = [s \in Serializers |-> "RUNNING"]
  /\ alive = Serializers
  /\ serializer_queue = [c \in Copies |-> <<>>]
  /\ tl = [c \in Copies |-> [t \in Threads |-> NULL]]
  /\ push = [t \in Threads |-> NoPush]
  /\ proc = [t \in Threads |-> Idle]
  /\ destroy = [t \in Threads |-> NULL]
  /\ requested = {} /\ finished = {}
  /\ pushed = [s \in Serializers |-> <<>>]
  /\ taken = [s \in Serializers |-> <<>>]
  /\ started = [s \in Serializers |-> <<>>]
  /\ fault = "none"

-----------------------------------------------------------------------------
(* Callers: request_task and set_destroy.                                  *)

BeginPush(t, s, k) ==
  push' = [push EXCEPT ![t] =
             [phase |-> "empty", ser |-> s, task |-> k, wasEmpty |-> FALSE]]

\* Handlers request tasks between the steps of the worker loop; tasks may
\* request more tasks while they run.
MayRequest(t) ==
  /\ push[t].phase = "none" /\ destroy[t] = NULL
  /\ \/ proc[t].phase = "idle"
     \/ Nested /\ proc[t].phase = "invoke" /\ proc[t].task # Clear

\* A request on a serializer that is not RUNNING returns at once.
RequestTask(t, s, k) ==
  /\ MayRequest(t)
  /\ s \in alive /\ state[s] = "RUNNING"
  /\ k \notin requested
  /\ requested' = requested \cup {k}
  /\ BeginPush(t, s, k)
  /\ UNCHANGED <<queues, state, alive, tl, proc, destroy, finished, pushed,
                 taken, started, fault>>

SetDestroy(t, s) ==
  /\ t \in Destroyers /\ MayRequest(t) /\ proc[t].phase = "idle"
  /\ s \in alive
  /\ destroy' = [destroy EXCEPT ![t] = s]
  /\ IF state[s] = "RUNNING" THEN BeginPush(t, s, Clear) ELSE UNCHANGED push
  /\ UNCHANGED <<queues, state, alive, tl, proc, history, fault>>

\* The last statement of set_destroy, after request_task has returned.
StoreDestroying(t) ==
  /\ destroy[t] # NULL /\ destroy[t] \in alive
  /\ push[t].phase = "none" /\ proc[t].phase = "idle"
  /\ state' = [state EXCEPT ![destroy[t]] = "DESTROYING"]
  /\ destroy' = [destroy EXCEPT ![t] = NULL]
  /\ UNCHANGED <<queues, alive, tl, push, proc, history, fault>>

-----------------------------------------------------------------------------
(* TaskSerializer::push.                                                   *)

CheckEmpty(t) ==
  /\ push[t].phase = "empty" /\ push[t].ser \in alive
  /\ push' = [push EXCEPT ![t].phase = "push",
                          ![t].wasEmpty = (task_queue[push[t].ser] = <<>>)]
  /\ UNCHANGED <<queues, state, alive, tl, proc, destroy, history, fault>>

PushTask(t) ==
  LET s == push[t].ser IN
  /\ push[t].phase = "push" /\ s \in alive
  /\ task_queue' = [task_queue EXCEPT ![s] = Append(@, push[t].task)]
  /\ pushed' = [pushed EXCEPT ![s] = Append(@, push[t].task)]
  /\ push' = [push EXCEPT ![t] = IF push[t].wasEmpty
                                 THEN [push[t] EXCEPT !.phase = "schedule"]
                                 ELSE NoPush]
  /\ UNCHANGED <<state, alive, serializer_queue, tl, proc, destroy, requested,
                 finished, taken, started, fault>>

\* process_task_serializer(s) is entered on distributor d; its assertion
\* stops the program if the thread is already processing a serializer.
BeginProcess(t, d, s, trigger) ==
  IF Current(t) # NULL
  THEN /\ fault' = "assert_tl"
       /\ UNCHANGED <<tl, proc>>
  ELSE /\ tl' = [tl EXCEPT ![Copy["TaskDistributor"]][t] = s]
       /\ proc' = [proc EXCEPT ![t] = [phase |-> "pop", dist |-> d,
                     count |-> 0, task |-> NULL, trigger |-> trigger]]
       /\ UNCHANGED fault

\* push() saw an empty queue and, by the copy it looks at, this thread
\* processes nothing: do it here.  It does not get past the assertion if the
\* thread does process a serializer.
ProcessHere(t) ==
  /\ push[t].phase = "schedule"
  /\ tl[Copy["TaskSerializer"]][t] = NULL
  /\ BeginProcess(t, Copy["TaskSerializer"], push[t].ser, push[t].task)
  /\ push' = [push EXCEPT ![t] = IF Current(t) = NULL THEN NoPush ELSE @]
  /\ UNCHANGED <<queues, state, alive, destroy, history>>

AddTaskSerializer(t) ==
  LET d == Copy["TaskSerializer"] IN
  /\ push[t].phase = "schedule"
  /\ tl[d][t] # NULL
  /\ serializer_queue' = [serializer_queue EXCEPT ![d] =
                            Append(@, push[t].ser)]
  /\ push' = [push EXCEPT ![t] = NoPush]
  /\ UNCHANGED <<task_queue, state, alive, tl, proc, destroy, history, fault>>

-----------------------------------------------------------------------------
(* TaskDistributor::process_task_serializer.                               *)

\* The parameterless overload, called once per turn of the worker loop: it
\* takes a serializer from the distributor WorkerThread.cc sees, if any.  (Its
\* assertion is the one BeginProcess makes.)
Poll(t) ==
  LET d == Copy["WorkerThread"] IN
  /\ push[t].phase = "none" /\ proc[t].phase = "idle" /\ destroy[t] = NULL
  /\ \/ /\ serializer_queue[d] # <<>>
        /\ serializer_queue' = [serializer_queue EXCEPT ![d] = Tail(@)]
        /\ BeginProcess(t, d, Head(serializer_queue[d]), NULL)
     \/ /\ serializer_queue[d] = <<>>
        /\ UNCHANGED <<serializer_queue, tl, proc, fault>>
  /\ UNCHANGED <<task_queue, state, alive, push, destroy, history>>

PopTask(t) ==
  LET s == Current(t) IN
  /\ proc[t].phase = "pop" /\ s \in alive
  /\ IF task_queue[s] = <<>>
     THEN /\ proc' = [proc EXCEPT ![t].phase = "state"]
          /\ UNCHANGED <<task_queue, taken>>
     ELSE /\ proc' = [proc EXCEPT ![t].phase = "start",
                                  ![t].task = Head(task_queue[s])]
          /\ task_queue' = [task_queue EXCEPT ![s] = Tail(@)]
          /\ taken' = [taken EXCEPT ![s] = Append(@, Head(task_queue[s]))]
  /\ UNCHANGED <<state, alive, serializer_queue, tl, push, destroy,
                 requested, finished, pushed, started, fault>>

\* Faulty variant: the limit is looked at between pop() and invoke(), and the
\* task in hand is put back.
InvokeChecksLimit(t) ==
  LET s == Current(t) IN
  /\ proc[t].phase = "start"
  /\ IF proc[t].count + 1 >= MaxProcessTaskCount
     THEN /\ task_queue' = [task_queue EXCEPT ![s] = Append(@, proc[t].task)]
          /\ proc' = [proc EXCEPT ![t].phase = "state", ![t].task = NULL]
          /\ UNCHANGED started
     ELSE /\ proc' = [proc EXCEPT ![t].phase = "invoke"]
          /\ started' = [started EXCEPT ![s] = Append(@, proc[t].task)]
          /\ UNCHANGED task_queue
  /\ UNCHANGED <<serializer_queue, state, alive, tl, push, destroy, requested,
                 finished, pushed, taken, fault>>

\* The task in hand is invoked; meanwhile other threads may have taken and
\* invoked later ones.
Invoke(t) ==
  /\ proc[t].phase = "start"
  /\ proc' = [proc EXCEPT ![t].phase = "invoke"]
  /\ started' = [started EXCEPT ![Current(t)] = Append(@, proc[t].task)]
  /\ UNCHANGED <<queues, state, alive, tl, push, destroy, requested, finished,
                 pushed, taken, fault>>

\* Faulty variants: the limit is off by one; the loop ends after one task.
AfterInvokeOffByOne(t) ==
  proc' = [proc EXCEPT
             ![t].count = @ + 1, ![t].task = NULL,
             ![t].phase = IF proc[t].count > MaxProcessTaskCount
                          THEN "state" ELSE "pop"]

AfterInvokeOnce(t) ==
  proc' = [proc EXCEPT ![t].count = @ + 1, ![t].task = NULL,
                       ![t].phase = "state"]

\* process_count++ after invoke(), and the check of the limit.
AfterInvoke(t) ==
  proc' = [proc EXCEPT
             ![t].count = @ + 1,
             ![t].task  = NULL,
             ![t].phase = IF proc[t].count + 1 >= MaxProcessTaskCount
                          THEN "state" ELSE "pop"]

TaskDone(t) ==
  /\ proc[t].phase = "invoke" /\ proc[t].task # Clear
  /\ push[t].phase = "none"
  /\ finished' = finished \cup {proc[t].task}
  /\ AfterInvoke(t)
  /\ UNCHANGED <<queues, state, alive, tl, push, destroy, requested, pushed,
                 taken, started, fault>>

\* What clear() does to a queue that is not empty: a task that is still queued
\* has a reference count of zero, so releasing it fails RefCountable's
\* assertion; and if another thread takes it between empty() and pop(), the
\* pointer that is released has no value.
ClearFaults == {"assert_ref_count", "uninitialized"}

\* TaskSerializer::clear run as a task.
RunClear(t) ==
  LET s == Current(t) IN
  /\ proc[t].phase = "invoke" /\ proc[t].task = Clear /\ s \in alive
  /\ IF task_queue[s] = <<>>
     THEN /\ state' = [state EXCEPT ![s] = "DESTROYED"]
          /\ AfterInvoke(t)
          /\ UNCHANGED fault
     ELSE /\ fault' \in ClearFaults
          /\ UNCHANGED <<state, proc>>
  /\ UNCHANGED <<queues, alive, tl, push, destroy, history>>

\* Faulty variant: the thread-local is not reset.
ReturnKeepsPointer(t) ==
  /\ proc' = [proc EXCEPT ![t] = Idle]
  /\ UNCHANGED tl

\* The call returns: the thread-local is reset.
Return(t) ==
  /\ tl' = [tl EXCEPT ![Copy["TaskDistributor"]][t] = NULL]
  /\ proc' = [proc EXCEPT ![t] = Idle]

\* Faulty variant: a serializer is deleted without a look at its queue.
CheckStateDeletes(t) ==
  LET s == Current(t) IN
  /\ proc[t].phase = "state" /\ s \in alive
  /\ \/ /\ state[s] # "DESTROYED"
        /\ proc' = [proc EXCEPT ![t].phase = "empty"]
        /\ UNCHANGED <<alive, tl>>
     \/ /\ state[s] = "DESTROYED"
        /\ alive' = alive \ {s}
        /\ Return(t)
  /\ UNCHANGED <<queues, state, push, destroy, history, fault>>

\* Deleting a serializer runs its destructor, which calls clear() again.
CheckState(t) ==
  LET s == Current(t) IN
  /\ proc[t].phase = "state" /\ s \in alive
  /\ \/ /\ state[s] # "DESTROYED"
        /\ proc' = [proc EXCEPT ![t].phase = "empty"]
        /\ UNCHANGED <<alive, tl, fault>>
     \/ /\ state[s] = "DESTROYED" /\ task_queue[s] = <<>>
        /\ alive' = alive \ {s}
        /\ Return(t)
        /\ UNCHANGED fault
     \/ /\ state[s] = "DESTROYED" /\ task_queue[s] # <<>>
        /\ fault' \in ClearFaults
        /\ UNCHANGED <<alive, tl, proc>>
  /\ UNCHANGED <<queues, state, push, destroy, history>>

CheckRequeue(t) ==
  LET s == Current(t) IN
  /\ proc[t].phase = "empty" /\ s \in alive
  /\ IF task_queue[s] = <<>>
     THEN Return(t)
     ELSE /\ proc' = [proc EXCEPT ![t].phase = "requeue"]
          /\ UNCHANGED tl
  /\ UNCHANGED <<queues, state, alive, push, destroy, history, fault>>

Requeue(t) ==
  /\ proc[t].phase = "requeue"
  /\ serializer_queue' = [serializer_queue EXCEPT ![proc[t].dist] =
                            Append(@, Current(t))]
  /\ Return(t)
  /\ UNCHANGED <<task_queue, state, alive, push, destroy, history, fault>>

-----------------------------------------------------------------------------
\* The serializer the thread's next step reads or writes, NULL if none.
Touches(t) ==
  CASE push[t].phase \in {"empty", "push"} -> push[t].ser
    [] push[t].phase = "schedule" -> NULL
    [] proc[t].phase \in {"pop", "state", "empty"} -> Current(t)
    [] proc[t].phase = "invoke" /\ proc[t].task = Clear -> Current(t)
    [] proc[t].phase = "idle" -> destroy[t]
    [] OTHER -> NULL

\* A step on a deleted serializer is undefined behaviour: the model stops.
UseAfterFree(t) ==
  /\ Touches(t) # NULL /\ Touches(t) \notin alive
  /\ fault' = "use_after_free"
  /\ UNCHANGED <<queues, state, alive, tl, push, proc, destroy, history>>

\* What a thread does on its own, once a caller has made a request.
Step(t) ==
  /\ fault = "none"
  /\ \/ StoreDestroying(t) \/ CheckEmpty(t) \/ PushTask(t) \/ ProcessHere(t)
     \/ AddTaskSerializer(t) \/ Poll(t) \/ PopTask(t) \/ Invoke(t)
     \/ TaskDone(t) \/ RunClear(t) \/ CheckState(t) \/ CheckRequeue(t) \/ Requeue(t)
     \/ UseAfterFree(t)

Request(t) ==
  /\ fault = "none"
  /\ \E s \in Serializers :
       \/ \E k \in Tasks : RequestTask(t, s, k)
       \/ SetDestroy(t, s)

Next == \E t \in Threads : Step(t) \/ Request(t)

Spec == Init /\ [][Next]_vars

\* The operating system runs every thread; nobody is obliged to make requests.
FairSpec == Spec /\ \A t \in Threads : WF_vars(Step(t))

-----------------------------------------------------------------------------
(* Properties.                                                             *)

PushCalls ==
  [phase : {"none", "empty", "push", "schedule"}, ser : Serializers \cup {NULL},
   task : AnyTask \cup {NULL}, wasEmpty : BOOLEAN]

ProcessCalls ==
  [phase : {"idle", "pop", "start", "invoke", "state", "empty", "requeue"},
   dist : Copies \cup {NULL}, count : 0 .. MaxProcessTaskCount,
   task : AnyTask \cup {NULL}, trigger : AnyTask \cup {NULL}]

InPush(t) ==
  push[t].phase # "none" => push[t].ser # NULL /\ push[t].task # NULL

InProcess(t) ==
  /\ proc[t].phase = "idle" <=> Current(t) = NULL
  /\ proc[t].phase # "idle" => proc[t].dist # NULL
  /\ proc[t].phase \in {"start", "invoke"} => proc[t].task # NULL
  /\ proc[t].phase \in {"pop", "start", "invoke"}
       => proc[t].count < MaxProcessTaskCount

\* The shape of every variable of the task layer: a thread inside push() has
\* a serializer and a task, one inside process_task_serializer has a
\* serializer and a distributor, and takes a task only below the limit.
TypeOK ==
  /\ task_queue \in [Serializers -> Seq(AnyTask)]
  /\ state \in [Serializers -> {"RUNNING", "DESTROYING", "DESTROYED"}]
  /\ alive \subseteq Serializers
  /\ serializer_queue \in [Copies -> Seq(Serializers)]
  /\ tl \in [Copies -> [Threads -> Serializers \cup {NULL}]]
  /\ push \in [Threads -> PushCalls]
  /\ proc \in [Threads -> ProcessCalls]
  /\ \A t \in Threads : InPush(t) /\ InProcess(t)
  /\ destroy \in [Threads -> Serializers \cup {NULL}]
  /\ requested \subseteq Tasks /\ finished \subseteq Tasks
  /\ pushed \in [Serializers -> Seq(AnyTask)]
  /\ taken \in [Serializers -> Seq(AnyTask)]
  /\ started \in [Serializers -> Seq(AnyTask)]
  /\ fault \in {"none", "assert_tl", "use_after_free"} \cup ClearFaults

In(k, q) == \E i \in 1 .. Len(q) : q[i] = k

\* A thread has taken task k of serializer s and is about to invoke it.
AboutToStart(k, s) ==
  \E t \in Threads :
    proc[t].phase = "start" /\ Current(t) = s /\ proc[t].task = k

\* However many threads push to and drain a serializer at once, no task is
\* invoked twice, and a task overtakes an earlier one only while the thread
\* that took the earlier one is between pop() and invoke(): a started task has
\* no earlier task left in the queue or lost.
StartOrder ==
  \A s \in Serializers :
    /\ \A i, j \in DOMAIN started[s] :
         started[s][i] = started[s][j] /\ started[s][i] \in Tasks => i = j
    /\ \A i, j \in DOMAIN pushed[s] :
         i < j /\ pushed[s][j] \in Tasks /\ In(pushed[s][j], started[s]) =>
           In(pushed[s][i], started[s]) \/ AboutToStart(pushed[s][i], s)

\* A request_task call that drains the serializer itself does not leave the
\* loop of process_task_serializer before its own task was taken from the
\* queue, by it or by another thread, unless it gives up at
\* MAX_PROCESS_TASK_COUNT tasks.
DrainedOnReturn ==
  \A t \in Threads :
    /\ proc[t].phase \in {"state", "empty", "requeue"}
    /\ proc[t].trigger # NULL
    /\ proc[t].count < MaxProcessTaskCount
    => In(proc[t].trigger, taken[Current(t)])

\* Deleting a serializer never discards a queued task silently: whatever was
\* pushed to it was invoked or is about to be (the assertion in RefCountable
\* fires otherwise).
DeletionLosesNothing ==
  \A s \in Serializers \ alive : \A i \in DOMAIN pushed[s] :
    In(pushed[s][i], started[s]) \/ AboutToStart(pushed[s][i], s)

\* A task that t is running has requested another, of a serializer whose
\* queue was empty.
RequestsWhileRunning(t) ==
  proc[t].phase = "invoke" /\ push[t].phase = "schedule"

\* The ways the task layer can fail, and no others: the assertion about the
\* thread-local fails only under a task that requests a task of an empty
\* serializer; a task without a reference is released, or a deleted serializer
\* used, only if set_destroy was called.
FaultsHaveCause ==
  /\ fault = "assert_tl" => \E t \in Threads : RequestsWhileRunning(t)
  /\ fault \in ClearFaults \cup {"use_after_free"} =>
       \E s \in Serializers : In(Clear, pushed[s])

\* No assertion of the task layer fails and no deleted serializer is used.
NoFault == fault = "none"

Executing(t, s) == proc[t].phase = "invoke" /\ Current(t) = s

\* The promise of the class: a serializer's tasks never run concurrently.
SerialExecution ==
  \A s \in Serializers : \A t, u \in Threads :
    Executing(t, s) /\ Executing(u, s) => t = u

\* Every task accepted by request_task is eventually executed.
AllExecuted ==
  \A k \in Tasks : k \in requested ~> k \in finished

=============================================================================
