------------------------- MODULE TaskSerializerProofs -------------------------
(***************************************************************************)
(* Theorems about TaskSerializer, for any number of threads, serializers   *)
(* and tasks, any limit, and either layout of the header's statics.        *)
(***************************************************************************)
EXTENDS TaskSerializer, SequenceTheorems, TLAPS

\* Every translation unit finds its object of the header's statics.
LEMMA CopyOK ==
  /\ Copy["TaskSerializer"] \in Copies
  /\ Copy["TaskDistributor"] \in Copies
  /\ Copy["WorkerThread"] \in Copies
BY DEF Copies, TUs

-----------------------------------------------------------------------------
(* Type correctness.                                                       *)

\* The initial state has the right shape.
LEMMA InitType == Init => TypeOK
BY TaskAssumption, CopyOK
DEF Init, TypeOK, NoPush, Idle, AnyTask, Current, PushCalls, ProcessCalls,
    InPush, InProcess

\* Updates of the record of a push() call.
LEMMA PushCallUpdate ==
  ASSUME NEW r \in PushCalls, NEW e \in BOOLEAN
  PROVE  /\ [r EXCEPT !.phase = "push", !.wasEmpty = e] \in PushCalls
         /\ [r EXCEPT !.phase = "schedule"] \in PushCalls
BY DEF PushCalls

\* Updates of the record of a process_task_serializer() call: a task is
\* taken, and invoked.
LEMMA TakeTaskUpdate ==
  ASSUME NEW r \in ProcessCalls, NEW k \in AnyTask \cup {NULL}
  PROVE  /\ [r EXCEPT !.phase = "start", !.task = k] \in ProcessCalls
         /\ [r EXCEPT !.phase = "invoke"] \in ProcessCalls
BY DEF ProcessCalls

\* A task is counted: the record stays a call of process_task_serializer.
LEMMA CountTaskUpdate ==
  ASSUME NEW r \in ProcessCalls, NEW n \in 0 .. MaxProcessTaskCount,
         NEW p \in {"pop", "state"}
  PROVE  [r EXCEPT !.count = n, !.task = NULL, !.phase = p] \in ProcessCalls
BY DEF ProcessCalls

\* A thread may begin to process a serializer.
LEMMA BeginProcessType ==
  ASSUME TypeOK, NEW t \in Threads, NEW d \in Copies, NEW s \in Serializers,
         NEW k \in AnyTask \cup {NULL}, BeginProcess(t, d, s, k)
  PROVE  /\ tl' \in [Copies -> [Threads -> Serializers \cup {NULL}]]
         /\ proc' \in [Threads -> ProcessCalls]
         /\ \A u \in Threads : InProcess(u)'
         /\ fault' \in {"none", "assert_tl", "use_after_free"} \cup ClearFaults
<1> USE TaskAssumption, CopyOK
<1>1. CASE Current(t) # NULL
  BY <1>1 DEF TypeOK, BeginProcess, InProcess, Current
<1>2. CASE Current(t) = NULL
  <2>0. /\ tl' = [tl EXCEPT ![Copy["TaskDistributor"]][t] = s]
        /\ proc' = [proc EXCEPT ![t] = [phase |-> "pop", dist |-> d,
                       count |-> 0, task |-> NULL, trigger |-> k]]
        /\ fault' = fault
    BY <1>2 DEF BeginProcess
  <2>1. tl' \in [Copies -> [Threads -> Serializers \cup {NULL}]]
    BY <2>0 DEF TypeOK
  <2>2. proc' \in [Threads -> ProcessCalls]
    BY <2>0 DEF TypeOK, ProcessCalls
  <2>3. ASSUME NEW u \in Threads PROVE InProcess(u)'
    BY <2>0, <2>1, <2>2 DEF TypeOK, InProcess, Current
  <2> QED
    BY <2>0, <2>1, <2>2, <2>3 DEF TypeOK
<1> QED
  BY <1>1, <1>2

\* process_task_serializer may return.
LEMMA ReturnType ==
  ASSUME TypeOK, NEW t \in Threads, Return(t)
  PROVE  /\ tl' \in [Copies -> [Threads -> Serializers \cup {NULL}]]
         /\ proc' \in [Threads -> ProcessCalls]
         /\ \A u \in Threads : InProcess(u)'
<1> USE TaskAssumption, CopyOK
<1>1. tl' \in [Copies -> [Threads -> Serializers \cup {NULL}]]
  BY DEF TypeOK, Return
<1>2. proc' \in [Threads -> ProcessCalls]
  BY DEF TypeOK, Return, Idle, ProcessCalls
<1>3. ASSUME NEW u \in Threads PROVE InProcess(u)'
  BY <1>1, <1>2 DEF TypeOK, Return, Idle, InProcess, Current
<1> QED
  BY <1>1, <1>2, <1>3

\* Counting an executed task keeps the shape of the call.
LEMMA AfterInvokeType ==
  ASSUME TypeOK, NEW t \in Threads, proc[t].phase = "invoke", AfterInvoke(t),
         UNCHANGED tl
  PROVE  /\ proc' \in [Threads -> ProcessCalls]
         /\ \A u \in Threads : InProcess(u)'
<1> USE TaskAssumption, CopyOK
<1>1. /\ proc[t].count \in 0 .. MaxProcessTaskCount
      /\ proc[t].count < MaxProcessTaskCount
  BY DEF TypeOK, ProcessCalls, InProcess
<1>2. proc' \in [Threads -> ProcessCalls]
  <2> DEFINE p == IF proc[t].count + 1 >= MaxProcessTaskCount
                  THEN "state" ELSE "pop"
             r == [proc[t] EXCEPT !.count = proc[t].count + 1, !.task = NULL,
                                  !.phase = p]
  <2>1. p \in {"state", "pop"}
    OBVIOUS
  <2>2. proc' = [proc EXCEPT ![t] = r]
    BY DEF AfterInvoke, TypeOK, ProcessCalls
  <2>3. r \in ProcessCalls
    <3>1. proc[t] \in ProcessCalls /\ proc[t].count + 1 \in 0 .. MaxProcessTaskCount
      BY <1>1 DEF TypeOK
    <3> HIDE DEF p
    <3> QED BY <2>1, <3>1, CountTaskUpdate
  <2> HIDE DEF r
  <2> QED
    BY <2>2, <2>3 DEF TypeOK
<1>3. ASSUME NEW u \in Threads PROVE InProcess(u)'
  BY <1>1, <1>2 DEF TypeOK, AfterInvoke, InProcess, Current, ProcessCalls
<1> QED
  BY <1>2, <1>3

\* Moving on inside process_task_serializer keeps the shape of the call.
LEMMA PhaseType ==
  ASSUME TypeOK, NEW t \in Threads, NEW p \in {"state", "empty", "requeue"},
         proc[t].phase # "idle", proc' = [proc EXCEPT ![t].phase = p],
         UNCHANGED tl
  PROVE  /\ proc' \in [Threads -> ProcessCalls]
         /\ \A u \in Threads : InProcess(u)'
<1>0. proc \in [Threads -> ProcessCalls]
  BY DEF TypeOK
<1>1. proc' \in [Threads -> ProcessCalls]
  <2>1. [proc[t] EXCEPT !.phase = p] \in ProcessCalls
    BY <1>0 DEF ProcessCalls
  <2> QED
    BY <1>0, <2>1
<1>2. ASSUME NEW u \in Threads PROVE InProcess(u)'
  BY DEF TypeOK, InProcess, Current, ProcessCalls
<1> QED
  BY <1>1, <1>2

\* Every step of a thread keeps the shape of the state.
LEMMA StepType ==
  ASSUME TypeOK, NEW t \in Threads, Step(t)
  PROVE  TypeOK'
<1> USE TaskAssumption, CopyOK
<1>1. CASE StoreDestroying(t)
  BY <1>1 DEF TypeOK, StoreDestroying, queues, history, Current, InPush, InProcess
<1>2. CASE CheckEmpty(t)
  <2> DEFINE e == (task_queue[push[t].ser] = <<>>)
  <2>0. e \in BOOLEAN /\ push' = [push EXCEPT ![t].phase = "push",
                                              ![t].wasEmpty = e]
    BY <1>2 DEF CheckEmpty
  <2>1. push' \in [Threads -> PushCalls]
    <3> HIDE DEF e
    <3>1. push[t] \in PushCalls
      BY DEF TypeOK
    <3>2. push' = [push EXCEPT ![t] = [push[t] EXCEPT !.phase = "push",
                                                      !.wasEmpty = e]]
      BY <2>0, <3>1 DEF TypeOK, PushCalls
    <3>3. [push[t] EXCEPT !.phase = "push", !.wasEmpty = e] \in PushCalls
      BY <2>0, <3>1, PushCallUpdate
    <3> QED BY <3>2, <3>3 DEF TypeOK
  <2>2. ASSUME NEW u \in Threads PROVE InPush(u)' /\ InProcess(u)'
    BY <1>2 DEF TypeOK, CheckEmpty, InPush, InProcess, Current
  <2> QED
    BY <1>2, <2>1, <2>2 DEF TypeOK, CheckEmpty, queues, history
<1>3. CASE PushTask(t)
  <2>1. push[t].ser \in Serializers /\ push[t].task \in AnyTask
    BY <1>3 DEF TypeOK, PushTask, PushCalls, InPush
  <2>2. push' \in [Threads -> PushCalls]
    <3>1. CASE push[t].wasEmpty
      <4>1. push' = [push EXCEPT ![t] = [push[t] EXCEPT !.phase = "schedule"]]
        BY <1>3, <3>1 DEF PushTask
      <4>2. [push[t] EXCEPT !.phase = "schedule"] \in PushCalls
        BY PushCallUpdate DEF TypeOK
      <4> QED BY <4>1, <4>2 DEF TypeOK
    <3>2. CASE ~push[t].wasEmpty
      <4>1. push' = [push EXCEPT ![t] = NoPush]
        BY <1>3, <3>2 DEF PushTask
      <4> QED BY <4>1 DEF TypeOK, PushCalls, NoPush
    <3> QED BY <3>1, <3>2
  <2>3. ASSUME NEW u \in Threads PROVE InPush(u)' /\ InProcess(u)'
    BY <1>3, <2>1 DEF TypeOK, PushTask, InPush, InProcess, Current, NoPush
  <2>4. /\ task_queue' \in [Serializers -> Seq(AnyTask)]
        /\ pushed' \in [Serializers -> Seq(AnyTask)]
    BY <1>3, <2>1 DEF TypeOK, PushTask
  <2> QED
    BY <1>3, <2>2, <2>3, <2>4 DEF TypeOK, PushTask
<1>4. CASE ProcessHere(t)
  <2>1. push[t].ser \in Serializers /\ push[t].task \in AnyTask
    BY <1>4 DEF TypeOK, ProcessHere, PushCalls, InPush
  <2>2. BeginProcess(t, Copy["TaskSerializer"], push[t].ser, push[t].task)
    BY <1>4 DEF ProcessHere
  <2>3. /\ push' \in [Threads -> PushCalls]
        /\ \A u \in Threads : InPush(u)'
    BY <1>4 DEF TypeOK, ProcessHere, PushCalls, InPush, NoPush
  <2> QED
    BY <1>4, <2>1, <2>2, <2>3, BeginProcessType
    DEF TypeOK, ProcessHere, queues, history
<1>5. CASE AddTaskSerializer(t)
  <2>1. push[t].ser \in Serializers
    BY <1>5 DEF TypeOK, AddTaskSerializer, PushCalls, InPush
  <2>2. /\ push' \in [Threads -> PushCalls]
        /\ \A u \in Threads : InPush(u)' /\ InProcess(u)'
    BY <1>5 DEF TypeOK, AddTaskSerializer, PushCalls, InPush, InProcess, NoPush,
                Current
  <2>3. ASSUME NEW q \in Seq(Serializers)
        PROVE  Append(q, push[t].ser) \in Seq(Serializers)
    BY <2>1
  <2>4. serializer_queue' \in [Copies -> Seq(Serializers)]
    BY <1>5, <2>3 DEF TypeOK, AddTaskSerializer
  <2> QED
    BY <1>5, <2>2, <2>4 DEF TypeOK, AddTaskSerializer, history
<1>6. CASE Poll(t)
  <2> DEFINE d == Copy["WorkerThread"]
  <2>1. \A u \in Threads : InPush(u)'
    BY <1>6 DEF TypeOK, Poll, InPush
  <2>2. CASE serializer_queue[d] # <<>>
    <3>1. /\ Head(serializer_queue[d]) \in Serializers
          /\ serializer_queue' \in [Copies -> Seq(Serializers)]
      <4>1. /\ serializer_queue[d] \in Seq(Serializers)
            /\ serializer_queue' =
                 [serializer_queue EXCEPT ![d] = Tail(serializer_queue[d])]
        BY <1>6, <2>2 DEF TypeOK, Poll
      <4>2. /\ Head(serializer_queue[d]) \in Serializers
            /\ Tail(serializer_queue[d]) \in Seq(Serializers)
        BY <2>2, <4>1, HeadTailProperties
      <4> QED BY <4>1, <4>2 DEF TypeOK
    <3>2. BeginProcess(t, d, Head(serializer_queue[d]), NULL)
      BY <1>6, <2>2 DEF Poll
    <3> QED
      BY <1>6, <2>1, <3>1, <3>2, BeginProcessType DEF TypeOK, Poll, history
  <2>3. CASE serializer_queue[d] = <<>>
    BY <1>6, <2>1, <2>3 DEF TypeOK, Poll, history, InProcess, Current
  <2> QED
    BY <2>2, <2>3
<1>7. CASE PopTask(t)
  <2> DEFINE s == Current(t)
  <2>1. s \in Serializers /\ \A u \in Threads : InPush(u)'
    BY <1>7 DEF TypeOK, PopTask, InPush
  <2>2. CASE task_queue[s] = <<>>
    <3>1. proc' = [proc EXCEPT ![t].phase = "state"] /\ proc[t].phase # "idle"
      BY <1>7, <2>2 DEF PopTask
    <3> QED
      BY <1>7, <2>1, <2>2, <3>1, PhaseType DEF TypeOK, PopTask
  <2>3. CASE task_queue[s] # <<>>
    <3>1. /\ Head(task_queue[s]) \in AnyTask
          /\ task_queue' \in [Serializers -> Seq(AnyTask)]
          /\ taken' \in [Serializers -> Seq(AnyTask)]
      <4>1. /\ task_queue' = [task_queue EXCEPT ![s] = Tail(task_queue[s])]
            /\ taken' =
                 [taken EXCEPT ![s] = Append(taken[s], Head(task_queue[s]))]
        BY <1>7, <2>3 DEF PopTask
      <4>2. /\ task_queue[s] \in Seq(AnyTask) /\ taken[s] \in Seq(AnyTask)
            /\ Head(task_queue[s]) \in AnyTask
            /\ Tail(task_queue[s]) \in Seq(AnyTask)
        BY <2>1, <2>3, HeadTailProperties DEF TypeOK
      <4> QED BY <2>1, <4>1, <4>2 DEF TypeOK
    <3> DEFINE h == Head(task_queue[s])
    <3>2. /\ proc' = [proc EXCEPT ![t].phase = "start", ![t].task = h]
          /\ proc[t].phase = "pop" /\ tl' = tl /\ h \in AnyTask
      BY <1>7, <2>3, <3>1 DEF PopTask
    <3>3. /\ proc' \in [Threads -> ProcessCalls]
          /\ \A u \in Threads : InProcess(u)'
      <4> HIDE DEF h
      <4>1. proc' \in [Threads -> ProcessCalls]
        <5>1. proc' = [proc EXCEPT ![t] = [proc[t] EXCEPT !.phase = "start",
                                                          !.task = h]]
          BY <3>2 DEF TypeOK, ProcessCalls
        <5>2. [proc[t] EXCEPT !.phase = "start", !.task = h] \in ProcessCalls
          BY <3>2, TakeTaskUpdate DEF TypeOK
        <5> QED BY <5>1, <5>2 DEF TypeOK
      <4>2. ASSUME NEW u \in Threads PROVE InProcess(u)'
        BY <3>2 DEF TypeOK, InProcess, Current, ProcessCalls
      <4> QED BY <4>1, <4>2
    <3> QED
      BY <1>7, <2>1, <3>1, <3>2, <3>3 DEF TypeOK, PopTask
  <2> QED
    BY <2>2, <2>3
<1>14. CASE Invoke(t)
  <2>1. /\ Current(t) \in Serializers /\ proc[t].task \in AnyTask
        /\ \A u \in Threads : InPush(u)'
    BY <1>14 DEF TypeOK, Invoke, InPush, InProcess, Current, ProcessCalls
  <2>2. started' \in [Serializers -> Seq(AnyTask)]
    BY <1>14, <2>1 DEF TypeOK, Invoke
  <2>3. /\ proc' = [proc EXCEPT ![t].phase = "invoke"]
        /\ proc[t].phase = "start" /\ tl' = tl
    BY <1>14 DEF Invoke
  <2>4. proc' \in [Threads -> ProcessCalls]
    <3>1. [proc[t] EXCEPT !.phase = "invoke"] \in ProcessCalls
      BY TakeTaskUpdate DEF TypeOK
    <3> QED BY <2>3, <3>1 DEF TypeOK
  <2>5. ASSUME NEW u \in Threads PROVE InProcess(u)'
    BY <2>3 DEF TypeOK, InProcess, Current, ProcessCalls
  <2> QED
    BY <1>14, <2>1, <2>2, <2>4, <2>5 DEF TypeOK, Invoke, queues
<1>8. CASE TaskDone(t)
  <2>1. proc[t].task \in Tasks
    BY <1>8 DEF TypeOK, TaskDone, InProcess, ProcessCalls, AnyTask
  <2>2. \A u \in Threads : InPush(u)'
    BY <1>8 DEF TypeOK, TaskDone, InPush
  <2> QED
    BY <1>8, <2>1, <2>2, AfterInvokeType DEF TypeOK, TaskDone, queues
<1>9. CASE RunClear(t)
  <2> DEFINE s == Current(t)
  <2>1. \A u \in Threads : InPush(u)'
    BY <1>9 DEF TypeOK, RunClear, InPush
  <2>2. CASE task_queue[s] = <<>>
    BY <1>9, <2>1, <2>2, AfterInvokeType DEF TypeOK, RunClear, queues, history
  <2>3. CASE task_queue[s] # <<>>
    BY <1>9, <2>1, <2>3
    DEF TypeOK, RunClear, queues, history, InProcess, Current
  <2> QED
    BY <2>2, <2>3
<1>10. CASE CheckState(t)
  <2> DEFINE s == Current(t)
  <2>1. \A u \in Threads : InPush(u)'
    BY <1>10 DEF TypeOK, CheckState, InPush
  <2>2. CASE state[s] # "DESTROYED"
    <3>1. proc' = [proc EXCEPT ![t].phase = "empty"] /\ proc[t].phase # "idle"
      BY <1>10, <2>2 DEF CheckState
    <3> QED
      BY <1>10, <2>1, <2>2, <3>1, PhaseType
      DEF TypeOK, CheckState, queues, history
  <2>3. CASE state[s] = "DESTROYED" /\ task_queue[s] = <<>>
    BY <1>10, <2>1, <2>3, ReturnType DEF TypeOK, CheckState, queues, history
  <2>4. CASE state[s] = "DESTROYED" /\ task_queue[s] # <<>>
    BY <1>10, <2>1, <2>4
    DEF TypeOK, CheckState, queues, history, InProcess, Current
  <2> QED
    BY <2>2, <2>3, <2>4
<1>11. CASE CheckRequeue(t)
  <2> DEFINE s == Current(t)
  <2>1. \A u \in Threads : InPush(u)'
    BY <1>11 DEF TypeOK, CheckRequeue, InPush
  <2>2. CASE task_queue[s] = <<>>
    BY <1>11, <2>1, <2>2, ReturnType DEF TypeOK, CheckRequeue, queues, history
  <2>3. CASE task_queue[s] # <<>>
    <3>1. /\ proc' = [proc EXCEPT ![t].phase = "requeue"]
          /\ proc[t].phase # "idle"
      BY <1>11, <2>3 DEF CheckRequeue
    <3> QED
      BY <1>11, <2>1, <2>3, <3>1, PhaseType
      DEF TypeOK, CheckRequeue, queues, history
  <2> QED
    BY <2>2, <2>3
<1>12. CASE Requeue(t)
  <2>1. /\ \A u \in Threads : InPush(u)'
        /\ Current(t) \in Serializers /\ proc[t].dist \in Copies
    BY <1>12 DEF TypeOK, Requeue, InPush, InProcess, Current, ProcessCalls
  <2>2. serializer_queue' \in [Copies -> Seq(Serializers)]
    BY <1>12, <2>1 DEF TypeOK, Requeue
  <2> QED
    BY <1>12, <2>1, <2>2, ReturnType DEF TypeOK, Requeue, history
<1>13. CASE UseAfterFree(t)
  BY <1>13 DEF TypeOK, UseAfterFree, queues, history, Current, InPush, InProcess
<1> QED
  BY <1>1, <1>2, <1>3, <1>4, <1>5, <1>6, <1>7, <1>8, <1>9, <1>10, <1>11,
     <1>12, <1>13, <1>14 DEF Step

\* Every request of a caller keeps the shape of the state.
LEMMA RequestType ==
  ASSUME TypeOK, NEW t \in Threads, Request(t)
  PROVE  TypeOK'
<1> USE TaskAssumption, CopyOK
<1>1. ASSUME NEW s \in Serializers, NEW k \in AnyTask, BeginPush(t, s, k),
             UNCHANGED <<proc, tl>>
      PROVE  /\ push' \in [Threads -> PushCalls]
             /\ \A u \in Threads : InPush(u)' /\ InProcess(u)'
  <2>1. push' \in [Threads -> PushCalls]
    BY <1>1 DEF TypeOK, BeginPush, PushCalls
  <2>2. ASSUME NEW u \in Threads PROVE InPush(u)' /\ InProcess(u)'
    BY <1>1 DEF TypeOK, BeginPush, InPush, InProcess, Current, AnyTask
  <2> QED
    BY <2>1, <2>2
<1>2. ASSUME NEW s \in Serializers, NEW k \in Tasks, RequestTask(t, s, k)
      PROVE  TypeOK'
  BY <1>1, <1>2 DEF TypeOK, RequestTask, queues, AnyTask
<1>3. ASSUME NEW s \in Serializers, SetDestroy(t, s)
      PROVE  TypeOK'
  <2>1. CASE state[s] = "RUNNING"
    BY <1>1, <1>3, <2>1 DEF TypeOK, SetDestroy, queues, history, AnyTask
  <2>2. CASE state[s] # "RUNNING"
    BY <1>3, <2>2
    DEF TypeOK, SetDestroy, queues, history, InPush, InProcess, Current
  <2> QED
    BY <2>1, <2>2
<1> QED
  BY <1>2, <1>3 DEF Request

\* The state of the task layer keeps its shape: no queue ever holds anything
\* but tasks and serializers, a thread processes a serializer exactly while
\* its thread-local pointer is set, and no thread takes a task beyond
\* MAX_PROCESS_TASK_COUNT.
THEOREM TypeCorrect == Spec => []TypeOK
<1>1. TypeOK /\ [Next]_vars => TypeOK'
  <2>1. TypeOK /\ UNCHANGED vars => TypeOK'
    BY DEF TypeOK, vars, Current, InPush, InProcess
  <2> QED
    BY <2>1, StepType, RequestType DEF Next
<1> QED
  BY InitType, <1>1, PTL DEF Spec

-----------------------------------------------------------------------------
(* Tasks are taken in the order they were pushed.                          *)

\* Moving the head of a queue to the end of what has been taken, and
\* appending to the queue, keep the concatenation in step.
LEMMA TakeHead ==
  ASSUME NEW S, NEW a \in Seq(S), NEW q \in Seq(S), q # <<>>
  PROVE  Append(a, Head(q)) \o Tail(q) = a \o q
<1>1. /\ Tail(q) \in Seq(S) /\ Len(Tail(q)) = Len(q) - 1 /\ Len(q) > 0
      /\ Head(q) = q[1] /\ Head(q) \in S
      /\ \A i \in 1 .. Len(Tail(q)) : Tail(q)[i] = q[i + 1]
  BY HeadTailProperties, EmptySeq
<1>2. Append(a, Head(q)) \in Seq(S)
  BY <1>1
<1> DEFINE l == Append(a, Head(q)) \o Tail(q)
           r == a \o q
<1>3. l \in Seq(S) /\ r \in Seq(S)
  BY <1>1, <1>2, ConcatProperties
<1>4. Len(l) = Len(r)
  BY <1>1, <1>2, ConcatProperties, AppendProperties
<1>5. ASSUME NEW i \in 1 .. Len(l) PROVE l[i] = r[i]
  BY <1>1, <1>2, <1>4, ConcatProperties, AppendProperties
<1> QED
  BY <1>3, <1>4, <1>5, SeqEqual

\* Appending to the second of two concatenated sequences appends to the whole.
LEMMA AppendToConcat ==
  ASSUME NEW a \in Seq(AnyTask), NEW q \in Seq(AnyTask), NEW x \in AnyTask
  PROVE  Append(a \o q, x) = a \o Append(q, x)
<1>1. Append(a \o q, x) = (a \o q) \o <<x>> /\ Append(q, x) = q \o <<x>>
  BY ConcatProperties, AppendIsConcat
<1> QED
  BY <1>1, ConcatAssociative

\* What was taken from a queue and what is left in it, in the order of the
\* pushes.
QueueOrder == \A s \in Serializers : pushed[s] = taken[s] \o task_queue[s]

\* Only push() and pop() touch what QueueOrder is about.
LEMMA OrderStep ==
  ASSUME TypeOK, QueueOrder, [Next]_vars
  PROVE  QueueOrder'
<1> DEFINE Same == UNCHANGED <<task_queue, pushed, taken>>
<1>1. CASE Same
  BY <1>1 DEF QueueOrder
<1>2. ASSUME NEW t \in Threads, PushTask(t) PROVE QueueOrder'
  <2> DEFINE s == push[t].ser
             k == push[t].task
  <2>1. s \in Serializers /\ k \in AnyTask
    BY <1>2 DEF TypeOK, PushTask, PushCalls, InPush
  <2>2. /\ task_queue' = [task_queue EXCEPT ![s] = Append(task_queue[s], k)]
        /\ pushed' = [pushed EXCEPT ![s] = Append(pushed[s], k)]
        /\ taken' = taken
    BY <1>2 DEF PushTask
  <2>3. Append(taken[s] \o task_queue[s], k) =
          taken[s] \o Append(task_queue[s], k)
    <3>1. taken[s] \in Seq(AnyTask) /\ task_queue[s] \in Seq(AnyTask)
      BY <2>1 DEF TypeOK
    <3> HIDE DEF s, k
    <3> QED BY <2>1, <3>1, AppendToConcat, Zenon
  <2> HIDE DEF s, k
  <2> QED
    BY <2>1, <2>2, <2>3 DEF QueueOrder, TypeOK
<1>3. ASSUME NEW t \in Threads, PopTask(t) PROVE QueueOrder'
  <2> DEFINE s == Current(t)
  <2>1. s \in Serializers
    BY <1>3 DEF PopTask, TypeOK
  <2>2. CASE task_queue[s] = <<>>
    BY <1>1, <1>3, <2>2 DEF PopTask
  <2>3. CASE task_queue[s] # <<>>
    <3>1. /\ task_queue' = [task_queue EXCEPT ![s] = Tail(task_queue[s])]
          /\ taken' =
               [taken EXCEPT ![s] = Append(taken[s], Head(task_queue[s]))]
          /\ pushed' = pushed
      BY <1>3, <2>3 DEF PopTask
    <3>2. Append(taken[s], Head(task_queue[s])) \o Tail(task_queue[s]) =
            taken[s] \o task_queue[s]
      BY <2>1, <2>3, TakeHead DEF TypeOK
    <3> HIDE DEF s
    <3> QED
      BY <2>1, <3>1, <3>2 DEF QueueOrder, TypeOK
  <2> QED
    BY <2>2, <2>3
<1>4. ASSUME NEW t \in Threads, Step(t), ~PushTask(t), ~PopTask(t) PROVE Same
  BY <1>4 DEF Step, StoreDestroying, CheckEmpty, ProcessHere, AddTaskSerializer,
              Poll, Invoke, TaskDone, RunClear, CheckState, CheckRequeue, Requeue,
              UseAfterFree, queues, history
<1>5. ASSUME NEW t \in Threads, Request(t) PROVE Same
  BY <1>5 DEF Request, RequestTask, SetDestroy, queues, history
<1>6. CASE UNCHANGED vars
  BY <1>1, <1>6 DEF vars
<1> QED
  BY <1>1, <1>2, <1>3, <1>4, <1>5, <1>6 DEF Next

\* The queue law of every serializer, however many threads use it.
LEMMA QueueOrdered == Spec => []QueueOrder
<1>1. Init => QueueOrder
  BY DEF Init, QueueOrder
<1> QED
  BY <1>1, TypeCorrect, OrderStep, PTL DEF Spec

\* A serializer that was deleted has an empty queue.
DeletedEmpty == \A s \in Serializers \ alive : task_queue[s] = <<>>

\* Nothing is pushed to a deleted serializer, and none with a queue is
\* deleted without the assertion in RefCountable stopping the program.
LEMMA DeletedStep ==
  ASSUME TypeOK, DeletedEmpty, [Next]_vars
  PROVE  DeletedEmpty'
<1> DEFINE Same == UNCHANGED <<task_queue, alive>>
<1>1. CASE Same
  BY <1>1 DEF DeletedEmpty
<1>2. ASSUME NEW t \in Threads, PushTask(t) PROVE DeletedEmpty'
  BY <1>2 DEF PushTask, DeletedEmpty, TypeOK
<1>3. ASSUME NEW t \in Threads, PopTask(t) PROVE DeletedEmpty'
  BY <1>3 DEF PopTask, DeletedEmpty, TypeOK
<1>4. ASSUME NEW t \in Threads, CheckState(t) PROVE DeletedEmpty'
  BY <1>4 DEF CheckState, DeletedEmpty, TypeOK, queues
<1>5. ASSUME NEW t \in Threads, Step(t), ~PushTask(t), ~PopTask(t),
             ~CheckState(t)
      PROVE  Same
  BY <1>5 DEF Step, StoreDestroying, CheckEmpty, ProcessHere, AddTaskSerializer,
              Poll, Invoke, TaskDone, RunClear, CheckRequeue, Requeue, UseAfterFree,
              queues
<1>6. ASSUME NEW t \in Threads, Request(t) PROVE Same
  BY <1>6 DEF Request, RequestTask, SetDestroy, queues
<1>7. CASE UNCHANGED vars
  BY <1>1, <1>7 DEF vars
<1> QED
  BY <1>1, <1>2, <1>3, <1>4, <1>5, <1>6, <1>7 DEF Next

-----------------------------------------------------------------------------
(* A request that drains its serializer itself gets its task taken.      *)

\* What is in a sequence stays in it when something is appended, and a
\* sequence holds what it is concatenated from.
LEMMA InAppend ==
  ASSUME NEW q \in Seq(AnyTask), NEW x \in AnyTask, NEW k
  PROVE  /\ In(k, q) => In(k, Append(q, x))
         /\ In(x, Append(q, x))
<1>1. /\ Len(Append(q, x)) = Len(q) + 1 /\ Len(q) \in Nat
      /\ Append(q, x)[Len(q) + 1] = x
      /\ \A i \in 1 .. Len(q) : Append(q, x)[i] = q[i]
  BY AppendProperties
<1> QED
  BY <1>1 DEF In

\* What has been pushed stays pushed, what has been taken stays taken.
LEMMA HistoryGrows ==
  ASSUME TypeOK, [Next]_vars, NEW s \in Serializers, NEW k
  PROVE  /\ In(k, pushed[s]) => In(k, pushed'[s])
         /\ In(k, taken[s]) => In(k, taken'[s])
<1>1. CASE UNCHANGED <<pushed, taken>>
  BY <1>1
<1>2. ASSUME NEW t \in Threads, PushTask(t)
      PROVE  (In(k, pushed[s]) => In(k, pushed'[s])) /\ UNCHANGED taken
  <2> DEFINE x == push[t].task
  <2>1. push[t].ser \in Serializers /\ x \in AnyTask
    BY <1>2 DEF TypeOK, PushTask, PushCalls, InPush
  <2>2. /\ pushed' = [pushed EXCEPT ![push[t].ser] =
                        Append(pushed[push[t].ser], x)]
        /\ UNCHANGED taken
    BY <1>2 DEF PushTask
  <2> HIDE DEF x
  <2>3. pushed[s] \in Seq(AnyTask)
    BY DEF TypeOK
  <2>4. pushed'[s] = pushed[s] \/ pushed'[s] = Append(pushed[s], x)
    BY <2>1, <2>2 DEF TypeOK
  <2> QED
    BY <2>1, <2>2, <2>3, <2>4, InAppend
<1>3. ASSUME NEW t \in Threads, PopTask(t)
      PROVE  (In(k, taken[s]) => In(k, taken'[s])) /\ UNCHANGED pushed
  <2> DEFINE c == Current(t)
             h == Head(task_queue[c])
  <2>1. c \in Serializers /\ UNCHANGED pushed
    BY <1>3 DEF PopTask, TypeOK
  <2>2. CASE task_queue[c] = <<>>
    BY <1>3, <2>1, <2>2 DEF PopTask
  <2>3. CASE task_queue[c] # <<>>
    <3>1. /\ h \in AnyTask
          /\ taken' = [taken EXCEPT ![c] = Append(taken[c], h)]
      BY <1>3, <2>1, <2>3, HeadTailProperties DEF TypeOK, PopTask
    <3> HIDE DEF h, c
    <3>2. taken[s] \in Seq(AnyTask)
      BY DEF TypeOK
    <3>3. taken'[s] = taken[s] \/ taken'[s] = Append(taken[s], h)
      BY <2>1, <3>1 DEF TypeOK
    <3> QED
      BY <2>1, <3>1, <3>2, <3>3, InAppend
  <2> QED
    BY <2>2, <2>3
<1>4. ASSUME NEW t \in Threads, Step(t), ~PushTask(t), ~PopTask(t)
      PROVE  UNCHANGED <<pushed, taken>>
  BY <1>4 DEF Step, StoreDestroying, CheckEmpty, ProcessHere, AddTaskSerializer,
              Poll, Invoke, TaskDone, RunClear, CheckState, CheckRequeue, Requeue,
              UseAfterFree, history
<1>5. ASSUME NEW t \in Threads, Request(t) PROVE UNCHANGED <<pushed, taken>>
  BY <1>5 DEF Request, RequestTask, SetDestroy, history
<1>6. CASE UNCHANGED vars
  BY <1>1, <1>6 DEF vars
<1> QED
  BY <1>1, <1>2, <1>3, <1>4, <1>5, <1>6 DEF Next

\* The part of DrainedOnReturn about thread t, and what makes it inductive: a
\* call of process_task_serializer made by push() is made after the push.
Drained(t) ==
  /\ proc[t].phase \in {"state", "empty", "requeue"}
  /\ proc[t].trigger # NULL
  /\ proc[t].count < MaxProcessTaskCount
  => In(proc[t].trigger, taken[Current(t)])

Triggered(t) ==
  /\ push[t].phase = "schedule" => In(push[t].task, pushed[push[t].ser])
  /\ proc[t].phase # "idle" /\ proc[t].trigger # NULL
       => In(proc[t].trigger, pushed[Current(t)])

DrainInv == \A t \in Threads : Drained(t) /\ Triggered(t)

\* A step keeps these facts about a thread whose calls it leaves alone, and
\* about one that only moves on to a later phase.
LEMMA OthersKeep ==
  ASSUME TypeOK, [Next]_vars, NEW u \in Threads, Drained(u), Triggered(u),
         push'[u] = push[u], proc'[u] = proc[u], Current(u)' = Current(u)
  PROVE  Drained(u)' /\ Triggered(u)'
<1>1. push[u].phase = "schedule" => push[u].ser \in Serializers
  BY DEF TypeOK, PushCalls, InPush
<1>2. proc[u].phase # "idle" => Current(u) \in Serializers
  BY CopyOK DEF TypeOK, InProcess, Current
<1>3. \A s \in Serializers : \A k : /\ In(k, pushed[s]) => In(k, pushed'[s])
                                    /\ In(k, taken[s]) => In(k, taken'[s])
  BY HistoryGrows
<1>4. Triggered(u)'
  BY <1>1, <1>2, <1>3 DEF Triggered
<1>5. Drained(u)'
  BY <1>2, <1>3 DEF Drained
<1> QED
  BY <1>4, <1>5

\* A step of one thread leaves the calls of the others alone.
LEMMA OthersUnchanged ==
  ASSUME TypeOK, NEW t \in Threads, Step(t) \/ Request(t),
         NEW u \in Threads, u # t
  PROVE  push'[u] = push[u] /\ proc'[u] = proc[u] /\ Current(u)' = Current(u)
<1> USE CopyOK
<1>1. push'[u] = push[u]
  BY DEF TypeOK, Step, Request, RequestTask, SetDestroy, BeginPush,
         StoreDestroying, CheckEmpty, PushTask, ProcessHere, AddTaskSerializer,
         Poll, PopTask, Invoke, TaskDone, RunClear, CheckState, CheckRequeue, Requeue,
         UseAfterFree
<1>2. proc'[u] = proc[u]
  BY DEF TypeOK, Step, Request, RequestTask, SetDestroy, StoreDestroying,
         CheckEmpty, PushTask, ProcessHere, BeginProcess, AddTaskSerializer,
         Poll, PopTask, Invoke, TaskDone, RunClear, AfterInvoke, CheckState, Return,
         CheckRequeue, Requeue, UseAfterFree
<1>3. tl' = tl \/ \E x : tl' = [tl EXCEPT ![Copy["TaskDistributor"]][t] = x]
  BY DEF Step, Request, RequestTask, SetDestroy, StoreDestroying, CheckEmpty,
         PushTask, ProcessHere, BeginProcess, AddTaskSerializer, Poll, PopTask,
         Invoke, TaskDone, RunClear, CheckState, Return, CheckRequeue, Requeue,
         UseAfterFree
<1>4. Current(u)' = Current(u)
  BY <1>3, ZenonT(40) DEF Current, TypeOK
<1> QED
  BY <1>1, <1>2, <1>4

\* A step of thread t keeps the facts about t itself.
LEMMA OwnStep ==
  ASSUME TypeOK, QueueOrder, [Next]_vars, NEW t \in Threads, Step(t),
         Drained(t), Triggered(t)
  PROVE  Drained(t)' /\ Triggered(t)'
<1> USE CopyOK, TaskAssumption
<1> DEFINE Same == /\ push'[t] = push[t] /\ proc'[t] = proc[t]
                   /\ Current(t)' = Current(t)
           Grow == \A s \in Serializers : \A k :
                     /\ In(k, pushed[s]) => In(k, pushed'[s])
                     /\ In(k, taken[s]) => In(k, taken'[s])
<1>0. Grow
  BY HistoryGrows
<1>1. CASE Same
  BY <1>1, OthersKeep
<1>2. CASE StoreDestroying(t) \/ UseAfterFree(t)
  BY <1>1, <1>2 DEF StoreDestroying, UseAfterFree, Current
<1>3. CASE CheckEmpty(t)
  <2>1. /\ push'[t].phase = "push" /\ proc' = proc /\ Current(t)' = Current(t)
        /\ pushed' = pushed /\ taken' = taken
    BY <1>3 DEF CheckEmpty, TypeOK, PushCalls, Current, history
  <2> QED
    BY <2>1 DEF Drained, Triggered
<1>4. CASE PushTask(t)
  <2>1. push[t].ser \in Serializers /\ push[t].task \in AnyTask
    BY <1>4 DEF TypeOK, PushTask, PushCalls, InPush
  <2>2. /\ push'[t].phase = "schedule" =>
             push'[t].ser = push[t].ser /\ push'[t].task = push[t].task
        /\ proc' = proc /\ Current(t)' = Current(t) /\ taken' = taken
        /\ pushed' = [pushed EXCEPT ![push[t].ser] =
                        Append(pushed[push[t].ser], push[t].task)]
    BY <1>4 DEF PushTask, TypeOK, PushCalls, NoPush, Current
  <2>3. In(push[t].task, pushed'[push[t].ser])
    BY <2>1, <2>2, InAppend DEF TypeOK
  <2>4. proc[t].phase # "idle" => Current(t) \in Serializers
    BY DEF TypeOK, InProcess, Current
  <2>5. Triggered(t)'
    BY <1>0, <2>2, <2>3, <2>4 DEF Triggered
  <2>6. Drained(t)'
    BY <2>2 DEF Drained
  <2> QED
    BY <2>5, <2>6
<1>5. CASE ProcessHere(t)
  <2>1. /\ pushed' = pushed /\ taken' = taken /\ push[t].phase = "schedule"
        /\ BeginProcess(t, Copy["TaskSerializer"], push[t].ser, push[t].task)
    BY <1>5 DEF ProcessHere, history
  <2>2. CASE Current(t) # NULL
    <3>1. proc' = proc /\ Current(t)' = Current(t) /\ push'[t] = push[t]
      BY <1>5, <2>1, <2>2 DEF BeginProcess, ProcessHere, Current, TypeOK
    <3> QED
      BY <1>1, <3>1
  <2>3. CASE Current(t) = NULL
    <3>1. /\ proc' = [proc EXCEPT ![t] = [phase |-> "pop",
                        dist |-> Copy["TaskSerializer"], count |-> 0,
                        task |-> NULL, trigger |-> push[t].task]]
          /\ tl' = [tl EXCEPT ![Copy["TaskDistributor"]][t] = push[t].ser]
      BY <2>1, <2>3 DEF BeginProcess
    <3>2. /\ proc'[t].phase = "pop" /\ proc'[t].trigger = push[t].task
          /\ Current(t)' = push[t].ser /\ push'[t].phase = "none"
      BY <1>5, <2>3, <3>1 DEF TypeOK, Current, ProcessHere, NoPush
    <3> QED
      BY <2>1, <3>2 DEF Drained, Triggered
  <2> QED
    BY <2>2, <2>3
<1>6. CASE AddTaskSerializer(t)
  <2>1. /\ push'[t].phase = "none" /\ proc' = proc /\ Current(t)' = Current(t)
        /\ pushed' = pushed /\ taken' = taken
    BY <1>6 DEF AddTaskSerializer, TypeOK, NoPush, Current, history
  <2> QED
    BY <2>1 DEF Drained, Triggered
<1>7. CASE Poll(t)
  <2> DEFINE d == Copy["WorkerThread"]
  <2>1. pushed' = pushed /\ taken' = taken /\ push' = push
    BY <1>7 DEF Poll, history
  <2>2. CASE serializer_queue[d] = <<>>
    BY <1>1, <1>7, <2>1, <2>2 DEF Poll, Current
  <2>3. CASE serializer_queue[d] # <<>> /\ Current(t) # NULL
    BY <1>1, <1>7, <2>1, <2>3 DEF Poll, BeginProcess, Current
  <2>4. CASE serializer_queue[d] # <<>> /\ Current(t) = NULL
    <3>1. proc' = [proc EXCEPT ![t] = [phase |-> "pop", dist |-> d, count |-> 0,
                                       task |-> NULL, trigger |-> NULL]]
      BY <1>7, <2>4 DEF Poll, BeginProcess
    <3>2. proc'[t].phase = "pop" /\ proc'[t].trigger = NULL
      BY <3>1 DEF TypeOK
    <3> QED
      BY <2>1, <3>2 DEF Drained, Triggered
  <2> QED
    BY <2>2, <2>3, <2>4
<1>17. CASE Invoke(t)
  <2>1. /\ proc'[t].phase = "invoke" /\ proc'[t].trigger = proc[t].trigger
        /\ proc[t].phase = "start" /\ Current(t)' = Current(t)
        /\ pushed' = pushed /\ push' = push
    BY <1>17 DEF Invoke, TypeOK, ProcessCalls, Current
  <2> QED
    BY <2>1 DEF Drained, Triggered
<1>8. CASE PopTask(t)
  <2> DEFINE s == Current(t)
  <2>1. /\ s \in Serializers /\ pushed' = pushed /\ push' = push
        /\ Current(t)' = s /\ proc[t].phase = "pop"
    BY <1>8 DEF PopTask, TypeOK, Current
  <2>2. CASE task_queue[s] = <<>>
    <3>1. /\ proc' = [proc EXCEPT ![t].phase = "state"] /\ taken' = taken
      BY <1>8, <2>2 DEF PopTask
    <3>2. /\ proc'[t].phase = "state" /\ proc'[t].trigger = proc[t].trigger
          /\ proc'[t].count = proc[t].count
      BY <3>1 DEF TypeOK, ProcessCalls
    <3>3. pushed[s] = taken[s]
      BY <2>1, <2>2, ConcatEmptySeq DEF QueueOrder, TypeOK
    <3> QED
      BY <2>1, <3>1, <3>2, <3>3 DEF Drained, Triggered
  <2>3. CASE task_queue[s] # <<>>
    <3>1. proc'[t].phase = "start" /\ proc'[t].trigger = proc[t].trigger
      BY <1>8, <2>3 DEF PopTask, TypeOK, ProcessCalls
    <3> QED
      BY <2>1, <3>1 DEF Drained, Triggered
  <2> QED
    BY <2>2, <2>3
<1>9. CASE (TaskDone(t) \/ RunClear(t)) /\ AfterInvoke(t)
  <2>1. /\ pushed' = pushed /\ push' = push /\ Current(t)' = Current(t)
        /\ proc[t].phase = "invoke"
    BY <1>9 DEF TaskDone, RunClear, history, Current
  <2>2. /\ proc'[t].count = proc[t].count + 1
        /\ proc'[t].trigger = proc[t].trigger
        /\ proc'[t].phase = IF proc[t].count + 1 >= MaxProcessTaskCount
                            THEN "state" ELSE "pop"
        /\ proc[t].count \in Nat
    BY <1>9 DEF AfterInvoke, TypeOK, ProcessCalls
  <2>3. Drained(t)'
    BY <2>1, <2>2 DEF Drained
  <2> QED
    BY <2>1, <2>2, <2>3 DEF Triggered
<1>10. CASE RunClear(t) /\ ~AfterInvoke(t)
  BY <1>1, <1>10 DEF RunClear, Current
<1>11. ASSUME Return(t), UNCHANGED <<push, pushed, taken>>
       PROVE  Drained(t)' /\ Triggered(t)'
  <2>1. proc'[t].phase = "idle" /\ push' = push /\ pushed' = pushed
    BY <1>11 DEF Return, Idle, TypeOK
  <2> QED
    BY <2>1 DEF Drained, Triggered
<1>12. ASSUME NEW p \in {"empty", "requeue"}, UNCHANGED <<push, pushed, taken, tl>>,
              proc[t].phase \in {"state", "empty"},
              proc' = [proc EXCEPT ![t].phase = p]
       PROVE  Drained(t)' /\ Triggered(t)'
  <2>1. /\ proc'[t].phase = p /\ proc'[t].count = proc[t].count
        /\ proc'[t].trigger = proc[t].trigger /\ Current(t)' = Current(t)
        /\ push' = push /\ pushed' = pushed /\ taken' = taken
    BY <1>12 DEF TypeOK, ProcessCalls, Current
  <2> QED
    BY <1>12, <2>1 DEF Drained, Triggered
<1>13. CASE CheckState(t)
  <2>1. UNCHANGED <<push, pushed, taken>> /\ proc[t].phase = "state"
    BY <1>13 DEF CheckState, history
  <2>2. \/ proc' = [proc EXCEPT ![t].phase = "empty"] /\ tl' = tl
        \/ Return(t)
        \/ proc' = proc /\ tl' = tl
    BY <1>13 DEF CheckState
  <2> QED
    BY <1>1, <1>11, <1>12, <2>1, <2>2 DEF Current
<1>14. CASE CheckRequeue(t)
  <2>1. UNCHANGED <<push, pushed, taken>> /\ proc[t].phase = "empty"
    BY <1>14 DEF CheckRequeue, history
  <2>2. \/ proc' = [proc EXCEPT ![t].phase = "requeue"] /\ tl' = tl
        \/ Return(t)
    BY <1>14 DEF CheckRequeue
  <2> QED
    BY <1>11, <1>12, <2>1, <2>2
<1>15. CASE Requeue(t)
  BY <1>11, <1>15 DEF Requeue, history
<1>16. TaskDone(t) => AfterInvoke(t)
  BY DEF TaskDone
<1> QED
  BY <1>2, <1>3, <1>4, <1>5, <1>6, <1>7, <1>8, <1>9, <1>10, <1>13, <1>14,
     <1>15, <1>16, <1>17 DEF Step

\* A request of thread t keeps the facts about t.
LEMMA OwnRequest ==
  ASSUME TypeOK, NEW t \in Threads, Request(t), Drained(t), Triggered(t)
  PROVE  Drained(t)' /\ Triggered(t)'
<1>1. /\ proc' = proc /\ tl' = tl /\ pushed' = pushed /\ taken' = taken
      /\ push'[t].phase = "empty" \/ push' = push
  BY DEF Request, RequestTask, SetDestroy, BeginPush, history, TypeOK
<1>2. Current(t)' = Current(t)
  BY <1>1 DEF Current
<1> QED
  BY <1>1, <1>2 DEF Drained, Triggered

\* Whatever the other threads take from the queue meanwhile, a request_task
\* call that drains the serializer itself returns only after its own task was
\* taken, unless it stops at MAX_PROCESS_TASK_COUNT.
THEOREM RequestDrains == Spec => []DrainedOnReturn
<1>1. Init => DrainInv
  <2> SUFFICES ASSUME Init, NEW t \in Threads
               PROVE  Drained(t) /\ Triggered(t)
    BY DEF DrainInv
  <2>1. push[t].phase = "none" /\ proc[t].phase = "idle"
    BY DEF Init, NoPush, Idle
  <2> QED
    BY <2>1 DEF Drained, Triggered
<1>2. TypeOK /\ QueueOrder /\ DrainInv /\ [Next]_vars => DrainInv'
  <2> SUFFICES ASSUME TypeOK, QueueOrder, DrainInv, [Next]_vars, NEW u \in Threads
               PROVE  Drained(u)' /\ Triggered(u)'
    BY DEF DrainInv
  <2>1. Drained(u) /\ Triggered(u)
    BY DEF DrainInv
  <2>2. CASE UNCHANGED vars
    BY <2>1, <2>2, OthersKeep DEF vars, Current
  <2>3. ASSUME NEW t \in Threads, Step(t) \/ Request(t)
        PROVE  Drained(u)' /\ Triggered(u)'
    <3>1. CASE u = t
      BY <2>1, <2>3, <3>1, OwnStep, OwnRequest
    <3>2. CASE u # t
      BY <2>1, <2>3, <3>2, OthersUnchanged, OthersKeep
    <3> QED BY <3>1, <3>2
  <2> QED
    BY <2>2, <2>3 DEF Next
<1>3. DrainInv => DrainedOnReturn
  BY DEF DrainInv, Drained, DrainedOnReturn
<1> QED
  BY <1>1, <1>2, <1>3, TypeCorrect, QueueOrdered, PTL DEF Spec

-----------------------------------------------------------------------------
(* A task is pushed once, taken once and started once.                     *)

\* What is in a sequence after an append was in it or is what was appended.
LEMMA InAppendOnly ==
  ASSUME NEW q \in Seq(AnyTask), NEW x \in AnyTask, NEW k,
         In(k, Append(q, x))
  PROVE  k = x \/ In(k, q)
<1>1. /\ Len(Append(q, x)) = Len(q) + 1 /\ Len(q) \in Nat
      /\ Append(q, x)[Len(q) + 1] = x
      /\ \A i \in 1 .. Len(q) : Append(q, x)[i] = q[i]
  BY AppendProperties
<1> QED
  BY <1>1 DEF In

\* A task of a caller is in the sequence once; Clear may be in it again.
Once(q) == \A i, j \in DOMAIN q : q[i] = q[j] /\ q[i] \in Tasks => i = j

\* Appending what is not yet in a sequence repeats nothing.
LEMMA OnceAppend ==
  ASSUME NEW q \in Seq(AnyTask), NEW x \in AnyTask, Once(q),
         x \in Tasks => ~In(x, q)
  PROVE  Once(Append(q, x))
<1>1. /\ Len(Append(q, x)) = Len(q) + 1 /\ Len(q) \in Nat
      /\ DOMAIN Append(q, x) = 1 .. Len(q) + 1
      /\ DOMAIN q = 1 .. Len(q)
      /\ Append(q, x)[Len(q) + 1] = x
      /\ \A i \in 1 .. Len(q) : Append(q, x)[i] = q[i]
  BY AppendProperties
<1> QED
  BY <1>1 DEF In, Once

\* The head of what is left of a sequence was not taken from it before.
LEMMA HeadNotTaken ==
  ASSUME NEW a \in Seq(AnyTask), NEW q \in Seq(AnyTask), q # <<>>, Once(a \o q)
  PROVE  Head(q) \in Tasks => ~In(Head(q), a)
<1>1. /\ Len(q) \in Nat /\ Len(q) > 0 /\ Head(q) = q[1] /\ Len(a) \in Nat
  BY HeadTailProperties, EmptySeq
<1>2. /\ Len(a \o q) = Len(a) + Len(q)
      /\ DOMAIN (a \o q) = 1 .. Len(a) + Len(q)
      /\ (a \o q)[Len(a) + 1] = q[1]
      /\ \A i \in 1 .. Len(a) : (a \o q)[i] = a[i]
  BY <1>1, ConcatProperties
<1> QED
  BY <1>1, <1>2 DEF In, Once

\* A step of thread t leaves the calls of the other threads alone.
Alone(t) ==
  \A u \in Threads \ {t} :
    push'[u] = push[u] /\ proc'[u] = proc[u] /\ Current(u)' = Current(u)

\* A step of one thread is alone.
LEMMA StepAlone ==
  ASSUME TypeOK, NEW t \in Threads, Step(t) \/ Request(t)
  PROVE  Alone(t)
BY OthersUnchanged DEF Alone

\* A task is on its way into the queue of a serializer.
Waits(t) == push[t].phase \in {"empty", "push"}

\* A task of a caller is on its way in one call, and was not pushed before;
\* what was pushed had been requested, and was pushed once.
RequestsOnce ==
  /\ \A t \in Threads : Waits(t) /\ push[t].task \in Tasks =>
       /\ push[t].task \in requested
       /\ \A s \in Serializers : ~In(push[t].task, pushed[s])
  /\ \A t, u \in Threads :
       Waits(t) /\ Waits(u) /\ push[t].task = push[u].task
         /\ push[t].task \in Tasks => t = u
  /\ \A s \in Serializers : \A k \in Tasks : In(k, pushed[s]) => k \in requested
  /\ \A s \in Serializers : Once(pushed[s])

\* A step that pushes nothing and starts no push keeps this.
LEMMA RequestsOnceKept ==
  ASSUME RequestsOnce, NEW t \in Threads, Alone(t),
         UNCHANGED <<requested, pushed>>,
         Waits(t)' => Waits(t) /\ push'[t].task = push[t].task
  PROVE  RequestsOnce'
<1>1. ASSUME NEW u \in Threads, Waits(u)'
      PROVE  Waits(u) /\ push'[u].task = push[u].task
  BY <1>1 DEF Alone, Waits
<1>2. ASSUME NEW u \in Threads, Waits(u)', push'[u].task \in Tasks
      PROVE  /\ push'[u].task \in requested'
             /\ \A s \in Serializers : ~In(push'[u].task, pushed'[s])
  BY <1>1, <1>2 DEF RequestsOnce
<1>3. ASSUME NEW u \in Threads, NEW v \in Threads, Waits(u)', Waits(v)',
             push'[u].task = push'[v].task, push'[u].task \in Tasks
      PROVE  u = v
  BY <1>1, <1>3 DEF RequestsOnce
<1>4. /\ \A s \in Serializers : \A k \in Tasks :
           In(k, pushed'[s]) => k \in requested'
      /\ \A s \in Serializers : Once(pushed'[s])
  BY DEF RequestsOnce
<1> QED
  BY <1>2, <1>3, <1>4 DEF RequestsOnce, In, Once

\* A requested task was not requested before.
LEMMA RequestTaskOnce ==
  ASSUME TypeOK, RequestsOnce, NEW t \in Threads, Alone(t),
         NEW s \in Serializers, NEW k \in Tasks, RequestTask(t, s, k)
  PROVE  RequestsOnce'
<1>1. /\ k \notin requested /\ requested' = requested \cup {k}
      /\ pushed' = pushed /\ push'[t].task = k
  BY DEF RequestTask, BeginPush, TypeOK
<1>2. ASSUME NEW u \in Threads \ {t}, Waits(u)'
      PROVE  Waits(u) /\ push'[u].task = push[u].task
  BY <1>2 DEF Alone, Waits
<1>3. ASSUME NEW u \in Threads \ {t}, Waits(u)', push'[u].task \in Tasks
      PROVE  /\ push'[u].task \in requested
             /\ \A q \in Serializers : ~In(push'[u].task, pushed[q])
  BY <1>2, <1>3 DEF RequestsOnce
<1>4. \A q \in Serializers : ~In(k, pushed[q])
  BY <1>1 DEF RequestsOnce
<1>5. ASSUME NEW u \in Threads, Waits(u)', push'[u].task \in Tasks
      PROVE  /\ push'[u].task \in requested'
             /\ \A q \in Serializers : ~In(push'[u].task, pushed'[q])
  BY <1>1, <1>3, <1>4, <1>5
<1>6. ASSUME NEW u \in Threads, NEW v \in Threads, Waits(u)', Waits(v)',
             push'[u].task = push'[v].task, push'[u].task \in Tasks
      PROVE  u = v
  <2>1. CASE u # t /\ v # t
    BY <1>2, <1>6, <2>1 DEF RequestsOnce
  <2>2. CASE u = t \/ v = t
    BY <1>1, <1>3, <1>6, <2>2
  <2> QED
    BY <2>1, <2>2
<1>7. /\ \A q \in Serializers : \A x \in Tasks :
           In(x, pushed'[q]) => x \in requested'
      /\ \A q \in Serializers : Once(pushed'[q])
  BY <1>1 DEF RequestsOnce
<1> QED
  BY <1>5, <1>6, <1>7 DEF RequestsOnce, In, Once

\* A pushed task was not pushed before.
LEMMA PushTaskOnce ==
  ASSUME TypeOK, RequestsOnce, NEW t \in Threads, Alone(t), PushTask(t)
  PROVE  RequestsOnce'
<1> DEFINE s == push[t].ser
           k == push[t].task
<1>1. s \in Serializers /\ k \in AnyTask /\ Waits(t)
  BY DEF TypeOK, PushTask, PushCalls, InPush, Waits
<1>2. /\ pushed' = [pushed EXCEPT ![s] = Append(pushed[s], k)]
      /\ requested' = requested
  BY DEF PushTask
<1>3. ~Waits(t)'
  <2>1. push'[t].phase \in {"none", "schedule"}
    BY DEF PushTask, TypeOK, PushCalls, NoPush
  <2> QED
    BY <2>1 DEF Waits
<1>4. k \in Tasks => k \in requested /\ \A q \in Serializers : ~In(k, pushed[q])
  BY <1>1 DEF RequestsOnce
<1>5. ASSUME NEW u \in Threads, Waits(u)'
      PROVE  u # t /\ Waits(u) /\ push'[u].task = push[u].task
  BY <1>3, <1>5 DEF Alone, Waits
<1>6. ASSUME NEW u \in Threads, Waits(u)', push'[u].task \in Tasks
      PROVE  push'[u].task # k
  BY <1>1, <1>5, <1>6 DEF RequestsOnce
<1> HIDE DEF s, k
<1>7. ASSUME NEW q \in Serializers
      PROVE  /\ \A x : In(x, pushed'[q]) => x = k \/ In(x, pushed[q])
             /\ Once(pushed'[q])
             /\ \A x \in Tasks : In(x, pushed'[q]) => x \in requested
  <2>1. CASE q # s
    BY <1>2, <2>1 DEF TypeOK, RequestsOnce
  <2>2. CASE q = s
    <3> DEFINE p == pushed[q]
    <3>1. p \in Seq(AnyTask) /\ pushed'[q] = Append(p, k) /\ Once(p)
          /\ (k \in Tasks => ~In(k, p))
          /\ (\A x \in Tasks : In(x, p) => x \in requested)
      BY <1>1, <1>2, <1>4, <2>2 DEF TypeOK, RequestsOnce
    <3>2. p = pushed[q]
      OBVIOUS
    <3> HIDE DEF p
    <3>3. \A x : In(x, Append(p, k)) => x = k \/ In(x, p)
      BY <1>1, <3>1, InAppendOnly
    <3>4. Once(Append(p, k))
      BY <1>1, <3>1, OnceAppend
    <3> QED
      BY <1>4, <3>1, <3>2, <3>3, <3>4
  <2> QED
    BY <2>1, <2>2
<1>8. ASSUME NEW u \in Threads, Waits(u)', push'[u].task \in Tasks
      PROVE  /\ push'[u].task \in requested'
             /\ \A q \in Serializers : ~In(push'[u].task, pushed'[q])
  BY <1>2, <1>5, <1>6, <1>7, <1>8 DEF RequestsOnce
<1>9. ASSUME NEW u \in Threads, NEW v \in Threads, Waits(u)', Waits(v)',
             push'[u].task = push'[v].task, push'[u].task \in Tasks
      PROVE  u = v
  BY <1>5, <1>9 DEF RequestsOnce
<1> QED
  BY <1>2, <1>7, <1>8, <1>9 DEF RequestsOnce

\* The requests keep apart in every step.
LEMMA RequestsOnceStep ==
  ASSUME TypeOK, RequestsOnce, [Next]_vars
  PROVE  RequestsOnce'
<1>1. CASE UNCHANGED vars
  BY <1>1 DEF vars, RequestsOnce, Waits, In, Once
<1>2. ASSUME NEW t \in Threads, Step(t) PROVE RequestsOnce'
  <2>1. Alone(t)
    BY <1>2, StepAlone
  <2>2. CASE PushTask(t)
    BY <2>1, <2>2, PushTaskOnce
  <2>3. CASE ~PushTask(t)
    <3>1. UNCHANGED <<requested, pushed>>
      BY <1>2, <2>3 DEF Step, StoreDestroying, CheckEmpty, ProcessHere, history,
         AddTaskSerializer, Poll, PopTask, Invoke, TaskDone, RunClear,
         CheckState, CheckRequeue, Requeue, UseAfterFree
    <3>2. CASE CheckEmpty(t)
      <4>1. Waits(t) /\ push'[t].task = push[t].task
        BY <3>2 DEF CheckEmpty, TypeOK, PushCalls, Waits
      <4> QED
        BY <2>1, <3>1, <4>1, RequestsOnceKept
    <3>3. CASE ProcessHere(t) \/ AddTaskSerializer(t)
      <4>1. push'[t].phase \in {"none", "schedule"}
        BY <3>3 DEF ProcessHere, AddTaskSerializer, TypeOK, NoPush
      <4> QED
        BY <2>1, <3>1, <4>1, RequestsOnceKept DEF Waits
    <3>4. CASE push' = push
      BY <2>1, <3>1, <3>4, RequestsOnceKept DEF Waits
    <3> QED
      BY <1>2, <2>3, <3>2, <3>3, <3>4
      DEF Step, StoreDestroying, Poll, PopTask, Invoke, TaskDone, RunClear,
          CheckState, CheckRequeue, Requeue, UseAfterFree
  <2> QED
    BY <2>2, <2>3
<1>3. ASSUME NEW t \in Threads, Request(t) PROVE RequestsOnce'
  <2>1. Alone(t)
    BY <1>3, StepAlone
  <2>2. ASSUME NEW s \in Serializers, SetDestroy(t, s) PROVE RequestsOnce'
    <3>1. UNCHANGED <<requested, pushed>>
      BY <2>2 DEF SetDestroy, history
    <3>2. CASE push' = push
      BY <2>1, <3>1, <3>2, RequestsOnceKept DEF Waits
    <3>3. CASE BeginPush(t, s, Clear)
      <4>1. push'[t].task \notin Tasks
        BY <3>3, TaskAssumption DEF BeginPush, TypeOK
      <4> QED
        BY <2>1, <3>1, <4>1 DEF RequestsOnce, Alone, Waits
    <3> QED
      BY <2>2, <3>2, <3>3 DEF SetDestroy
  <2> QED
    BY <1>3, <2>1, <2>2, RequestTaskOnce DEF Request
<1> QED
  BY <1>1, <1>2, <1>3 DEF Next

\* A thread has taken a task of serializer s and has not finished it.
Holds(t, s) == proc[t].phase \in {"start", "invoke"} /\ Current(t) = s

\* It has not invoked it yet.
Starts(t, s) == proc[t].phase = "start" /\ Current(t) = s

\* What was taken was started or is about to be, and nothing else was started;
\* a task in hand was taken, by one thread, and before invoke() not started.
StartInv ==
  /\ \A s \in Serializers : \A k :
       In(k, taken[s]) => In(k, started[s]) \/ AboutToStart(k, s)
  /\ \A s \in Serializers : \A k : In(k, started[s]) => In(k, taken[s])
  /\ \A t \in Threads : \A s \in Serializers :
       Holds(t, s) => In(proc[t].task, taken[s])
  /\ \A t \in Threads : \A s \in Serializers :
       Starts(t, s) /\ proc[t].task \in Tasks => ~In(proc[t].task, started[s])
  /\ \A t, u \in Threads : \A s \in Serializers :
       Starts(t, s) /\ Starts(u, s) /\ proc[t].task = proc[u].task
         /\ proc[t].task \in Tasks => t = u
  /\ \A s \in Serializers : Once(started[s])

\* A step that takes and starts nothing leaves what threads hold, or ends it.
StartsNothing(t) ==
  /\ UNCHANGED <<taken, started>>
  /\ proc[t].phase = "start" => proc'[t] = proc[t] /\ Current(t)' = Current(t)
  /\ proc'[t].phase \in {"start", "invoke"} =>
       proc'[t] = proc[t] /\ Current(t)' = Current(t)

\* Such a step keeps the invariant.
LEMMA StartsNothingKeeps ==
  ASSUME StartInv, NEW t \in Threads, Alone(t), StartsNothing(t)
  PROVE  StartInv'
<1>1. ASSUME NEW u \in Threads, NEW s \in Serializers
      PROVE  /\ Holds(u, s)' => Holds(u, s) /\ proc'[u].task = proc[u].task
             /\ Starts(u, s)' => Starts(u, s) /\ proc'[u].task = proc[u].task
             /\ Starts(u, s) => Starts(u, s)' /\ proc'[u].task = proc[u].task
  <2>1. CASE u = t
    BY <2>1 DEF StartsNothing, Holds, Starts
  <2>2. CASE u # t
    BY <2>2 DEF Alone, Holds, Starts
  <2> QED
    BY <2>1, <2>2
<1>2. taken' = taken /\ started' = started
  BY DEF StartsNothing
<1>3. ASSUME NEW s \in Serializers, NEW k, AboutToStart(k, s)
      PROVE  AboutToStart(k, s)'
  BY <1>1, <1>3 DEF AboutToStart, Starts
<1>4. /\ \A s \in Serializers : \A k :
           In(k, taken'[s]) => In(k, started'[s]) \/ AboutToStart(k, s)'
      /\ \A s \in Serializers : \A k : In(k, started'[s]) => In(k, taken'[s])
      /\ \A s \in Serializers : Once(started'[s])
  BY <1>2, <1>3 DEF StartInv
<1>5. ASSUME NEW u \in Threads, NEW s \in Serializers, Holds(u, s)'
      PROVE  In(proc'[u].task, taken'[s])
  BY <1>1, <1>2, <1>5 DEF StartInv
<1>6. ASSUME NEW u \in Threads, NEW s \in Serializers, Starts(u, s)',
             proc'[u].task \in Tasks
      PROVE  ~In(proc'[u].task, started'[s])
  BY <1>1, <1>2, <1>6 DEF StartInv
<1>7. ASSUME NEW u \in Threads, NEW v \in Threads, NEW s \in Serializers,
             Starts(u, s)', Starts(v, s)', proc'[u].task = proc'[v].task,
             proc'[u].task \in Tasks
      PROVE  u = v
  BY <1>1, <1>7 DEF StartInv
<1> QED
  BY <1>4, <1>5, <1>6, <1>7 DEF StartInv, In, Once

\* pop() returns a task.
Takes(t) == PopTask(t) /\ task_queue[Current(t)] # <<>>

\* The task taken from a queue has not been taken or started before.
LEMMA TakeStarts ==
  ASSUME TypeOK, QueueOrder, RequestsOnce, StartInv,
         NEW t \in Threads, Alone(t), Takes(t)
  PROVE  StartInv'
<1> USE CopyOK, TaskAssumption
<1> DEFINE s == Current(t)
           k == Head(task_queue[s])
<1>1. /\ s \in Serializers /\ proc[t].phase = "pop" /\ task_queue[s] # <<>>
      /\ task_queue[s] \in Seq(AnyTask) /\ taken[s] \in Seq(AnyTask)
      /\ pushed[s] = taken[s] \o task_queue[s] /\ Once(pushed[s])
  BY DEF Takes, PopTask, TypeOK, QueueOrder, RequestsOnce
<1>2. k \in AnyTask /\ (k \in Tasks => ~In(k, taken[s]))
  <2>1. k \in AnyTask
    BY <1>1, HeadTailProperties
  <2>2. Once(taken[s] \o task_queue[s])
    BY <1>1
  <2> QED
    BY <1>1, <2>1, <2>2, HeadNotTaken
<1>3. /\ proc'[t].phase = "start" /\ proc'[t].task = k
      /\ taken' = [taken EXCEPT ![s] = Append(taken[s], k)]
      /\ UNCHANGED <<tl, started>>
  BY SMTT(30) DEF Takes, PopTask, TypeOK, ProcessCalls
<1>4. Current(t)' = s
  BY <1>3 DEF Current
<1> HIDE DEF s, k
<1>5. ASSUME NEW q \in Serializers
      PROVE  /\ \A x : In(x, taken'[q]) <=> In(x, taken[q]) \/ (q = s /\ x = k)
  <2>1. CASE q # s
    BY <1>3, <2>1 DEF TypeOK
  <2>2. CASE q = s
    <3> DEFINE p == taken[q]
    <3>1. p \in Seq(AnyTask) /\ taken'[q] = Append(p, k)
      BY <1>1, <1>3, <2>2 DEF TypeOK
    <3>2. p = taken[q]
      OBVIOUS
    <3> HIDE DEF p
    <3>3. \A x : In(x, Append(p, k)) <=> In(x, p) \/ x = k
      BY <1>2, <3>1, InAppendOnly, InAppend
    <3> QED
      BY <2>2, <3>1, <3>2, <3>3
  <2> QED
    BY <2>1, <2>2
<1>6. ASSUME NEW u \in Threads \ {t}, NEW q \in Serializers
      PROVE  /\ Holds(u, q)' <=> Holds(u, q)
             /\ Starts(u, q)' <=> Starts(u, q)
             /\ proc'[u].task = proc[u].task
  BY DEF Alone, Holds, Starts
<1>7. \A q \in Serializers : (Holds(t, q)' <=> q = s) /\ (Starts(t, q)' <=> q = s)
  BY <1>3, <1>4 DEF Holds, Starts
<1>8. ASSUME NEW q \in Serializers, NEW x, In(x, taken'[q])
      PROVE  In(x, started'[q]) \/ AboutToStart(x, q)'
  <2>1. CASE q = s /\ x = k
    BY <1>3, <1>4, <2>1 DEF AboutToStart
  <2>2. CASE In(x, taken[q]) /\ ~In(x, started[q])
    <3>1. PICK u \in Threads : Starts(u, q) /\ proc[u].task = x
      BY <2>2 DEF StartInv, AboutToStart, Starts
    <3>2. u # t
      BY <1>1, <3>1 DEF Starts
    <3> QED
      BY <1>6, <3>1, <3>2 DEF AboutToStart, Starts
  <2> QED
    BY <1>3, <1>5, <1>8, <2>1, <2>2
<1>9. ASSUME NEW q \in Serializers, NEW x, In(x, started'[q])
      PROVE  In(x, taken'[q])
  BY <1>3, <1>5, <1>9 DEF StartInv
<1>10. ASSUME NEW u \in Threads, NEW q \in Serializers, Holds(u, q)'
       PROVE  In(proc'[u].task, taken'[q])
  <2>1. CASE u = t
    BY <1>3, <1>5, <1>7, <1>10, <2>1
  <2>2. CASE u # t
    BY <1>5, <1>6, <1>10, <2>2 DEF StartInv
  <2> QED
    BY <2>1, <2>2
<1>11. ASSUME NEW u \in Threads, NEW q \in Serializers, Starts(u, q)',
              proc'[u].task \in Tasks
       PROVE  ~In(proc'[u].task, started'[q])
  <2>1. CASE u = t
    BY <1>1, <1>2, <1>3, <1>7, <1>11, <2>1 DEF StartInv
  <2>2. CASE u # t
    BY <1>3, <1>6, <1>11, <2>2 DEF StartInv
  <2> QED
    BY <2>1, <2>2
<1>12. ASSUME NEW u \in Threads \ {t}, NEW q \in Serializers, Starts(u, q)',
              Starts(t, q)', proc'[u].task \in Tasks
       PROVE  proc'[u].task # proc'[t].task
  <2>1. Holds(u, q) /\ proc'[u].task = proc[u].task
    BY <1>6, <1>12 DEF Holds, Starts
  <2>2. In(proc'[u].task, taken[q])
    BY <2>1 DEF StartInv
  <2>3. q = s
    BY <1>7, <1>12
  <2> QED
    BY <1>2, <1>3, <1>12, <2>2, <2>3
<1>13. ASSUME NEW u \in Threads, NEW v \in Threads, NEW q \in Serializers,
              Starts(u, q)', Starts(v, q)', proc'[u].task = proc'[v].task,
              proc'[u].task \in Tasks
       PROVE  u = v
  <2>1. CASE u # t /\ v # t
    BY <1>6, <1>13, <2>1 DEF StartInv
  <2>2. CASE u = t \/ v = t
    BY <1>12, <1>13, <2>2
  <2> QED
    BY <2>1, <2>2
<1>14. \A q \in Serializers : Once(started'[q])
  BY <1>3 DEF StartInv
<1> QED
  BY <1>8, <1>9, <1>10, <1>11, <1>13, <1>14 DEF StartInv, In, Once

\* The task a thread invokes was taken by it alone and not started before.
LEMMA InvokeStarts ==
  ASSUME TypeOK, StartInv, NEW t \in Threads, Alone(t), Invoke(t)
  PROVE  StartInv'
<1> USE CopyOK, TaskAssumption
<1> DEFINE s == Current(t)
           k == proc[t].task
<1>1. /\ s \in Serializers /\ k \in AnyTask /\ Starts(t, s) /\ Holds(t, s)
      /\ started[s] \in Seq(AnyTask)
  BY DEF Invoke, TypeOK, InProcess, Current, ProcessCalls, Starts, Holds
<1>2. In(k, taken[s]) /\ (k \in Tasks => ~In(k, started[s]))
  BY <1>1 DEF StartInv
<1>3. /\ proc'[t].phase = "invoke" /\ proc'[t].task = k
      /\ started' = [started EXCEPT ![s] = Append(started[s], k)]
      /\ UNCHANGED <<tl, taken>>
  BY DEF Invoke, TypeOK, ProcessCalls
<1>4. Current(t)' = s
  BY <1>3 DEF Current
<1>5. \A u \in Threads \ {t} : Starts(u, s) /\ proc[u].task \in Tasks => proc[u].task # k
  BY <1>1 DEF StartInv
<1>6. k = proc[t].task /\ s = Current(t)
  OBVIOUS
<1> HIDE DEF s, k
<1>7. ASSUME NEW q \in Serializers
      PROVE  /\ \A x : In(x, started'[q]) <=> In(x, started[q]) \/ (q = s /\ x = k)
             /\ Once(started'[q])
  <2>1. CASE q # s
    BY <1>3, <2>1 DEF TypeOK, StartInv
  <2>2. CASE q = s
    <3> DEFINE p == started[q]
    <3>1. /\ p \in Seq(AnyTask) /\ started'[q] = Append(p, k) /\ Once(p)
          /\ k \in Tasks => ~In(k, p)
      BY <1>1, <1>2, <1>3, <2>2 DEF TypeOK, StartInv
    <3>2. p = started[q]
      OBVIOUS
    <3> HIDE DEF p
    <3>3. \A x : In(x, Append(p, k)) <=> In(x, p) \/ x = k
      BY <1>1, <3>1, InAppendOnly, InAppend
    <3>4. Once(Append(p, k))
      BY <1>1, <3>1, OnceAppend
    <3> QED
      BY <2>2, <3>1, <3>2, <3>3, <3>4
  <2> QED
    BY <2>1, <2>2
<1>8. ASSUME NEW u \in Threads \ {t}, NEW q \in Serializers
      PROVE  /\ Holds(u, q)' <=> Holds(u, q)
             /\ Starts(u, q)' <=> Starts(u, q)
             /\ proc'[u].task = proc[u].task
  BY DEF Alone, Holds, Starts
<1>9. \A q \in Serializers : (Holds(t, q)' <=> q = s) /\ ~Starts(t, q)'
  BY <1>3, <1>4 DEF Holds, Starts
<1>10. ASSUME NEW q \in Serializers, NEW x, In(x, taken'[q])
       PROVE  In(x, started'[q]) \/ AboutToStart(x, q)'
  <2>1. CASE In(x, started[q])
    BY <1>7, <2>1
  <2>2. CASE ~In(x, started[q])
    <3>1. PICK u \in Threads : Starts(u, q) /\ proc[u].task = x
      BY <1>3, <1>10, <2>2 DEF StartInv, AboutToStart, Starts
    <3>2. CASE u = t
      <4>1. q = s /\ x = k
        BY <1>6, <3>1, <3>2 DEF Starts
      <4> QED
        BY <1>7, <4>1
    <3>3. CASE u # t
      BY <1>8, <3>1, <3>3 DEF AboutToStart, Starts
    <3> QED
      BY <3>2, <3>3
  <2> QED
    BY <2>1, <2>2
<1>11. ASSUME NEW q \in Serializers, NEW x, In(x, started'[q])
       PROVE  In(x, taken'[q])
  BY <1>2, <1>3, <1>7, <1>11 DEF StartInv
<1>12. ASSUME NEW u \in Threads, NEW q \in Serializers, Holds(u, q)'
       PROVE  In(proc'[u].task, taken'[q])
  <2>1. CASE u = t
    BY <1>2, <1>3, <1>9, <1>12, <2>1
  <2>2. CASE u # t
    BY <1>3, <1>8, <1>12, <2>2 DEF StartInv
  <2> QED
    BY <2>1, <2>2
<1>13. ASSUME NEW u \in Threads, NEW q \in Serializers, Starts(u, q)',
              proc'[u].task \in Tasks
       PROVE  ~In(proc'[u].task, started'[q])
  <2>1. u # t /\ Starts(u, q) /\ proc'[u].task = proc[u].task
    BY <1>8, <1>9, <1>13
  <2>2. ~In(proc'[u].task, started[q])
    BY <1>13, <2>1 DEF StartInv
  <2>3. q = s => proc'[u].task # k
    BY <1>5, <1>13, <2>1
  <2> QED
    BY <1>7, <2>2, <2>3
<1>14. ASSUME NEW u \in Threads, NEW v \in Threads, NEW q \in Serializers,
              Starts(u, q)', Starts(v, q)', proc'[u].task = proc'[v].task,
              proc'[u].task \in Tasks
       PROVE  u = v
  <2>1. u # t /\ v # t
    BY <1>9, <1>14
  <2> QED
    BY <1>8, <1>14, <2>1 DEF StartInv
<1>15. \A q \in Serializers : Once(started'[q])
  BY <1>7
<1> QED
  BY <1>10, <1>11, <1>12, <1>13, <1>14, <1>15 DEF StartInv, In, Once

\* Every step keeps the invariant about starts.
LEMMA StartStep ==
  ASSUME TypeOK, QueueOrder, RequestsOnce, StartInv, [Next]_vars
  PROVE  StartInv'
<1> USE CopyOK
<1>1. CASE UNCHANGED vars
  BY <1>1 DEF vars, StartInv, Holds, Starts, AboutToStart, Current, In, Once
<1>2. ASSUME NEW t \in Threads, Step(t) PROVE StartInv'
  <2>1. Alone(t)
    BY <1>2, StepAlone
  <2>2. CASE Takes(t)
    BY <2>1, <2>2, TakeStarts
  <2>3. CASE Invoke(t)
    BY <2>1, <2>3, InvokeStarts
  <2>4. ASSUME UNCHANGED <<taken, started, proc, tl>> PROVE StartInv'
    BY <2>1, <2>4, StartsNothingKeeps DEF StartsNothing, Current
  <2>5. ASSUME UNCHANGED <<taken, started>>, proc[t].phase # "start",
               proc'[t].phase \notin {"start", "invoke"}
        PROVE  StartInv'
    BY <2>1, <2>5, StartsNothingKeeps DEF StartsNothing
  <2>6. CASE \/ StoreDestroying(t) \/ CheckEmpty(t) \/ PushTask(t)
             \/ AddTaskSerializer(t) \/ UseAfterFree(t)
    BY <2>4, <2>6 DEF StoreDestroying, CheckEmpty, PushTask,
       AddTaskSerializer, UseAfterFree, history
  <2>7. ASSUME NEW d, NEW s, NEW k, BeginProcess(t, d, s, k),
               UNCHANGED <<taken, started>>
        PROVE  StartInv'
    <3>1. CASE Current(t) # NULL
      BY <2>4, <2>7, <3>1 DEF BeginProcess
    <3>2. CASE Current(t) = NULL
      <4>1. proc[t].phase = "idle" /\ proc'[t].phase = "pop"
        BY <2>7, <3>2 DEF BeginProcess, TypeOK, InProcess
      <4> QED
        BY <2>5, <2>7, <4>1
    <3> QED
      BY <3>1, <3>2
  <2>8. CASE ProcessHere(t)
    BY <2>7, <2>8 DEF ProcessHere, history
  <2>9. CASE Poll(t)
    BY <2>4, <2>7, <2>9 DEF Poll, history
  <2>10. CASE PopTask(t) /\ ~Takes(t)
    <3>1. proc[t].phase = "pop" /\ proc' = [proc EXCEPT ![t].phase = "state"]
          /\ UNCHANGED <<taken, started>>
      BY <2>10 DEF Takes, PopTask
    <3> QED
      BY <2>5, <3>1 DEF TypeOK, ProcessCalls
  <2>11. CASE TaskDone(t)
    <3>1. proc[t].phase = "invoke" /\ proc'[t].phase \in {"state", "pop"}
          /\ UNCHANGED <<taken, started>>
      BY <2>11 DEF TaskDone, AfterInvoke, TypeOK, ProcessCalls
    <3> QED
      BY <2>5, <3>1
  <2>12. CASE RunClear(t)
    <3>1. proc[t].phase = "invoke" /\ UNCHANGED <<taken, started, tl>>
      BY <2>12 DEF RunClear, history
    <3>2. proc' = proc \/ proc'[t].phase \in {"state", "pop"}
      BY <2>12 DEF RunClear, AfterInvoke, TypeOK, ProcessCalls
    <3> QED
      BY <2>4, <2>5, <3>1, <3>2
  <2>13. CASE CheckState(t) \/ CheckRequeue(t) \/ Requeue(t)
    <3>1. proc[t].phase \in {"state", "empty", "requeue"}
          /\ UNCHANGED <<taken, started>>
      BY <2>13 DEF CheckState, CheckRequeue, Requeue, history
    <3>2. \/ proc' = proc /\ tl' = tl
          \/ proc'[t].phase \in {"empty", "requeue", "idle"}
      BY <2>13 DEF CheckState, CheckRequeue, Requeue, Return, Idle, TypeOK,
                   ProcessCalls
    <3> QED
      BY <2>4, <2>5, <3>1, <3>2
  <2> QED
    BY <1>2, <2>2, <2>3, <2>6, <2>8, <2>9, <2>10, <2>11, <2>12, <2>13 DEF Step
<1>3. ASSUME NEW t \in Threads, Request(t) PROVE StartInv'
  <2>1. Alone(t)
    BY <1>3, StepAlone
  <2>2. UNCHANGED <<taken, started, proc, tl>>
    BY <1>3 DEF Request, RequestTask, SetDestroy, history
  <2> QED
    BY <2>1, <2>2, StartsNothingKeeps DEF StartsNothing, Current
<1> QED
  BY <1>1, <1>2, <1>3 DEF Next

\* The invariant about starts holds in every reachable state.
LEMMA StartsKept == Spec => []StartInv /\ []RequestsOnce
<1>1. Init => StartInv /\ RequestsOnce
  BY DEF Init, StartInv, RequestsOnce, Idle, NoPush, Holds, Starts, Waits, In,
         Once
<1> QED
  BY <1>1, TypeCorrect, QueueOrdered, RequestsOnceStep, StartStep, PTL DEF Spec

\* No task is invoked twice, and one task overtakes another only while the
\* thread that took the other is about to invoke it: however many threads
\* drain a serializer, none is skipped, lost or repeated.
THEOREM StartsInOrder == Spec => []StartOrder
<1>1. ASSUME TypeOK, QueueOrder, RequestsOnce, StartInv, NEW s \in Serializers,
             NEW i \in DOMAIN pushed[s], NEW j \in DOMAIN pushed[s], i < j,
             pushed[s][j] \in Tasks, In(pushed[s][j], started[s])
      PROVE  In(pushed[s][i], started[s]) \/ AboutToStart(pushed[s][i], s)
  <2>0. \A k : /\ In(k, taken[s]) => In(k, started[s]) \/ AboutToStart(k, s)
               /\ In(k, started[s]) => In(k, taken[s])
    BY <1>1 DEF StartInv
  <2> DEFINE p == pushed[s]
             a == taken[s]
             q == task_queue[s]
  <2>1. /\ a \in Seq(AnyTask) /\ q \in Seq(AnyTask)
        /\ p = a \o q
        /\ Once(p)
    <3>1. a \in Seq(AnyTask) /\ q \in Seq(AnyTask)
      BY <1>1 DEF TypeOK
    <3>2. p = a \o q
      BY <1>1 DEF QueueOrder
    <3>3. Once(p)
      BY <1>1 DEF RequestsOnce
    <3> QED
      BY <3>1, <3>2, <3>3
  <2>2. In(p[j], a)
    BY <1>1, <2>0
  <2>3. i \in DOMAIN p /\ j \in DOMAIN p /\ p[j] \in Tasks
    BY <1>1
  <2>4. In(p[i], a) => In(p[i], started[s]) \/ AboutToStart(p[i], s)
    BY <2>0
  <2> HIDE DEF p, a, q
  <2>5. /\ Len(a) \in Nat /\ Len(q) \in Nat
        /\ DOMAIN p = 1 .. Len(a) + Len(q)
        /\ \A m \in 1 .. Len(a) : p[m] = a[m]
    BY <2>1, ConcatProperties, LenProperties
  <2>6. PICK m \in 1 .. Len(a) : a[m] = p[j]
    BY <2>2 DEF In
  <2>7. m = j
    BY <2>1, <2>3, <2>5, <2>6 DEF Once
  <2>8. i \in 1 .. Len(a) /\ a[i] = p[i]
    BY <1>1, <2>3, <2>5, <2>6, <2>7
  <2>9. In(p[i], a)
    BY <2>8 DEF In
  <2> QED
    BY <2>4, <2>9 DEF p
<1>2. ASSUME StartInv, NEW s \in Serializers PROVE Once(started[s])
  BY <1>2 DEF StartInv
<1>3. TypeOK /\ QueueOrder /\ RequestsOnce /\ StartInv => StartOrder
  BY <1>1, <1>2 DEF StartOrder, Once
<1> QED
  BY <1>3, TypeCorrect, QueueOrdered, StartsKept, PTL DEF Spec

\* A serializer is deleted only after every task pushed to it was taken by a
\* thread that has invoked it or is about to.
THEOREM DeletionSafe == Spec => []DeletionLosesNothing
<1>1. Init => DeletedEmpty
  BY DEF Init, DeletedEmpty
<1>2. ASSUME TypeOK, QueueOrder, DeletedEmpty, StartInv,
             NEW s \in Serializers \ alive, NEW i \in DOMAIN pushed[s]
      PROVE  In(pushed[s][i], started[s]) \/ AboutToStart(pushed[s][i], s)
  <2>1. taken[s] \in Seq(AnyTask) /\ pushed[s] = taken[s]
    BY <1>2, ConcatEmptySeq DEF TypeOK, QueueOrder, DeletedEmpty
  <2>2. In(pushed[s][i], taken[s])
    BY <2>1, LenProperties DEF In
  <2>3. \A k : In(k, taken[s]) => In(k, started[s]) \/ AboutToStart(k, s)
    BY <1>2 DEF StartInv
  <2> QED
    BY <2>2, <2>3
<1>3. TypeOK /\ QueueOrder /\ DeletedEmpty /\ StartInv => DeletionLosesNothing
  BY <1>2 DEF DeletionLosesNothing
<1> QED
  BY <1>1, <1>3, TypeCorrect, QueueOrdered, DeletedStep, StartsKept, PTL
  DEF Spec

-----------------------------------------------------------------------------
(* How the task layer can fail.                                            *)

\* The task clear() was pushed to some serializer.
ClearSeen == \E s \in Serializers : In(Clear, pushed[s])

\* A thread that is inside push() processes no serializer, or runs the task
\* that called push(); that task is not clear().
PushedFrom(t) ==
  push[t].phase # "none" =>
    \/ proc[t].phase = "idle"
    \/ proc[t].phase = "invoke" /\ proc[t].task # Clear

\* What leads to a fault: a serializer is destroyed by the task clear().
FaultInv ==
  /\ \A t \in Threads : PushedFrom(t)
  /\ \A s \in Serializers : s \notin alive \/ state[s] = "DESTROYED" => ClearSeen

\* A clear() that was pushed stays pushed; one that a thread runs was pushed.
LEMMA ClearStays ==
  ASSUME TypeOK, [Next]_vars, ClearSeen
  PROVE  ClearSeen'
<1>1. PICK s \in Serializers : In(Clear, pushed[s])
  BY DEF ClearSeen
<1>2. In(Clear, pushed'[s])
  BY <1>1, HistoryGrows
<1> QED
  BY <1>2 DEF ClearSeen, In

\* A thread that runs clear() took it from the queue it was pushed to.
LEMMA ClearRuns ==
  ASSUME TypeOK, QueueOrder, StartInv, NEW t \in Threads, RunClear(t)
  PROVE  ClearSeen
<1> DEFINE s == Current(t)
<1>1. s \in Serializers /\ In(Clear, taken[s])
  BY DEF RunClear, TypeOK, StartInv, Holds
<1>2. /\ taken[s] \in Seq(AnyTask) /\ task_queue[s] \in Seq(AnyTask)
      /\ pushed[s] = taken[s] \o task_queue[s]
  BY <1>1 DEF TypeOK, QueueOrder
<1> DEFINE p == pushed[s]
           a == taken[s]
           q == task_queue[s]
<1>3. a \in Seq(AnyTask) /\ q \in Seq(AnyTask) /\ p = a \o q /\ In(Clear, a)
  BY <1>1, <1>2
<1> HIDE DEF p, a, q
<1>4. /\ Len(a) \in Nat /\ Len(q) \in Nat /\ Len(p) = Len(a) + Len(q)
      /\ \A i \in 1 .. Len(a) : p[i] = a[i]
  BY <1>3, ConcatProperties, LenProperties
<1>5. In(Clear, p)
  BY <1>3, <1>4 DEF In
<1> QED
  BY <1>1, <1>5 DEF ClearSeen, p

\* Every step of a thread keeps the invariant about faults.
LEMMA FaultStep ==
  ASSUME TypeOK, QueueOrder, StartInv, FaultInv, [Next]_vars,
         NEW t \in Threads, Step(t)
  PROVE  FaultInv'
<1> USE CopyOK, TaskAssumption
<1>1. Alone(t)
  BY StepAlone
<1>2. PushedFrom(t)
  BY DEF FaultInv
<1>3. PushedFrom(t)'
  <2>1. CASE push'[t].phase = "none"
    BY <2>1 DEF PushedFrom
  <2>2. CASE StoreDestroying(t) \/ UseAfterFree(t)
    BY <1>2, <2>2 DEF StoreDestroying, UseAfterFree, PushedFrom
  <2>3. CASE CheckEmpty(t) \/ PushTask(t)
    <3>1. push[t].phase # "none" /\ proc' = proc
      BY <2>3 DEF CheckEmpty, PushTask
    <3> QED
      BY <1>2, <3>1 DEF PushedFrom
  <2>4. CASE ProcessHere(t)
    <3>1. CASE Current(t) = NULL
      BY <2>1, <2>4, <3>1 DEF ProcessHere, TypeOK, NoPush
    <3>2. CASE Current(t) # NULL
      BY <1>2, <2>4, <3>2 DEF ProcessHere, BeginProcess, PushedFrom
    <3> QED
      BY <3>1, <3>2
  <2>5. CASE AddTaskSerializer(t)
    BY <2>1, <2>5 DEF AddTaskSerializer, TypeOK, NoPush
  <2>6. CASE Poll(t) \/ TaskDone(t)
    BY <2>1, <2>6 DEF Poll, TaskDone
  <2>7. ASSUME push' = push,
               proc[t].phase \notin {"idle", "invoke"} \/ proc[t].task = Clear,
               proc[t].phase # "idle"
        PROVE  PushedFrom(t)'
    BY <1>2, <2>7 DEF PushedFrom
  <2>8. CASE \/ PopTask(t) \/ Invoke(t) \/ RunClear(t) \/ CheckState(t)
             \/ CheckRequeue(t) \/ Requeue(t)
    BY <2>7, <2>8 DEF PopTask, Invoke, RunClear, CheckState, CheckRequeue, Requeue
  <2> QED
    BY <2>2, <2>3, <2>4, <2>5, <2>6, <2>8 DEF Step
<1>4. ASSUME NEW u \in Threads PROVE PushedFrom(u)'
  BY <1>1, <1>3, <1>4 DEF Alone, PushedFrom, FaultInv
<1>5. ASSUME NEW s \in Serializers, s \notin alive' \/ state'[s] = "DESTROYED"
      PROVE  ClearSeen'
  <2>1. CASE RunClear(t)
    BY <2>1, ClearRuns, ClearStays
  <2>2. CASE ~RunClear(t)
    <3>1. state'[s] = "DESTROYED" => state[s] = "DESTROYED"
      BY <2>2 DEF Step, StoreDestroying, CheckEmpty, PushTask, ProcessHere,
         AddTaskSerializer, Poll, PopTask, Invoke, TaskDone, CheckState,
         CheckRequeue, Requeue, UseAfterFree, TypeOK
    <3>2. s \notin alive' => s \notin alive \/ state[s] = "DESTROYED"
      BY <2>2 DEF Step, StoreDestroying, CheckEmpty, PushTask, ProcessHere,
         AddTaskSerializer, Poll, PopTask, Invoke, TaskDone, CheckState,
         CheckRequeue, Requeue, UseAfterFree
    <3>3. ClearSeen
      BY <1>5, <3>1, <3>2 DEF FaultInv
    <3> QED
      BY <3>3, ClearStays
  <2> QED
    BY <2>1, <2>2
<1>6. \A s \in Serializers :
        s \notin alive' \/ state'[s] = "DESTROYED" => ClearSeen'
  BY <1>5
<1>7. \A u \in Threads : PushedFrom(u)'
  BY <1>4
<1> QED
  BY <1>6, <1>7 DEF FaultInv

\* A step that ends in a fault has its cause.
LEMMA FaultHasCause ==
  ASSUME TypeOK, QueueOrder, StartInv, FaultInv, [Next]_vars,
         NEW t \in Threads, Step(t)
  PROVE  FaultsHaveCause'
<1> USE CopyOK, TaskAssumption
<1>0. fault = "none"
  BY DEF Step
<1>1. CASE fault' = "none"
  BY <1>1 DEF FaultsHaveCause, ClearFaults
<1>2. ASSUME ClearSeen, fault' # "assert_tl"
      PROVE  FaultsHaveCause'
  <2>1. ClearSeen'
    BY <1>2, ClearStays
  <2> QED
    BY <1>2, <2>1 DEF FaultsHaveCause, ClearSeen
<1>3. CASE ProcessHere(t)
  <2>1. CASE Current(t) = NULL
    BY <1>0, <1>1, <1>3, <2>1 DEF ProcessHere, BeginProcess
  <2>2. CASE Current(t) # NULL
    <3>1. push' = push /\ proc' = proc /\ fault' = "assert_tl"
      BY <1>3, <2>2 DEF ProcessHere, BeginProcess, TypeOK
    <3>2. push[t].phase = "schedule" /\ proc[t].phase = "invoke"
      BY <1>3, <2>2 DEF ProcessHere, TypeOK, InProcess, FaultInv, PushedFrom
    <3> QED
      BY <3>1, <3>2 DEF FaultsHaveCause, RequestsWhileRunning, ClearFaults
  <2> QED
    BY <2>1, <2>2
<1>4. CASE Poll(t)
  <2>1. Current(t) = NULL
    BY <1>4 DEF Poll, TypeOK, InProcess
  <2> QED
    BY <1>0, <1>1, <1>4, <2>1 DEF Poll, BeginProcess
<1>5. CASE RunClear(t)
  BY <1>0, <1>1, <1>2, <1>5, ClearRuns DEF RunClear, ClearFaults
<1>6. CASE CheckState(t)
  <2>1. Current(t) \in Serializers
    BY <1>6 DEF CheckState, TypeOK
  <2>2. CASE state[Current(t)] = "DESTROYED"
    <3>1. ClearSeen
      BY <2>1, <2>2 DEF FaultInv
    <3> QED
      BY <1>0, <1>1, <1>2, <1>6, <3>1 DEF CheckState, ClearFaults
  <2>3. CASE state[Current(t)] # "DESTROYED"
    BY <1>0, <1>1, <1>6, <2>3 DEF CheckState
  <2> QED
    BY <2>2, <2>3
<1>7. CASE UseAfterFree(t)
  <2>1. push[t].phase \in {"empty", "push"} => push[t].ser \in Serializers
    BY DEF TypeOK, PushCalls, InPush
  <2>2. Current(t) \in Serializers \cup {NULL}
        /\ destroy[t] \in Serializers \cup {NULL}
    BY DEF TypeOK, Current
  <2>3. Touches(t) \in Serializers \cup {NULL}
    BY <2>1, <2>2, Zenon DEF Touches
  <2>4. ClearSeen
    BY <1>7, <2>3 DEF UseAfterFree, FaultInv
  <2> QED
    BY <1>2, <1>7, <2>4 DEF UseAfterFree
<1>8. CASE \/ StoreDestroying(t) \/ CheckEmpty(t) \/ PushTask(t)
           \/ AddTaskSerializer(t) \/ PopTask(t) \/ Invoke(t) \/ TaskDone(t)
           \/ CheckRequeue(t) \/ Requeue(t)
  BY <1>0, <1>1, <1>8 DEF StoreDestroying, CheckEmpty, PushTask,
     AddTaskSerializer, PopTask, Invoke, TaskDone, CheckRequeue, Requeue
<1> QED
  BY <1>3, <1>4, <1>5, <1>6, <1>7, <1>8 DEF Step

\* A request changes nothing that the invariant about faults depends on.
LEMMA FaultRequest ==
  ASSUME TypeOK, FaultInv, [Next]_vars, NEW t \in Threads, Request(t)
  PROVE  FaultInv' /\ FaultsHaveCause'
<1>1. Alone(t)
  BY StepAlone
<1>2. UNCHANGED <<alive, state, pushed, fault, proc>> /\ fault = "none"
  BY DEF Request, RequestTask, SetDestroy, history
<1>3. PushedFrom(t)'
  <2>1. CASE push' = push
    BY <1>2, <2>1 DEF FaultInv, PushedFrom
  <2>2. CASE push' # push
    <3>1. \/ proc[t].phase = "idle"
          \/ proc[t].phase = "invoke" /\ proc[t].task # Clear
      BY <2>2 DEF Request, RequestTask, SetDestroy, MayRequest
    <3>2. \/ proc'[t].phase = "idle"
          \/ proc'[t].phase = "invoke" /\ proc'[t].task # Clear
      BY <1>2, <3>1
    <3> QED
      BY <3>2, Zenon DEF PushedFrom
  <2> QED
    BY <2>1, <2>2
<1>4. \A u \in Threads : PushedFrom(u)'
  BY <1>1, <1>3 DEF Alone, PushedFrom, FaultInv
<1>5. FaultsHaveCause'
  BY <1>2 DEF FaultsHaveCause, ClearFaults
<1> QED
  BY <1>2, <1>4, <1>5 DEF FaultInv, ClearSeen, In

\* The task layer fails in two ways only: the assertion about the thread-local
\* under a task that requests a task of an empty serializer, and a release or
\* a use of what is gone after a set_destroy.
THEOREM FaultsCaused == Spec => []FaultsHaveCause
<1>1. Init => FaultInv /\ FaultsHaveCause
  BY DEF Init, FaultInv, PushedFrom, NoPush, FaultsHaveCause, ClearFaults
<1>2. TypeOK /\ QueueOrder /\ StartInv /\ FaultInv /\ FaultsHaveCause
        /\ [Next]_vars => FaultInv' /\ FaultsHaveCause'
  <2>1. FaultInv /\ FaultsHaveCause /\ UNCHANGED vars =>
          FaultInv' /\ FaultsHaveCause'
    BY DEF vars, FaultInv, PushedFrom, ClearSeen, FaultsHaveCause,
           RequestsWhileRunning, In
  <2> QED
    BY <2>1, FaultStep, FaultHasCause, FaultRequest DEF Next
<1> QED
  BY <1>1, <1>2, TypeCorrect, QueueOrdered, StartsKept, PTL DEF Spec

\* Where tasks request no tasks and nobody calls set_destroy, a thread inside
\* push() processes no serializer, and no clear() is on its way.
PlainUse ==
  /\ \A t \in Threads : push[t].phase # "none" =>
       proc[t].phase = "idle" /\ push[t].task # Clear
  /\ ~ClearSeen

\* Such use stays plain.
LEMMA PlainStep ==
  ASSUME Nested = FALSE, Destroyers = {}, TypeOK, PlainUse, [Next]_vars
  PROVE  PlainUse'
<1> USE CopyOK, TaskAssumption
<1>1. CASE UNCHANGED vars
  BY <1>1 DEF vars, PlainUse, ClearSeen, In
<1>2. ASSUME NEW t \in Threads, Step(t) PROVE PlainUse'
  <2>1. Alone(t)
    BY <1>2, StepAlone
  <2>2. push[t].phase # "none" => proc[t].phase = "idle" /\ push[t].task # Clear
    BY DEF PlainUse
  <2>3. push'[t].phase # "none" =>
          proc'[t].phase = "idle" /\ push'[t].task # Clear
    <3>1. CASE CheckEmpty(t) \/ PushTask(t)
      BY <2>2, <3>1 DEF CheckEmpty, PushTask, TypeOK, PushCalls, NoPush
    <3>2. CASE ProcessHere(t)
      <4>1. Current(t) = NULL
        BY <2>2, <3>2 DEF ProcessHere, TypeOK, InProcess
      <4> QED
        BY <3>2, <4>1 DEF ProcessHere, TypeOK, NoPush
    <3>3. CASE AddTaskSerializer(t)
      BY <3>3 DEF AddTaskSerializer, TypeOK, NoPush
    <3>4. CASE push' = push /\ (proc' = proc \/ push[t].phase = "none")
      BY <2>2, <3>4
    <3>5. CASE push' = push /\ proc[t].phase # "idle"
      BY <2>2, <3>5
    <3> QED
      BY <1>2, <3>1, <3>2, <3>3, <3>4, <3>5
      DEF Step, StoreDestroying, Poll, PopTask, Invoke, TaskDone, RunClear,
          CheckState, CheckRequeue, Requeue, UseAfterFree
  <2>4. \A u \in Threads : push'[u].phase # "none" =>
          proc'[u].phase = "idle" /\ push'[u].task # Clear
    BY <2>1, <2>3 DEF Alone, PlainUse
  <2>5. ~ClearSeen'
    <3>1. CASE PushTask(t)
      <4> DEFINE s == push[t].ser
                 k == push[t].task
      <4>1. s \in Serializers /\ k \in AnyTask /\ k # Clear
        BY <2>2, <3>1 DEF TypeOK, PushTask, PushCalls, InPush
      <4>2. pushed' = [pushed EXCEPT ![s] = Append(pushed[s], k)]
        BY <3>1 DEF PushTask
      <4> HIDE DEF s, k
      <4>3. ASSUME NEW q \in Serializers PROVE ~In(Clear, pushed'[q])
        <5>1. pushed[q] \in Seq(AnyTask) /\ ~In(Clear, pushed[q])
          BY DEF TypeOK, PlainUse, ClearSeen
        <5>2. pushed'[q] = pushed[q] \/ pushed'[q] = Append(pushed[q], k)
          BY <4>1, <4>2 DEF TypeOK
        <5> QED
          BY <4>1, <5>1, <5>2, InAppendOnly
      <4> QED
        BY <4>3 DEF ClearSeen, In
    <3>2. CASE ~PushTask(t)
      <4>1. pushed' = pushed
        BY <1>2, <3>2 DEF Step, StoreDestroying, CheckEmpty, ProcessHere,
           AddTaskSerializer, Poll, PopTask, Invoke, TaskDone, RunClear,
           CheckState, CheckRequeue, Requeue, UseAfterFree, history
      <4> QED
        BY <4>1 DEF PlainUse, ClearSeen, In
    <3> QED
      BY <3>1, <3>2
  <2> QED
    BY <2>4, <2>5 DEF PlainUse
<1>3. ASSUME NEW t \in Threads, Request(t) PROVE PlainUse'
  <2>1. PICK s \in Serializers, k \in Tasks : RequestTask(t, s, k)
    BY <1>3 DEF Request, SetDestroy
  <2>2. Alone(t) /\ proc[t].phase = "idle" /\ push'[t].task = k /\ k # Clear
        /\ UNCHANGED <<proc, pushed>>
    BY <1>3, <2>1, StepAlone DEF RequestTask, MayRequest, BeginPush, TypeOK
  <2>3. \A u \in Threads : push'[u].phase # "none" =>
          proc'[u].phase = "idle" /\ push'[u].task # Clear
    BY <2>2 DEF Alone, PlainUse
  <2> QED
    BY <2>2, <2>3 DEF PlainUse, ClearSeen, In
<1> QED
  BY <1>1, <1>2, <1>3 DEF Next

\* With any number of threads, serializers and tasks, no assertion of the task
\* layer fails and no serializer is used after its deletion, as long as tasks
\* do not request tasks and nobody calls set_destroy.
THEOREM PlainUseFaultFree ==
  ASSUME Nested = FALSE, Destroyers = {}
  PROVE  Spec => []NoFault
<1>1. Init => PlainUse
  BY DEF Init, PlainUse, NoPush, ClearSeen, In
<1>2. TypeOK /\ PlainUse /\ [Next]_vars => PlainUse'
  BY PlainStep
<1>3. TypeOK /\ FaultsHaveCause /\ PlainUse => NoFault
  BY DEF TypeOK, FaultsHaveCause, PlainUse, ClearSeen, RequestsWhileRunning,
         NoFault
<1> QED
  BY <1>1, <1>2, <1>3, TypeCorrect, FaultsCaused, PTL DEF Spec

=============================================================================
