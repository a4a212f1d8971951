--------------------------- MODULE LogHandlerProofs ---------------------------
(***************************************************************************)
(* Theorems about LogHandler, for any number of threads, serializers,      *)
(* lines and actor tasks, and whatever happens to the file.  Its task      *)
(* layer is TaskSerializer, whose theorems carry over.                     *)
(***************************************************************************)
EXTENDS LogHandler, TaskSerializerProofs

-----------------------------------------------------------------------------
(* The inductive invariant.                                                *)

\* The places of write_log, "none" outside it.
LogPlaces == {"none", "enabled", "file", "insert", "disable", "done"}

\* The lines, and no others, are tasks of the handler.
Belongs(k, s) == k \in Lines <=> s = Handler

\* A task on its way is requested, not pushed yet, and on its way once.
WaitKept ==
  /\ \A t \in Threads : Waits(t) =>
       /\ push[t].task \in requested
       /\ Belongs(push[t].task, push[t].ser)
       /\ ~In(push[t].task, pushed[Handler])
  /\ \A t, u \in Threads :
       Waits(t) /\ Waits(u) /\ push[t].task = push[u].task => t = u

\* The handler was given lines only, each once.
PushedKept ==
  /\ \A s \in Serializers : \A i \in 1 .. Len(pushed[s]) :
       pushed[s][i] \in requested /\ Belongs(pushed[s][i], s)
  /\ NoRepeat(pushed[Handler])

\* A line in hand was taken by one thread only, and has not finished.
RunKept ==
  /\ \A t \in Threads : \A s \in Serializers : Holds(t, s) =>
       proc[t].task \in Tasks /\ Belongs(proc[t].task, s)
  /\ \A t \in Threads : Holds(t, Handler) =>
       In(proc[t].task, taken[Handler]) /\ proc[t].task \notin finished
  /\ \A t, u \in Threads :
       Holds(t, Handler) /\ Holds(u, Handler)
         /\ proc[t].task = proc[u].task => t = u
  /\ \A k \in finished \cap Lines : In(k, taken[Handler])

\* write_log requests nothing, nor does the loop that drains a serializer.
CalmIn(t) ==
  proc[t].phase \notin {"idle", "invoke"} \/ Holds(t, Handler)
    => push[t].phase = "none"

Calm == \A t \in Threads : CalmIn(t)

\* A thread in write_log runs a line of the handler, which is printed as soon
\* as it has left the first place, and is not in the file before the write.
LogKept ==
  /\ \A t \in Threads : log[t] # "none" => Executing(t, Handler)
  /\ \A t \in Threads : Holds(t, Handler) =>
       (log[t] # "none" <=> In(proc[t].task, stdout))
  /\ \A t \in Threads :
       log[t] \in {"enabled", "file", "insert"} => ~In(proc[t].task, file)

\* Only taken lines are printed.
PrintedTaken == \A i \in 1 .. Len(stdout) : In(stdout[i], taken[Handler])

LogType ==
  /\ log \in [Threads -> LogPlaces]
  /\ stdout \in Seq(AnyTask) /\ file \in Seq(AnyTask)

\* What the task layer does with the lines.
TasksKept == WaitKept /\ PushedKept /\ RunKept /\ Calm

LinesKept == TasksKept /\ LogKept /\ PrintedTaken

\* A step that ends in a fault changes no output; the rest holds before it.
LogInv == LogType /\ LoggedOnce /\ (fault = "none" => LinesKept)
-----------------------------------------------------------------------------
(* Sequences of lines.                                                     *)

\* Appending what is not yet in a sequence without repeats repeats nothing.
LEMMA NoRepeatAppend ==
  ASSUME NEW q \in Seq(AnyTask), NEW x \in AnyTask, NoRepeat(q), ~In(x, q)
  PROVE  NoRepeat(Append(q, x))
<1>1. /\ Len(Append(q, x)) = Len(q) + 1 /\ Len(q) \in Nat
      /\ DOMAIN Append(q, x) = 1 .. Len(q) + 1
      /\ DOMAIN q = 1 .. Len(q)
      /\ Append(q, x)[Len(q) + 1] = x
      /\ \A i \in 1 .. Len(q) : Append(q, x)[i] = q[i]
  BY AppendProperties
<1> QED
  BY <1>1 DEF In, NoRepeat

\* The head of what is left of a sequence is in the sequence and, if that
\* repeats nothing, is not among what was taken.
LEMMA HeadIsNew ==
  ASSUME NEW a \in Seq(AnyTask), NEW q \in Seq(AnyTask), q # <<>>
  PROVE  /\ In(Head(q), a \o q)
         /\ NoRepeat(a \o q) => ~In(Head(q), a)
<1>1. /\ Len(q) \in Nat /\ Len(q) > 0 /\ Head(q) = q[1] /\ Len(a) \in Nat
  BY HeadTailProperties, EmptySeq
<1>2. /\ Len(a \o q) = Len(a) + Len(q)
      /\ DOMAIN (a \o q) = 1 .. Len(a) + Len(q)
      /\ (a \o q)[Len(a) + 1] = q[1]
      /\ \A i \in 1 .. Len(a) : (a \o q)[i] = a[i]
  BY <1>1, ConcatProperties
<1> QED
  BY <1>1, <1>2 DEF In, NoRepeat

\* What was taken was pushed.
LEMMA TakenPushed ==
  ASSUME TypeOK, QueueOrder, NEW s \in Serializers, NEW k, In(k, taken[s])
  PROVE  In(k, pushed[s])
<1> DEFINE a == taken[s]
           q == task_queue[s]
<1>1. pushed[s] = a \o q /\ a \in Seq(AnyTask) /\ q \in Seq(AnyTask)
  BY DEF QueueOrder, TypeOK
<1>2. In(k, a) BY DEF a
<1> HIDE DEF a, q
<1>3. /\ Len(a \o q) = Len(a) + Len(q) /\ Len(a) \in Nat /\ Len(q) \in Nat
      /\ \A i \in 1 .. Len(a) : (a \o q)[i] = a[i]
  BY <1>1, ConcatProperties
<1> QED
  BY <1>1, <1>2, <1>3 DEF In

-----------------------------------------------------------------------------
(* The task layer.                                                         *)

\* A step of the log handler is a step of the task layer, or leaves it alone.
LEMMA LogStepIsTaskStep == [LogNext]_logVars => [Next]_vars
<1>1. ASSUME NEW t \in Threads, NEW k \in Lines, fault = "none", Log(t, k)
      PROVE  [Next]_vars
  BY <1>1, LogAssumption DEF Log, Next, Request
<1>2. ASSUME NEW t \in Threads, NEW s \in Serializers, NEW k \in Tasks,
             fault = "none", RequestActor(t, s, k)
      PROVE  [Next]_vars
  BY <1>2 DEF RequestActor, Next, Request
<1>3. ASSUME NEW t \in Threads, TaskStep(t) PROVE [Next]_vars
  BY <1>3 DEF TaskStep, Next
<1>4. ASSUME NEW t \in Threads, WriteLog(t) PROVE UNCHANGED vars
  BY <1>4 DEF WriteLog, WriteToStdout, CheckFileEnabled, BeginWriteToFile,
              EndWriteToFile, DisableInvalid, Race
<1>5. ASSUME NEW t \in Threads, Configure(t) PROVE UNCHANGED vars
  BY <1>5 DEF Configure, EnableFileOutput, OpenFile, StoreEnabled,
              DisableFileOutput, CloseFile, SetMinLevel, UseStream, Race
<1>6. UNCHANGED logVars => UNCHANGED vars
  BY DEF logVars
<1> QED
  BY <1>1, <1>2, <1>3, <1>4, <1>5, <1>6 DEF LogNext

\* The log handler only makes requests of the task layer that the task layer
\* allows: every behaviour of it is one of TaskSerializer, so that what is
\* proved there (order, nothing lost, requests drained) holds of its lines.
THEOREM LogUsesTasks == LogSpec => Spec
<1>1. LogInit => Init
  BY DEF LogInit
<1> QED
  BY <1>1, LogStepIsTaskStep, PTL DEF LogSpec, Spec
-----------------------------------------------------------------------------
(* Lines on their way through the task layer.                              *)

\* What most steps of a thread do to its own calls: no task is pushed, taken,
\* or finished, and none that waits or runs afterwards did not before.
QuietOwn(t) ==
  /\ UNCHANGED <<pushed, requested, taken, finished>>
  /\ Waits(t)' =>
       /\ Waits(t) /\ push'[t].task = push[t].task
       /\ push'[t].ser = push[t].ser
  /\ \A s \in Serializers :
       Holds(t, s)' => Holds(t, s) /\ proc'[t].task = proc[t].task
  /\ Holds(t, Handler)' => proc[t].phase = "start"
  /\ CalmIn(t)'

\* A step of a thread that neither pushes, takes nor finishes a task, nor
\* stops the program, is quiet.
LEMMA QuietStep ==
  ASSUME TypeOK, RunKept, NEW t \in Threads, CalmIn(t), Step(t),
         ~PushTask(t), ~TaskDone(t), ~Takes(t), fault' = "none"
  PROVE  QuietOwn(t)
<1> USE CopyOK, TaskAssumption
<1>0. push[t] \in PushCalls /\ proc[t] \in ProcessCalls
  BY DEF TypeOK
<1>1. CASE StoreDestroying(t)
  BY <1>1 DEF StoreDestroying, history, QuietOwn, Waits, Holds, Current,
              CalmIn
<1>2. CASE CheckEmpty(t)
  <2>1. /\ push'[t].phase = "push" /\ push'[t].task = push[t].task
        /\ push'[t].ser = push[t].ser
    BY <1>0, <1>2 DEF CheckEmpty, TypeOK, PushCalls
  <2> QED
    BY <1>2, <2>1 DEF CheckEmpty, history, QuietOwn, Waits, Holds, Current,
                      CalmIn
<1>3. CASE ProcessHere(t)
  <2>1. /\ Current(t) = NULL
        /\ proc'[t].phase = "pop"
    BY <1>3 DEF ProcessHere, BeginProcess, TypeOK
  <2>2. push'[t].phase = "none"
    BY <1>3, <2>1 DEF ProcessHere, NoPush, TypeOK
  <2> QED
    BY <1>3, <2>1, <2>2 DEF ProcessHere, history, QuietOwn, Waits, Holds,
                            CalmIn
<1>4. CASE AddTaskSerializer(t)
  <2>1. push'[t].phase = "none"
    BY <1>4 DEF AddTaskSerializer, NoPush, TypeOK
  <2> QED
    BY <1>4, <2>1 DEF AddTaskSerializer, history, QuietOwn, Waits, Holds,
                      Current, CalmIn
<1>5. CASE Poll(t)
  <2>1. push' = push /\ push[t].phase = "none" /\ proc[t].phase = "idle"
    BY <1>5 DEF Poll
  <2>2. proc'[t].phase \in {"pop", "idle"}
    BY <1>5 DEF Poll, BeginProcess, TypeOK
  <2> QED
    BY <1>5, <2>1, <2>2 DEF Poll, history, QuietOwn, Waits, Holds, CalmIn
<1>6. CASE PopTask(t)
  <2>1. proc'[t].phase = "state" /\ UNCHANGED <<taken, push>>
    BY <1>0, <1>6 DEF Takes, PopTask, TypeOK, ProcessCalls
  <2>2. push[t].phase = "none"
    BY <1>6 DEF PopTask, CalmIn
  <2> QED
    BY <1>6, <2>1, <2>2 DEF PopTask, QuietOwn, Waits, Holds, CalmIn
<1>10. CASE Invoke(t)
  <2>1. /\ proc[t].phase = "start" /\ proc'[t].task = proc[t].task
        /\ proc'[t].phase = "invoke" /\ push[t].phase = "none"
    BY <1>0, <1>10 DEF Invoke, TypeOK, ProcessCalls, CalmIn
  <2> QED
    BY <1>10, <2>1 DEF Invoke, QuietOwn, Waits, Holds, Current, CalmIn
<1>7. CASE RunClear(t)
  <2>1. proc[t].phase = "invoke" /\ proc[t].task = Clear
    BY <1>7 DEF RunClear
  <2>2. Current(t) \in Serializers
    BY <2>1 DEF TypeOK, InProcess, Current
  <2> QED
    BY <2>1, <2>2 DEF RunKept, Holds
<1>8. CASE CheckState(t) \/ CheckRequeue(t) \/ Requeue(t)
  <2>1. /\ proc[t].phase \in {"state", "empty", "requeue"} /\ push' = push
        /\ UNCHANGED <<pushed, requested, taken, finished>>
    BY <1>8 DEF CheckState, CheckRequeue, Requeue, history
  <2>2. proc'[t].phase \in {"empty", "requeue", "idle"}
    BY <1>0, <1>8 DEF CheckState, CheckRequeue, Requeue, Return, Idle, TypeOK,
                      ProcessCalls, ClearFaults
  <2>3. push[t].phase = "none"
    BY <2>1 DEF CalmIn
  <2> QED
    BY <2>1, <2>2, <2>3 DEF QuietOwn, Waits, Holds, CalmIn
<1>9. CASE UseAfterFree(t)
  BY <1>9 DEF UseAfterFree
<1> QED
  BY <1>1, <1>2, <1>3, <1>4, <1>5, <1>6, <1>7, <1>8, <1>9, <1>10 DEF Step

\* So what the others wait for, run and may request stays as it is.
LEMMA AloneKeeps ==
  ASSUME NEW t \in Threads, Alone(t), NEW u \in Threads, u # t
  PROVE  /\ Waits(u)' <=> Waits(u)
         /\ \A s \in Serializers : Holds(u, s)' <=> Holds(u, s)
         /\ push'[u].task = push[u].task /\ push'[u].ser = push[u].ser
         /\ proc'[u].task = proc[u].task
         /\ CalmIn(u)' <=> CalmIn(u)
BY DEF Alone, Waits, Holds, CalmIn

\* A quiet step keeps the lines where they are.
LEMMA QuietKeeps ==
  ASSUME NEW t \in Threads, Alone(t), QuietOwn(t), TasksKept
  PROVE  TasksKept'
<1> USE LogAssumption
<1>1. /\ pushed' = pushed /\ requested' = requested /\ taken' = taken
      /\ finished' = finished
  BY DEF QuietOwn
<1>2. ASSUME NEW u \in Threads, Waits(u)'
      PROVE  /\ Waits(u) /\ push'[u].task = push[u].task
             /\ push'[u].ser = push[u].ser
  BY <1>2, AloneKeeps DEF QuietOwn
<1>3. ASSUME NEW u \in Threads, NEW s \in Serializers, Holds(u, s)'
      PROVE  Holds(u, s) /\ proc'[u].task = proc[u].task
  BY <1>3, AloneKeeps DEF QuietOwn
<1>4. WaitKept'
  <2>1. ASSUME NEW u \in Threads, Waits(u)'
        PROVE  /\ push'[u].task \in requested'
               /\ Belongs(push'[u].task, push'[u].ser)
               /\ ~In(push'[u].task, pushed'[Handler])
    BY <1>1, <1>2, <2>1 DEF TasksKept, WaitKept
  <2>2. ASSUME NEW u \in Threads, NEW v \in Threads, Waits(u)', Waits(v)',
               push'[u].task = push'[v].task
        PROVE  u = v
    BY <1>2, <2>2 DEF TasksKept, WaitKept
  <2> QED
    BY <2>1, <2>2 DEF WaitKept, Belongs
<1>5. PushedKept'
  BY <1>1 DEF TasksKept, PushedKept, Belongs, NoRepeat
<1>6. RunKept'
  <2>1. ASSUME NEW u \in Threads, NEW s \in Serializers, Holds(u, s)'
        PROVE  proc'[u].task \in Tasks /\ Belongs(proc'[u].task, s)
    BY <1>3, <2>1 DEF TasksKept, RunKept
  <2>2. ASSUME NEW u \in Threads, Holds(u, Handler)'
        PROVE  /\ In(proc'[u].task, taken'[Handler])
               /\ proc'[u].task \notin finished'
    BY <1>1, <1>3, <2>2 DEF TasksKept, RunKept
  <2>3. ASSUME NEW u \in Threads, NEW v \in Threads, Holds(u, Handler)',
               Holds(v, Handler)', proc'[u].task = proc'[v].task
        PROVE  u = v
    BY <1>3, <2>3 DEF TasksKept, RunKept
  <2>4. \A k \in finished' \cap Lines : In(k, taken'[Handler])
    BY <1>1 DEF TasksKept, RunKept
  <2> QED
    BY <2>1, <2>2, <2>3, <2>4 DEF RunKept, Belongs
<1>7. Calm'
  BY AloneKeeps DEF QuietOwn, TasksKept, Calm
<1> QED
  BY <1>4, <1>5, <1>6, <1>7 DEF TasksKept
\* Pushing a line that waits puts it into the handler's queue once.
LEMMA PushKeeps ==
  ASSUME TypeOK, NEW t \in Threads, Alone(t), PushTask(t), TasksKept
  PROVE  TasksKept'
<1> USE LogAssumption, TaskAssumption
<1> DEFINE s == push[t].ser
           k == push[t].task
<1>1. s \in Serializers /\ k \in AnyTask /\ Waits(t) /\ push[t].phase = "push"
  BY DEF TypeOK, PushTask, PushCalls, InPush, Waits
<1>2. /\ pushed' = [pushed EXCEPT ![s] = Append(pushed[s], k)]
      /\ UNCHANGED <<tl, proc, requested, finished, taken>>
  BY DEF PushTask
<1>3. ~Waits(t)'
  <2>1. push'[t].phase \in {"none", "schedule"}
    BY DEF PushTask, TypeOK, PushCalls, NoPush
  <2> QED
    BY <2>1 DEF Waits
<1>4. k \in requested /\ Belongs(k, s) /\ ~In(k, pushed[Handler])
  BY <1>1 DEF TasksKept, WaitKept
<1> HIDE DEF s, k
<1>5. \A q \in Serializers : pushed[q] \in Seq(AnyTask)
  BY DEF TypeOK
<1>6. /\ pushed'[s] = Append(pushed[s], k)
      /\ \A q \in Serializers \ {s} : pushed'[q] = pushed[q]
  BY <1>1, <1>2 DEF TypeOK
<1> DEFINE p == pushed[s]
<1>6a. p \in Seq(AnyTask) /\ pushed'[s] = Append(p, k)
  BY <1>1, <1>5, <1>6
<1>6b. s = Handler => p = pushed[Handler]
  OBVIOUS
<1>6c. p = pushed[s]
  OBVIOUS
<1> HIDE DEF p
<1>7. ASSUME NEW x, In(x, pushed'[Handler]) PROVE x = k \/ In(x, pushed[Handler])
  <2>1. CASE s = Handler
    <3>1. In(x, Append(p, k))
      BY <1>6a, <1>7, <2>1
    <3>2. x = k \/ In(x, p)
      BY <1>1, <1>6a, <3>1, InAppendOnly
    <3> QED
      BY <1>6b, <2>1, <3>2
  <2>2. CASE s # Handler
    BY <1>6, <1>7, <2>2
  <2> QED
    BY <2>1, <2>2
<1>8. WaitKept'
  <2>1. ASSUME NEW u \in Threads, Waits(u)'
        PROVE  /\ u # t /\ Waits(u) /\ push'[u].task = push[u].task
               /\ push'[u].ser = push[u].ser
    BY <1>3, <2>1, AloneKeeps
  <2>2. ASSUME NEW u \in Threads, Waits(u)'
        PROVE  /\ push'[u].task \in requested'
               /\ Belongs(push'[u].task, push'[u].ser)
               /\ ~In(push'[u].task, pushed'[Handler])
    <3>1. push[u].task # k
      BY <1>1, <2>1, <2>2 DEF TasksKept, WaitKept, k
    <3> QED
      BY <1>2, <1>7, <2>1, <2>2, <3>1 DEF TasksKept, WaitKept
  <2>3. ASSUME NEW u \in Threads, NEW v \in Threads, Waits(u)', Waits(v)',
               push'[u].task = push'[v].task
        PROVE  u = v
    BY <2>1, <2>3 DEF TasksKept, WaitKept
  <2> QED
    BY <2>2, <2>3 DEF WaitKept, Belongs
<1>9. PushedKept'
  <2>1. ASSUME NEW q \in Serializers, NEW i \in 1 .. Len(pushed'[q])
        PROVE  pushed'[q][i] \in requested' /\ Belongs(pushed'[q][i], q)
    <3>1. CASE q # s
      BY <1>2, <1>6, <2>1, <3>1 DEF TasksKept, PushedKept
    <3>2. CASE q = s
      <4>1. i \in 1 .. Len(Append(p, k)) /\ pushed'[q][i] = Append(p, k)[i]
        BY <1>6a, <2>1, <3>2
      <4>2. \/ pushed'[q][i] = k
            \/ i \in 1 .. Len(p) /\ pushed'[q][i] = p[i]
        BY <1>1, <1>6a, <4>1, AppendProperties
      <4> QED
        BY <1>1, <1>2, <1>4, <1>6c, <3>2, <4>2 DEF TasksKept, PushedKept
    <3> QED
      BY <3>1, <3>2
  <2>2. NoRepeat(pushed'[Handler])
    <3>1. CASE s = Handler
      <4>1. NoRepeat(p) /\ ~In(k, p)
        BY <1>4, <1>6b, <3>1 DEF TasksKept, PushedKept
      <4>2. NoRepeat(Append(p, k))
        BY <1>1, <1>6a, <4>1, NoRepeatAppend
      <4> QED
        BY <1>6a, <3>1, <4>2
    <3>2. CASE s # Handler
      BY <1>6, <3>2 DEF TasksKept, PushedKept
    <3> QED
      BY <3>1, <3>2
  <2> QED
    BY <2>1, <2>2 DEF PushedKept, Belongs, NoRepeat
<1>10. RunKept'
  BY <1>2 DEF TasksKept, RunKept, Holds, Current, Belongs, In
<1>11. Calm'
  <2>1. CalmIn(t)'
    BY <1>1, <1>2 DEF TasksKept, Calm, CalmIn, Holds, Current
  <2> QED
    BY <2>1, AloneKeeps DEF TasksKept, Calm
<1> QED
  BY <1>8, <1>9, <1>10, <1>11 DEF TasksKept

\* A taken line was not taken before, so one thread runs it.
LEMMA TakeKeeps ==
  ASSUME TypeOK, QueueOrder, NEW t \in Threads, Alone(t), Takes(t), TasksKept
  PROVE  /\ TasksKept'
         /\ proc'[t].task = Head(task_queue[Current(t)])
         /\ Current(t)' = Current(t)
         /\ Current(t) = Handler => ~In(proc'[t].task, taken[Handler])
<1> USE LogAssumption, TaskAssumption, CopyOK
<1> DEFINE s == Current(t)
           k == Head(task_queue[s])
<1>1. /\ s \in Serializers /\ proc[t].phase = "pop" /\ task_queue[s] # <<>>
      /\ task_queue[s] \in Seq(AnyTask) /\ taken[s] \in Seq(AnyTask)
      /\ pushed[s] = taken[s] \o task_queue[s]
  BY DEF Takes, PopTask, TypeOK, QueueOrder
<1>2. /\ k \in AnyTask
      /\ In(k, pushed[s])
      /\ NoRepeat(pushed[s]) => ~In(k, taken[s])
  BY <1>1, HeadIsNew
<1>3. /\ proc'[t].phase = "start" /\ proc'[t].task = k
      /\ taken' = [taken EXCEPT ![s] = Append(taken[s], k)]
      /\ UNCHANGED <<tl, push, requested, finished, pushed>>
  BY SMTT(30) DEF Takes, PopTask, TypeOK, ProcessCalls
<1>4. Current(t)' = s
  BY <1>3 DEF Current
<1> HIDE DEF s, k
<1>5. k \in requested /\ Belongs(k, s)
  BY <1>1, <1>2 DEF TasksKept, PushedKept, In
<1>6. /\ s = Handler => ~In(k, taken[Handler])
      /\ s = Handler => k \notin finished
  BY <1>2, <1>5 DEF TasksKept, PushedKept, RunKept, Belongs
<1>7. k \in Tasks
  BY <1>5 DEF TypeOK
<1>8. /\ taken'[s] = Append(taken[s], k)
      /\ \A q \in Serializers \ {s} : taken'[q] = taken[q]
  BY <1>1, <1>3 DEF TypeOK
<1>9. /\ \A x : In(x, taken[Handler]) => In(x, taken'[Handler])
      /\ s = Handler => In(k, taken'[Handler])
  <2>1. CASE s = Handler
    <3> DEFINE p == taken[s]
    <3>1. p \in Seq(AnyTask) /\ taken'[Handler] = Append(p, k)
      BY <1>1, <1>8, <2>1
    <3>2. p = taken[Handler]
      BY <2>1
    <3> HIDE DEF p
    <3>3. In(k, Append(p, k)) /\ \A x : In(x, p) => In(x, Append(p, k))
      BY <1>2, <3>1, InAppend
    <3> QED
      BY <3>1, <3>2, <3>3
  <2>2. CASE s # Handler
    BY <1>8, <2>2
  <2> QED
    BY <2>1, <2>2
<1>10. WaitKept'
  BY <1>3 DEF TasksKept, WaitKept, Waits, Belongs, In
<1>11. PushedKept'
  BY <1>3 DEF TasksKept, PushedKept, Belongs, NoRepeat
<1>12. RunKept'
  <2>1. \A q \in Serializers : Holds(t, q)' <=> q = s
    BY <1>3, <1>4 DEF Holds
  <2>2. ASSUME NEW u \in Threads, NEW q \in Serializers, Holds(u, q)'
        PROVE  proc'[u].task \in Tasks /\ Belongs(proc'[u].task, q)
    <3>1. CASE u = t
      BY <1>3, <1>5, <1>7, <2>1, <2>2, <3>1
    <3>2. CASE u # t
      BY <2>2, <3>2, AloneKeeps DEF TasksKept, RunKept
    <3> QED
      BY <3>1, <3>2
  <2>3. ASSUME NEW u \in Threads, Holds(u, Handler)'
        PROVE  /\ In(proc'[u].task, taken'[Handler])
               /\ proc'[u].task \notin finished'
    <3>1. CASE u = t
      BY <1>3, <1>6, <1>9, <2>1, <2>3, <3>1
    <3>2. CASE u # t
      BY <1>3, <1>9, <2>3, <3>2, AloneKeeps DEF TasksKept, RunKept
    <3> QED
      BY <3>1, <3>2
  <2>4. ASSUME NEW u \in Threads \ {t}, Holds(u, Handler)'
        PROVE  In(proc'[u].task, taken[Handler]) /\ Holds(u, Handler)
    BY <2>4, AloneKeeps DEF TasksKept, RunKept
  <2>5. Holds(t, Handler)' => ~In(proc'[t].task, taken[Handler])
    BY <1>3, <1>6, <2>1
  <2>6. ASSUME NEW u \in Threads, NEW v \in Threads, Holds(u, Handler)',
               Holds(v, Handler)', proc'[u].task = proc'[v].task
        PROVE  u = v
    <3>1. CASE u # t /\ v # t
      BY <2>4, <2>6, <3>1, AloneKeeps DEF TasksKept, RunKept
    <3>2. CASE u = t \/ v = t
      BY <2>4, <2>5, <2>6, <3>2
    <3> QED
      BY <3>1, <3>2
  <2>7. \A x \in finished' \cap Lines : In(x, taken'[Handler])
    BY <1>3, <1>9 DEF TasksKept, RunKept
  <2> QED
    BY <2>2, <2>3, <2>6, <2>7 DEF RunKept, Belongs
<1>13. Calm'
  <2>1. push[t].phase = "none"
    BY <1>1 DEF TasksKept, Calm, CalmIn
  <2>2. CalmIn(t)'
    BY <1>3, <2>1 DEF CalmIn
  <2> QED
    BY <2>2, AloneKeeps DEF TasksKept, Calm
<1> QED
  BY <1>3, <1>4, <1>6, <1>10, <1>11, <1>12, <1>13 DEF TasksKept, s, k
\* A line whose task returns was taken, and nobody else is running it.
LEMMA DoneKeeps ==
  ASSUME TypeOK, NEW t \in Threads, Alone(t), TaskDone(t), TasksKept
  PROVE  /\ TasksKept'
         /\ \A s \in Serializers : ~Holds(t, s)'
         /\ proc[t].task \in Lines => Executing(t, Handler)
<1> USE LogAssumption, TaskAssumption, CopyOK
<1> DEFINE s == Current(t)
           k == proc[t].task
<1>1. /\ proc[t].phase = "invoke" /\ finished' = finished \cup {k}
      /\ push[t].phase = "none"
      /\ UNCHANGED <<tl, push, requested, pushed, taken>>
  BY DEF TaskDone
<1>2. s \in Serializers /\ Holds(t, s)
  BY <1>1 DEF TypeOK, InProcess, Current, Holds
<1>3. k \in Tasks /\ Belongs(k, s)
  BY <1>2 DEF TasksKept, RunKept
<1>4. proc'[t].phase \in {"state", "pop"}
  BY DEF TaskDone, AfterInvoke, TypeOK, ProcessCalls
<1>5. \A q \in Serializers : ~Holds(t, q)'
  BY <1>4 DEF Holds
<1>6. k \in Lines => Executing(t, Handler) /\ Holds(t, Handler)
  BY <1>1, <1>2, <1>3 DEF Belongs, Holds, Executing
<1>7. WaitKept'
  BY <1>1 DEF TasksKept, WaitKept, Waits, Belongs, In
<1>8. PushedKept'
  BY <1>1 DEF TasksKept, PushedKept, Belongs, NoRepeat
<1> HIDE DEF s
<1>9. RunKept'
  <2>1. ASSUME NEW u \in Threads, NEW q \in Serializers, Holds(u, q)'
        PROVE  u # t /\ Holds(u, q) /\ proc'[u].task = proc[u].task
    BY <1>5, <2>1, AloneKeeps
  <2>2. ASSUME NEW u \in Threads, NEW q \in Serializers, Holds(u, q)'
        PROVE  proc'[u].task \in Tasks /\ Belongs(proc'[u].task, q)
    BY <2>1, <2>2 DEF TasksKept, RunKept
  <2>3. ASSUME NEW u \in Threads, Holds(u, Handler)'
        PROVE  /\ In(proc'[u].task, taken'[Handler])
               /\ proc'[u].task \notin finished'
    <3>1. u # t /\ Holds(u, Handler) /\ proc'[u].task = proc[u].task
      BY <2>1, <2>3
    <3>2. proc[u].task \in Lines
      BY <3>1 DEF TasksKept, RunKept, Belongs
    <3>3. proc[u].task # k
      BY <1>6, <3>1, <3>2 DEF TasksKept, RunKept
    <3> QED
      BY <1>1, <3>1, <3>3 DEF TasksKept, RunKept
  <2>4. ASSUME NEW u \in Threads, NEW v \in Threads, Holds(u, Handler)',
               Holds(v, Handler)', proc'[u].task = proc'[v].task
        PROVE  u = v
    BY <2>1, <2>4 DEF TasksKept, RunKept
  <2>5. \A x \in finished' \cap Lines : In(x, taken'[Handler])
    BY <1>1, <1>6 DEF TasksKept, RunKept
  <2> QED
    BY <2>2, <2>3, <2>4, <2>5 DEF RunKept, Belongs
<1>10. Calm'
  <2>1. CalmIn(t)'
    BY <1>1 DEF CalmIn
  <2> QED
    BY <2>1, AloneKeeps DEF TasksKept, Calm
<1> QED
  BY <1>5, <1>6, <1>7, <1>8, <1>9, <1>10 DEF TasksKept

\* A requested line was neither on its way nor pushed before.
LEMMA RequestKeeps ==
  ASSUME TypeOK, NEW t \in Threads, NEW s \in Serializers, NEW k \in Tasks,
         Alone(t), RequestTask(t, s, k), Belongs(k, s),
         ~Holds(t, Handler), TasksKept
  PROVE  TasksKept'
<1> USE LogAssumption, TaskAssumption, CopyOK
<1>1. /\ k \notin requested /\ requested' = requested \cup {k}
      /\ UNCHANGED <<tl, proc, finished, pushed, taken>>
  BY DEF RequestTask
<1>2. push'[t].ser = s /\ push'[t].task = k
  BY DEF RequestTask, BeginPush, TypeOK
<1>3. ~In(k, pushed[Handler])
  BY <1>1 DEF TasksKept, PushedKept, In
<1>4. WaitKept'
  <2>1. ASSUME NEW u \in Threads \ {t}, Waits(u)'
        PROVE  /\ Waits(u) /\ push'[u].task = push[u].task
               /\ push'[u].ser = push[u].ser
               /\ push[u].task \in requested
    BY <2>1, AloneKeeps DEF TasksKept, WaitKept
  <2>2. ASSUME NEW u \in Threads, Waits(u)'
        PROVE  /\ push'[u].task \in requested'
               /\ Belongs(push'[u].task, push'[u].ser)
               /\ ~In(push'[u].task, pushed'[Handler])
    <3>1. CASE u = t
      BY <1>1, <1>2, <1>3, <3>1
    <3>2. CASE u # t
      BY <1>1, <2>1, <2>2, <3>2 DEF TasksKept, WaitKept
    <3> QED
      BY <3>1, <3>2
  <2>3. ASSUME NEW u \in Threads, NEW v \in Threads, Waits(u)', Waits(v)',
               push'[u].task = push'[v].task
        PROVE  u = v
    <3>1. CASE u # t /\ v # t
      BY <2>1, <2>3, <3>1 DEF TasksKept, WaitKept
    <3>2. CASE u = t \/ v = t
      BY <1>1, <1>2, <2>1, <2>3, <3>2
    <3> QED
      BY <3>1, <3>2
  <2> QED
    BY <2>2, <2>3 DEF WaitKept, Belongs
<1>5. PushedKept'
  BY <1>1 DEF TasksKept, PushedKept, Belongs, NoRepeat
<1>6. RunKept'
  BY <1>1 DEF TasksKept, RunKept, Holds, Current, Belongs, In
<1>7. Calm'
  <2>1. CalmIn(t)'
    BY <1>1 DEF RequestTask, MayRequest, CalmIn, Holds, Current
  <2> QED
    BY <2>1, AloneKeeps DEF TasksKept, Calm
<1> QED
  BY <1>4, <1>5, <1>6, <1>7 DEF TasksKept
-----------------------------------------------------------------------------
(* Lines on their way to the output.                                       *)

\* What a step of the task layer does to the output: nothing.
LEMMA TaskStepKeeps ==
  ASSUME TypeOK, QueueOrder, LogInv, NEW t \in Threads, fault = "none",
         TaskStep(t)
  PROVE  LogInv'
<1> USE LogAssumption
<1>1. /\ Step(t) /\ stdout' = stdout /\ file' = file
      /\ log' = [log EXCEPT ![t] = "none"]
      /\ Executing(t, Handler) => log[t] = "done"
  BY DEF TaskStep, Goto, output, Executing
<1>2. /\ LogType /\ LoggedOnce /\ TasksKept /\ LogKept /\ PrintedTaken
      /\ RunKept /\ CalmIn(t)
  BY DEF LogInv, LinesKept, TasksKept, Calm
<1>3. Alone(t)
  BY <1>1, StepAlone
<1>4. [Next]_vars
  BY <1>1 DEF Next
<1>5. LogType'
  BY <1>1, <1>2 DEF LogType, LogPlaces
<1>6. LoggedOnce'
  <2>1. ASSUME NEW k \in finished' \cap Lines PROVE In(k, stdout)
    <3>1. CASE k \in finished
      BY <1>2, <2>1, <3>1 DEF LoggedOnce
    <3>2. CASE k \notin finished
      <4>1. TaskDone(t) /\ k = proc[t].task
        BY <1>1, <2>1, <3>2 DEF Step, StoreDestroying, CheckEmpty, PushTask,
           ProcessHere, AddTaskSerializer, Poll, PopTask, Invoke, TaskDone, RunClear,
           CheckState, CheckRequeue, Requeue, UseAfterFree, history
      <4>2. Executing(t, Handler) /\ Holds(t, Handler)
        BY <1>2, <1>3, <2>1, <4>1, DoneKeeps DEF Executing, Holds
      <4> QED
        BY <1>1, <1>2, <4>1, <4>2 DEF LogKept
    <3> QED
      BY <3>1, <3>2
  <2> QED
    BY <1>1, <1>2, <2>1 DEF LoggedOnce, NoRepeat, In
<1>7. ASSUME fault' = "none" PROVE LinesKept'
  <2>1. /\ TasksKept'
        /\ Holds(t, Handler)' => ~In(proc'[t].task, stdout)
    <3>1. CASE PushTask(t)
      <4>1. TasksKept'
        BY <1>2, <1>3, <3>1, PushKeeps
      <4>2. ~Holds(t, Handler)
        BY <1>2, <3>1 DEF PushTask, CalmIn
      <4>3. ~Holds(t, Handler)'
        BY <3>1, <4>2 DEF PushTask, Holds, Current
      <4> QED
        BY <4>1, <4>3
    <3>2. CASE Takes(t)
      <4>1. TasksKept' /\ Current(t)' = Current(t)
        BY <1>2, <1>3, <3>2, TakeKeeps
      <4>2. Current(t) = Handler => ~In(proc'[t].task, taken[Handler])
        BY <1>2, <1>3, <3>2, TakeKeeps
      <4>3. Holds(t, Handler)' => ~In(proc'[t].task, taken[Handler])
        BY <4>1, <4>2 DEF Holds
      <4> QED
        BY <1>2, <4>1, <4>3 DEF PrintedTaken, In
    <3>3. CASE TaskDone(t)
      BY <1>2, <1>3, <3>3, DoneKeeps
    <3>4. CASE ~PushTask(t) /\ ~Takes(t) /\ ~TaskDone(t)
      <4>1. QuietOwn(t)
        BY <1>1, <1>2, <1>7, <3>4, QuietStep
      <4>2. ASSUME Holds(t, Handler)' PROVE ~In(proc'[t].task, stdout)
        <5>1. /\ Holds(t, Handler) /\ proc'[t].task = proc[t].task
              /\ proc[t].phase = "start"
          BY <4>1, <4>2, LogAssumption DEF QuietOwn
        <5>2. log[t] = "none"
          BY <1>2, <5>1 DEF LogKept, Executing
        <5> QED
          BY <1>2, <5>1, <5>2 DEF LogKept
      <4> QED
        BY <1>2, <1>3, <4>1, <4>2, QuietKeeps
    <3> QED
      BY <3>1, <3>2, <3>3, <3>4
  <2>2. /\ log'[t] = "none"
        /\ \A u \in Threads \ {t} : log'[u] = log[u]
    BY <1>1, <1>2 DEF LogType
  <2>3. \A u \in Threads \ {t} :
          /\ Holds(u, Handler)' <=> Holds(u, Handler)
          /\ Executing(u, Handler)' <=> Executing(u, Handler)
          /\ proc'[u].task = proc[u].task
    BY <1>3, AloneKeeps DEF Alone, Executing
  <2>4. LogKept'
    <3>1. ASSUME NEW u \in Threads, log'[u] # "none"
          PROVE  Executing(u, Handler)'
      BY <1>2, <2>2, <2>3, <3>1 DEF LogKept
    <3>2. ASSUME NEW u \in Threads, Holds(u, Handler)'
          PROVE  log'[u] # "none" <=> In(proc'[u].task, stdout')
      BY <1>1, <1>2, <2>1, <2>2, <2>3, <3>2 DEF LogKept
    <3>3. ASSUME NEW u \in Threads, log'[u] \in {"enabled", "file", "insert"}
          PROVE  ~In(proc'[u].task, file')
      BY <1>1, <1>2, <2>2, <2>3, <3>3 DEF LogKept
    <3> QED
      BY <3>1, <3>2, <3>3 DEF LogKept
  <2>5. PrintedTaken'
    <3>1. \A x : In(x, taken[Handler]) => In(x, taken'[Handler])
      BY <1>4, HistoryGrows
    <3> QED
      BY <1>1, <1>2, <3>1 DEF PrintedTaken
  <2> QED
    BY <2>1, <2>4, <2>5 DEF LinesKept
<1> QED
  BY <1>5, <1>6, <1>7 DEF LogInv

\* Nothing changes for the lines when only the settings do.
LEMMA SettingsKeep ==
  ASSUME LogInv, UNCHANGED <<vars, log, stdout, file>>
  PROVE  LogInv'
<1>1. UNCHANGED <<tl, push, proc, requested, finished, pushed, taken, fault>>
  BY DEF vars
<1>2. LogType' /\ LoggedOnce'
  BY <1>1 DEF LogInv, LogType, LoggedOnce, NoRepeat, In
<1>3. TasksKept => TasksKept'
  BY <1>1 DEF TasksKept, WaitKept, PushedKept, RunKept, Calm, CalmIn, Waits,
              Holds, Current, Belongs, NoRepeat, In
<1>4. LogKept /\ PrintedTaken => LogKept' /\ PrintedTaken'
  BY <1>1 DEF LogKept, PrintedTaken, Executing, Holds, Current, In
<1> QED
  BY <1>1, <1>2, <1>3, <1>4 DEF LogInv, LinesKept

\* A request leaves the lines that were requested before where they are.
LEMMA RequestStepKeeps ==
  ASSUME TypeOK, LogInv, NEW t \in Threads, NEW s \in Serializers,
         NEW k \in Tasks, fault = "none", MayCall(t), RequestTask(t, s, k),
         Belongs(k, s), UNCHANGED <<log, stdout, file>>
  PROVE  LogInv'
<1>1. UNCHANGED <<tl, proc, finished, pushed, taken, fault>>
  BY DEF RequestTask
<1>2. ~Holds(t, Handler)
  BY DEF MayCall, MayRequest, Holds
<1>3. Alone(t)
  BY StepAlone DEF Request
<1>4. LinesKept
  BY DEF LogInv
<1>5. TasksKept'
  BY <1>2, <1>3, <1>4, RequestKeeps DEF LinesKept
<1>6. LogKept' /\ PrintedTaken'
  BY <1>1, <1>4 DEF LinesKept, LogKept, PrintedTaken, Executing, Holds, Current, In
<1>7. LogType' /\ LoggedOnce'
  BY <1>1 DEF LogInv, LogType, LoggedOnce, NoRepeat, In
<1> QED
  BY <1>5, <1>6, <1>7 DEF LogInv, LinesKept
\* While write_log runs, the task layer stands still for its thread.
LEMMA WriterIs ==
  ASSUME TypeOK, LogInv, NEW t \in Threads, fault = "none",
         Holds(t, Handler)
  PROVE  /\ proc[t].task \in AnyTask
         /\ In(proc[t].task, taken[Handler])
         /\ \A u \in Threads \ {t} :
              Holds(u, Handler) => proc[u].task # proc[t].task
BY LogAssumption DEF LogInv, LinesKept, TasksKept, RunKept, AnyTask

\* The first place of write_log: the line is printed, for the first time.
LEMMA PrintKeeps ==
  ASSUME TypeOK, LogInv, NEW t \in Threads, fault = "none", WriteToStdout(t)
  PROVE  LogInv'
<1> DEFINE k == proc[t].task
<1>1. /\ Executing(t, Handler) /\ Holds(t, Handler) /\ log[t] = "none"
      /\ stdout' = Append(stdout, k) /\ file' = file
      /\ log' = [log EXCEPT ![t] = "enabled"]
      /\ UNCHANGED <<tl, push, proc, requested, finished, pushed, taken,
                     fault>>
  BY DEF WriteToStdout, Goto, Executing, Holds, vars
<1>2. LogType /\ LoggedOnce /\ TasksKept /\ LogKept /\ PrintedTaken
  BY DEF LogInv, LinesKept
<1>3. /\ k \in AnyTask /\ In(k, taken[Handler])
      /\ \A u \in Threads \ {t} : Holds(u, Handler) => proc[u].task # k
  BY <1>1, WriterIs
<1>4. ~In(k, stdout)
  BY <1>1, <1>2 DEF LogKept
<1> HIDE DEF k
<1>5. stdout \in Seq(AnyTask)
  BY <1>2 DEF LogType
<1>6. /\ Append(stdout, k) \in Seq(AnyTask)
      /\ NoRepeat(stdout) => NoRepeat(Append(stdout, k))
      /\ In(k, Append(stdout, k))
      /\ \A x : In(x, stdout) => In(x, Append(stdout, k))
      /\ \A x : In(x, Append(stdout, k)) => x = k \/ In(x, stdout)
  BY <1>3, <1>4, <1>5, NoRepeatAppend, InAppend, InAppendOnly, AppendProperties
<1>7. LogType'
  BY <1>1, <1>2, <1>6 DEF LogType, LogPlaces
<1>8. LoggedOnce'
  BY <1>1, <1>2, <1>6 DEF LoggedOnce, NoRepeat
<1>9. TasksKept'
  BY <1>1, <1>2 DEF TasksKept, WaitKept, PushedKept, RunKept, Calm, CalmIn,
                    Waits, Holds, Current, Belongs, NoRepeat, In
<1>10. LogKept'
  <2>1. \A u \in Threads : /\ Holds(u, Handler)' <=> Holds(u, Handler)
                           /\ Executing(u, Handler)' <=> Executing(u, Handler)
    BY <1>1 DEF Holds, Executing, Current
  <2>2. /\ log'[t] = "enabled"
        /\ \A u \in Threads \ {t} : log'[u] = log[u]
    BY <1>1, <1>2 DEF LogType
  <2>3. ~In(k, file)
    BY <1>2, <1>4 DEF LoggedOnce, In, LogType
  <2>4. k = proc[t].task
    BY DEF k
  <2>5. ASSUME NEW u \in Threads, log'[u] # "none" PROVE Executing(u, Handler)'
    BY <1>1, <1>2, <2>1, <2>2, <2>5 DEF LogKept
  <2>6. ASSUME NEW u \in Threads, Holds(u, Handler)'
        PROVE  log'[u] # "none" <=> In(proc'[u].task, stdout')
    <3>1. CASE u = t
      BY <1>1, <1>6, <2>2, <2>4, <3>1
    <3>2. CASE u # t
      BY <1>1, <1>2, <1>3, <1>6, <2>1, <2>2, <2>6, <3>2 DEF LogKept
    <3> QED
      BY <3>1, <3>2
  <2>7. ASSUME NEW u \in Threads, log'[u] \in {"enabled", "file", "insert"}
        PROVE  ~In(proc'[u].task, file')
    BY <1>1, <1>2, <2>2, <2>3, <2>4, <2>7 DEF LogKept
  <2> QED
    BY <2>5, <2>6, <2>7 DEF LogKept
<1>11. PrintedTaken'
  <2>1. ASSUME NEW i \in 1 .. Len(stdout') PROVE In(stdout'[i], taken[Handler])
    <3>1. In(stdout'[i], Append(stdout, k))
      BY <1>1, <2>1 DEF In
    <3>2. stdout'[i] = k \/ In(stdout'[i], stdout)
      BY <1>6, <3>1
    <3> QED
      BY <1>2, <1>3, <3>2 DEF PrintedTaken, In
  <2> QED
    BY <1>1, <2>1 DEF PrintedTaken
<1> QED
  BY <1>7, <1>8, <1>9, <1>10, <1>11 DEF LogInv, LinesKept

\* write_log moves on without any output.
LEMMA MoveKeeps ==
  ASSUME TypeOK, LogInv, NEW t \in Threads, fault = "none", log[t] # "none",
         NEW l \in LogPlaces \ {"none"},
         l \in {"enabled", "file", "insert"} => log[t] \in {"enabled", "file"},
         Goto(t, l), UNCHANGED <<vars, stdout, file>>
  PROVE  LogInv'
<1>1. UNCHANGED <<tl, push, proc, requested, finished, pushed, taken, fault>>
  BY DEF vars
<1>2. LogType /\ LoggedOnce /\ TasksKept /\ LogKept /\ PrintedTaken
  BY DEF LogInv, LinesKept
<1>3. log' = [log EXCEPT ![t] = l]
  BY DEF Goto
<1>4. /\ log'[t] = l
      /\ \A u \in Threads \ {t} : log'[u] = log[u]
  BY <1>2, <1>3 DEF LogType
<1>5. LogType' /\ LoggedOnce' /\ PrintedTaken'
  BY <1>1, <1>2, <1>3 DEF LogType, LoggedOnce, NoRepeat, In, PrintedTaken
<1>6. TasksKept'
  BY <1>1, <1>2 DEF TasksKept, WaitKept, PushedKept, RunKept, Calm, CalmIn,
                    Waits, Holds, Current, Belongs, NoRepeat, In
<1>7. LogKept'
  <2>1. \A u \in Threads : /\ Holds(u, Handler)' <=> Holds(u, Handler)
                           /\ Executing(u, Handler)' <=> Executing(u, Handler)
    BY <1>1 DEF Holds, Executing, Current
  <2>2. ASSUME NEW u \in Threads, log'[u] # "none" PROVE Executing(u, Handler)'
    BY <1>2, <1>4, <2>1, <2>2 DEF LogKept
  <2>3. ASSUME NEW u \in Threads, Holds(u, Handler)'
        PROVE  log'[u] # "none" <=> In(proc'[u].task, stdout')
    BY <1>1, <1>2, <1>4, <2>1, <2>3 DEF LogKept
  <2>4. ASSUME NEW u \in Threads, log'[u] \in {"enabled", "file", "insert"}
        PROVE  ~In(proc'[u].task, file')
    BY <1>1, <1>2, <1>4, <2>4 DEF LogKept
  <2> QED
    BY <2>2, <2>3, <2>4 DEF LogKept
<1> QED
  BY <1>5, <1>6, <1>7 DEF LogInv, LinesKept

\* A line written to the file was printed and is not in the file yet.
LEMMA WriteKeeps ==
  ASSUME TypeOK, LogInv, NEW t \in Threads, fault = "none", log[t] = "insert",
         file' = Append(file, proc[t].task), Goto(t, "done"),
         UNCHANGED <<vars, stdout>>
  PROVE  LogInv'
<1> DEFINE k == proc[t].task
<1>1. UNCHANGED <<tl, push, proc, requested, finished, pushed, taken, fault>>
  BY DEF vars
<1>2. LogType /\ LoggedOnce /\ TasksKept /\ LogKept /\ PrintedTaken
  BY DEF LogInv, LinesKept
<1>3. log' = [log EXCEPT ![t] = "done"]
  BY DEF Goto
<1>4. /\ log'[t] = "done"
      /\ \A u \in Threads \ {t} : log'[u] = log[u]
  BY <1>2, <1>3 DEF LogType
<1>5. /\ Executing(t, Handler) /\ Holds(t, Handler)
      /\ In(k, stdout) /\ ~In(k, file)
  BY <1>2 DEF LogKept, Executing, Holds
<1>6. /\ k \in AnyTask
      /\ \A u \in Threads \ {t} : Holds(u, Handler) => proc[u].task # k
  BY <1>5, WriterIs
<1>7. file' = Append(file, k)
  OBVIOUS
<1> HIDE DEF k
<1>8. /\ Append(file, k) \in Seq(AnyTask)
      /\ NoRepeat(file) => NoRepeat(Append(file, k))
      /\ \A x : In(x, Append(file, k)) => x = k \/ In(x, file)
  BY <1>2, <1>5, <1>6, NoRepeatAppend, InAppendOnly, AppendProperties DEF LogType
<1>9. LogType'
  BY <1>2, <1>3, <1>7, <1>8 DEF LogType, LogPlaces
<1>10. LoggedOnce'
  <2>1. ASSUME NEW i \in DOMAIN file' PROVE In(file'[i], stdout)
    <3>1. In(file'[i], Append(file, k))
      BY <1>7, <1>8, <2>1 DEF In
    <3>2. file'[i] = k \/ In(file'[i], file)
      BY <1>8, <3>1
    <3>3. ASSUME NEW x, In(x, file) PROVE In(x, stdout)
      <4>1. PICK j \in 1 .. Len(file) : file[j] = x
        BY <3>3 DEF In
      <4>2. j \in DOMAIN file
        BY <1>2 DEF LogType
      <4> QED
        BY <1>2, <4>1, <4>2 DEF LoggedOnce
    <3> QED
      BY <1>5, <3>2, <3>3
  <2> QED
    BY <1>1, <1>2, <1>7, <1>8, <2>1 DEF LoggedOnce
<1>11. TasksKept' /\ PrintedTaken'
  BY <1>1, <1>2 DEF TasksKept, WaitKept, PushedKept, RunKept, Calm, CalmIn,
        Waits, Holds, Current, Belongs, NoRepeat, In, PrintedTaken
<1>12. LogKept'
  <2>1. \A u \in Threads : /\ Holds(u, Handler)' <=> Holds(u, Handler)
                           /\ Executing(u, Handler)' <=> Executing(u, Handler)
    BY <1>1 DEF Holds, Executing, Current
  <2>2. ASSUME NEW u \in Threads, log'[u] # "none" PROVE Executing(u, Handler)'
    BY <1>2, <1>4, <1>5, <2>1, <2>2 DEF LogKept
  <2>3. ASSUME NEW u \in Threads, Holds(u, Handler)'
        PROVE  log'[u] # "none" <=> In(proc'[u].task, stdout')
    BY <1>1, <1>2, <1>4, <2>1, <2>3 DEF LogKept
  <2>4. ASSUME NEW u \in Threads, log'[u] \in {"enabled", "file", "insert"}
        PROVE  ~In(proc'[u].task, file')
    <3>1. u # t /\ log[u] \in {"enabled", "file", "insert"}
      BY <1>4, <2>4
    <3>2. Holds(u, Handler) /\ ~In(proc[u].task, file)
      BY <1>2, <3>1 DEF LogKept, Executing, Holds
    <3> QED
      BY <1>1, <1>6, <1>7, <1>8, <3>1, <3>2
  <2> QED
    BY <2>2, <2>3, <2>4 DEF LogKept
<1> QED
  BY <1>9, <1>10, <1>11, <1>12 DEF LogInv, LinesKept

\* Every step of the log handler keeps the invariant.
LEMMA LogStep ==
  ASSUME TypeOK, QueueOrder, LogInv, [LogNext]_logVars
  PROVE  LogInv'
<1> USE LogAssumption
<1>0. CASE UNCHANGED logVars
  BY <1>0, SettingsKeep DEF logVars, output
<1>1. ASSUME NEW t \in Threads, fault = "none", TaskStep(t) PROVE LogInv'
  BY <1>1, TaskStepKeeps
<1>2. ASSUME Race PROVE LogInv'
  BY <1>2, SettingsKeep DEF Race, output
<1>3. ASSUME NEW t \in Threads, fault = "none", WriteLog(t) PROVE LogInv'
  <2>1. CASE WriteToStdout(t)
    BY <1>3, <2>1, PrintKeeps
  <2>2. CASE CheckFileEnabled(t)
    <3> DEFINE l == IF file_enabled THEN "file" ELSE "done"
    <3>1. /\ log[t] = "enabled" /\ Goto(t, l) /\ UNCHANGED <<vars, stdout, file>>
      BY <2>2 DEF CheckFileEnabled, output
    <3>2. l \in LogPlaces \ {"none"}
      BY DEF LogPlaces
    <3> HIDE DEF l
    <3> QED
      BY <1>3, <3>1, <3>2, MoveKeeps
  <2>3. CASE BeginWriteToFile(t)
    <3> DEFINE l == IF file_stream = "good" THEN "insert" ELSE "disable"
    <3>1. \/ Race
          \/ log[t] = "file" /\ Goto(t, l) /\ UNCHANGED <<vars, stdout, file>>
      BY <2>3 DEF BeginWriteToFile, output
    <3>2. l \in LogPlaces \ {"none"}
      BY DEF LogPlaces
    <3> HIDE DEF l
    <3> QED
      BY <1>2, <1>3, <3>1, <3>2, MoveKeeps
  <2>4. CASE EndWriteToFile(t)
    <3>1. CASE file' = Append(file, proc[t].task) /\ Goto(t, "done")
      BY <1>3, <2>4, <3>1, WriteKeeps DEF EndWriteToFile
    <3>2. CASE file' = file /\ Goto(t, "disable")
      BY <1>3, <2>4, <3>2, MoveKeeps DEF EndWriteToFile, LogPlaces
    <3> QED
      BY <2>4, <3>1, <3>2 DEF EndWriteToFile
  <2>5. CASE DisableInvalid(t)
    BY <1>3, <2>5, MoveKeeps DEF DisableInvalid, LogPlaces, output
  <2> QED
    BY <1>3, <2>1, <2>2, <2>3, <2>4, <2>5 DEF WriteLog
<1>4. ASSUME NEW t \in Threads, Configure(t) PROVE LogInv'
  <2>1. UNCHANGED <<vars, log, stdout, file>>
    BY <1>4 DEF Configure, EnableFileOutput, OpenFile, StoreEnabled, output,
                DisableFileOutput, CloseFile, SetMinLevel, UseStream, Race
  <2> QED
    BY <2>1, SettingsKeep
<1>5. ASSUME NEW t \in Threads, fault = "none", NEW k \in Lines, Log(t, k)
      PROVE  LogInv'
  <2>1. CASE UNCHANGED vars
    BY <1>5, <2>1, SettingsKeep DEF Log
  <2>2. CASE RequestTask(t, Handler, k)
    <3>1. k \in Tasks /\ Belongs(k, Handler)
      BY DEF Belongs
    <3> QED
      BY <1>5, <2>2, <3>1, RequestStepKeeps DEF Log
  <2> QED
    BY <1>5, <2>1, <2>2 DEF Log
<1>6. ASSUME NEW t \in Threads, fault = "none", NEW s \in Serializers \ {Handler},
             NEW k \in Tasks \ Lines, RequestActor(t, s, k)
      PROVE  LogInv'
  <2>1. Belongs(k, s)
    BY DEF Belongs
  <2> QED
    BY <1>6, <2>1, RequestStepKeeps DEF RequestActor, output
<1> QED
  BY <1>0, <1>1, <1>3, <1>4, <1>5, <1>6 DEF LogNext

\* Whichever threads run write_log, however its lines were requested, and
\* whatever happens to the file and the settings meanwhile, no line is
\* printed or written to the file twice, every line whose task finished was
\* printed, and the file holds printed lines only.
THEOREM LinesLoggedOnce == LogSpec => []LoggedOnce
<1>1. LogInit => LogInv
  <2> SUFFICES ASSUME LogInit PROVE LogInv
    OBVIOUS
  <2> USE LogAssumption DEF LogInit, Init
  <2>1. LogType
    BY DEF LogType, LogPlaces
  <2>2. LoggedOnce /\ PrintedTaken
    BY DEF LoggedOnce, NoRepeat, In, PrintedTaken
  <2>3. LogKept /\ RunKept /\ Calm
    BY DEF LogKept, RunKept, Calm, CalmIn, Holds, Idle
  <2>4. WaitKept
    BY DEF WaitKept, Waits, NoPush
  <2>5. PushedKept
    BY DEF PushedKept, NoRepeat
  <2> QED
    BY <2>1, <2>2, <2>3, <2>4, <2>5 DEF LogInv, LinesKept, TasksKept
<1>2. TypeOK /\ QueueOrder /\ LogInv /\ [LogNext]_logVars => LogInv'
  BY LogStep
<1>3. LogInv => LoggedOnce
  BY DEF LogInv
<1>4. LogSpec => []TypeOK /\ []QueueOrder
  BY LogUsesTasks, TypeCorrect, QueueOrdered, PTL
<1> QED
  BY <1>1, <1>2, <1>3, <1>4, PTL DEF LogSpec

=============================================================================
