# Braid: a TLA+ model of the server framework

Braid (`src/braid`) is a C++20 framework for TCP servers on io_uring. Worker
threads, each with its own ring, run a loop of "take one completion, submit what
was requested, run serialized tasks"; sessions chain accepts and receives
through any of the rings; tasks that must not run concurrently go through a
`TaskSerializer`. `src/sample-server` is an echo server built on it and
`src/test-client` a load generator. There are no tests in the repository.

This directory holds TLA+ models of its parts, TLC runs that check them on small
instances, and proofs checked by TLAPS. `PROJECT.json` maps every definition to
the lines it models and lists the runs, the mutants, the findings, the hazards
and the theorems.

## 1. Inventory

| Component | State | Operations | Hard because | Correct if |
|---|---|---|---|---|
| `TaskSerializer`, `TaskDistributor` | lock-free queue of tasks, `state_`, queue of serializers, a thread-local "processing" pointer | `request_task`, `push`, `pop`, `clear`, `set_destroy`, two overloads of `process_task_serializer` | `empty()` and `push()` are two steps; several threads may drain one serializer; the statics are defined per source file | no task is skipped or started twice, and tasks are taken in push order; at most one runs at a time; none is forgotten; deletion loses nothing |
| `LogHandler` | level, file flag, file stream | `LogImpl`, `write_log`, `enable_`/`disable_file_output`, `set_min_level` | stream without a lock, settings changed outside the serializer | lines are printed once and written at most once, whatever way the handler's tasks get to a thread |
| `IORequestQueue`, `IOCompletion`, `WorkerThread` | lock-free request queue, submission and completion queue | `push_request`, `wait_one`, `flush_requests`, `submit`, `handle_completion` | requests come from all threads; raw pointers carry the only reference | every operation is referred to once; every request is submitted; no flush leaves entries behind, so that only a burst exhausts a ring |
| `Service`, `ServiceSession`, `Actor`, `IOOperation*` | session pool, round-robin counter, descriptor per session | `initialize`, `request_io`, `request_accept_one`, `on_accepted`, `on_received`, `on_receive_failed`, close | completions of a session arrive at any worker; descriptors are reused by the kernel; operations may be dropped | one activity per session at a time; answers go to the right client, once, in order; clients are admitted; sessions are recycled |
| `IOUringObject`, `MessageDispatcher`, `MessageHeader` | 4096-byte buffer and `commited_size_` | receive, commit, parse loop, dispatch, `process_completed` | TCP cuts messages anywhere; headers may declare anything | handlers see whole messages in order; no byte lost; the buffer is not overrun; the chain never spins |
| `ObjectPool`, `ThreadLocalCache`, `MemoryChunk`, `IOPool` | free queue, cache per thread, chunk list, allocation flag | `acquire`, `release`, batch stealing and returning, `allocate_chunk` | four places a slot can be in, exceptions, races of allocators | every slot has one owner; one allocator at a time; the flag is released |
| request index | `atomic<int>` | `request_io` | signed wrap | even distribution, no request dropped |
| `SendBuffer`, `SendMessage`, `timestamp_task` | bytes and reference count of a buffer, references of callers and operations, address and length in a submission entry | `write`, chunk loop, `request_send`, release | one buffer is shared by operations on several rings; the kernel reads it long after the caller let go | the kernel reads only buffers in use; each is deleted once, at last; chunks make up the answer |
| `ServiceBuilder`, `Thread` | listening socket, started threads | `build`, `initialize`, `run` | results of socket calls are ignored; threads start while others already work | a started service admits everybody |
| utilities, `BraidServer.cc` | | | sequential | not modelled |

Components interact by calls (a completion calls its operation, which calls its
session, which calls the service), by lock-free queues shared by threads
(requests, sessions, serializers, tasks, free slots), and through the kernel.

## 2. Modules

| Module | Models | Composition |
|---|---|---|
| `TaskSerializer` | the task layer | |
| `LogHandler` | the log handler | extends `TaskSerializer`: gives its tasks a body |
| `IORing` | request queue, ring, completion, routine | |
| `SendPath` | outgoing buffers, their callers and the sends | extends `IORing` |
| `Service` | start, sessions, operations, echo handler, kernel sockets, clients | extends `IORing`, implements its specification and `SessionLifecycle` |
| `SessionLifecycle` | abstract: the life of every session | |
| `ReceiveBuffer` | one connection's bytes to messages | implements `MessageStream` |
| `MessageStream` | abstract: messages consumed in order, each once | |
| `ObjectPool` | pool, caches, chunks | |
| `RequestIndex` | the round-robin counter with its width | |
| `SequenceLemmas` | no code: lemmas about sequences without repeats, prefixes and suffixes | used by the proofs |
| `TaskSerializerProofs`, `LogHandlerProofs`, `IORingProofs`, `SendPathProofs`, `ServiceProofs`, `ReceiveBufferProofs`, `ObjectPoolProofs` | no code: the theorems about the module in their name | each extends that module; `LogHandlerProofs` extends `TaskSerializerProofs`, `SendPathProofs` and `ServiceProofs` extend `IORingProofs` |
| `MCTaskSerializer`, `MCLogHandler`, `MCReceiveBuffer` | constants and symmetry sets for TLC | extend the above; the other modules run as they are |

Definitions marked "Faulty variant" are what a bug in the code would turn the
next definition into. No specification uses them; they show that each property
can fail (`mutants` in `PROJECT.json`).

### How the code is read

*Atomic steps.* An operation of `boost::lockfree::queue` or of an atomic is one
step, and what a thread does between two of them on its own data is merged with
one of them. `boost::lockfree::queue` grows when it is full, so a push does not
fail.

*`TaskSerializer`.* `push[t]` and `proc[t]` are the program counters of a
thread's calls of `push` and `process_task_serializer`; both may be active, for a
task may request a task (`Nested`). `TaskDistributor.h` declares
`g_task_distributor` and `tl_process_task_serializer` `static`, so every source
file has its own object: `Copy` says which. `AsWritten` is the repository's
build. `OneCopy` is a build of all sources as one translation unit, which the
repository does not make; run `log` uses it to reach the distributor. A thread
takes a task (`PopTask`) and invokes it (`Invoke`) in two steps, as
`TaskDistributor.cc:46-47` does. `clear()` is one step: another
thread's action between its `empty()` and its store could as well come before
or after, except that a task taken in between leaves an uninitialised pointer,
which `ClearFaults` includes. Assertions are on, as in the `linux-debug` preset.
A failed assertion and a use of a deleted serializer set `fault` and stop the
model. The histories `pushed`, `taken` and `started` are not read by any guard.

*`LogHandler`.* `write_log` takes the place of the body of a task: print, read
the flag, check the stream, write, switch off. A write has a beginning and an
end, and a use of the stream from another thread in between is a data race, at
which the model stops (`raced`). The functions that change the settings are
sequences of steps of the calling thread, of which there is at most one. The
other serializers are actors: their tasks do nothing but log.

*`IORing`.* `live` is the set of operations out of the pool. The ring is
external: entries prepared (`sq`), operations in the kernel (`inflight`),
completions (`cq`). A close submits inside its `request_io`. `~IOCompletion`
runs at the end of the routine, so the completion is held while requests are
flushed and tasks run (`Retire`).

*`Service`.* A completion handler becomes the list `todo` of the `request_...`
calls it makes, performed one by one, since other threads run between them. The
descriptor of an operation is read when its entry is prepared (`EntryFd`) and
looked up in the kernel's table when it is submitted (`Resolve`). `Fresh` takes
an operation from the pool; `PoolMayFail` lets `acquire` return null. Messages
are whole here; `ReceiveBuffer` is about bytes. `request_index` is kept modulo
the number of threads; `RequestIndex` is about its width.

The service starts as the sample's `main` does it: `Build` (the socket calls may
fail without anybody noticing: the acceptor is `deaf`), the accepts of
`initialize`, then `StartThread` for one thread after the other while the first
already run. Clients may connect as soon as the socket listens.

*`SessionLifecycle`* is what the service promises of a session: free,
accepting, serving, receiving, gone, each session on its own and one step at a
time, and a descriptor stored only with a new connection. `Phase` in
`Service.tla` is the refinement mapping: where a session is (pool, ring or
handler) follows from the queues, the live operations and the handlers. The
abstract step from gone to free is one the code never takes
(`service_recycle_violated`).

*`SendPath`.* Memory of buffers is reused as soon as it is freed, lowest address
first, so that a late reader would see other contents. A call of
`timestamp_task` or `SendMessage` is a sequence of steps (fill, request per
recipient, drop the caller's reference) inside a message handler or a task; the
worker's loop goes on when it returns. `RequestSend` may find no operation. The
ring is any ring, because all threads advance `request_index_`. `data`,
`send_buffer` and `entry` are what the code has; `wanted` and `emitted` are
histories that no guard reads.

*`ReceiveBuffer`.* A byte is the pair (message, offset), the buffer an array that
keeps old contents, so reading too far or moving too little shows. A header that
declares a negative size, less than a header, or more than the buffer, is among
the inputs. The client may break off in the middle of a message and close
(`SendPartly`): `sent` has the messages it began, and the last `unsent` bytes of
`wire` never arrive. `DropReceive` is `request_io` returning because `acquire`
found no operation: nobody asks for a receive again, and nobody closes the
session.

*`ObjectPool`.* Slots are numbered in the order of allocation. A thread's cache
is touched by that thread only. `PoolAssumption` states what the default
`Config`, the only one in use, satisfies: batches fit the arrays on the stack,
and a stolen batch fits an empty cache.

## 3. Runs

All bounds are constants in the `.cfg` files. They are chosen so that the case a
property is about occurs: more tasks than `MaxProcessTaskCount`, more clients
than descriptors, messages that fill the buffer or do not fit, more slots than one chunk,
fewer ring entries than operations.

Passing:

| Run | Instance | Shows |
|---|---|---|
| `task_workers` | 2 threads, 2 serializers, 3 tasks, limit 2, nested requests, both threads may destroy, as written | `TypeOK`, `StartOrder`, `DrainedOnReturn`, `DeletionLosesNothing`, `FaultsHaveCause` |
| `log` | 2 threads, the handler and an actor, 2 lines and an actor's task that may log, limit 1, one thread changes the settings, the file may fail, one translation unit | `LoggedOnce` |
| `send` | 2 workers, 2 send operations and a receive, depth 3, one call: an answer of 1 or 5 bytes in chunks of 2 with a header of 3, or a message that fits or does not to 0, 1 or 2 actors; acquiring may fail; fair workers and sends | `SendTypeOK`, `OneReference`, `BufferCounted`, `SentIntact`, `AnswerTiled`, `RequestReachesKernel`, `BuffersReclaimed` |
| `service` | 2 workers of depth 2, 2 sessions, 2 clients, 2 messages, 1 descriptor, reset, orderly close, failing pool, listening may fail | `TypeOK`, `SessionExclusive`, `EchoOnce`, `NullEntryNeedsBurst`, refinement `LifecycleFollowed` |
| `service_live` | 2 clients that stay, 1 initial accept, answers of 2 buffers, fair | `EchoToClient`, `Admitted`, `Answered`, refinement `UsesRing` |
| `receive` | buffer 4, header 2, 3 messages of size -1 or 1 to 5, two types, failing receives, failing pool, end, a broken-off message, fair | `TypeOK`, `BytesConserved`, `RoomToReceive`, refinement `StreamOfMessages`, `AllTaken` |
| `pool` | 2 threads, cache 3, batch 2, 5 slots, throwing constructors, memory that runs out, fair | `TypeOK`, `OneOwner`, `CacheGivesBack`, `AllocationExclusive`, `FlagReleased` |

Violated (each is a finding, with the line of the repository it contradicts):

| Run | Property | What happens |
|---|---|---|
| `task_serial_violated` | `SerialExecution` | A pops the only task and runs it; the queue is empty, so B's request processes the serializer too |
| `task_starved_violated` | `AllExecuted` | B sees A's task in the queue, A drains it and returns, B pushes and schedules nothing; or the serializer is queued again on a distributor nobody polls |
| `service_stale_fd_violated` | `EchoToClient` | a late send uses a descriptor the kernel has given to another client |
| `service_recycle_violated` | `SessionRecycled` | `on_closed` is never called |
| `index_wrap_violated` | `RoundRobin` | a negative counter gives a negative index and the request is dropped |

`task_workers` runs the program as it is built, in which `AddTaskSerializer` and
a successful `Poll` never happen: each source file has its own statics. It meets
every fault the code can have: a failed assertion under a nested request, a
release without a reference, a deleted serializer that is used. `FaultsHaveCause`
says that they have no other causes. `StartOrder` does not say that tasks start
in the order they were pushed, for they need not: with two threads in the loop of
one serializer the one that took the later task may invoke it first. It says that
this is all that can happen.

`log` runs the same task layer as one translation unit, so that the path through
the distributor is exercised too: the handler is queued, polled, drained up to
the limit and queued again. `LoggedOnce` does not depend on it, as its theorem
shows, which holds for every sharing of the statics.

`send` allows one call, in which up to two sends of one buffer, or of successive
chunks, are in the rings of both workers, one of them also serving the call; its
safety properties were also checked with two calls at a time, four buffers and
answers of 1 or 3 bytes (2.3 million states), too many for the liveness
properties. Its rings have an entry for every operation. In `service` they are
shallower than what can be requested, so the null entry of a full submission
queue occurs (and stops the model); `NullEntryNeedsBurst` says when: one flush
finds more operations waiting than there are entries. A long list of accepts and
receives that the kernel has not completed does no harm.

`task_workers`, `log`, `service`, `receive` and `index_wrap_violated` do not
check deadlock: there the program may stop (a fault, a data race, a null entry,
a connection closed with nothing left to come, or the bound on requests).

### Further observations

These follow from the modelled steps; no run is about them.

- As built, a task that requests a task of an empty serializer re-enters
  `process_task_serializer` and fails the assertion of `TaskDistributor.cc:40`:
  `TaskSerializer.cc:20` tests a copy of `tl_process_task_serializer` that is
  always null (`BeginProcess`).
- `clear()` releases queued tasks, which have no reference yet, so the assertion
  of `RefCountable.h:27` fails (`TaskSerializer.cc:60`, `ClearFaults`).
- `set_destroy` may overwrite `DESTROYED`, stored by its own clear task, with
  `DESTROYING`; if the processing thread reads the state after that, the
  serializer is never deleted (`TaskSerializer.cc:36`, `StoreDestroying`).
- An operation that cannot be acquired is dropped without notice
  (`Service.h:32`), and `acquire` gives up after a number of tries although
  slots exist (`ObjectPool.h:65`). A session whose receive is dropped stays open
  and receives nothing more (`DropReceive`).
- The buffers of one answer go through different rings (`Service.cc:47`), so they
  may be written in any order.
- A `write_log` that meets the stream between the `close()` and the `open()` of
  `enable_file_output` stores false after that function has stored true: the new
  file is open and nothing is written to it (`LogHandler.cc:139`).
- A send that takes fewer bytes than the buffer holds completes like any other
  and the rest is not sent (`IOOperationSendBuffer.cc:24`, `KernelStep` of
  `SendPath`). `SendMessage` with more than `MAX_MESSAGE_SIZE` bytes sends an
  empty buffer (`SendBuffer.h:24`).
- The test client never reads (its receiving half follows an endless loop), so
  the server's sends to it stop completing once the socket buffers are full.
  Nothing then bounds the buffers and operations the server keeps: it goes on
  receiving and answering. `BuffersReclaimed` assumes that sends complete.
- If the port is taken, `ServiceBuilder::build` returns a service whose accepts
  all fail (`ServiceBuilder.h:87`); the error branch of the sample's `main` is
  never reached.
- The sample's handler makes a string of the payload as if it ended with a zero
  byte (`SampleServer.cc:107`), so its contents may run on into what follows
  in the receive buffer.
- After an orderly close of the client every receive completes with 0 and is
  requested again; the session is never closed (`ServiceSession.cc:76`).

### Fairness

Weak fairness of every thread's own steps: the operating system runs all
threads, and no step of the loop blocks (`wait_one(0)`). Requests, clients and
settings are never fair. In `Service` and `ReceiveBuffer` the kernel completes
an operation that can be completed, in `SendPath` only the sends: a receive may
wait for ever, and requests reach the kernel all the same. `Boot` is fair: the
main thread goes on until all threads are started.
`Admitted` and `Answered` hold for clients that neither reset nor close, and as
long as there are sessions and descriptors for everybody; `AllTaken` for
messages that were sent to their end and fit the buffer, as do those before them,
on a connection whose receives neither fail nor are dropped.

## 4. Proofs

Each theorem holds for every value of the constants that the named assumption of
its module allows; TLC evaluates those assumptions in the runs. Each inductive
invariant was checked with TLC, on an instance like those of the module's runs,
before it was proved.

`TaskSerializerProofs`, for every set of threads, serializers and tasks, every
limit and every sharing of the statics (`TaskAssumption`):

| Theorem | Statement | Argument |
|---|---|---|
| `TypeCorrect` | `Spec => []TypeOK` | `TypeOK` is inductive; `InPush` and `InProcess` are the parts about the two calls: a thread is idle exactly if its thread-local is null, and below the limit whenever it may pop |
| `StartsInOrder` | `Spec => []StartOrder` | three invariants: what was pushed is what was taken followed by what is queued (`QueueOrder`, which only `PushTask` and `PopTask` touch); a task is on its way into a queue in one call and was not pushed before, so none is pushed twice (`RequestsOnce`); what was taken was started or is in the hands of exactly one thread that has not invoked it (`StartInv`) |
| `DeletionSafe` | `Spec => []DeletionLosesNothing` | a deleted serializer has an empty queue (`DeletedEmpty`), because nothing pushes to it and `CheckState` deletes only an empty one; by `QueueOrder` all was taken, and `StartInv` says what became of it |
| `RequestDrains` | `Spec => []DrainedOnReturn` | strengthened to `DrainInv`: the task a call was triggered by was pushed to the serializer it processes, and once the call has seen the queue empty below the limit, `QueueOrder` puts that task among those taken |
| `FaultsCaused` | `Spec => []FaultsHaveCause` | strengthened by `FaultInv`: a serializer is destroyed or deleted only after its `clear()` was pushed, and a thread inside `push` is idle or runs a task |
| `PlainUseFaultFree` | `Nested = FALSE`, `Destroyers = {}` imply `Spec => []NoFault` | both causes of `FaultsHaveCause` are excluded (`PlainUse`) |

`LogHandlerProofs`, for every set of lines and actor tasks (`TaskAssumption`,
`LogAssumption`; at most one thread changes the settings):

| Theorem | Statement | Argument |
|---|---|---|
| `LogUsesTasks` | `LogSpec => Spec` | every step of the log handler is a step of the task layer or leaves it alone, so the theorems about tasks hold for it |
| `LinesLoggedOnce` | `LogSpec => []LoggedOnce` | strengthened to `LogInv`: a line is on its way into the queue in one call at most and not pushed before, the handler was pushed lines only and none twice, so by `QueueOrder` a line taken was never taken before and one thread runs it; while it runs, its place in `write_log` says whether it is printed and that it is not in the file yet. The part about running threads is claimed only until a fault, since a step that faults leaves its thread where it is |

`IORingProofs`, for every number of workers and operations (`RingAssumption`):

| Theorem | Statement | Argument |
|---|---|---|
| `RingTypeCorrect` | `RingSpec => []RingTypeOK` | inductive |
| `OperationReferencedOnce` | `RingSpec => []OneReference` | strengthened to `RefInv`: the queues, entries, kernel requests and completions of all workers are pairwise apart (`Apart`), their union is `live` (`Accounted`), and none repeats an operation (`NoRepeats`); every step moves operations from one place to the next |
| `NullEntryOnlyInBurst` | `RingSpec => []NullEntryNeedsBurst`, for every depth | `BatchInv`: only a worker in the middle of a flush has entries that are not submitted. When an entry is missing, `RefInv` makes the entries and the operation at hand different ones, all live and none given to the kernel: more than the ring has entries |

`SendPathProofs`, for every chunk and message size, header, answer, number of
recipients, and finite sets of workers and operations (`SendAssumption`; the sets
are finite because the property counts their members):

| Theorem | Statement | Argument |
|---|---|---|
| `SendUsesRing`, `SendReferencedOnce` | `Spec => RingSpec`, hence the theorems of the ring | every step is one of the ring or leaves it alone, and only operations not in use are requested |
| `SendTypeCorrect`, `CountsHolders`, `EntryIntact` | `Spec => []SendTypeOK`, `[]BufferCounted`, `[]SentIntact` | one invariant, `SendInv`: a buffer's count is the number of its holders, the entry of a prepared or submitted send points to the buffer the operation holds, and that buffer still has what was requested; a buffer is only written while its caller is its single holder, so a send that is in the ring cannot see it change |
| `ChunksAreAnswer` | `Spec => []AnswerTiled` | strengthened to `TiledSoFar`, which also says what the chunk being filled holds |

`ServiceProofs`, for every number of threads, sessions, initial accepts, clients,
messages, buffers per answer and descriptors, rings of any depth, and whatever
fails (`ServiceAssumption`, with the `RingAssumption` of the rings):

| Theorem | Statement | Argument |
|---|---|---|
| `ServiceTypeCorrect` | `Spec => []TypeOK` | part of `ServiceInv`, see below |
| `ServiceUsesRing`, `ServiceOperationOnce`, `ServiceNullEntryOnlyInBurst` | `Spec => UsesRing`, hence `[]OneReference` and `[]NullEntryNeedsBurst` | every step is one of a ring or leaves the rings alone. The step that needs `ServiceInv` is `RequestIO`: that `Fresh` finds an operation that is not in use |
| `SessionsExclusive` | `Spec => []SessionExclusive` | `SessInv` says it without counting |
| `AnswersOnce` | `Spec => []EchoOnce` | part of `BufInv` |
| `SessionsFollowLifecycle` | `Spec => LifecycleFollowed` | `SessInv` determines the phase of a session from its one place (`PhaseNow`); each step moves the place of one session, as one step of `SessionLifecycle` does, or none; `AcceptInv` adds that a successful accept reports a descriptor |
| `AnswersReachTheirClient` | `Resetting = {}` implies `Spec => []EchoToClient` | strengthened to `EchoInv`: a session is given a descriptor once, keeps it, and nobody closes it, so what an operation was requested for, what its entry holds and what the kernel works on are the same connection |

`ServiceInv` is one invariant because its parts depend on each other. An operation
is free to be requested only if few like it are in use. For accepts and receives
this is `SessInv` (a session is in the pool once, or has one accept or receive
outstanding, or one handler, and none of these once its close is requested); for
sends it is `BufInv` (a buffer is in the plan of one handler, or in one operation,
or written). At most one operation that is alike may linger with each worker,
which still holds its completion, and so one of `ThreadCount + 1` is free. That a
handler plans only new buffers is `MsgInv`: a message is still in its connection,
or in one completion, or was taken by one handler. The rest says where a handler's
plan can be (`PcInv`, `TodoInv`), that everything prepared has a descriptor and
everything submitted a connection (`SqeInv`), that the workers start last
(`BootInv`), and the types.

The hypothesis of `AnswersReachTheirClient` is the one the code depends on: clients
may still close their side, and operations may be dropped. A reset makes a receive
fail, the session closes its descriptor without forgetting it, and the property is
lost (`service_stale_fd_violated`).

`ReceiveBufferProofs`, for every buffer and header size, any messages and any
cutting of the stream (`BufferAssumption`):

| Theorem | Statement | Argument |
|---|---|---|
| `ReceiveTypeCorrect`, `NoByteLost`, `ReceivesHaveRoom` | `Spec => []TypeOK`, `[]BytesConserved`, `[]RoomToReceive` | one invariant, `ReceiveInv`: the span given to the kernel starts at the committed bytes and ends with the buffer, no complete message waits when a receive is requested, and what is unread is the rest of the stream. The last part (`BytesOrdered`) is stated by positions: a sequence in which every byte is followed by its successor holds every message it touches in one piece (`PartOf`). It is carried along, because deriving it would need an induction over the sequence |
| `ImplementsStream` | `Spec => StreamOfMessages` | by `BytesOrdered` the bytes cut off by the parse loop are exactly the next message of the stream, so the step is one of `MessageStream`; all others leave its variables alone |

`ObjectPoolProofs`, for every number of threads and slots and the configurations
`PoolAssumption` describes (a batch fits the arrays on the stack, and what is
left of it an empty cache):

| Theorem | Statement | Argument |
|---|---|---|
| `PoolTypeCorrect`, `CachesGiveBack`, `OneAllocates` | `Spec => []TypeOK`, `[]CacheGivesBack`, `[]AllocationExclusive` | `PoolKept`: for every place in `acquire` and `release`, how much the cache and the batch hold, and who holds the flag |
| `EverySlotOwned` | `Spec => []OneOwner` | `OwnerInv`: free queue, caches, batches, slots in hand and slots in use are pairwise apart, cover what has been allocated, and repeat nothing |

The type invariants are needed everywhere: the provers must know that the
records and functions have the fields and domains the actions update.

Only model-checked: liveness under fairness, which is beyond the prover
(`RequestReachesKernel`, `BuffersReclaimed`, `AllTaken`, `FlagReleased`,
`Admitted`, `Answered`).

## 5. Not modelled

- The options of `ServiceBuilder` are constants. (`set_backlog` sets the backlog
  of `listen` only; the number of initial accepts is the default of
  `Service::backlog_`.)
- The bytes a short send leaves behind: the code does not look at them.
- Lifetimes of the objects a task refers to. `Task.h` takes no reference, since
  the tuple holds a pointer, but every session, actor and handler of the
  repository lives as long as the process (`on_closed`, which would drop an
  actor, is never called), so there is no state in which it matters.
- Handlers that request tasks of their actor: no handler of the repository does.
- The receiving half of the test client: unreachable.
- `IOOperationSend`, `IOOperationNop`, `Thread::stop`: no caller.
- `IOOperationAccept` passes the kernel the address of a local variable; the
  peer's address is not used by any code.
- The destructors that run when the process ends.
- `Service::sessions_queue_` is constructed with the value of a member declared
  after it; the queue grows, so only its first allocation depends on it.

## 6. Plan

Done: the task layer, the log handler, the rings, the send path, the start and
the life of the service with its abstract specification, the receive buffer with
its own, the pool and the request index; and the proofs about all of them, which
cover every safety property the passing runs check. What is left is what no
property covers, as the notes of the hazards say: the order of the buffers of one
answer, the serializer that is never deleted, the file flag that may be stale.
The code promises none of these; properties about them wait for a decision what
it should promise.
