-------------------------------- MODULE Service --------------------------------
(***************************************************************************)
(* The service layer on top of the rings of IORing: Service (the session   *)
(* pool and the round-robin choice of a ring), ServiceSession (the chain   *)
(* accept, receive, receive, ... of one connection), the five kinds of     *)
(* IOOperation, MessageDispatcher with the sample's echo handler, and the  *)
(* worker threads that run all of it.                                      *)
(*                                                                         *)
(* External: the kernel's descriptor table and sockets, and the clients.   *)
(* A receive returns whole messages; how bytes are cut into messages is    *)
(* not modelled here.  request_index_ is kept modulo the number of         *)
(* threads; RequestIndex.tla is about its width.                           *)
(***************************************************************************)
EXTENDS IORing, FiniteSets

CONSTANTS
  ThreadCount,   \* Service::thread_count_; Workers are 0 .. ThreadCount - 1
  SessionCount,  \* Service::session_count_
  Backlog,       \* Service::backlog_, the number of accepts requested at start
  Conns,         \* connections clients may open, each once
  MaxMessages,   \* bound: messages a client sends on a connection
  Senders,       \* connections whose client may send any
  Chunks,        \* SendBuffers the handler answers a message with
  MaxFd,         \* descriptors the process may have open for connections
  Resetting,     \* connections whose client may reset them
  HalfClosing,   \* connections whose client may close them in an orderly way
  PoolMayFail,   \* may ObjectPool::acquire return nullptr?
  ListenMayFail, \* may socket, bind or listen fail?
  NULL           \* nullptr, no descriptor, no connection

Sessions == 1 .. SessionCount
Fds      == 1 .. MaxFd
Messages == Conns \X (1 .. MaxMessages)
Buffers  == Messages \X (1 .. Chunks)

\* An IOOperation: what it is for, and a number that tells apart operations
\* of one session that are alike (every worker may still hold an old one).
MaxAlike == ThreadCount + 1
Operations ==
       [kind : {"accept", "recv", "close"}, sess : Sessions, buf : {NULL},
        n : 1 .. MaxAlike]
  \cup [kind : {"send"}, sess : Sessions, buf : Buffers, n : 1 .. MaxAlike]

CloseOperations == {op \in Operations : op.kind = "close"}

\* What a completion reports: res < 0, a descriptor, or the messages read.
Failed   == [ok |-> FALSE, fd |-> NULL, msgs |-> <<>>]
Done     == [ok |-> TRUE,  fd |-> NULL, msgs |-> <<>>]
Outcomes == [ok : BOOLEAN, fd : Fds \cup {NULL},
             msgs : UNION {[1 .. n -> Messages] : n \in 0 .. MaxMessages}]

\* The constants of IORing are those of the service's rings; QueueDepth is
\* Service::queue_depth_per_thread_.
ASSUME ServiceAssumption ==
  /\ ThreadCount \in Nat \ {0}
  /\ SessionCount \in Nat /\ Backlog \in Nat /\ MaxFd \in Nat
  /\ MaxMessages \in Nat /\ Chunks \in Nat
  /\ Senders \subseteq Conns
  /\ Resetting \subseteq Conns /\ HalfClosing \subseteq Conns
  /\ PoolMayFail \in BOOLEAN /\ ListenMayFail \in BOOLEAN
  /\ NULL \notin Conns /\ NULL \notin Nat
  /\ Workers = 0 .. ThreadCount - 1 /\ Ops = Operations
  /\ Results = Outcomes /\ Closing = CloseOperations

VARIABLES
  acceptor,        \* Service::acceptor_object_: none, listening or deaf
  booted,          \* turns of the loop of Service::initialize
  started,         \* threads Service::run has started
  sessions_queue,  \* Service::sessions_queue_
  request_index,   \* Service::request_index_, modulo ThreadCount
  socket_fd,       \* IOUringObject::socket_fd_
  todo,            \* request_... calls the running handler still makes
  sqe_fd,          \* the descriptor written into a prepared entry
  file,            \* the connection a submitted operation works on
  fd_table,        \* external: connection of each descriptor
  shut,            \* external: connections the server has shut down
  peer,            \* external: what the client has done with a connection
  sent, inbox,     \* external: messages it sent, and those not yet received
  stream           \* external: buffers written to a connection

bootVars    == <<acceptor, booted, started>>
sessionVars == <<bootVars, sessions_queue, request_index, socket_fd, todo>>
sockets     == <<sqe_fd, file, fd_table, shut>>
clients     == <<peer, sent, inbox>>
vars        == <<ringVars, sessionVars, sockets, clients, stream>>

Init ==
  /\ RingInit
  /\ acceptor = "none" /\ booted = 0 /\ started = 0
  /\ sessions_queue = [i \in 1 .. SessionCount |-> i]
  /\ request_index = 0
  /\ socket_fd = [s \in Sessions |-> NULL]
  /\ todo = [w \in Workers |-> <<>>]
  /\ sqe_fd = <<>> /\ file = <<>>
  /\ fd_table = [f \in Fds |-> NULL]
  /\ shut = {}
  /\ peer = [c \in Conns |-> "none"]
  /\ sent = [c \in Conns |-> 0]
  /\ inbox = [c \in Conns |-> <<>>]
  /\ stream = [c \in Conns |-> <<>>]

-----------------------------------------------------------------------------
(* Service: requesting operations.                                         *)

Call(kind, s, buf) == [kind |-> kind, sess |-> s, buf |-> buf]

\* Faulty variant: an operation that is still in use.
FreshReused(r) == [kind |-> r.kind, sess |-> r.sess, buf |-> r.buf, n |-> 1]

\* The operation object acquired for a call.
Fresh(r) ==
  LET alike(n) == [kind |-> r.kind, sess |-> r.sess, buf |-> r.buf, n |-> n]
  IN  alike(CHOOSE n \in 1 .. MaxAlike :
              /\ alike(n) \notin live
              /\ \A k \in 1 .. n - 1 : alike(k) \in live)

\* Service::request_io<T>: acquire, add_ref, and push to the next ring.  A
\* null operation is dropped without a word.
RequestIO(r) ==
  \/ /\ PushRequest(request_index, Fresh(r))
     /\ request_index' = (request_index + 1) % ThreadCount
  \/ /\ PoolMayFail
     /\ UNCHANGED <<live, request_queue, request_index>>

\* Faulty variant: the session stays in the pool.
RequestAcceptOnePeeks ==
  /\ sessions_queue # <<>>
  /\ RequestIO(Call("accept", Head(sessions_queue), NULL))
  /\ UNCHANGED sessions_queue

\* Service::request_accept_one: without a free session nothing happens.
RequestAcceptOne ==
  \/ /\ sessions_queue # <<>>
     /\ sessions_queue' = Tail(sessions_queue)
     /\ RequestIO(Call("accept", Head(sessions_queue), NULL))
  \/ /\ sessions_queue = <<>>
     /\ UNCHANGED <<sessions_queue, live, request_queue, request_index>>

\* ServiceBuilder: the setters give ThreadCount, SessionCount and QueueDepth
\* (set_backlog is the length of the listen queue, not Backlog).  build does
\* not look at the results of socket, bind and listen.
Build ==
  /\ acceptor = "none"
  /\ \/ acceptor' = "listening"
     \/ ListenMayFail /\ acceptor' = "deaf"
  /\ UNCHANGED <<ringVars, booted, started, sessions_queue, request_index,
                 socket_fd, todo, sockets, clients, stream>>

\* Faulty variant: one turn too many.
InitializeAcceptOffByOne ==
  /\ acceptor # "none" /\ booted <= Backlog
  /\ booted' = booted + 1
  /\ RequestAcceptOne
  /\ UNCHANGED <<acceptor, started, sq, inflight, cq, holding, pc, fault, socket_fd, todo,
                 sockets, clients, stream>>

\* The last loop of Service::initialize; no worker thread runs yet.
InitializeAccept ==
  /\ acceptor # "none" /\ booted < Backlog
  /\ booted' = booted + 1
  /\ RequestAcceptOne
  /\ UNCHANGED <<acceptor, started, sq, inflight, cq, holding, pc, fault, socket_fd, todo,
                 sockets, clients, stream>>

\* Service::run starts the threads one after the other; the first of them
\* work, and give requests to the others, while it does so.
StartThread ==
  /\ acceptor # "none" /\ booted = Backlog /\ started < ThreadCount /\ ~fault
  /\ started' = started + 1
  /\ UNCHANGED <<ringVars, acceptor, booted, sessions_queue, request_index,
                 socket_fd, todo, sockets, clients, stream>>

-----------------------------------------------------------------------------
(* The handlers: what handle_io_completion of each operation requests.     *)

\* Faulty variants: no further accept is requested; no receive is.
OnAcceptedLast(s) == <<Call("recv", s, NULL)>>

OnAcceptedDeaf(s) == <<Call("accept_one", NULL, NULL)>>

\* ServiceSession::on_accepted.
OnAccepted(s) == <<Call("recv", s, NULL), Call("accept_one", NULL, NULL)>>

\* Faulty variant: the answer goes to another session's actor.
AnswerElsewhere(s, m) ==
  [i \in 1 .. Chunks |-> Call("send", (s % SessionCount) + 1, <<m, i>>)]

\* The sample's message handler: the answer is cut into Chunks buffers.
Answer(s, m) == [i \in 1 .. Chunks |-> Call("send", s, <<m, i>>)]

\* Faulty variants: the next receive is requested before the messages are
\* dispatched; a message is dispatched again, not having been removed.
OnReceivedEarly(s, msgs) ==
  <<Call("recv", s, NULL)>> \o [i \in 1 .. Len(msgs) |-> Answer(s, msgs[i])[1]]

OnReceivedTwice(s, msgs) ==
  LET answers == [i \in 1 .. Len(msgs) |-> Answer(s, msgs[i])[1]]
  IN  Append(answers \o answers, Call("recv", s, NULL))

\* ServiceSession::on_received: dispatch every message, then receive again.
\* Nothing is read when the peer has closed: receive again all the same.
OnReceived(s, msgs) ==
  LET answers == [i \in 1 .. Len(msgs) * Chunks |->
                    Answer(s, msgs[((i - 1) \div Chunks) + 1])
                          [((i - 1) % Chunks) + 1]]
  IN  Append(answers, Call("recv", s, NULL))

\* ServiceSession::on_receive_failed, through Actor::request_close.
OnReceiveFailed(s) == <<Call("close", s, NULL)>>

\* on_accept_failed, on_sent and IOOperationClose::handle_io_completion are
\* empty, and the error of a send is ignored.
Handler(op, res) ==
  CASE op.kind = "accept" /\ res.ok -> OnAccepted(op.sess)
    [] op.kind = "recv" /\ res.ok   -> OnReceived(op.sess, res.msgs)
    [] op.kind = "recv" /\ ~res.ok  -> OnReceiveFailed(op.sess)
    [] OTHER -> <<>>

\* wait_one and the start of handle_completion: an accept stores the new
\* descriptor in its session before calling on_accepted.
TakeCompletion(w) ==
  LET e == Head(cq[w]) IN
  /\ WaitOne(w)
  /\ \/ /\ cq[w] # <<>>
        /\ todo' = [todo EXCEPT ![w] = Handler(e.op, e.res)]
        /\ socket_fd' = IF e.op.kind = "accept" /\ e.res.ok
                        THEN [socket_fd EXCEPT ![e.op.sess] = e.res.fd]
                        ELSE socket_fd
     \/ /\ cq[w] = <<>>
        /\ UNCHANGED <<todo, socket_fd>>
  /\ UNCHANGED <<bootVars, sessions_queue, request_index, sockets, clients,
                 stream>>

\* The handler makes its next request.
HandlerRequest(w) ==
  /\ pc[w] = "handle" /\ todo[w] # <<>>
  /\ todo' = [todo EXCEPT ![w] = Tail(@)]
  /\ \/ /\ Head(todo[w]).kind = "accept_one"
        /\ RequestAcceptOne
     \/ /\ Head(todo[w]).kind # "accept_one"
        /\ RequestIO(Head(todo[w]))
        /\ UNCHANGED sessions_queue
  /\ UNCHANGED <<sq, inflight, cq, holding, pc, fault, bootVars, socket_fd,
                 sockets, clients, stream>>

HandlerReturns(w) ==
  /\ todo[w] = <<>>
  /\ Handle(w)
  /\ UNCHANGED <<sessionVars, sockets, clients, stream>>

-----------------------------------------------------------------------------
(* Preparing and submitting: request_io of each operation.                 *)

\* f with the entries of g added to it or put in place of its own.
Overlay(g, f) ==
  [o \in DOMAIN g \cup DOMAIN f |-> IF o \in DOMAIN g THEN g[o] ELSE f[o]]

\* The kernel looks descriptors up when it is given the entries.
Resolve(ops) ==
  [op \in ops |-> IF sqe_fd'[op] = NULL THEN NULL ELSE fd_table[sqe_fd'[op]]]

\* The connection a session's descriptor stands for now.
ConnOf(s) == IF socket_fd[s] = NULL THEN NULL ELSE fd_table[socket_fd[s]]

\* The descriptor request_io writes into the entry: the session's as it is now,
\* except in an accept, which has the listening socket's.
EntryFd(op) == IF op.kind = "accept" THEN NULL ELSE socket_fd[op.sess]

\* request_io reads the session's descriptor now; IOOperationClose also shuts
\* the connection down and submits what has been prepared.
PrepareOperation(w) ==
  LET op == Head(request_queue[w])
      new == inflight'[w] \ inflight[w] IN
  /\ Prepare(w)
  /\ sqe_fd' = Overlay([o \in {op} |-> EntryFd(o)], sqe_fd)
  /\ file' = Overlay(Resolve(new), file)
  /\ shut' = IF op.kind = "close" THEN shut \cup ({ConnOf(op.sess)} \ {NULL})
                                  ELSE shut
  /\ UNCHANGED <<sessionVars, fd_table, clients, stream>>

SubmitAll(w) ==
  /\ Submit(w)
  /\ UNCHANGED sqe_fd
  /\ file' = Overlay(Resolve(inflight'[w] \ inflight[w]), file)
  /\ UNCHANGED <<sessionVars, fd_table, shut, clients, stream>>

FlushOrRetire(w) ==
  /\ BeginFlush(w) \/ Retire(w)
  /\ UNCHANGED <<sessionVars, sockets, clients, stream>>

-----------------------------------------------------------------------------
(* The kernel (external).                                                  *)

Forget(op, f) == [o \in DOMAIN f \ {op} |-> f[o]]

CompleteOperation(w, op, res) ==
  /\ Complete(w, op, res)
  /\ sqe_fd' = Forget(op, sqe_fd)
  /\ file' = Forget(op, file)

Accepted(c) == \E f \in Fds : fd_table[f] = c

Free == {f \in Fds : fd_table[f] = NULL}

\* A connection that waits in the listen queue: nobody has accepted it yet.
Waiting == {c \in Conns : peer[c] # "none" /\ c \notin shut /\ ~Accepted(c)}

\* The lowest free descriptor is taken; without one accept fails (EMFILE), as
\* it does on a socket that does not listen.
CompleteAccept(w, op) ==
  /\ op.kind = "accept"
  /\ \/ \E c \in Waiting, f \in Free :
          /\ \A g \in Free : f <= g
          /\ CompleteOperation(w, op, [ok |-> TRUE, fd |-> f, msgs |-> <<>>])
          /\ fd_table' = [fd_table EXCEPT ![f] = c]
     \/ /\ (Waiting # {} /\ Free = {}) \/ acceptor = "deaf"
        /\ CompleteOperation(w, op, Failed)
        /\ UNCHANGED fd_table
  /\ UNCHANGED <<inbox, stream>>

\* No connection, or one its client has reset.
Broken(c) == c = NULL \/ (c # NULL /\ peer[c] = "reset")

\* A receive returns some of the waiting messages, nothing once the stream
\* has ended, or an error.
CompleteRecv(w, op) ==
  LET c == file[op] IN
  /\ op.kind = "recv"
  /\ \/ /\ Broken(c)
        /\ CompleteOperation(w, op, Failed)
        /\ UNCHANGED inbox
     \/ /\ ~Broken(c)
        /\ \E k \in 1 .. Len(inbox[c]) :
             /\ CompleteOperation(w, op, [ok |-> TRUE, fd |-> NULL,
                                 msgs |-> SubSeq(inbox[c], 1, k)])
             /\ inbox' = [inbox EXCEPT ![c] = SubSeq(@, k + 1, Len(@))]
     \/ /\ ~Broken(c) /\ inbox[c] = <<>>
        /\ peer[c] = "closed" \/ c \in shut
        /\ CompleteOperation(w, op, Done)
        /\ UNCHANGED inbox
  /\ UNCHANGED <<fd_table, stream>>

CompleteSend(w, op) ==
  LET c == file[op] IN
  /\ op.kind = "send"
  /\ \/ /\ ~Broken(c) /\ c \notin shut
        /\ CompleteOperation(w, op, Done)
        /\ stream' = [stream EXCEPT ![c] = Append(@, op.buf)]
     \/ /\ Broken(c) \/ c \in shut
        /\ CompleteOperation(w, op, Failed)
        /\ UNCHANGED stream
  /\ UNCHANGED <<fd_table, inbox>>

\* The descriptor becomes free for the next accept.
CompleteClose(w, op) ==
  /\ op.kind = "close"
  /\ CompleteOperation(w, op, Done)
  /\ fd_table' = IF sqe_fd[op] = NULL THEN fd_table
                 ELSE [fd_table EXCEPT ![sqe_fd[op]] = NULL]
  /\ UNCHANGED <<inbox, stream>>

KernelStep(w, op) ==
  /\ ~fault /\ op \in inflight[w]
  /\ \/ CompleteAccept(w, op) \/ CompleteRecv(w, op) \/ CompleteSend(w, op)
     \/ CompleteClose(w, op)
  /\ UNCHANGED <<sessionVars, shut, peer, sent>>

-----------------------------------------------------------------------------
(* The clients (external).                                                 *)

Connect(c) ==
  /\ peer[c] = "none" /\ acceptor = "listening"
  /\ peer' = [peer EXCEPT ![c] = "up"]
  /\ UNCHANGED <<sent, inbox>>

ClientSend(c) ==
  /\ peer[c] = "up" /\ c \in Senders /\ sent[c] < MaxMessages
  /\ sent' = [sent EXCEPT ![c] = @ + 1]
  /\ inbox' = [inbox EXCEPT ![c] = Append(@, <<c, sent[c] + 1>>)]
  /\ UNCHANGED peer

ClientLeaves(c) ==
  /\ peer[c] = "up" /\ Accepted(c)
  /\ \/ c \in Resetting /\ peer' = [peer EXCEPT ![c] = "reset"]
     \/ c \in HalfClosing /\ peer' = [peer EXCEPT ![c] = "closed"]
  /\ UNCHANGED <<sent, inbox>>

Client(c) ==
  /\ ~fault
  /\ Connect(c) \/ ClientSend(c) \/ ClientLeaves(c)
  /\ UNCHANGED <<ringVars, sessionVars, sockets, stream>>

-----------------------------------------------------------------------------
WorkerStep(w) ==
  /\ w < started /\ ~fault
  /\ \/ TakeCompletion(w) \/ HandlerRequest(w) \/ HandlerReturns(w)
     \/ PrepareOperation(w) \/ SubmitAll(w) \/ FlushOrRetire(w)

\* main of the sample server: build, initialize and run the service.
Boot == Build \/ InitializeAccept \/ StartThread

Next ==
  \/ Boot
  \/ \E w \in Workers : WorkerStep(w) \/ \E op \in inflight[w] : KernelStep(w, op)
  \/ \E c \in Conns : Client(c)

Spec == Init /\ [][Next]_vars

\* Threads run, and the kernel finishes an operation that can be finished;
\* clients owe nothing.
FairSpec ==
  /\ Spec
  /\ WF_vars(Boot)
  /\ \A w \in Workers :
       /\ WF_vars(WorkerStep(w))
       /\ \A s \in Sessions, k \in {"accept", "recv", "send", "close"} :
            WF_vars(\E op \in inflight[w] :
                      op.kind = k /\ op.sess = s /\ KernelStep(w, op))

-----------------------------------------------------------------------------
(* Properties.                                                             *)

\* The shape of every variable of the service.
TypeOK ==
  /\ RingTypeOK
  /\ acceptor \in {"none", "listening", "deaf"}
  /\ booted \in 0 .. Backlog /\ started \in 0 .. ThreadCount
  /\ sessions_queue \in Seq(Sessions)
  /\ request_index \in Workers
  /\ socket_fd \in [Sessions -> Fds \cup {NULL}]
  /\ \A w \in Workers : \A i \in DOMAIN todo[w] :
       todo[w][i] \in [kind : {"accept_one", "recv", "send", "close"},
                       sess : Sessions \cup {NULL}, buf : Buffers \cup {NULL}]
  /\ \A op \in DOMAIN sqe_fd : op \in live /\ sqe_fd[op] \in Fds \cup {NULL}
  /\ \A op \in DOMAIN file : op \in live /\ file[op] \in Conns \cup {NULL}
  /\ fd_table \in [Fds -> Conns \cup {NULL}]
  /\ shut \subseteq Conns
  /\ peer \in [Conns -> {"none", "up", "closed", "reset"}]
  /\ sent \in [Conns -> 0 .. MaxMessages]
  /\ \A c \in Conns : /\ inbox[c] \in Seq(Messages)
                      /\ stream[c] \in Seq(Buffers)

\* Accepts and receives of a session whose completion no worker has taken.
Outstanding(s) ==
  {op \in live : /\ op.kind \in {"accept", "recv"} /\ op.sess = s
                 /\ ~ \E w \in Workers : holding[w] /\ Head(cq[w]).op = op}

Handling(s) ==
  {w \in Workers : \E i \in DOMAIN todo[w] : todo[w][i].sess = s}

Pooled(s) == {i \in DOMAIN sessions_queue : sessions_queue[i] = s}

\* What keeps a session single-threaded although its completions arrive at
\* any worker: at any time it is free in the pool once, or one accept or
\* receive of it is outstanding, or one handler works on it and on its
\* unlocked receive buffer, and never two of these, whatever fails.
SessionExclusive ==
  \A s \in Sessions :
    Cardinality(Outstanding(s)) + Cardinality(Handling(s))
      + Cardinality(Pooled(s)) <= 1

\* What goes on with a session, in the terms of SessionLifecycle.
Phase(s) ==
  LET waits == {op.kind : op \in Outstanding(s)} IN
  CASE Pooled(s) # {} -> "free"
    [] "accept" \in waits -> "accepting"
    [] waits = {"recv"} -> "receiving"
    [] waits = {} /\ Handling(s) # {} -> "serving"
    [] OTHER -> "gone"

Lifecycle == INSTANCE SessionLifecycle WITH
               phase <- [s \in Sessions |-> Phase(s)],
               descriptor <- socket_fd,
               Descriptors <- Fds,
               NoDescriptor <- NULL

\* The pool, the rings, the handlers on all threads and the failures between
\* them take every session through the life SessionLifecycle describes: no
\* step is skipped, none concerns two sessions, and a descriptor is stored
\* only in a session that waits for a connection.
LifecycleFollowed == Lifecycle!Spec

\* The service uses its rings as IORing describes: each of its steps is one
\* of the ring or leaves the ring alone, and it requests fresh operations.
UsesRing == RingSpec

\* An answer is written only to the connection its message came from.
EchoToClient ==
  \A c \in Conns : \A i \in DOMAIN stream[c] : stream[c][i][1][1] = c

\* No buffer is sent to a connection twice, whichever rings it goes through.
EchoOnce ==
  \A c \in Conns : \A i, j \in DOMAIN stream[c] :
    stream[c][i] = stream[c][j] => i = j

\* While there are sessions and descriptors for everybody, every client that
\* connects is accepted: each accept is followed by a request for the next.
Admitted == \A c \in Conns : peer[c] = "up" ~> Accepted(c)

Written(c, b) == \E i \in DOMAIN stream[c] : stream[c][i] = b

\* Every message of a client that stays is answered completely.
Answered ==
  \A c \in Conns : \A k \in 1 .. MaxMessages :
    sent[c] >= k ~> \A i \in 1 .. Chunks : Written(c, <<<<c, k>>, i>>)

BeingClosed(s) == \E w \in Workers : \E i \in DOMAIN todo[w] :
                todo[w][i] = Call("close", s, NULL)

\* A session whose connection is closed becomes available again.
SessionRecycled ==
  \A s \in Sessions :
    BeingClosed(s) ~> Pooled(s) # {} \/ \E op \in live : /\ op.kind = "accept"
                                                    /\ op.sess = s

=============================================================================
