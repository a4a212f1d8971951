----------------------------- MODULE RequestIndex -----------------------------
(***************************************************************************)
(* Service::request_io: the choice of a worker's ring by an atomic int     *)
(* that every request increments.  The counter has Bits bits and wraps; %  *)
(* is C++'s remainder, which takes the sign of the dividend.               *)
(***************************************************************************)
EXTENDS Integers

CONSTANTS
  ThreadCount,  \* Service::thread_count_, at least 1
  Bits,         \* width of int (32)
  MaxRequests   \* bound: requests made in a run

VARIABLES
  request_index,  \* Service::request_index_
  requests,       \* requests made
  received        \* requests that reached each worker's ring

vars == <<request_index, requests, received>>

Workers == 0 .. ThreadCount - 1

Remainder(a, n) == IF a >= 0 THEN a % n ELSE -((-a) % n)

Increment(i) == IF i = 2 ^ (Bits - 1) - 1 THEN -(2 ^ (Bits - 1)) ELSE i + 1

Init ==
  /\ request_index = 0
  /\ requests = 0
  /\ received = [w \in Workers |-> 0]

\* An index outside the threads makes request_io return without a trace.
RequestIO ==
  LET thread_index == Remainder(request_index, ThreadCount) IN
  /\ requests < MaxRequests
  /\ requests' = requests + 1
  /\ request_index' = Increment(request_index)
  /\ received' = IF thread_index \in Workers
                 THEN [received EXCEPT ![thread_index] = @ + 1] ELSE received

Spec == Init /\ [][RequestIO]_vars

\* Requests are shared out evenly: after any number of them two workers'
\* rings have received numbers of requests that differ by at most one.
RoundRobin ==
  \A v, w \in Workers : received[v] - received[w] \in {-1, 0, 1}

=============================================================================
