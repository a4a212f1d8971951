--------------------------- MODULE SessionLifecycle ---------------------------
(***************************************************************************)
(* What the service promises about its sessions, whatever threads carry it *)
(* out and whatever fails: each session, on its own and one step at a      *)
(* time, is free, waits for a connection, is served, or waits for data; it *)
(* gets a descriptor only with a connection, and keeps it until the next.  *)
(* A session that is gone may be put back into the pool.                   *)
(***************************************************************************)
CONSTANTS Sessions, Descriptors, NoDescriptor

VARIABLES
  phase,      \* what goes on with a session
  descriptor  \* the descriptor of its connection, also after it is gone

lifeVars == <<phase, descriptor>>

Init ==
  /\ phase = [s \in Sessions |-> "free"]
  /\ descriptor = [s \in Sessions |-> NoDescriptor]

\* The steps of a session.  Every request may fail, and every wait may end in
\* an error.
Moves ==
  {<<"free", "accepting">>,     <<"free", "gone">>,
   <<"accepting", "serving">>,  <<"accepting", "gone">>,
   <<"serving", "receiving">>,  <<"serving", "gone">>,
   <<"receiving", "serving">>,  <<"gone", "free">>}

\* One session moves, and only one that gets its connection changes its
\* descriptor.
Step(s) ==
  /\ <<phase[s], phase'[s]>> \in Moves
  /\ \A t \in Sessions \ {s} : phase'[t] = phase[t]
  /\ \/ descriptor' = descriptor
     \/ /\ phase[s] = "accepting" /\ phase'[s] = "serving"
        /\ \E d \in Descriptors : descriptor' = [descriptor EXCEPT ![s] = d]

Next ==
  /\ DOMAIN phase' = Sessions
  /\ \E s \in Sessions : Step(s)

Spec == Init /\ [][Next]_lifeVars

=============================================================================
