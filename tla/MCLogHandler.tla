---------------------------- MODULE MCLogHandler ----------------------------
(* Instances of LogHandler for TLC.                                        *)
EXTENDS LogHandler, MCTaskSerializer

\* Every line an error, between the lowest and the highest level.
Errors == [k \in Lines |-> 1]

=============================================================================
