---------------------------- MODULE MessageStream ----------------------------
(***************************************************************************)
(* What a connection promises to the message handlers, whatever way TCP    *)
(* cuts the byte stream: the messages of the client are consumed in the    *)
(* order it sent them, each once, and every one whose type has a handler   *)
(* is handed to it complete.                                               *)
(***************************************************************************)
EXTENDS Naturals, Sequences

CONSTANTS
  Messages,    \* records with the fields size and message_type
  Registered,  \* message types with a handler
  Bytes(_, _)  \* the bytes of the n-th message m of a connection

VARIABLES
  sent,     \* messages the client has begun to send
  taken,    \* how many of them the server has consumed
  handled   \* what the handlers were called with

vars == <<sent, taken, handled>>

Init == sent = <<>> /\ taken = 0 /\ handled = <<>>

Send ==
  /\ \E m \in Messages : sent' = Append(sent, m)
  /\ UNCHANGED <<taken, handled>>

Take ==
  LET m == sent[taken + 1] IN
  /\ taken < Len(sent)
  /\ taken' = taken + 1
  /\ handled' = IF m.message_type \in Registered
                THEN Append(handled, Bytes(taken + 1, m)) ELSE handled
  /\ UNCHANGED sent

Next == Send \/ Take

Spec == Init /\ [][Next]_vars

=============================================================================
