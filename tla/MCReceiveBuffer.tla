--------------------------- MODULE MCReceiveBuffer ---------------------------
(* Instances of ReceiveBuffer for TLC.                                     *)
EXTENDS ReceiveBuffer

\* A negative size, one less than a header, any that fits and one too large.
AnySize == {-1} \cup (HeaderSize - 1) .. MaxReceiveBufferSize + 1

=============================================================================
