-------------------------- MODULE MCTaskSerializer --------------------------
(* Instances of TaskSerializer for TLC.                                    *)
EXTENDS TaskSerializer, TLC

\* The build of the repository: one translation unit per source file.
AsWritten == [tu \in TUs |-> tu]

\* A build that merges all source files into one translation unit, so that the
\* statics of TaskDistributor.h are one object.  The repository is not built this
\* way: the map makes TaskSerializer::push find the pointer of a running drain
\* and queue the serializer where the workers poll.
OneCopy == [tu \in TUs |-> "shared"]

Symmetry ==
  Permutations(Threads) \cup Permutations(Tasks) \cup Permutations(Serializers)

=============================================================================
