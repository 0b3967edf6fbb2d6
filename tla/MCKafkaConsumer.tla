--------------------------- MODULE MCKafkaConsumer ---------------------------
(***************************************************************************)
(* Constants for model checking KafkaConsumer.                             *)
(***************************************************************************)
EXTENDS KafkaConsumer

CONSTANTS p1, p2

OnePartition == {p1}
TwoPartitions == {p1, p2}

\* Three records without gaps.
DenseLog == [tp \in Partition |-> 0 .. 2]

\* The record at offset 1 was compacted away, or is a transaction marker.
SparseLog == [tp \in Partition |-> {0, 2}]

End3 == [tp \in Partition |-> 3]

\* One partition with more records than fit in flight, one with a single record.
UnevenLog == [tp \in Partition |-> IF tp = p1 THEN 0 .. 2 ELSE {0}]
UnevenEnd == [tp \in Partition |-> IF tp = p1 THEN 3 ELSE 1]

\* Timers are told apart by identity only.
TimerSymmetry == Permutations(Timer)

\* Three records with a gap before the last.
GapLog == [tp \in Partition |-> {0, 1, 3}]
End4 == [tp \in Partition |-> 4]
=============================================================================
