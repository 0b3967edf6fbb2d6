------------------------------- MODULE CommitLog -------------------------------
(***************************************************************************)
(* What a consumer group promises about a partitioned log: records are     *)
(* processed one by one, in any order, and an offset is committed only     *)
(* when every record below it has been processed.  Nothing else moves the  *)
(* committed offset; it may move back (records are then processed again).  *)
(***************************************************************************)
EXTENDS Naturals

CONSTANTS
    Partition,
    Log                \* Log[tp]: the offsets of the records of tp

VARIABLES
    processed,         \* the offsets processed so far, per partition
    committed          \* the committed offset of each partition

vars == <<processed, committed>>

Init ==
    /\ processed = [tp \in Partition |-> {}]
    /\ committed = [tp \in Partition |-> 0]

Complete(tp, offset) == \A o \in Log[tp] : o < offset => o \in processed[tp]

\* One record's handlers end, here or in another member of the group.
Process(tp, offset) ==
    /\ processed' = [processed EXCEPT ![tp] = @ \cup {offset}]
    /\ UNCHANGED committed

\* One commit request: new offsets for some of the partitions.
Commit ==
    /\ committed' \in [Partition -> Nat]
    /\ \A tp \in Partition :
          committed'[tp] # committed[tp] => Complete(tp, committed'[tp])
    /\ UNCHANGED processed

\* Another member processes a partition up to an offset and commits it.
Elsewhere(tp) ==
    /\ committed'[tp] \in Nat
    /\ committed' = [committed EXCEPT ![tp] = committed'[tp]]
    /\ processed' = [processed EXCEPT ![tp] =
                       @ \cup {o \in Log[tp] : o < committed'[tp]}]

Next ==
    \/ \E tp \in Partition : \E offset \in Log[tp] : Process(tp, offset)
    \/ Commit
    \/ \E tp \in Partition : Elsewhere(tp)

Spec == Init /\ [][Next]_vars
=============================================================================
