---------------------------- MODULE OffsetTracker ----------------------------
(***************************************************************************)
(* kafka/offset_tracker.py: the set of acknowledged offsets of one         *)
(* partition, reduced to the next offset that is not acknowledged yet and  *)
(* the pool of those acknowledged above it.  Operators only: a tracker is  *)
(* a value, held by KafkaConsumer once per partition.                      *)
(*                                                                         *)
(* The attribute last_committed is next_expected_offset - 1 after every    *)
(* call, so the record leaves it out; what mark_processed returns plus one *)
(* (the offset the consumer commits) is then the new `next`.               *)
(***************************************************************************)
EXTENDS Naturals, FiniteSets

Tracker == [next: Nat, pool: SUBSET Nat]

\* Mutant: the next offset is taken for the last one committed.
NewTrackerBeforeStart(startingOffset) == [next |-> startingOffset - 1, pool |-> {}]

NewTracker(startingOffset) == [next |-> startingOffset, pool |-> {}]

\* Mutant: the offset that fills the gap is committed alone, and those
\* waiting in the pool behind it are forgotten.
FirstGapNoFastForward(pool, n) == n + 1

\* The first offset from n on that the pool does not hold: where the while
\* loop of mark_processed stops.  A finite pool leaves one of these free.
FirstGap(pool, n) ==
    CHOOSE m \in n .. (n + Cardinality(pool)) :
        m \notin pool /\ \A k \in n .. (m - 1) : k \in pool

\* Does acknowledging this offset return something to commit?
Advances(t, offset) == offset = t.next

\* Mutant: an offset below the expected one is not ignored: it stays pooled.
MarkKeepsOld(t, offset) ==
    LET pool == t.pool \cup {offset}
        gap  == FirstGap(pool, t.next)
    IN  IF offset = t.next
        THEN [next |-> gap, pool |-> pool \ (t.next .. (gap - 1))]
        ELSE [t EXCEPT !.pool = pool]

MarkProcessed(t, offset) ==
    LET pool == t.pool \cup {offset}
        gap  == FirstGap(pool, t.next)
    IN  IF offset < t.next THEN t
        ELSE IF ~Advances(t, offset) THEN [t EXCEPT !.pool = pool]
        ELSE [next |-> gap, pool |-> pool \ (t.next .. (gap - 1))]
=============================================================================
