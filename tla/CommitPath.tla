------------------------------ MODULE CommitPath ------------------------------
(***************************************************************************)
(* OffsetTracker and BatchProcessor along the path on which                *)
(* KafkaConsumer.ack() uses them: an acknowledged offset goes to the       *)
(* tracker, and the offset to commit, when there is a new one, goes to the *)
(* batch.  Offsets are acknowledged in every order, with repetitions and   *)
(* below the starting one (a message of an earlier assignment acknowledged *)
(* late), while timers fire and commits are in progress.                   *)
(***************************************************************************)
EXTENDS OffsetTracker, BatchProcessor

CONSTANTS
    MaxStart,    \* bound: the starting offset is one of 0 .. MaxStart
    MaxOffset,   \* bound: offsets are 0 .. MaxOffset
    MaxCalls     \* bound: handler calls that run at the same time

\* What may be committed: one more than an acknowledged offset.
Offsets == 1 .. MaxOffset + 1

ASSUME ItemAssumption == Offsets \subseteq Item
ASSUME BoundsAssumption == MaxStart \in Nat /\ MaxOffset \in Nat /\ MaxCalls \in Nat

VARIABLES
    start,       \* the starting offset
    tracker,     \* the tracker, by the operators of OffsetTracker
    seen,        \* every offset acknowledged so far
    handed       \* history: the batches handed over so far

commitVars == <<batchVars, start, tracker, seen, handed>>

CommitInit ==
    /\ start \in 0 .. MaxStart
    /\ tracker = NewTracker(start)
    /\ seen = {} /\ handed = << >>
    /\ BatchInit

AckOffset(offset) ==
    LET marked == MarkProcessed(tracker, offset)
    IN  /\ Len(calls) < MaxCalls
        /\ tracker' = marked
        /\ seen' = seen \cup {offset}
        /\ IF Advances(tracker, offset) THEN Add(marked.next) ELSE UNCHANGED batchVars
        /\ handed' = handed \o Begun
        /\ UNCHANGED start

Fires ==
    /\ \E t \in Timer : TimerFires(t)
    /\ handed' = handed \o Begun
    /\ UNCHANGED <<start, tracker, seen>>

Ends ==
    /\ \E i \in DOMAIN calls : HandlerEnds(i)
    /\ UNCHANGED <<start, tracker, seen, handed>>

CommitNext == (\E offset \in 0 .. MaxOffset : AckOffset(offset)) \/ Fires \/ Ends

\* A sleep ends; callers and handlers need not do anything.
CommitSpec == CommitInit /\ [][CommitNext]_commitVars /\ WF_commitVars(Fires)

-----------------------------------------------------------------------------
(* mark_processed with its loop instead of a closed form.                  *)

\* A process holds finitely many offsets.
FiniteTracker == [next: Nat, pool: {pool \in SUBSET Nat : IsFiniteSet(pool)}]

\* The while loop, iteration by iteration.
Loop[t \in FiniteTracker] ==
    IF t.next \in t.pool THEN Loop[[next |-> t.next + 1, pool |-> t.pool \ {t.next}]] ELSE t

MarkByLoop(t, offset) ==
    LET pooled == [t EXCEPT !.pool = @ \cup {offset}]
    IN  IF offset < t.next THEN t
        ELSE IF offset = t.next THEN Loop[pooled] ELSE pooled

-----------------------------------------------------------------------------
\* The closed form of OffsetTracker, which the consumer uses too, computes what
\* the loop of the source does, in every state and for every next offset
\* (offset_tracker.py:7-22).
ClosedFormIsTheLoop ==
    \A offset \in 0 .. MaxOffset :
        MarkProcessed(tracker, offset) = MarkByLoop(tracker, offset)

\* Whatever the order and the repetitions, the tracker is what the set of
\* acknowledged offsets says: `next` is the first offset from the start on
\* that was not acknowledged, so everything below it may be committed, and
\* the pool holds exactly the acknowledged offsets above it (nothing is
\* forgotten and nothing is kept for ever).
NextIsFirstUnacknowledged ==
    /\ start .. (tracker.next - 1) \subseteq seen
    /\ tracker.next \notin seen
    /\ tracker.next >= start
    /\ tracker.pool = {offset \in seen : offset > tracker.next}

Batches == INSTANCE BatchQueue WITH pending <- batch, Limit <- BatchSize

\* BatchProcessor implements BatchQueue: each item reaches the handler once,
\* in order, and none is left in a batch for ever, although nothing says that
\* another item will come (the timer alone must see to it).
ImplementsBatchQueue == Batches!Spec
=============================================================================
