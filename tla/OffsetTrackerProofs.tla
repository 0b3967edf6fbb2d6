-------------------------- MODULE OffsetTrackerProofs --------------------------
(***************************************************************************)
(* What OffsetTracker's operators return, for every finite pool and every  *)
(* offset, and that they compute what the loop of the source does.         *)
(***************************************************************************)
EXTENDS OffsetTracker, Integers, FiniteSetTheorems, WellFoundedInduction, TLAPS

\* A non-empty set of naturals has a least element.
LEMMA LeastNatural ==
    ASSUME NEW S \in SUBSET Nat, S # {}
    PROVE  \E m \in S : \A k \in S : m <= k
<1>1. PICK m \in S : \A k \in S : ~ (<<k, m>> \in OpToRel(<, Nat))
  BY NatLessThanWellFounded, WFMin
<1>2. \A k \in S : ~ (k < m)
  BY <1>1 DEF OpToRel
<1>. QED
  BY <1>2

\* A finite pool leaves a gap among the first Cardinality(pool) + 1 offsets.
LEMMA GapExists ==
    ASSUME NEW pool \in SUBSET Nat, IsFiniteSet(pool), NEW n \in Nat
    PROVE  \E m \in n .. (n + Cardinality(pool)) :
              m \notin pool /\ \A k \in n .. (m - 1) : k \in pool
<1>. DEFINE Places == n .. (n + Cardinality(pool))
            Free == {m \in Places : m \notin pool}
<1>1. Cardinality(pool) \in Nat
  BY FS_CardinalityType
<1>2. Cardinality(Places) = Cardinality(pool) + 1
  BY <1>1, FS_Interval
<1>3. Free # {}
  <2>1. SUFFICES ASSUME Places \subseteq pool
                 PROVE  FALSE
    OBVIOUS
  <2>2. Cardinality(Places) <= Cardinality(pool)
    BY <2>1, FS_Subset
  <2>. QED
    BY <1>1, <1>2, <2>2
<1>4. Free \in SUBSET Nat
  BY <1>1
<1>5. PICK m \in Free : \A k \in Free : m <= k
  BY <1>3, <1>4, LeastNatural
<1>6. \A k \in n .. (m - 1) : k \in Places
  BY <1>1, <1>4, <1>5
<1>7. \A k \in n .. (m - 1) : k \in pool
  BY <1>1, <1>4, <1>5, <1>6
<1>. QED
  BY <1>5, <1>7

\* FirstGap is at or after n, outside the pool, and everything between is in it.
LEMMA FirstGapIsTheGap ==
    ASSUME NEW pool \in SUBSET Nat, IsFiniteSet(pool), NEW n \in Nat
    PROVE  /\ FirstGap(pool, n) \in Nat
           /\ FirstGap(pool, n) >= n
           /\ FirstGap(pool, n) \notin pool
           /\ n .. (FirstGap(pool, n) - 1) \subseteq pool
<1>1. Cardinality(pool) \in Nat
  BY FS_CardinalityType
<1>2. /\ FirstGap(pool, n) \in n .. (n + Cardinality(pool))
      /\ FirstGap(pool, n) \notin pool
      /\ \A k \in n .. (FirstGap(pool, n) - 1) : k \in pool
  BY GapExists DEF FirstGap
<1>. QED
  BY <1>1, <1>2

\* mark_processed keeps a tracker a tracker, never takes an offset back, and
\* moves only over offsets that were pooled or are the one acknowledged now;
\* the pool grows by nothing else.
LEMMA MarkProcessedMovesOverAcknowledged ==
    ASSUME NEW t \in Tracker, IsFiniteSet(t.pool), NEW offset \in Nat
    PROVE  LET marked == MarkProcessed(t, offset)
           IN  /\ marked \in Tracker
               /\ IsFiniteSet(marked.pool)
               /\ marked.next >= t.next
               /\ t.next .. (marked.next - 1) \subseteq t.pool \cup {offset}
               /\ marked.pool \subseteq t.pool \cup {offset}
<1>. DEFINE pool == t.pool \cup {offset}
            gap == FirstGap(pool, t.next)
            marked == MarkProcessed(t, offset)
<1>1. /\ t = [next |-> t.next, pool |-> t.pool]
      /\ t.next \in Nat /\ t.pool \in SUBSET Nat
  BY DEF Tracker
<1>2. /\ pool \in SUBSET Nat
      /\ IsFiniteSet(pool)
  BY <1>1, FS_AddElement
<1>3. CASE offset < t.next
  <2>1. marked = t
    BY <1>1, <1>3 DEF MarkProcessed
  <2>. QED
    BY <1>1, <2>1
<1>4. CASE offset > t.next
  <2>1. marked = [t EXCEPT !.pool = pool]
    BY <1>1, <1>4 DEF MarkProcessed, Advances
  <2>2. marked = [next |-> t.next, pool |-> pool]
    BY <1>1, <2>1
  <2>. QED
    BY <1>1, <1>2, <2>2 DEF Tracker
<1>5. CASE offset = t.next
  <2>1. marked = [next |-> gap, pool |-> pool \ (t.next .. (gap - 1))]
    BY <1>1, <1>5 DEF MarkProcessed, Advances
  <2>2. /\ gap \in Nat /\ gap >= t.next
        /\ t.next .. (gap - 1) \subseteq pool
    BY <1>1, <1>2, FirstGapIsTheGap
  <2>3. IsFiniteSet(pool \ (t.next .. (gap - 1)))
    BY <1>2, FS_Subset
  <2>. QED
    BY <1>1, <1>2, <2>1, <2>2, <2>3 DEF Tracker
<1>. QED
  BY <1>1, <1>3, <1>4, <1>5

\* mark_processed forgets nothing: what was pooled, or is acknowledged now, stays in the
\* pool or lies below the next offset.
LEMMA MarkProcessedForgetsNothing ==
    ASSUME NEW t \in Tracker, IsFiniteSet(t.pool), NEW offset \in Nat,
           NEW o \in t.pool \cup {offset}
    PROVE  o \in MarkProcessed(t, offset).pool \/ o < MarkProcessed(t, offset).next
<1>. DEFINE pool == t.pool \cup {offset}
            gap == FirstGap(pool, t.next)
            marked == MarkProcessed(t, offset)
<1>1. /\ t = [next |-> t.next, pool |-> t.pool]
      /\ t.next \in Nat /\ t.pool \in SUBSET Nat /\ pool \in SUBSET Nat /\ o \in pool
  BY DEF Tracker
<1>2. CASE offset < t.next
  <2>1. marked = t
    BY <1>1, <1>2 DEF MarkProcessed
  <2>. QED
    BY <1>1, <1>2, <2>1
<1>3. CASE offset > t.next
  <2>1. marked = [t EXCEPT !.pool = pool]
    BY <1>1, <1>3 DEF MarkProcessed, Advances
  <2>. QED
    BY <1>1, <2>1
<1>4. CASE offset = t.next
  <2>1. marked = [next |-> gap, pool |-> pool \ (t.next .. (gap - 1))]
    BY <1>1, <1>4 DEF MarkProcessed, Advances
  <2>2. IsFiniteSet(pool)
    BY FS_AddElement
  <2>3. gap \in Nat /\ gap >= t.next
    BY <1>1, <2>2, FirstGapIsTheGap
  <2>4. CASE o >= t.next
    BY <1>1, <2>1, <2>3, <2>4
  <2>5. CASE o < t.next
    BY <1>1, <2>1, <2>3, <2>5
  <2>. QED
    BY <1>1, <2>4, <2>5
<1>. QED
  BY <1>1, <1>2, <1>3, <1>4

\* Where a tracker's pool holds the acknowledged offsets above the next one, it does so
\* after mark_processed too, and the next one is acknowledged no more than before.
LEMMA MarkProcessedIsExact ==
    ASSUME NEW t \in Tracker, IsFiniteSet(t.pool), NEW offset \in Nat,
           \A o \in t.pool : o > t.next
    PROVE  LET marked == MarkProcessed(t, offset)
           IN  /\ marked.next \notin t.pool \cup {offset}
               /\ marked.pool = {o \in t.pool \cup {offset} : o > marked.next}
               /\ Advances(t, offset) => marked.next > t.next
<1>. DEFINE pool == t.pool \cup {offset}
            gap == FirstGap(pool, t.next)
            marked == MarkProcessed(t, offset)
<1>1. /\ t = [next |-> t.next, pool |-> t.pool]
      /\ t.next \in Nat /\ t.pool \in SUBSET Nat /\ pool \in SUBSET Nat
      /\ IsFiniteSet(pool)
  BY FS_AddElement DEF Tracker
<1>2. CASE offset < t.next
  <2>1. marked = t
    BY <1>1, <1>2 DEF MarkProcessed
  <2>. QED
    BY <1>1, <1>2, <2>1 DEF Advances
<1>3. CASE offset > t.next
  <2>1. marked = [t EXCEPT !.pool = pool]
    BY <1>1, <1>3 DEF MarkProcessed, Advances
  <2>2. marked.next = t.next /\ marked.pool = pool
    BY <1>1, <2>1
  <2>. QED
    BY <1>1, <1>3, <2>2 DEF Advances
<1>4. CASE offset = t.next
  <2>1. marked = [next |-> gap, pool |-> pool \ (t.next .. (gap - 1))]
    BY <1>1, <1>4 DEF MarkProcessed, Advances
  <2>2. /\ gap \in Nat /\ gap >= t.next /\ gap \notin pool
        /\ t.next .. (gap - 1) \subseteq pool
    BY <1>1, FirstGapIsTheGap
  <2>3. gap > t.next
    BY <1>1, <1>4, <2>2
  <2>4. \A o \in pool : o >= t.next /\ o # gap
    BY <1>1, <1>4, <2>2
  <2>5. ASSUME NEW o PROVE o \in pool \ (t.next .. (gap - 1)) <=> o \in pool /\ o > gap
    BY <1>1, <2>2, <2>4
  <2>6. pool \ (t.next .. (gap - 1)) = {o \in pool : o > gap}
    BY <2>5
  <2>. QED
    BY <2>1, <2>2, <2>3, <2>6
<1>. QED
  BY <1>1, <1>2, <1>3, <1>4

-----------------------------------------------------------------------------
(***************************************************************************)
(* The loop.  What mark_processed returns for the expected offset satisfies *)
(* the equation of its while loop (offset_tracker.py:16-20), which ends    *)
(* since every round takes an offset out of the pool.                      *)
(***************************************************************************)
\* A place with the pool below it and itself not in the pool is the first gap.
LEMMA GapIsUnique ==
    ASSUME NEW pool \in SUBSET Nat, IsFiniteSet(pool), NEW n \in Nat,
           NEW m \in Nat, m >= n, m \notin pool, n .. (m - 1) \subseteq pool
    PROVE  FirstGap(pool, n) = m
<1>1. /\ FirstGap(pool, n) \in Nat /\ FirstGap(pool, n) >= n
      /\ FirstGap(pool, n) \notin pool
      /\ n .. (FirstGap(pool, n) - 1) \subseteq pool
  BY FirstGapIsTheGap
<1>2. ~ (FirstGap(pool, n) < m)
  BY <1>1
<1>3. ~ (m < FirstGap(pool, n))
  BY <1>1
<1>. QED
  BY <1>1, <1>2, <1>3

\* The tracker with all the pooled offsets that follow the next one taken out.
FastForward(t) ==
    LET gap == FirstGap(t.pool, t.next)
    IN  [next |-> gap, pool |-> t.pool \ (t.next .. (gap - 1))]

\* One round of the loop.
Round(t) == [next |-> t.next + 1, pool |-> t.pool \ {t.next}]

\* mark_processed is the loop, after the offset it expects was pooled.
LEMMA MarkProcessedFastForwards ==
    ASSUME NEW t \in Tracker, NEW offset \in Nat
    PROVE  LET pooled == [t EXCEPT !.pool = @ \cup {offset}]
           IN  MarkProcessed(t, offset) =
                  IF offset < t.next THEN t
                  ELSE IF offset = t.next THEN FastForward(pooled) ELSE pooled
<1>1. t = [next |-> t.next, pool |-> t.pool]
  BY DEF Tracker
<1>. DEFINE pooled == [t EXCEPT !.pool = @ \cup {offset}]
<1>2. pooled.next = t.next /\ pooled.pool = t.pool \cup {offset}
  BY <1>1
<1>. QED
  BY <1>2 DEF MarkProcessed, Advances, FastForward

\* The closed form of mark_processed is a solution of the loop's equation, for every
\* tracker with a finite pool, and the loop's rounds come to an end.
THEOREM FastForwardIsTheLoop ==
    ASSUME NEW t \in Tracker, IsFiniteSet(t.pool)
    PROVE  /\ FastForward(t) = IF t.next \in t.pool THEN FastForward(Round(t)) ELSE t
           /\ t.next \in t.pool =>
                 Cardinality(Round(t).pool) < Cardinality(t.pool)
<1>. DEFINE gap == FirstGap(t.pool, t.next)
<1>1. /\ t = [next |-> t.next, pool |-> t.pool]
      /\ t.next \in Nat /\ t.pool \in SUBSET Nat
  BY DEF Tracker
<1>2. /\ gap \in Nat /\ gap >= t.next /\ gap \notin t.pool
      /\ t.next .. (gap - 1) \subseteq t.pool
  BY <1>1, FirstGapIsTheGap
<1>3. CASE t.next \notin t.pool
  <2>1. gap = t.next
    BY <1>1, <1>3, GapIsUnique
  <2>2. t.pool \ (t.next .. (gap - 1)) = t.pool
    BY <1>1, <2>1
  <2>. QED
    BY <1>1, <1>3, <2>1, <2>2 DEF FastForward
<1>4. CASE t.next \in t.pool
  <2>1. gap > t.next
    BY <1>1, <1>2, <1>4
  <2>2. Round(t).next = t.next + 1 /\ Round(t).pool = t.pool \ {t.next}
    BY DEF Round
  <2>3. /\ IsFiniteSet(Round(t).pool)
        /\ Cardinality(Round(t).pool) = Cardinality(t.pool) - 1
        /\ Cardinality(t.pool) \in Nat
    BY <1>4, <2>2, FS_RemoveElement, FS_CardinalityType
  <2>4. FirstGap(Round(t).pool, Round(t).next) = gap
    <3>1. (t.next + 1) .. (gap - 1) \subseteq t.pool \ {t.next}
      BY <1>1, <1>2
    <3>2. gap >= t.next + 1 /\ gap \notin t.pool \ {t.next} /\ t.next + 1 \in Nat
      BY <1>1, <1>2, <2>1
    <3>. QED
      BY <1>1, <1>2, <2>2, <2>3, <3>1, <3>2, GapIsUnique
  <2>5. (t.pool \ {t.next}) \ ((t.next + 1) .. (gap - 1)) = t.pool \ (t.next .. (gap - 1))
    BY <1>1, <1>2, <2>1
  <2>6. FastForward(Round(t)) = FastForward(t)
    BY <2>2, <2>4, <2>5 DEF FastForward
  <2>. QED
    BY <1>4, <2>3, <2>6
<1>. QED
  BY <1>3, <1>4
=============================================================================
