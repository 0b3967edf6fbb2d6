--------------------------- MODULE CommitPathProofs ----------------------------
(***************************************************************************)
(* One timer per open batch, and the safety part of BatchQueue, for every  *)
(* batch size and any number of timers and handler calls; then the path of *)
(* ack(), whose tracker stays at the first offset not acknowledged, for    *)
(* every starting offset and any order and repetition of the offsets.      *)
(***************************************************************************)
EXTENDS CommitPath, OffsetTrackerProofs, SequenceTheorems

-----------------------------------------------------------------------------
(***************************************************************************)
(* BatchProcessor on its own, with any items, and with `handed` as the     *)
(* history of the batches it handed over.                                  *)
(***************************************************************************)
HistoryInit == BatchInit /\ handed = << >>
HistoryNext == BatchNext /\ handed' = handed \o Begun
HistorySpec == HistoryInit /\ [][HistoryNext]_<<batchVars, handed>>

\* The batch has room for one more item, since one that fills it takes it along.
BatchInv ==
    /\ BatchTypeOK /\ handed \in Seq(Seq(Item))
    /\ Len(batch) < BatchSize
    /\ OneTimerPerBatch

-----------------------------------------------------------------------------

\* A call that begins is the last one.
LEMMA BegunIsAppended ==
  ASSUME calls \in Seq(Seq(Item)), NEW items \in Seq(Item), calls' = Append(calls, items)
  PROVE  Begun = <<items>> /\ calls' \in Seq(Seq(Item))
<1>1. /\ Len(calls') = Len(calls) + 1 /\ Len(calls) \in Nat
      /\ calls'[Len(calls')] = items /\ calls' \in Seq(Seq(Item))
  OBVIOUS
<1> QED
  BY <1>1 DEF Begun, Last

\* A call that ends leaves one less.
LEMMA OneLess ==
  ASSUME NEW S, NEW s \in Seq(S), NEW i \in 1 .. Len(s)
  PROVE  RemoveAt(s, i) \in Seq(S) /\ Len(RemoveAt(s, i)) = Len(s) - 1
<1> DEFINE before == SubSeq(s, 1, i - 1)
           after  == SubSeq(s, i + 1, Len(s))
<1>1. Len(s) \in Nat /\ i \in Nat
  OBVIOUS
<1>2. before \in Seq(S) /\ Len(before) = i - 1
  <2>1. \A j \in 1 .. i - 1 : s[j] \in S
    BY <1>1
  <2> QED
    BY <1>1, <2>1, SubSeqProperties
<1>3. after \in Seq(S) /\ Len(after) = Len(s) - i
  <2>1. \A j \in i + 1 .. Len(s) : s[j] \in S
    BY <1>1
  <2> QED
    BY <1>1, <2>1, SubSeqProperties
<1>4. before \o after \in Seq(S) /\ Len(before \o after) = Len(before) + Len(after)
  BY <1>2, <1>3, ConcatProperties
<1>5. RemoveAt(s, i) = before \o after
  BY DEF RemoveAt
<1> HIDE DEF before, after
<1>6. Len(before) + Len(after) = Len(s) - 1
  BY <1>1, <1>2, <1>3
<1> QED
  BY <1>4, <1>5, <1>6

LEMMA EndingBeginsNone ==
  ASSUME calls \in Seq(Seq(Item)), NEW i \in DOMAIN calls, calls' = RemoveAt(calls, i)
  PROVE  Begun = << >> /\ calls' \in Seq(Seq(Item))
<1>1. i \in 1 .. Len(calls) /\ Len(calls) \in Nat
  OBVIOUS
<1>2. calls' \in Seq(Seq(Item)) /\ Len(calls') = Len(calls) - 1
  BY <1>1, OneLess
<1> QED
  BY <1>1, <1>2 DEF Begun

\* Each way of handing over or taking in keeps the invariant and is a step of BatchQueue.
LEMMA FlushIsHandOver ==
  ASSUME BatchInv, NEW x \in Item, AddFull(x), handed' = handed \o Begun
  PROVE  BatchInv' /\ Batches!PutLast(x)
<1> DEFINE items == Append(batch, x)
<1>1. batch \in Seq(Item) /\ Len(batch) \in Nat /\ items \in Seq(Item) /\ items # << >>
  <2>1. batch \in Seq(Item)
    BY DEF BatchInv, BatchTypeOK
  <2>2. items \in Seq(Item) /\ Len(items) = Len(batch) + 1 /\ Len(batch) \in Nat
    BY <2>1
  <2> QED
    BY <2>1, <2>2
<1>2. Len(batch) + 1 = BatchSize
  BY <1>1, BatchSizeAssumption DEF BatchInv, AddFull
<1>3. /\ calls' = Append(calls, items) /\ batch' = << >>
      /\ sleeping' = sleeping \ {timerTask} /\ timerTask' = NoTimer
  BY DEF AddFull, Flush
<1>4. Begun = <<items>> /\ calls' \in Seq(Seq(Item))
  BY <1>1, <1>3, BegunIsAppended DEF BatchInv, BatchTypeOK
<1>5. handed' = Append(handed, items) /\ handed' \in Seq(Seq(Item))
  BY <1>1, <1>4 DEF BatchInv
<1>6. batch' \in Seq(Item) /\ Len(batch') = 0
  BY <1>3
<1>7. OneTimerPerBatch'
  BY <1>3 DEF BatchInv, OneTimerPerBatch
<1>8. BatchTypeOK'
  BY <1>3, <1>4, <1>6 DEF BatchInv, BatchTypeOK
<1>9. Batches!PutLast(x)
  BY <1>1, <1>2, <1>3, <1>5 DEF Batches!PutLast, Batches!HandOver
<1> QED
  BY <1>5, <1>6, <1>7, <1>8, <1>9, BatchSizeAssumption DEF BatchInv

LEMMA JoiningIsPut ==
  ASSUME BatchInv, NEW x \in Item, AddArm(x) \/ AddMore(x), handed' = handed \o Begun
  PROVE  BatchInv' /\ Batches!Put(x)
<1>1. batch \in Seq(Item) /\ Len(batch) \in Nat
  BY DEF BatchInv, BatchTypeOK
<1>2. Len(batch) + 1 < BatchSize /\ batch' = Append(batch, x) /\ calls' = calls
  BY DEF AddArm, AddMore
<1>3. batch' \in Seq(Item) /\ Len(batch') = Len(batch) + 1 /\ batch' # << >>
  BY <1>1, <1>2
<1>4. Begun = << >>
  BY <1>2 DEF Begun, BatchInv, BatchTypeOK
<1>5. handed' = handed
  BY <1>4 DEF BatchInv
<1>6. OneTimerPerBatch' /\ timerTask' \in Timer \cup {NoTimer} /\ sleeping' \subseteq Timer
  <2>1. CASE AddArm(x)
    <3>1. PICK t \in Timer \ sleeping : timerTask' = t /\ sleeping' = sleeping \cup {t}
      BY <2>1 DEF AddArm
    <3>2. sleeping = {}
      BY <2>1 DEF AddArm, BatchInv, OneTimerPerBatch
    <3> QED
      BY <1>3, <3>1, <3>2, NoTimerAssumption DEF OneTimerPerBatch
  <2>2. CASE AddMore(x)
    BY <1>3, <2>2 DEF AddMore, BatchInv, OneTimerPerBatch, BatchTypeOK
  <2> QED
    BY <2>1, <2>2
<1>7. Batches!Put(x)
  BY <1>2, <1>5 DEF Batches!Put
<1> QED
  BY <1>2, <1>3, <1>5, <1>6, <1>7 DEF BatchInv, BatchTypeOK

LEMMA FiringIsHandOver ==
  ASSUME BatchInv, NEW t \in Timer, TimerFires(t), handed' = handed \o Begun
  PROVE  BatchInv' /\ Batches!HandOver(batch)
<1>1. t = timerTask /\ batch # << >>
  BY NoTimerAssumption DEF TimerFires, BatchInv, OneTimerPerBatch
<1>2. /\ calls' = Append(calls, batch) /\ batch' = << >>
      /\ sleeping' = sleeping \ {t} /\ timerTask' = NoTimer
  BY <1>1 DEF TimerFires
<1>3. Begun = <<batch>> /\ calls' \in Seq(Seq(Item))
  BY <1>2, BegunIsAppended DEF BatchInv, BatchTypeOK
<1>4. handed' = Append(handed, batch) /\ handed' \in Seq(Seq(Item))
  BY <1>3 DEF BatchInv, BatchTypeOK
<1>5. batch' \in Seq(Item) /\ Len(batch') = 0
  BY <1>2
<1>6. OneTimerPerBatch'
  BY <1>1, <1>2 DEF BatchInv, OneTimerPerBatch
<1>7. BatchTypeOK'
  BY <1>2, <1>3, <1>5 DEF BatchInv, BatchTypeOK
<1>8. Batches!HandOver(batch)
  BY <1>1, <1>2, <1>4 DEF Batches!HandOver
<1> QED
  BY <1>4, <1>5, <1>6, <1>7, <1>8, BatchSizeAssumption DEF BatchInv

LEMMA EndingIsStutter ==
  ASSUME BatchInv, NEW i \in DOMAIN calls, HandlerEnds(i), handed' = handed \o Begun
  PROVE  BatchInv' /\ UNCHANGED Batches!vars
<1>1. Begun = << >> /\ calls' \in Seq(Seq(Item))
  BY EndingBeginsNone DEF HandlerEnds, BatchInv, BatchTypeOK
<1>2. handed' = handed
  BY <1>1 DEF BatchInv
<1> QED
  BY <1>1, <1>2 DEF HandlerEnds, BatchInv, BatchTypeOK, OneTimerPerBatch, Batches!vars

-----------------------------------------------------------------------------

LEMMA BatchStep ==
  BatchInv /\ [HistoryNext]_<<batchVars, handed>> => BatchInv' /\ [Batches!Next]_Batches!vars
<1> SUFFICES ASSUME BatchInv, [HistoryNext]_<<batchVars, handed>>
             PROVE  BatchInv' /\ [Batches!Next]_Batches!vars
  OBVIOUS
<1>1. CASE UNCHANGED <<batchVars, handed>>
  BY <1>1 DEF batchVars, BatchInv, BatchTypeOK, OneTimerPerBatch, Batches!vars
<1>2. ASSUME NEW x \in Item, Add(x), HistoryNext PROVE BatchInv' /\ [Batches!Next]_Batches!vars
  BY <1>2, FlushIsHandOver, JoiningIsPut DEF Add, HistoryNext, Batches!Next
<1>3. ASSUME NEW t \in Timer, TimerFires(t), HistoryNext
      PROVE  BatchInv' /\ [Batches!Next]_Batches!vars
  BY <1>3, FiringIsHandOver DEF HistoryNext, Batches!Next
<1>4. ASSUME NEW i \in DOMAIN calls, HandlerEnds(i), HistoryNext
      PROVE  BatchInv' /\ [Batches!Next]_Batches!vars
  BY <1>4, EndingIsStutter DEF HistoryNext
<1> QED
  BY <1>1, <1>2, <1>3, <1>4 DEF HistoryNext, BatchNext

LEMMA BatchInitially == HistoryInit => BatchInv /\ Batches!Init
<1> SUFFICES ASSUME HistoryInit PROVE BatchInv /\ Batches!Init
  OBVIOUS
<1>1. batch = << >> /\ handed = << >> /\ calls = << >> /\ Len(batch) = 0
  BY DEF HistoryInit, BatchInit
<1>2. batch \in Seq(Item) /\ calls \in Seq(Seq(Item)) /\ handed \in Seq(Seq(Item))
  BY <1>1
<1>3. BatchTypeOK /\ OneTimerPerBatch
  BY <1>1, <1>2 DEF HistoryInit, BatchInit, BatchTypeOK, OneTimerPerBatch
<1> QED
  BY <1>1, <1>2, <1>3, BatchSizeAssumption DEF BatchInv, Batches!Init

\* While items wait exactly the timer that _timer_task names sleeps, and no timer while
\* none wait, however add(), timers and handlers interleave.
LEMMA HistoryTimers == HistorySpec => []OneTimerPerBatch
<1>1. BatchInv => OneTimerPerBatch
  BY DEF BatchInv
<1> QED
  BY <1>1, BatchInitially, BatchStep, PTL DEF HistorySpec

\* Every item is handed over once, in order, in batches of at most BatchSize: each step is
\* one of BatchQueue or changes nothing it speaks of.
LEMMA HistoryQueue == HistorySpec => Batches!Init /\ [][Batches!Next]_Batches!vars
BY BatchInitially, BatchStep, PTL DEF HistorySpec

-----------------------------------------------------------------------------
(***************************************************************************)
(* The path of ack().                                                      *)
(***************************************************************************)
PathInv ==
    /\ start \in Nat
    /\ tracker \in Tracker /\ IsFiniteSet(tracker.pool)
    /\ seen \subseteq 0 .. MaxOffset
    /\ NextIsFirstUnacknowledged

\* An acknowledgement leaves the tracker at the first offset not acknowledged, and what
\* it brings into the batch is one more than an acknowledged offset.
LEMMA AckKeepsPath ==
    ASSUME PathInv, NEW offset \in 0 .. MaxOffset,
           tracker' = MarkProcessed(tracker, offset),
           seen' = seen \cup {offset}, UNCHANGED start
    PROVE  /\ PathInv'
           /\ Advances(tracker, offset) => tracker'.next \in Item
<1>. DEFINE marked == MarkProcessed(tracker, offset)
            pooled == tracker.pool \cup {offset}
<1>1. /\ offset \in Nat /\ start \in Nat /\ MaxOffset \in Nat
      /\ tracker \in Tracker /\ IsFiniteSet(tracker.pool)
      /\ tracker.next \in Nat /\ tracker.pool \in SUBSET Nat
      /\ seen \subseteq 0 .. MaxOffset
  BY BoundsAssumption DEF PathInv, Tracker
<1>2. /\ start .. (tracker.next - 1) \subseteq seen
      /\ tracker.next \notin seen /\ tracker.next >= start
      /\ tracker.pool = {o \in seen : o > tracker.next}
  BY DEF PathInv, NextIsFirstUnacknowledged
<1>3. /\ marked \in Tracker /\ IsFiniteSet(marked.pool)
      /\ marked.next >= tracker.next
      /\ tracker.next .. (marked.next - 1) \subseteq pooled
  BY <1>1, MarkProcessedMovesOverAcknowledged
<1>4. /\ marked.next \notin pooled
      /\ marked.pool = {o \in pooled : o > marked.next}
      /\ Advances(tracker, offset) => marked.next > tracker.next
  BY <1>1, <1>2, MarkProcessedIsExact
<1>5. marked.next \in Nat
  BY <1>3 DEF Tracker
<1>6. start .. (marked.next - 1) \subseteq seen'
  <2>1. ASSUME NEW o \in start .. (marked.next - 1) PROVE o \in seen'
    <3>1. CASE o < tracker.next
      BY <1>1, <1>2, <2>1, <3>1
    <3>2. CASE o >= tracker.next
      BY <1>1, <1>2, <1>3, <1>5, <2>1, <3>2
    <3>. QED
      BY <1>1, <3>1, <3>2
  <2>. QED
    BY <2>1
<1>7. marked.next \notin seen'
  BY <1>1, <1>2, <1>3, <1>4, <1>5
<1>8. marked.pool = {o \in seen' : o > marked.next}
  <2>1. ASSUME NEW o \in seen', o > marked.next PROVE o \in pooled
    <3>1. o \in seen \/ o = offset
      BY <2>1
    <3>2. CASE o \in seen
      <4>1. o \in Nat /\ o > tracker.next
        BY <1>1, <1>3, <1>5, <2>1, <3>2
      <4>. QED
        BY <1>2, <3>2, <4>1
    <3>. QED
      BY <3>1, <3>2
  <2>2. pooled \subseteq seen'
    BY <1>2
  <2>. QED
    BY <1>4, <2>1, <2>2
<1>9. PathInv'
  BY <1>1, <1>2, <1>3, <1>5, <1>6, <1>7, <1>8 DEF PathInv, NextIsFirstUnacknowledged
<1>10. ASSUME Advances(tracker, offset) PROVE marked.next \in Item
  <2>1. marked.next - 1 \in pooled
    BY <1>1, <1>3, <1>4, <1>5, <1>10
  <2>2. marked.next - 1 \in 0 .. MaxOffset
    BY <1>1, <1>2, <2>1
  <2>3. marked.next \in Offsets
    BY <1>1, <1>5, <2>2 DEF Offsets
  <2>. QED
    BY <2>3, ItemAssumption
<1>. QED
  BY <1>9, <1>10

\* Every step keeps the path, and is one of BatchProcessor or leaves the batches alone.
LEMMA PathStep ==
    PathInv /\ BatchInv /\ [CommitNext]_commitVars => PathInv' /\ [HistoryNext]_<<batchVars, handed>>
<1>. SUFFICES ASSUME PathInv, BatchInv, [CommitNext]_commitVars
              PROVE  PathInv' /\ [HistoryNext]_<<batchVars, handed>>
  OBVIOUS
<1>1. CASE UNCHANGED commitVars
  BY <1>1 DEF commitVars, PathInv, NextIsFirstUnacknowledged
<1>2. ASSUME NEW offset \in 0 .. MaxOffset, AckOffset(offset)
      PROVE  PathInv' /\ [HistoryNext]_<<batchVars, handed>>
  <2>1. PathInv' /\ (Advances(tracker, offset) => tracker'.next \in Item)
    BY <1>2, AckKeepsPath DEF AckOffset
  <2>2. CASE Advances(tracker, offset)
    BY <1>2, <2>1, <2>2 DEF AckOffset, HistoryNext, BatchNext
  <2>3. CASE ~Advances(tracker, offset)
    <3>1. UNCHANGED batchVars /\ handed' = handed \o Begun
      BY <1>2, <2>3 DEF AckOffset
    <3>2. Begun = << >>
      BY <3>1 DEF Begun, batchVars, BatchInv, BatchTypeOK
    <3>3. handed' = handed
      BY <3>1, <3>2 DEF BatchInv
    <3>. QED
      BY <2>1, <3>1, <3>3
  <2>. QED
    BY <2>2, <2>3
<1>3. CASE Fires
  BY <1>3 DEF Fires, HistoryNext, BatchNext, PathInv, NextIsFirstUnacknowledged
<1>4. CASE Ends
  <2>1. PICK i \in DOMAIN calls : HandlerEnds(i)
    BY <1>4 DEF Ends
  <2>2. Begun = << >>
    BY <2>1, EndingBeginsNone DEF HandlerEnds, BatchInv, BatchTypeOK
  <2>3. handed' = handed \o Begun
    BY <1>4, <2>2 DEF Ends, BatchInv
  <2>. QED
    BY <1>4, <2>1, <2>3 DEF Ends, HistoryNext, BatchNext, PathInv, NextIsFirstUnacknowledged
<1>. QED
  BY <1>1, <1>2, <1>3, <1>4 DEF CommitNext

LEMMA PathInitially == CommitInit => PathInv /\ BatchInv /\ HistoryInit
<1>. SUFFICES ASSUME CommitInit PROVE PathInv /\ BatchInv /\ HistoryInit
  OBVIOUS
<1>1. HistoryInit /\ BatchInv
  BY BatchInitially DEF CommitInit, HistoryInit
<1>2. start \in Nat /\ tracker.next = start /\ tracker.pool = {} /\ tracker \in Tracker
  BY BoundsAssumption DEF CommitInit, NewTracker, Tracker
<1>3. start .. (start - 1) = {}
  BY <1>2
<1>. QED
  BY <1>1, <1>2, <1>3, FS_EmptySet DEF CommitInit, PathInv, NextIsFirstUnacknowledged

LEMMA PathHolds == CommitSpec => [](PathInv /\ BatchInv)
<1>1. PathInv /\ BatchInv /\ [CommitNext]_commitVars => (PathInv /\ BatchInv)'
  BY PathStep, BatchStep
<1>. QED
  BY <1>1, PathInitially, PTL DEF CommitSpec

\* Along the path of ack() the batches go through the steps of BatchProcessor only.
LEMMA PathUsesProcessor == CommitSpec => HistorySpec
BY PathHolds, PathStep, PathInitially, PTL DEF CommitSpec, HistorySpec

\* In whatever order, however often and from whatever start offsets are acknowledged,
\* `next` is the first one that was not: everything below it may be committed; and the
\* pool holds exactly what was acknowledged above it.
THEOREM TrackerStaysExact == CommitSpec => []NextIsFirstUnacknowledged
<1>1. PathInv => NextIsFirstUnacknowledged
  BY DEF PathInv
<1>. QED
  BY <1>1, PathHolds, PTL

\* The rounds of the loop stay among the trackers with a finite pool.
LEMMA RoundOfTracker ==
    ASSUME NEW t \in FiniteTracker, t.next \in t.pool
    PROVE  Round(t) \in FiniteTracker
<1>1. /\ t.next \in Nat /\ t.pool \in SUBSET Nat /\ IsFiniteSet(t.pool)
  BY DEF FiniteTracker
<1>2. IsFiniteSet(t.pool \ {t.next})
  BY <1>1, FS_RemoveElement
<1>. QED
  BY <1>1, <1>2 DEF Round, FiniteTracker

LEMMA FiniteTrackers ==
    ASSUME NEW t
    PROVE  t \in FiniteTracker <=> t \in Tracker /\ IsFiniteSet(t.pool)
BY DEF FiniteTracker, Tracker

\* The loop is a function: fast-forwarding is one that solves its equation.
LEMMA LoopExists ==
    Loop = [t \in FiniteTracker |-> IF t.next \in t.pool THEN Loop[Round(t)] ELSE t]
<1>. DEFINE Rounds(f) ==
                [t \in FiniteTracker |->
                    IF t.next \in t.pool
                    THEN f[[next |-> t.next + 1, pool |-> t.pool \ {t.next}]] ELSE t]
            forward == [t \in FiniteTracker |-> FastForward(t)]
<1>1. \A t \in FiniteTracker :
        forward[t] = IF t.next \in t.pool
                     THEN forward[[next |-> t.next + 1, pool |-> t.pool \ {t.next}]] ELSE t
  <2>. TAKE t \in FiniteTracker
  <2>1. FastForward(t) = IF t.next \in t.pool THEN FastForward(Round(t)) ELSE t
    BY FiniteTrackers, FastForwardIsTheLoop
  <2>2. CASE t.next \in t.pool
    BY <2>1, <2>2, RoundOfTracker DEF Round
  <2>3. CASE t.next \notin t.pool
    BY <2>1, <2>3
  <2>. QED
    BY <2>2, <2>3
<1>2. forward = Rounds(forward)
  BY <1>1
<1>. HIDE DEF forward
<1>3. Loop = CHOOSE f : f = Rounds(f)
  BY DEF Loop
<1>4. Loop = Rounds(Loop)
  BY <1>2, <1>3
<1>. QED
  BY <1>4 DEF Round

\* Every solution is fast-forwarding: a tracker with the smallest pool on which the loop
\* ended elsewhere would have a round on which it does so too.
LEMMA LoopFastForwards ==
    ASSUME NEW t \in FiniteTracker
    PROVE  Loop[t] = FastForward(t)
<1>. DEFINE Wrong == {u \in FiniteTracker : Loop[u] # FastForward(u)}
            Sizes == {n \in Nat : \E u \in Wrong : n = Cardinality(u.pool)}
<1>. SUFFICES ASSUME Wrong # {} PROVE FALSE
  OBVIOUS
<1>1. \A u \in FiniteTracker : Cardinality(u.pool) \in Nat
  BY FiniteTrackers, FS_CardinalityType
<1>2. Sizes # {} /\ Sizes \in SUBSET Nat
  BY <1>1
<1>3. PICK n \in Sizes : \A k \in Sizes : n <= k
  BY <1>2, LeastNatural
<1>4. PICK u \in Wrong : n = Cardinality(u.pool)
  BY <1>3
<1>5. /\ FastForward(u) = IF u.next \in u.pool THEN FastForward(Round(u)) ELSE u
      /\ u.next \in u.pool => Cardinality(Round(u).pool) < Cardinality(u.pool)
  BY <1>4, FiniteTrackers, FastForwardIsTheLoop
<1>6. Loop[u] = IF u.next \in u.pool THEN Loop[Round(u)] ELSE u
  BY <1>4, LoopExists
<1>7. u.next \in u.pool
  BY <1>4, <1>5, <1>6
<1>8. Round(u) \in Wrong
  BY <1>4, <1>5, <1>6, <1>7, RoundOfTracker
<1>9. Cardinality(Round(u).pool) \in Sizes
  BY <1>1, <1>8
<1>. QED
  BY <1>1, <1>3, <1>4, <1>5, <1>7, <1>8, <1>9

\* In every state and for every next offset, mark_processed with its loop returns what
\* the closed form does (offset_tracker.py:7-22).
THEOREM ClosedFormIsRight == CommitSpec => []ClosedFormIsTheLoop
<1>1. PathInv => ClosedFormIsTheLoop
  <2>. SUFFICES ASSUME PathInv, NEW offset \in 0 .. MaxOffset
                PROVE  MarkProcessed(tracker, offset) = MarkByLoop(tracker, offset)
    BY DEF ClosedFormIsTheLoop
  <2>. DEFINE pooled == [tracker EXCEPT !.pool = @ \cup {offset}]
  <2>1. tracker \in Tracker /\ IsFiniteSet(tracker.pool) /\ offset \in Nat
    BY BoundsAssumption DEF PathInv
  <2>2. pooled \in FiniteTracker
    <3>1. IsFiniteSet(tracker.pool \cup {offset})
      BY <2>1, FS_AddElement
    <3>. QED
      BY <2>1, <3>1 DEF Tracker, FiniteTracker
  <2>3. Loop[pooled] = FastForward(pooled)
    BY <2>2, LoopFastForwards
  <2>. QED
    BY <2>1, <2>3, MarkProcessedFastForwards DEF MarkByLoop
<1>. QED
  BY <1>1, PathHolds, PTL

\* While items wait exactly the timer that _timer_task names sleeps, and no timer while
\* none wait, however acknowledgements, timers and handlers interleave.
THEOREM OneTimer == CommitSpec => []OneTimerPerBatch
BY PathUsesProcessor, HistoryTimers, PTL

\* Every offset to commit is handed over once, in order, in batches of at most BatchSize:
\* each step is one of BatchQueue or changes nothing it speaks of.
THEOREM ProcessorImplementsQueue == CommitSpec => Batches!Init /\ [][Batches!Next]_Batches!vars
BY PathUsesProcessor, HistoryQueue, PTL
=============================================================================
