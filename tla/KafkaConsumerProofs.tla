-------------------------- MODULE KafkaConsumerProofs --------------------------
(***************************************************************************)
(* Proofs about KafkaConsumer, for every set of partitions, every log and  *)
(* every limit.  Safety only: fairness stays with TLC.                     *)
(***************************************************************************)
EXTENDS KafkaConsumer, OffsetTrackerProofs, SequenceTheorems

(***************************************************************************)
(* Batches.  S stands for any set of items: the type of the items for type *)
(* correctness, the commits that are safe for AtLeastOnce.                 *)
(***************************************************************************)
BatchesOf(S) == batch \in Seq(S) /\ calls \in Seq(Seq(S))

Timers == timerTask \in Timer \cup {NoTimer} /\ sleeping \subseteq Timer

\* add() brings nothing but its item into the batches.
LEMMA AddKeepsItems ==
    ASSUME NEW S, NEW x \in S, BatchesOf(S), Timers, BP!Add(x)
    PROVE  batch' \in Seq(S) /\ calls' \in Seq(Seq(S)) /\ Timers'
<1>1. Append(batch, x) \in Seq(S)
  BY AppendProperties DEF BatchesOf
<1>2. CASE BP!AddFull(x)
  BY <1>1, <1>2, AppendProperties, EmptySeq
     DEF BP!AddFull, BP!Flush, BatchesOf, Timers
<1>3. CASE BP!AddArm(x)
  BY <1>1, <1>3 DEF BP!AddArm, BatchesOf, Timers
<1>4. CASE BP!AddMore(x)
  BY <1>1, <1>4 DEF BP!AddMore, BatchesOf, Timers
<1>. QED
  BY <1>2, <1>3, <1>4 DEF BP!Add

\* A timer moves the batch as it is to the handler calls.
LEMMA TimerKeepsItems ==
    ASSUME NEW S, NEW t \in Timer, BatchesOf(S), Timers, BP!TimerFires(t)
    PROVE  batch' \in Seq(S) /\ calls' \in Seq(Seq(S)) /\ Timers'
<1>1. Append(calls, batch) \in Seq(Seq(S))
  BY AppendProperties DEF BatchesOf
<1>2. << >> \in Seq(S)
  BY EmptySeq
<1>. QED
  BY <1>1, <1>2 DEF BP!TimerFires, BatchesOf, Timers

\* The end of the first handler call removes its batch.
LEMMA HandlerKeepsItems ==
    ASSUME NEW S, BatchesOf(S), Timers, BP!HandlerEnds(1)
    PROVE  batch' \in Seq(S) /\ calls' \in Seq(Seq(S)) /\ Timers'
<1>1. SubSeq(calls, 1, 0) \in Seq(Seq(S)) /\ SubSeq(calls, 2, Len(calls)) \in Seq(Seq(S))
  BY SubSeqProperties, LenProperties, ElementOfSeq DEF BatchesOf
<1>2. BP!RemoveAt(calls, 1) \in Seq(Seq(S))
  BY <1>1, ConcatProperties DEF BP!RemoveAt
<1>. QED
  BY <1>2 DEF BP!HandlerEnds, BatchesOf, Timers

-----------------------------------------------------------------------------
(***************************************************************************)
(* Type correctness.  A tracker computes its next offset from the size of  *)
(* its pool, so the pools must be finite along with the types.             *)
(***************************************************************************)
PoolsFinite ==
    \A tp \in Partition : offsetTrackers[tp] # Absent => IsFiniteSet(offsetTrackers[tp].pool)

TypeInv == TypeOK /\ PoolsFinite

LEMMA FetchAtType ==
    ASSUME NEW pc \in {"off", "sleep", "getmany", "dead"}
    PROVE  FetchAt(pc) \in FetchState
BY DEF FetchAt, FetchState

\* What a pass leaves behind, whatever counts and partitions it goes on with.
LEMMA PassTypes ==
    ASSUME isDataAvailable \in BOOLEAN,
           NEW counts \in [Partition -> Int \cup {Absent}],
           NEW todo \in SUBSET Partition, NEW any \in BOOLEAN,
           ContinuePass(counts, todo, any)
    PROVE  /\ inFlightCount' \in [Partition -> Int \cup {Absent}]
           /\ fetch' \in FetchState
           /\ isDataAvailable' \in BOOLEAN
<1>. DEFINE full == {tp \in todo : Room(counts[tp]) <= 0}
<1>1. \A tp \in Partition : Room(counts[tp]) \in Int
  BY NamesAssumption, LimitAssumption DEF Room
<1>2. CASE \E tp \in todo \ full, skipped \in SUBSET full :
              /\ inFlightCount' = [counts EXCEPT ![tp] = IF @ = Absent THEN 0 ELSE @]
              /\ fetch' = [pc |-> "getmany", tp |-> tp, max |-> Room(counts[tp]),
                           todo |-> todo \ (skipped \cup {tp}), any |-> any]
              /\ UNCHANGED isDataAvailable
  BY <1>1, <1>2 DEF FetchState
<1>3. CASE /\ inFlightCount' = counts
           /\ fetch' = FetchAt("sleep")
           /\ isDataAvailable' = Signal(isDataAvailable, any)
  BY <1>3, FetchAtType DEF Signal
<1>. QED
  BY <1>2, <1>3 DEF ContinuePass

\* The least offset of a set of offsets.
LEMMA FirstIsLeast ==
    ASSUME NEW S \in SUBSET Nat, S # {}
    PROVE  First(S) \in S /\ \A o \in S : First(S) <= o
BY LeastNatural DEF First

LEMMA RecordsAreFinite ==
    ASSUME TypeOK, NEW tp \in Partition, NEW hi \in Nat
    PROVE  /\ Records(tp, hi) \in SUBSET Nat
           /\ IsFiniteSet(Records(tp, hi))
           /\ Cardinality(Records(tp, hi)) \in Nat
<1>1. position[tp] \in Nat /\ Log[tp] \in SUBSET Nat
  BY LogAssumption DEF TypeOK
<1>2. IsFiniteSet(position[tp] .. hi)
  BY <1>1, FS_Interval
<1>3. IsFiniteSet(Records(tp, hi))
  BY <1>2, FS_Subset DEF Records
<1>. QED
  BY <1>1, <1>3, FS_CardinalityType DEF Records

\* One more fault of any kind.
LEMMA CountedFault ==
    ASSUME NEW f \in [rebalances: Nat, restarts: Nat, commitErrors: Nat]
    PROVE  /\ [f EXCEPT !.rebalances = @ + 1]
                 \in [rebalances: Nat, restarts: Nat, commitErrors: Nat]
           /\ [f EXCEPT !.restarts = @ + 1]
                 \in [rebalances: Nat, restarts: Nat, commitErrors: Nat]
           /\ [f EXCEPT !.commitErrors = @ + 1]
                 \in [rebalances: Nat, restarts: Nat, commitErrors: Nat]
OBVIOUS

\* The entry of a partition that a commit keeps is one of the batch.
LEMMA KeptEntryIsAnEntry ==
    ASSUME NEW items \in Seq(Commit), NEW tp \in Partition,
           \E i \in DOMAIN items : items[i][1] = tp
    PROVE  /\ KeptEntry(items, tp) \in DOMAIN items
           /\ items[KeptEntry(items, tp)] \in Commit
           /\ items[KeptEntry(items, tp)][1] = tp
PROOF
<1>. DEFINE entries == {i \in DOMAIN items : items[i][1] = tp}
            back == {Len(items) - i : i \in entries}
<1>1. entries \subseteq 1 .. Len(items) /\ entries # {} /\ Len(items) \in Nat
  BY LenProperties
<1>2. back \in SUBSET Nat /\ back # {}
  BY <1>1
<1>3. PICK b \in back : \A k \in back : b <= k
  BY <1>2, LeastNatural
<1>4. PICK i \in entries : b = Len(items) - i
  BY <1>3
<1>5. \A j \in entries : j <= i
  <2>1. ASSUME NEW j \in entries PROVE j <= i
    <3>1. Len(items) - j \in back
      OBVIOUS
    <3>2. b <= Len(items) - j
      BY <1>3, <3>1
    <3>. QED
      BY <1>1, <1>4, <3>2
  <2>. QED
    BY <2>1
<1>6. KeptEntry(items, tp) \in entries
  BY <1>4, <1>5 DEF KeptEntry
<1>. QED
  BY <1>1, <1>6, ElementOfSeq

\* The initial state is well typed.
LEMMA TypeInit == Init => TypeInv
<1>. SUFFICES ASSUME Init PROVE TypeInv
  OBVIOUS
<1>1. /\ committed \in [Partition -> Nat] /\ position \in [Partition -> Nat]
      /\ processed \in [Partition -> SUBSET Nat] /\ queues \in [Partition -> SUBSET Nat]
      /\ inFlightCount \in [Partition -> Int \cup {Absent}]
      /\ offsetTrackers \in [Partition -> Tracker \cup {Absent}]
      /\ assignments \in [Partition -> Nat]
  BY DEF Init
<1>2. BP!BatchTypeOK /\ queueKeys \in Seq(Partition)
  BY EmptySeq DEF Init, BP!BatchInit, BP!BatchTypeOK
<1>3. fetch \in FetchState
  BY FetchAtType DEF Init
<1>4. TypeOK
  BY <1>1, <1>2, <1>3 DEF Init, TypeOK
<1>5. PoolsFinite
  BY DEF Init, PoolsFinite
<1>. QED
  BY <1>4, <1>5 DEF TypeInv

\* Starting, stopping and ending the process keeps the types.
LEMMA TypeProcess ==
    ASSUME TypeInv, Start \/ Stop \/ CloseClient \/ Restart
    PROVE  TypeInv'
<1>. USE DEF TypeInv, TypeOK, PoolsFinite, clientVars, queueVars, ackVars, listenVars,
             batchVars, historyVars, BP!BatchTypeOK
<1>1. CASE Start
  BY <1>1, FetchAtType DEF Start
<1>2. CASE Stop
  BY <1>2, FetchAtType DEF Stop
<1>3. CASE CloseClient
  BY <1>3 DEF CloseClient
<1>4. CASE Restart
  <2>1. /\ queues' \in [Partition -> SUBSET Nat]
        /\ inFlightCount' \in [Partition -> Int \cup {Absent}]
        /\ offsetTrackers' \in [Partition -> Tracker \cup {Absent}]
        /\ fetch' \in FetchState
    BY <1>4, FetchAtType DEF Restart
  <2>2. (BP!BatchTypeOK)' /\ queueKeys' \in Seq(Partition)
    BY <1>4, EmptySeq DEF Restart
  <2>3. faults' \in [rebalances: Nat, restarts: Nat, commitErrors: Nat]
    BY <1>4, CountedFault DEF Restart
  <2>4. PoolsFinite'
    BY <1>4 DEF Restart
  <2>. QED
    BY <1>4, <2>1, <2>2, <2>3, <2>4 DEF Restart
<1>. QED
  BY <1>1, <1>2, <1>3, <1>4

\* A pass that begins, or goes on without records.
LEMMA WakeOrNothingTypes ==
    ASSUME TypeInv, FetchWake \/ FetchNothing
    PROVE  /\ inFlightCount' \in [Partition -> Int \cup {Absent}]
           /\ fetch' \in FetchState
           /\ isDataAvailable' \in BOOLEAN
<1>1. /\ inFlightCount \in [Partition -> Int \cup {Absent}]
      /\ isDataAvailable \in BOOLEAN
      /\ assigned \in SUBSET Partition
      /\ fetch \in FetchState
  BY DEF TypeInv, TypeOK
<1>2. fetch.todo \in SUBSET Partition /\ fetch.any \in BOOLEAN
  BY <1>1 DEF FetchState
<1>3. CASE FetchWake
  <2>1. ContinuePass(inFlightCount, assigned, FALSE)
    BY <1>3 DEF FetchWake
  <2>. QED
    BY <1>1, <2>1, PassTypes
<1>4. CASE FetchNothing
  <2>1. ContinuePass(inFlightCount, fetch.todo, fetch.any)
    BY <1>4 DEF FetchNothing
  <2>. QED
    BY <1>1, <1>2, <2>1, PassTypes
<1>. QED
  BY <1>3, <1>4

\* The fetch loop keeps the types.
LEMMA TypeFetch ==
    ASSUME TypeInv,
           \/ FetchWake \/ FetchNothing \/ FetchRaises
           \/ \E tp \in Partition : \E hi \in Log[tp] :
                 FetchRecords(tp, hi) \/ FetchKeyError(tp, hi)
    PROVE  TypeInv'
<1>. USE DEF TypeInv, TypeOK, PoolsFinite, clientVars, queueVars, ackVars, listenVars,
             batchVars, historyVars, BP!BatchTypeOK
<1>1. CASE FetchWake \/ FetchNothing
  <2>1. /\ inFlightCount' \in [Partition -> Int \cup {Absent}]
        /\ fetch' \in FetchState
        /\ isDataAvailable' \in BOOLEAN
    BY <1>1, WakeOrNothingTypes
  <2>2. UNCHANGED <<clientVars, isRunning, queues, queueKeys, offsetTrackers,
                    waitingForCommit, listenVars, batchVars, handled, historyVars>>
    BY <1>1 DEF FetchWake, FetchNothing
  <2>. QED
    BY <2>1, <2>2
<1>2. CASE FetchRaises
  BY <1>2, FetchAtType DEF FetchRaises
<1>3. ASSUME NEW tp \in Partition, NEW hi \in Log[tp],
             FetchRecords(tp, hi) \/ FetchKeyError(tp, hi)
      PROVE  TypeInv'
  <2>1. hi \in Nat /\ Records(tp, hi) \in SUBSET Nat /\ Cardinality(Records(tp, hi)) \in Nat
    BY LogAssumption, RecordsAreFinite
  <2>2. CanReturn(tp, hi) /\ queueKeys' = AddKey(queueKeys, tp)
    BY <1>3 DEF FetchRecords, FetchKeyError
  <2>3. position' \in [Partition -> Nat] /\ Records(tp, hi) # {}
    <3>1. hi \in Records(tp, hi) /\ position' = [position EXCEPT ![tp] = hi + 1]
      BY <2>2 DEF CanReturn
    <3>2. hi + 1 \in Nat
      BY <2>1
    <3>. QED
      BY <3>1, <3>2
  <2>4. queueKeys' \in Seq(Partition)
    BY <2>2, AppendProperties DEF AddKey
  <2>5. CASE FetchRecords(tp, hi)
    <3>. DEFINE counts == [inFlightCount EXCEPT ![tp] = @ + Cardinality(Records(tp, hi))]
    <3>1. counts \in [Partition -> Int \cup {Absent}] /\ fetch.todo \in SUBSET Partition
      BY <2>1, <2>5 DEF FetchRecords, FetchState
    <3>2. ContinuePass(counts, fetch.todo, TRUE)
      BY <2>5 DEF FetchRecords
    <3>3. /\ inFlightCount' \in [Partition -> Int \cup {Absent}]
          /\ fetch' \in FetchState
          /\ isDataAvailable' \in BOOLEAN
      BY <3>1, <3>2, PassTypes
    <3>4. queues' \in [Partition -> SUBSET Nat]
      BY <2>1, <2>5 DEF FetchRecords, Enqueue
    <3>. QED
      BY <2>3, <2>4, <2>5, <3>3, <3>4 DEF FetchRecords
  <2>6. CASE FetchKeyError(tp, hi)
    <3>1. First(Records(tp, hi)) \in Nat
      BY <2>1, <2>3, FirstIsLeast
    <3>2. queues' \in [Partition -> SUBSET Nat]
      BY <2>6, <3>1 DEF FetchKeyError, Enqueue
    <3>. QED
      BY <2>3, <2>4, <2>6, <3>2, FetchAtType DEF FetchKeyError
  <2>. QED
    BY <1>3, <2>5, <2>6
<1>. QED
  BY <1>1, <1>2, <1>3

\* Yielding a message keeps the types.
LEMMA TypeListen ==
    ASSUME TypeInv, ListenYield \/ ListenIdle \/ ListenWait \/ ListenEnds
    PROVE  TypeInv'
<1>. USE DEF TypeInv, TypeOK, PoolsFinite, clientVars, queueVars, ackVars, listenVars,
             batchVars, historyVars, BP!BatchTypeOK
<1>1. CASE ListenYield
  <2>1. PICK j \in 0 .. (Len(queueKeys) - 1) :
            /\ queues[Turn(j)] # {}
            /\ Yield(Turn(j))
            /\ cycleIdx' = (cycleIdx + j + 1) % CycleMod
    BY <1>1 DEF ListenYield
  <2>. DEFINE tp == Turn(j)
              offset == First(queues[tp])
  <2>2. Len(queueKeys) \in Nat /\ j \in Nat /\ Len(queueKeys) > 0
    BY <2>1, LenProperties
  <2>3. tp \in Partition
    BY <2>2, ElementOfSeq DEF Turn
  <2>4. cycleIdx' \in Nat
    BY <2>1, <2>2, CycleModAssumption
  <2>5. offset \in Nat /\ queues[tp] \in SUBSET Nat
    BY <2>1, <2>3, FirstIsLeast
  <2>6. queues' \in [Partition -> SUBSET Nat]
    BY <2>1, <2>3, <2>5 DEF Yield
  <2>7. /\ TrackerOf(tp, offset) \in Tracker
        /\ IsFiniteSet(TrackerOf(tp, offset).pool)
    BY <2>3, <2>5, FS_EmptySet DEF TrackerOf, NewTracker, Tracker
  <2>8. offsetTrackers' = [offsetTrackers EXCEPT ![tp] = TrackerOf(tp, offset)]
    BY <2>1 DEF Yield
  <2>9. offsetTrackers' \in [Partition -> Tracker \cup {Absent}] /\ PoolsFinite'
    BY <2>3, <2>7, <2>8
  <2>10. waitingForCommit' \subseteq Message /\ handled \subseteq waitingForCommit'
    <3>1. [tp |-> tp, offset |-> offset, assignment |-> assignments[tp]] \in Message
      BY <2>3, <2>5 DEF Message
    <3>2. waitingForCommit' = waitingForCommit \cup
             {[tp |-> tp, offset |-> offset, assignment |-> assignments[tp]]}
      BY <2>1 DEF Yield
    <3>. QED
      BY <3>1, <3>2
  <2>11. listening' = "yield"
    BY <2>1 DEF Yield
  <2>. QED
    BY <1>1, <2>4, <2>6, <2>9, <2>10, <2>11 DEF ListenYield
<1>2. CASE ListenIdle
  <2>1. cycleIdx' \in Nat
    BY <1>2, CycleModAssumption, LenProperties DEF ListenIdle
  <2>. QED
    BY <1>2, <2>1 DEF ListenIdle
<1>3. CASE ListenWait
  BY <1>3 DEF ListenWait
<1>4. CASE ListenEnds
  BY <1>4 DEF ListenEnds
<1>. QED
  BY <1>1, <1>2, <1>3, <1>4

\* Handlers and acknowledgements keep the types.
LEMMA TypeAck ==
    ASSUME TypeInv,
           NEW m \in waitingForCommit, Handle(m) \/ AckDropped(m) \/ AckCounted(m)
    PROVE  TypeInv'
<1>. USE DEF TypeInv, TypeOK, PoolsFinite, clientVars, queueVars, ackVars, listenVars,
             batchVars, historyVars
<1>1. m.tp \in Partition /\ m.offset \in Nat
  BY DEF Message
<1>2. CASE Handle(m)
  BY <1>1, <1>2 DEF Handle, BP!BatchTypeOK
<1>3. CASE AckDropped(m)
  BY <1>3 DEF AckDropped, BP!BatchTypeOK
<1>4. CASE AckCounted(m)
  <2>. DEFINE tracker == offsetTrackers[m.tp]
              marked == MarkProcessed(tracker, m.offset)
  <2>1. tracker \in Tracker /\ IsFiniteSet(tracker.pool) /\ inFlightCount[m.tp] \in Int
    BY <1>1, <1>4 DEF AckCounted
  <2>2. marked \in Tracker /\ IsFiniteSet(marked.pool)
    BY <1>1, <2>1, MarkProcessedMovesOverAcknowledged
  <2>3. offsetTrackers' \in [Partition -> Tracker \cup {Absent}] /\ PoolsFinite'
    BY <1>1, <1>4, <2>2 DEF AckCounted
  <2>4. inFlightCount' \in [Partition -> Int \cup {Absent}]
    BY <1>1, <1>4, <2>1 DEF AckCounted, Release
  <2>5. (BP!BatchTypeOK)'
    <3>1. BatchesOf(Commit) /\ Timers
      BY DEF BP!BatchTypeOK, BatchesOf, Timers
    <3>2. <<m.tp, marked.next>> \in Commit
      BY <1>1, <2>2 DEF Commit, Tracker
    <3>3. CASE BP!Add(<<m.tp, marked.next>>)
      BY <3>1, <3>2, <3>3, AddKeepsItems DEF BP!BatchTypeOK, Timers
    <3>4. CASE UNCHANGED batchVars
      BY <3>4 DEF BP!BatchTypeOK
    <3>. QED
      BY <1>4, <3>3, <3>4 DEF AckCounted
  <2>. QED
    BY <1>4, <2>3, <2>4, <2>5 DEF AckCounted
<1>. QED
  BY <1>2, <1>3, <1>4

\* Timers and commits keep the types.
LEMMA TypeCommit ==
    ASSUME TypeInv, TimerFires \/ CommitSucceeds \/ CommitFails
    PROVE  TypeInv'
<1>. USE DEF TypeInv, TypeOK, PoolsFinite, clientVars, queueVars, ackVars, listenVars,
             historyVars
<1>1. BatchesOf(Commit) /\ Timers
  BY DEF BP!BatchTypeOK, BatchesOf, Timers
<1>2. CASE TimerFires
  <2>1. (BP!BatchTypeOK)'
    BY <1>1, <1>2, TimerKeepsItems DEF TimerFires, BP!BatchTypeOK, Timers
  <2>. QED
    BY <1>2, <2>1 DEF TimerFires
<1>3. ASSUME BP!HandlerEnds(1) PROVE (BP!BatchTypeOK)'
  BY <1>1, <1>3, HandlerKeepsItems DEF BP!BatchTypeOK, Timers
<1>4. CASE CommitSucceeds
  <2>. DEFINE items == Head(calls)
  <2>1. items \in Seq(Commit)
    BY <1>1, <1>4, HeadTailProperties DEF BatchesOf, CommitSucceeds
  <2>2. ASSUME NEW tp \in Partition, \E i \in DOMAIN items : items[i][1] = tp
        PROVE  items[KeptEntry(items, tp)] \in Commit
    BY <2>1, <2>2, KeptEntryIsAnEntry
  <2>3. committed' \in [Partition -> Nat]
    BY <1>4, <2>2 DEF CommitSucceeds, Commit
  <2>. QED
    BY <1>3, <1>4, <2>3 DEF CommitSucceeds
<1>5. CASE CommitFails
  <2>1. faults' \in [rebalances: Nat, restarts: Nat, commitErrors: Nat]
    BY <1>5, CountedFault DEF CommitFails
  <2>. QED
    BY <1>3, <1>5, <2>1 DEF CommitFails
<1>. QED
  BY <1>2, <1>4, <1>5

\* Rebalances and the other members of the group keep the types.
LEMMA TypeGroup ==
    ASSUME TypeInv,
           \/ Revoke
           \/ \E owned \in SUBSET Partition : Assign(owned)
           \/ \E tp \in Partition : \E o \in 1 .. LogEnd[tp] : PeerCommits(tp, o)
    PROVE  TypeInv'
<1>. USE DEF TypeInv, TypeOK, PoolsFinite, clientVars, queueVars, ackVars, listenVars,
             batchVars, historyVars, BP!BatchTypeOK
<1>1. CASE Revoke
  <2>1. faults' \in [rebalances: Nat, restarts: Nat, commitErrors: Nat]
    BY <1>1, CountedFault DEF Revoke
  <2>2. queues' \in [Partition -> SUBSET Nat] /\ queueKeys' \in Seq(Partition)
    BY <1>1, EmptySeq DEF Revoke, DropQueues
  <2>3. /\ offsetTrackers' \in [Partition -> Tracker \cup {Absent}] /\ PoolsFinite'
        /\ inFlightCount' \in [Partition -> Int \cup {Absent}]
    BY <1>1 DEF Revoke
  <2>. QED
    BY <1>1, <2>1, <2>2, <2>3 DEF Revoke
<1>2. ASSUME NEW owned \in SUBSET Partition, Assign(owned) PROVE TypeInv'
  <2>1. position' \in [Partition -> Nat] /\ assignments' \in [Partition -> Nat]
    BY <1>2 DEF Assign
  <2>2. client' = "up" /\ assigned' = owned
    BY <1>2 DEF Assign
  <2>3. UNCHANGED <<committed, isRunning, queueVars, ackVars, fetch, listenVars, batchVars,
                    handled, processed, faults>>
    BY <1>2 DEF Assign
  <2>. QED
    BY <2>1, <2>2, <2>3
<1>3. ASSUME NEW tp \in Partition, NEW o \in 1 .. LogEnd[tp], PeerCommits(tp, o)
      PROVE  TypeInv'
  <2>1. o \in Nat /\ Log[tp] \in SUBSET Nat
    BY LogAssumption
  <2>2. committed' \in [Partition -> Nat] /\ processed' \in [Partition -> SUBSET Nat]
    BY <1>3, <2>1 DEF PeerCommits
  <2>. QED
    BY <1>3, <2>2 DEF PeerCommits
<1>. QED
  BY <1>1, <1>2, <1>3

\* Every step keeps the types.
LEMMA TypeStep == TypeInv /\ [Next]_vars => TypeInv'
<1>. SUFFICES ASSUME TypeInv, [Next]_vars PROVE TypeInv'
  OBVIOUS
<1>1. CASE UNCHANGED vars
  BY <1>1 DEF vars, TypeInv, TypeOK, PoolsFinite, clientVars, queueVars, ackVars,
              listenVars, batchVars, historyVars, BP!BatchTypeOK
<1>2. CASE Next
  BY <1>2, TypeProcess, TypeFetch, TypeListen, TypeAck, TypeCommit, TypeGroup DEF Next
<1>. QED
  BY <1>1, <1>2

\* The variables keep their types in every behaviour, and every pool of an
\* offset tracker stays finite.
LEMMA TypeInvHolds == Spec => []TypeInv
BY TypeInit, TypeStep, PTL DEF Spec

\* The variables keep their types in every behaviour.
THEOREM TypeCorrect == Spec => []TypeOK
BY TypeInvHolds, PTL DEF TypeInv

-----------------------------------------------------------------------------
(***************************************************************************)
(* At least once.  AtLeastOnce speaks of the committed offset only; what   *)
(* makes it inductive is that everything on the way to a commit is safe    *)
(* already: the commits of the waiting and the handed-over batches, the    *)
(* next offset of every tracker, and the offset at which a tracker not yet *)
(* created would start.                                                    *)
(***************************************************************************)
\* The commits that may be carried out at any time from now on.
SafeCommits == {c \in Commit : Safe(c[1], c[2])}

\* The offsets a tracker counts as done are processed.
TrackerSafe(tp) ==
    offsetTrackers[tp] # Absent =>
        /\ Safe(tp, offsetTrackers[tp].next)
        /\ offsetTrackers[tp].pool \subseteq processed[tp]

\* A partition that has no tracker yet will get one that starts at the head
\* of its queue or, if that is empty, at the next record fetched.
StartSafe(tp) ==
    offsetTrackers[tp] = Absent =>
        /\ \A q \in queues[tp] : (\A p \in queues[tp] : q <= p) => Safe(tp, q)
        /\ Owned(tp) /\ queues[tp] = {} => Safe(tp, position[tp])

\* What is queued was fetched, so it lies below the fetch position.
QueueFetched(tp) == Owned(tp) => \A q \in queues[tp] : q < position[tp]

\* Until the client is closed, only an owned partition has a queue or a tracker.
OnlyOwned(tp) ==
    client # "closed" /\ ~Owned(tp) => queues[tp] = {} /\ offsetTrackers[tp] = Absent

\* Queues hold records of the log.
OnlyRecords ==
    /\ \A tp \in Partition : queues[tp] \subseteq Log[tp]
    /\ \A m \in waitingForCommit : m.offset \in Log[m.tp]

\* A message that may be acknowledged is processed.
HandledProcessed == \A m \in handled : m.offset \in processed[m.tp]

\* The client runs while the consumer does.
RunningClient == isRunning => client \in {"up", "rebalancing"}

Inv ==
    /\ TypeInv
    /\ AtLeastOnce
    /\ BatchesOf(SafeCommits)
    /\ \A tp \in Partition :
          TrackerSafe(tp) /\ StartSafe(tp) /\ QueueFetched(tp) /\ OnlyOwned(tp)
    /\ OnlyRecords
    /\ HandledProcessed
    /\ RunningClient

\* What every process has processed stays processed.
Monotone == \A tp \in Partition : processed[tp] \subseteq processed'[tp]

LEMMA SafeStaysSafe ==
    ASSUME Monotone
    PROVE  /\ \A tp \in Partition : \A k : Safe(tp, k) => Safe(tp, k)'
           /\ SafeCommits \subseteq SafeCommits'
<1>1. ASSUME NEW tp \in Partition, NEW k, Safe(tp, k) PROVE Safe(tp, k)'
  BY <1>1 DEF Safe, Monotone
<1>2. ASSUME NEW c \in SafeCommits PROVE c \in SafeCommits'
  BY <1>1 DEF SafeCommits, Commit
<1>. QED
  BY <1>1, <1>2

LEMMA BatchesStaySafe ==
    ASSUME Monotone, NEW b \in Seq(SafeCommits), NEW c \in Seq(Seq(SafeCommits))
    PROVE  b \in Seq(SafeCommits') /\ c \in Seq(Seq(SafeCommits'))
<1>1. SafeCommits \subseteq SafeCommits'
  BY SafeStaysSafe
<1>2. Seq(SafeCommits) \subseteq Seq(SafeCommits')
  BY <1>1, SeqMonotonic
<1>3. Seq(Seq(SafeCommits)) \subseteq Seq(Seq(SafeCommits'))
  BY <1>2, SeqMonotonic
<1>. QED
  BY <1>2, <1>3

LEMMA InvInit == Init => Inv
<1>. SUFFICES ASSUME Init PROVE Inv
  OBVIOUS
<1>1. TypeInv
  BY TypeInit
<1>2. AtLeastOnce
  BY LogAssumption DEF AtLeastOnce, Safe, Init
<1>3. BatchesOf(SafeCommits)
  BY EmptySeq DEF BatchesOf, Init, BP!BatchInit
<1>4. ASSUME NEW tp \in Partition
      PROVE  TrackerSafe(tp) /\ StartSafe(tp) /\ QueueFetched(tp) /\ OnlyOwned(tp)
  BY DEF Init, TrackerSafe, StartSafe, QueueFetched, OnlyOwned, Owned
<1>5. OnlyRecords /\ HandledProcessed /\ RunningClient
  BY DEF Init, OnlyRecords, HandledProcessed, RunningClient
<1>. QED
  BY <1>1, <1>2, <1>3, <1>4, <1>5 DEF Inv

\* A step that touches nothing the invariant speaks of, except that isRunning
\* may become FALSE.
LEMMA InvFrame ==
    ASSUME Inv, TypeInv',
           UNCHANGED <<clientVars, queues, offsetTrackers, waitingForCommit, batch, calls,
                       handled, processed>>,
           isRunning' => isRunning
    PROVE  Inv'
<1>. USE DEF clientVars
<1>1. AtLeastOnce' /\ BatchesOf(SafeCommits)'
  BY DEF Inv, AtLeastOnce, Safe, BatchesOf, SafeCommits
<1>2. ASSUME NEW tp \in Partition
      PROVE  (TrackerSafe(tp) /\ StartSafe(tp) /\ QueueFetched(tp) /\ OnlyOwned(tp))'
  BY DEF Inv, TrackerSafe, StartSafe, QueueFetched, OnlyOwned, Owned, Safe
<1>3. (OnlyRecords /\ HandledProcessed /\ RunningClient)'
  BY DEF Inv, OnlyRecords, HandledProcessed, RunningClient
<1>. QED
  BY <1>1, <1>2, <1>3 DEF Inv

LEMMA InvProcess ==
    ASSUME Inv, TypeInv', Start \/ Stop \/ CloseClient \/ Restart
    PROVE  Inv'
<1>. USE DEF clientVars, queueVars, ackVars, listenVars, batchVars, historyVars
<1>1. CASE Start
  <2>1. AtLeastOnce' /\ BatchesOf(SafeCommits)'
    BY <1>1 DEF Start, Inv, AtLeastOnce, Safe, BatchesOf, SafeCommits
  <2>2. ASSUME NEW tp \in Partition
        PROVE  (TrackerSafe(tp) /\ StartSafe(tp) /\ QueueFetched(tp) /\ OnlyOwned(tp))'
    BY <1>1 DEF Start, Inv, TrackerSafe, StartSafe, QueueFetched, OnlyOwned, Owned, Safe
  <2>3. (OnlyRecords /\ HandledProcessed /\ RunningClient)'
    BY <1>1 DEF Start, Inv, OnlyRecords, HandledProcessed, RunningClient
  <2>. QED
    BY <2>1, <2>2, <2>3 DEF Inv
<1>2. CASE Stop
  BY <1>2, InvFrame DEF Stop
<1>3. CASE CloseClient
  <2>1. AtLeastOnce' /\ BatchesOf(SafeCommits)'
    BY <1>3 DEF CloseClient, Inv, AtLeastOnce, Safe, BatchesOf, SafeCommits
  <2>2. ASSUME NEW tp \in Partition
        PROVE  (TrackerSafe(tp) /\ StartSafe(tp) /\ QueueFetched(tp) /\ OnlyOwned(tp))'
    BY <1>3 DEF CloseClient, Inv, TrackerSafe, StartSafe, QueueFetched, OnlyOwned, Owned,
                Safe
  <2>3. (OnlyRecords /\ HandledProcessed /\ RunningClient)'
    BY <1>3 DEF CloseClient, Inv, OnlyRecords, HandledProcessed, RunningClient
  <2>. QED
    BY <2>1, <2>2, <2>3 DEF Inv
<1>4. CASE Restart
  <2>1. AtLeastOnce' /\ BatchesOf(SafeCommits)'
    BY <1>4, EmptySeq DEF Restart, Inv, AtLeastOnce, Safe, BatchesOf, SafeCommits
  <2>2. ASSUME NEW tp \in Partition
        PROVE  (TrackerSafe(tp) /\ StartSafe(tp) /\ QueueFetched(tp) /\ OnlyOwned(tp))'
    BY <1>4 DEF Restart, TrackerSafe, StartSafe, QueueFetched, OnlyOwned, Owned
  <2>3. (OnlyRecords /\ HandledProcessed /\ RunningClient)'
    BY <1>4 DEF Restart, OnlyRecords, HandledProcessed, RunningClient
  <2>. QED
    BY <2>1, <2>2, <2>3 DEF Inv
<1>. QED
  BY <1>1, <1>2, <1>3, <1>4

\* What an owned partition has without a tracker, once it fetched the first of
\* the records up to hi: the head of its queue is still safe to start from.
LEMMA HeadSafe ==
    ASSUME Inv, NEW tp \in Partition, offsetTrackers[tp] = Absent, Owned(tp),
           NEW hi \in Log[tp], NEW new \in SUBSET Records(tp, hi),
           First(Records(tp, hi)) \in new,
           Records(tp, hi) # {},
           NEW q \in queues[tp] \cup new, \A p \in queues[tp] \cup new : q <= p
    PROVE  Safe(tp, q)
<1>. DEFINE records == Records(tp, hi)
<1>1. /\ hi \in Nat /\ Log[tp] \in SUBSET Nat /\ position[tp] \in Nat
      /\ queues[tp] \in SUBSET Nat /\ records \in SUBSET Nat
  BY LogAssumption, RecordsAreFinite DEF Inv, TypeInv, TypeOK
<1>2. StartSafe(tp) /\ QueueFetched(tp)
  BY DEF Inv
<1>3. \A r \in records : position[tp] <= r /\ r <= hi
  BY <1>1 DEF Records
<1>4. CASE queues[tp] = {}
  <2>1. First(records) \in records /\ \A r \in records : First(records) <= r
    BY <1>1, FirstIsLeast
  <2>2. q \in records /\ q <= First(records)
    BY <1>4
  <2>3. Safe(tp, position[tp])
    BY <1>2, <1>4 DEF StartSafe
  <2>4. ASSUME NEW o \in Log[tp], o < q PROVE o \in processed[tp]
    <3>1. o \notin records
      BY <1>1, <2>1, <2>2, <2>4
    <3>2. o < position[tp]
      BY <1>1, <1>3, <2>2, <2>4, <3>1 DEF Records
    <3>. QED
      BY <2>3, <3>2 DEF Safe
  <2>. QED
    BY <2>4 DEF Safe
<1>5. CASE queues[tp] # {}
  <2>1. q \in queues[tp]
    BY <1>1, <1>2, <1>3, <1>5 DEF QueueFetched
  <2>. QED
    BY <1>2, <2>1 DEF StartSafe
<1>. QED
  BY <1>4, <1>5

\* Fetching appends records that start where the queue or the fetched part of
\* the log ends.
LEMMA InvFetch ==
    ASSUME Inv, TypeInv',
           \/ FetchWake \/ FetchNothing \/ FetchRaises
           \/ \E tp \in Partition : \E hi \in Log[tp] :
                 FetchRecords(tp, hi) \/ FetchKeyError(tp, hi)
    PROVE  Inv'
<1>. USE DEF queueVars, ackVars, listenVars, batchVars, historyVars
<1>1. CASE FetchWake \/ FetchNothing \/ FetchRaises
  <2>1. UNCHANGED <<clientVars, isRunning, queues, offsetTrackers, waitingForCommit, batch,
                    calls, handled, processed>>
    <3>1. CASE FetchWake
      BY <3>1 DEF FetchWake
    <3>2. CASE FetchNothing
      BY <3>2 DEF FetchNothing
    <3>3. CASE FetchRaises
      BY <3>3 DEF FetchRaises
    <3>. QED
      BY <1>1, <3>1, <3>2, <3>3
  <2>. QED
    BY <2>1, InvFrame
<1>2. ASSUME NEW tp \in Partition, NEW hi \in Log[tp],
             FetchRecords(tp, hi) \/ FetchKeyError(tp, hi)
      PROVE  Inv'
  <2>1. /\ CanReturn(tp, hi)
        /\ UNCHANGED <<committed, assigned, client, isRunning, offsetTrackers,
                       waitingForCommit, batch, calls, handled, processed>>
    BY <1>2 DEF FetchRecords, FetchKeyError
  <2>2. /\ hi \in Records(tp, hi) /\ Records(tp, hi) \in SUBSET Nat /\ hi \in Nat
        /\ First(Records(tp, hi)) \in Records(tp, hi)
    BY <2>1, RecordsAreFinite, LogAssumption, FirstIsLeast DEF CanReturn, Inv, TypeInv
  <2>3. PICK new \in SUBSET Records(tp, hi) :
           /\ First(Records(tp, hi)) \in new
           /\ queues' = [queues EXCEPT ![tp] = @ \cup new]
    BY <1>2, <2>2 DEF FetchRecords, FetchKeyError, Enqueue
  <2>4. /\ position' = [position EXCEPT ![tp] = hi + 1]
        /\ client = "up" /\ tp \in assigned
    BY <2>1 DEF CanReturn
  <2>5. AtLeastOnce' /\ BatchesOf(SafeCommits)'
    BY <2>1 DEF Inv, AtLeastOnce, Safe, BatchesOf, SafeCommits
  <2>6. /\ queues \in [Partition -> SUBSET Nat] /\ position \in [Partition -> Nat]
        /\ \A p \in Partition :
              TrackerSafe(p) /\ StartSafe(p) /\ QueueFetched(p) /\ OnlyOwned(p)
    BY DEF Inv, TypeInv, TypeOK
  <2>7. ASSUME NEW p \in Partition, p # tp
        PROVE  (TrackerSafe(p) /\ StartSafe(p) /\ QueueFetched(p) /\ OnlyOwned(p))'
    BY <2>1, <2>3, <2>4, <2>6, <2>7
       DEF TrackerSafe, StartSafe, QueueFetched, OnlyOwned, Owned, Safe
  <2>8. (TrackerSafe(tp) /\ OnlyOwned(tp))'
    BY <2>1, <2>4, <2>6 DEF TrackerSafe, OnlyOwned, Owned, Safe
  <2>9. QueueFetched(tp)'
    <3>1. \A q \in queues[tp] : q < position[tp]
      BY <2>4, <2>6 DEF QueueFetched, Owned
    <3>2. position[tp] <= hi /\ \A r \in new : r <= hi
      BY <2>2, <2>6, LogAssumption DEF Records
    <3>3. \A q \in queues'[tp] : q < position'[tp]
      BY <2>2, <2>3, <2>4, <2>6, <3>1, <3>2
    <3>. QED
      BY <3>3 DEF QueueFetched
  <2>10. StartSafe(tp)'
    <3>1. queues'[tp] = queues[tp] \cup new /\ queues'[tp] # {}
      BY <2>3, <2>6
    <3>2. ASSUME offsetTrackers'[tp] = Absent,
                 NEW q \in queues'[tp], \A r \in queues'[tp] : q <= r
          PROVE  Safe(tp, q)'
      <4>1. Safe(tp, q)
        BY <2>1, <2>2, <2>3, <2>4, <3>1, <3>2, HeadSafe DEF Owned
      <4>. QED
        BY <2>1, <4>1 DEF Safe
    <3>. QED
      BY <3>1, <3>2 DEF StartSafe
  <2>11. OnlyRecords'
    BY <2>1, <2>3, <2>6 DEF Inv, OnlyRecords, Records
  <2>12. (HandledProcessed /\ RunningClient)'
    BY <2>1 DEF Inv, HandledProcessed, RunningClient
  <2>. QED
    BY <2>5, <2>7, <2>8, <2>9, <2>10, <2>11, <2>12 DEF Inv
<1>. QED
  BY <1>1, <1>2

\* What a yield does: the head of one queue leaves it for the handlers.
YieldAt(tp, offset) ==
    /\ offset \in queues[tp] /\ \A q \in queues[tp] : offset <= q
    /\ queues' = [queues EXCEPT ![tp] = @ \ {offset}]
    /\ offsetTrackers' = [offsetTrackers EXCEPT ![tp] = TrackerOf(tp, offset)]
    /\ waitingForCommit' = waitingForCommit \cup
         {[tp |-> tp, offset |-> offset, assignment |-> assignments[tp]]}

LEMMA YieldIsAtHead ==
    ASSUME TypeInv, ListenYield
    PROVE  \E tp \in Partition, offset \in Nat : YieldAt(tp, offset)
<1>1. PICK j \in 0 .. (Len(queueKeys) - 1) : queues[Turn(j)] # {} /\ Yield(Turn(j))
  BY DEF ListenYield
<1>2. /\ queueKeys \in Seq(Partition) /\ cycleIdx \in Nat
      /\ queues \in [Partition -> SUBSET Nat]
  BY DEF TypeInv, TypeOK
<1>3. Len(queueKeys) \in Nat /\ Len(queueKeys) > 0 /\ j \in Nat
  BY <1>1, <1>2, LenProperties
<1>4. ((cycleIdx + j) % Len(queueKeys)) + 1 \in 1 .. Len(queueKeys)
  BY <1>2, <1>3
<1>5. PICK tp \in Partition : queues[tp] # {} /\ Yield(tp)
  BY <1>1, <1>2, <1>4, ElementOfSeq DEF Turn
<1>6. PICK offset : offset = First(queues[tp])
  OBVIOUS
<1>7. /\ offset \in queues[tp] /\ offset \in Nat
      /\ \A q \in queues[tp] : offset <= q
  BY <1>2, <1>5, <1>6, FirstIsLeast
<1>. QED
  BY <1>5, <1>6, <1>7 DEF Yield, YieldAt

\* listen() starts a tracker at the head of a queue, which is safe to start from.
LEMMA InvListen ==
    ASSUME Inv, TypeInv', ListenYield \/ ListenIdle \/ ListenWait \/ ListenEnds
    PROVE  Inv'
<1>. USE DEF queueVars, ackVars, listenVars, batchVars, historyVars
<1>1. CASE ListenIdle \/ ListenWait \/ ListenEnds
  BY <1>1, InvFrame DEF ListenIdle, ListenWait, ListenEnds, clientVars
<1>2. CASE ListenYield
  <2>1. PICK tp \in Partition, offset \in Nat : YieldAt(tp, offset)
    BY <1>2, YieldIsAtHead DEF Inv
  <2>2. /\ queues \in [Partition -> SUBSET Nat] /\ queues[tp] # {}
        /\ offsetTrackers \in [Partition -> Tracker \cup {Absent}]
        /\ \A p \in Partition :
              TrackerSafe(p) /\ StartSafe(p) /\ QueueFetched(p) /\ OnlyOwned(p)
    BY <2>1 DEF YieldAt, Inv, TypeInv, TypeOK
  <2>3. offset \in queues[tp] /\ offset \in Nat /\ \A q \in queues[tp] : offset <= q
    BY <2>1 DEF YieldAt
  <2>4. /\ queues' = [queues EXCEPT ![tp] = @ \ {offset}]
        /\ offsetTrackers' = [offsetTrackers EXCEPT ![tp] = TrackerOf(tp, offset)]
        /\ waitingForCommit' = waitingForCommit \cup
             {[tp |-> tp, offset |-> offset, assignment |-> assignments[tp]]}
    BY <2>1 DEF YieldAt
  <2>5. UNCHANGED <<clientVars, isRunning, batch, calls, handled, processed>>
    BY <1>2 DEF ListenYield
  <2>6. AtLeastOnce' /\ BatchesOf(SafeCommits)'
    BY <2>5 DEF Inv, AtLeastOnce, Safe, BatchesOf, SafeCommits, clientVars
  <2>7. ASSUME NEW p \in Partition, p # tp
        PROVE  (TrackerSafe(p) /\ StartSafe(p) /\ QueueFetched(p) /\ OnlyOwned(p))'
    BY <2>2, <2>4, <2>5, <2>7
       DEF TrackerSafe, StartSafe, QueueFetched, OnlyOwned, Owned, Safe, clientVars
  <2>8. offsetTrackers'[tp] = TrackerOf(tp, offset) /\ TrackerOf(tp, offset) # Absent
    BY <2>2, <2>3, <2>4, NamesAssumption DEF TrackerOf, NewTracker, Tracker
  <2>9. (StartSafe(tp) /\ QueueFetched(tp) /\ OnlyOwned(tp))'
    BY <2>2, <2>3, <2>4, <2>5, <2>8
       DEF StartSafe, QueueFetched, OnlyOwned, Owned, clientVars
  <2>10. TrackerSafe(tp)'
    <3>1. CASE offsetTrackers[tp] = Absent
      <4>1. Safe(tp, offset)
        BY <2>2, <2>3, <3>1 DEF StartSafe
      <4>2. offsetTrackers'[tp].next = offset /\ offsetTrackers'[tp].pool = {}
        BY <2>8, <3>1 DEF TrackerOf, NewTracker
      <4>. QED
        BY <2>5, <4>1, <4>2 DEF TrackerSafe, Safe
    <3>2. CASE offsetTrackers[tp] # Absent
      BY <2>2, <2>5, <2>8, <3>2 DEF TrackerSafe, Safe, TrackerOf
    <3>. QED
      BY <3>1, <3>2
  <2>11. OnlyRecords'
    <3>1. \A p \in Partition : queues'[p] \subseteq queues[p]
      BY <2>2, <2>4
    <3>2. offset \in Log[tp]
      BY <2>3 DEF Inv, OnlyRecords
    <3>. QED
      BY <2>4, <3>1, <3>2 DEF Inv, OnlyRecords
  <2>12. (HandledProcessed /\ RunningClient)'
    BY <2>5 DEF Inv, HandledProcessed, RunningClient, clientVars
  <2>. QED
    BY <2>6, <2>7, <2>9, <2>10, <2>11, <2>12 DEF Inv
<1>. QED
  BY <1>1, <1>2

\* A handler's end makes more offsets safe.  An acknowledgement moves the
\* tracker, and brings a commit into the batch, over processed offsets only.
LEMMA InvAck ==
    ASSUME Inv, TypeInv',
           NEW m \in waitingForCommit, Handle(m) \/ AckDropped(m) \/ AckCounted(m)
    PROVE  Inv'
<1>. USE DEF queueVars, ackVars, listenVars, batchVars, historyVars
<1>1. /\ m \in Message /\ m.tp \in Partition /\ m.offset \in Nat
      /\ handled \subseteq waitingForCommit /\ waitingForCommit \subseteq Message
      /\ processed \in [Partition -> SUBSET Nat]
      /\ offsetTrackers \in [Partition -> Tracker \cup {Absent}]
      /\ BatchesOf(SafeCommits) /\ Timers
      /\ \A p \in Partition :
            TrackerSafe(p) /\ StartSafe(p) /\ QueueFetched(p) /\ OnlyOwned(p)
  BY DEF Inv, TypeInv, TypeOK, BP!BatchTypeOK, Timers, Message
<1>2. CASE Handle(m)
  <2>1. /\ UNCHANGED <<clientVars, isRunning, queues, offsetTrackers, waitingForCommit,
                       batch, calls>>
        /\ handled' = handled \cup {m}
        /\ processed' = [processed EXCEPT ![m.tp] = @ \cup {m.offset}]
    BY <1>2 DEF Handle
  <2>2. Monotone
    BY <1>1, <2>1 DEF Monotone
  <2>3. AtLeastOnce'
    BY <2>1, <2>2, SafeStaysSafe DEF Inv, AtLeastOnce, Safe, clientVars
  <2>4. BatchesOf(SafeCommits)'
    BY <1>1, <2>1, <2>2, BatchesStaySafe DEF BatchesOf
  <2>5. ASSUME NEW p \in Partition
        PROVE  (TrackerSafe(p) /\ StartSafe(p) /\ QueueFetched(p) /\ OnlyOwned(p))'
    BY <1>1, <2>1, <2>2
       DEF TrackerSafe, StartSafe, QueueFetched, OnlyOwned, Owned, Safe, clientVars, Monotone
  <2>6. (OnlyRecords /\ RunningClient)'
    BY <2>1 DEF Inv, OnlyRecords, RunningClient, clientVars
  <2>7. HandledProcessed'
    BY <1>1, <2>1, <2>2 DEF Inv, HandledProcessed, Message, Monotone
  <2>. QED
    BY <2>3, <2>4, <2>5, <2>6, <2>7 DEF Inv
<1>3. CASE AckDropped(m)
  <2>1. /\ UNCHANGED <<clientVars, isRunning, queues, offsetTrackers, batch, calls, processed>>
        /\ waitingForCommit' = waitingForCommit \ {m}
        /\ handled' = handled \ {m}
    BY <1>3 DEF AckDropped
  <2>2. AtLeastOnce' /\ BatchesOf(SafeCommits)'
    BY <2>1 DEF Inv, AtLeastOnce, Safe, BatchesOf, SafeCommits, clientVars
  <2>3. ASSUME NEW p \in Partition
        PROVE  (TrackerSafe(p) /\ StartSafe(p) /\ QueueFetched(p) /\ OnlyOwned(p))'
    BY <1>1, <2>1 DEF TrackerSafe, StartSafe, QueueFetched, OnlyOwned, Owned, Safe, clientVars
  <2>4. (OnlyRecords /\ HandledProcessed /\ RunningClient)'
    BY <2>1 DEF Inv, OnlyRecords, HandledProcessed, RunningClient, clientVars
  <2>. QED
    BY <2>2, <2>3, <2>4 DEF Inv
<1>4. CASE AckCounted(m)
  <2>. DEFINE tracker == offsetTrackers[m.tp]
              marked == MarkProcessed(tracker, m.offset)
  <2>1. /\ tracker # Absent
        /\ m \in handled
        /\ UNCHANGED <<clientVars, isRunning, queues, processed>>
        /\ waitingForCommit' = waitingForCommit \ {m}
        /\ handled' = handled \ {m}
        /\ offsetTrackers' = [offsetTrackers EXCEPT ![m.tp] = marked]
        /\ BP!Add(<<m.tp, marked.next>>) \/ UNCHANGED <<batch, calls>>
    BY <1>4 DEF AckCounted, MayAck
  <2>2. tracker \in Tracker /\ IsFiniteSet(tracker.pool)
    BY <1>1, <2>1 DEF Inv, TypeInv, PoolsFinite
  <2>3. /\ marked \in Tracker /\ marked.next >= tracker.next
        /\ tracker.next .. (marked.next - 1) \subseteq tracker.pool \cup {m.offset}
        /\ marked.pool \subseteq tracker.pool \cup {m.offset}
    BY <1>1, <2>2, MarkProcessedMovesOverAcknowledged
  <2>4. /\ tracker.next \in Nat /\ marked.next \in Nat
        /\ Safe(m.tp, tracker.next)
        /\ tracker.pool \cup {m.offset} \subseteq processed[m.tp]
    BY <1>1, <2>1, <2>2, <2>3 DEF TrackerSafe, Tracker, HandledProcessed, Inv
  <2>5. Safe(m.tp, marked.next)
    <3>1. ASSUME NEW o \in Log[m.tp], o < marked.next PROVE o \in processed[m.tp]
      <4>1. o \in Nat
        BY <1>1, LogAssumption
      <4>2. CASE o < tracker.next
        BY <2>4, <4>2 DEF Safe
      <4>3. CASE o >= tracker.next
        BY <2>3, <2>4, <3>1, <4>1, <4>3
      <4>. QED
        BY <2>4, <4>1, <4>2, <4>3
    <3>. QED
      BY <3>1 DEF Safe
  <2>6. AtLeastOnce'
    BY <2>1 DEF Inv, AtLeastOnce, Safe, clientVars
  <2>7. BatchesOf(SafeCommits)'
    <3>1. <<m.tp, marked.next>> \in SafeCommits
      BY <1>1, <2>4, <2>5 DEF SafeCommits, Commit
    <3>2. batch' \in Seq(SafeCommits) /\ calls' \in Seq(Seq(SafeCommits))
      BY <1>1, <2>1, <3>1, AddKeepsItems DEF BatchesOf
    <3>3. SafeCommits' = SafeCommits
      BY <2>1 DEF SafeCommits, Safe
    <3>. QED
      BY <3>2, <3>3 DEF BatchesOf
  <2>8. ASSUME NEW p \in Partition
        PROVE  TrackerSafe(p)'
    <3>1. CASE p = m.tp
      <4>1. offsetTrackers'[p] = marked
        BY <1>1, <2>1, <3>1
      <4>2. /\ offsetTrackers'[p].pool \subseteq processed'[p]
            /\ \A o \in Log[p] : o < offsetTrackers'[p].next => o \in processed'[p]
        BY <2>1, <2>3, <2>4, <2>5, <3>1, <4>1 DEF Safe
      <4>. QED
        BY <4>2 DEF TrackerSafe, Safe
    <3>2. CASE p # m.tp
      BY <1>1, <2>1, <3>2 DEF TrackerSafe, Safe
    <3>. QED
      BY <3>1, <3>2
  <2>9. ASSUME NEW p \in Partition
         PROVE  (StartSafe(p) /\ QueueFetched(p) /\ OnlyOwned(p))'
    <3>1. offsetTrackers'[p] = Absent <=> offsetTrackers[p] = Absent
      BY <1>1, <2>1, <2>3, NamesAssumption
    <3>. QED
      BY <1>1, <2>1, <3>1 DEF StartSafe, QueueFetched, OnlyOwned, Owned, Safe, clientVars
  <2>10. (OnlyRecords /\ HandledProcessed /\ RunningClient)'
    BY <2>1 DEF Inv, OnlyRecords, HandledProcessed, RunningClient, clientVars
  <2>. QED
    BY <2>6, <2>7, <2>8, <2>9, <2>10 DEF Inv
<1>. QED
  BY <1>2, <1>3, <1>4

\* What a commit writes is one of the safe commits of its batch.
LEMMA CommitWritesSafeOffsets ==
    ASSUME Inv, CommitSucceeds, NEW tp \in Partition, committed'[tp] # committed[tp]
    PROVE  Safe(tp, committed'[tp])
<1>. DEFINE items == Head(calls)
<1>1. items \in Seq(SafeCommits)
  BY HeadTailProperties DEF BatchesOf, CommitSucceeds, Inv
<1>2. items \in Seq(Commit)
  BY <1>1, SeqMonotonic DEF SafeCommits
<1>3. /\ \E i \in DOMAIN items : items[i][1] = tp
      /\ committed'[tp] = items[KeptEntry(items, tp)][2]
  BY DEF CommitSucceeds
<1>4. /\ KeptEntry(items, tp) \in DOMAIN items
      /\ items[KeptEntry(items, tp)][1] = tp
  BY <1>2, <1>3, KeptEntryIsAnEntry
<1>5. items[KeptEntry(items, tp)] \in SafeCommits
  BY <1>1, <1>4, ElementOfSeq, LenProperties
<1>. QED
  BY <1>3, <1>4, <1>5 DEF SafeCommits

\* Only safe commits travel through the batches, and only they are written.
LEMMA InvCommit ==
    ASSUME Inv, TypeInv', TimerFires \/ CommitSucceeds \/ CommitFails
    PROVE  Inv'
<1>. USE DEF queueVars, ackVars, listenVars, historyVars
<1>1. /\ UNCHANGED <<position, assigned, client, isRunning, queues, offsetTrackers,
                     waitingForCommit, handled, processed>>
      /\ ~CommitSucceeds => UNCHANGED committed
  BY DEF TimerFires, CommitSucceeds, CommitFails, clientVars
<1>2. BatchesOf(SafeCommits) /\ Timers
  BY DEF Inv, TypeInv, TypeOK, BP!BatchTypeOK, Timers
<1>3. batch' \in Seq(SafeCommits) /\ calls' \in Seq(Seq(SafeCommits))
  <2>1. CASE TimerFires
    BY <1>2, <2>1, TimerKeepsItems DEF TimerFires
  <2>2. CASE CommitSucceeds \/ CommitFails
    BY <1>2, <2>2, HandlerKeepsItems DEF CommitSucceeds, CommitFails
  <2>. QED
    BY <2>1, <2>2
<1>4. BatchesOf(SafeCommits)'
  <2>1. SafeCommits' = SafeCommits
    BY <1>1 DEF SafeCommits, Safe
  <2>. QED
    BY <1>3, <2>1 DEF BatchesOf
<1>5. AtLeastOnce'
  <2>1. ASSUME NEW tp \in Partition PROVE Safe(tp, committed'[tp])
    <3>1. CASE committed'[tp] = committed[tp]
      BY <3>1 DEF Inv, AtLeastOnce
    <3>2. CASE committed'[tp] # committed[tp]
      BY <1>1, <3>2, CommitWritesSafeOffsets
    <3>. QED
      BY <3>1, <3>2
  <2>. QED
    BY <1>1, <2>1 DEF AtLeastOnce, Safe
<1>6. ASSUME NEW tp \in Partition
      PROVE  (TrackerSafe(tp) /\ StartSafe(tp) /\ QueueFetched(tp) /\ OnlyOwned(tp))'
  BY <1>1 DEF Inv, TrackerSafe, StartSafe, QueueFetched, OnlyOwned, Owned, Safe
<1>7. (OnlyRecords /\ HandledProcessed /\ RunningClient)'
  BY <1>1 DEF Inv, OnlyRecords, HandledProcessed, RunningClient
<1>. QED
  BY <1>4, <1>5, <1>6, <1>7 DEF Inv

\* A new assignment starts at the committed offsets, with no queue and no
\* tracker left of the one before.
LEMMA InvGroup ==
    ASSUME Inv, TypeInv',
           \/ Revoke
           \/ \E owned \in SUBSET Partition : Assign(owned)
           \/ \E tp \in Partition : \E o \in 1 .. LogEnd[tp] : PeerCommits(tp, o)
    PROVE  Inv'
<1>. USE DEF queueVars, ackVars, listenVars, batchVars
<1>1. /\ queues \in [Partition -> SUBSET Nat] /\ position \in [Partition -> Nat]
      /\ processed \in [Partition -> SUBSET Nat] /\ committed \in [Partition -> Nat]
      /\ waitingForCommit \subseteq Message /\ handled \subseteq waitingForCommit
      /\ \A p \in Partition :
            TrackerSafe(p) /\ StartSafe(p) /\ QueueFetched(p) /\ OnlyOwned(p)
  BY DEF Inv, TypeInv, TypeOK
<1>2. CASE Revoke
  <2>1. /\ client = "up" /\ client' = "rebalancing"
        /\ UNCHANGED <<committed, position, assigned, isRunning, waitingForCommit, batch,
                       calls, handled, processed>>
    BY <1>2 DEF Revoke
  <2>2. \A p \in Partition : queues'[p] = {} /\ offsetTrackers'[p] = Absent
    BY <1>1, <1>2 DEF Revoke, DropQueues, OnlyOwned, Owned
  <2>3. AtLeastOnce' /\ BatchesOf(SafeCommits)'
    BY <2>1 DEF Inv, AtLeastOnce, Safe, BatchesOf, SafeCommits
  <2>4. ASSUME NEW p \in Partition
        PROVE  (TrackerSafe(p) /\ StartSafe(p) /\ QueueFetched(p) /\ OnlyOwned(p))'
    BY <2>1, <2>2 DEF TrackerSafe, StartSafe, QueueFetched, OnlyOwned, Owned
  <2>5. (OnlyRecords /\ HandledProcessed /\ RunningClient)'
    BY <2>1, <2>2 DEF Inv, OnlyRecords, HandledProcessed, RunningClient
  <2>. QED
    BY <2>3, <2>4, <2>5 DEF Inv
<1>3. ASSUME NEW owned \in SUBSET Partition, Assign(owned) PROVE Inv'
  <2>1. /\ client = "rebalancing" /\ client' = "up" /\ assigned' = owned
        /\ position' = [p \in Partition |->
                          IF p \in owned THEN committed[p] ELSE position[p]]
        /\ UNCHANGED <<committed, isRunning, queues, offsetTrackers, waitingForCommit,
                       batch, calls, handled, processed>>
    BY <1>3 DEF Assign
  <2>2. \A p \in Partition : queues'[p] = {} /\ offsetTrackers'[p] = Absent
    BY <1>1, <2>1 DEF OnlyOwned, Owned
  <2>3. AtLeastOnce' /\ BatchesOf(SafeCommits)'
    BY <2>1 DEF Inv, AtLeastOnce, Safe, BatchesOf, SafeCommits
  <2>4. ASSUME NEW p \in Partition PROVE StartSafe(p)'
    <3>1. CASE p \in owned
      <4>1. position'[p] = committed[p] /\ Safe(p, committed[p])
        BY <2>1, <3>1 DEF Inv, AtLeastOnce
      <4>. QED
        BY <2>1, <2>2, <4>1 DEF StartSafe, Safe
    <3>2. CASE p \notin owned
      BY <2>1, <2>2, <3>2 DEF StartSafe, Owned
    <3>. QED
      BY <3>1, <3>2
  <2>5. ASSUME NEW p \in Partition
        PROVE  (TrackerSafe(p) /\ QueueFetched(p) /\ OnlyOwned(p))'
    BY <2>2 DEF TrackerSafe, QueueFetched, OnlyOwned
  <2>6. (OnlyRecords /\ HandledProcessed /\ RunningClient)'
    BY <2>1 DEF Inv, OnlyRecords, HandledProcessed, RunningClient
  <2>. QED
    BY <2>3, <2>4, <2>5, <2>6 DEF Inv
<1>4. ASSUME NEW tp \in Partition, NEW o \in 1 .. LogEnd[tp], PeerCommits(tp, o)
      PROVE  Inv'
  <2>1. /\ UNCHANGED <<position, assigned, client, isRunning, queues, offsetTrackers,
                       waitingForCommit, batch, calls, handled>>
        /\ committed' = [committed EXCEPT ![tp] = o]
        /\ processed' = [processed EXCEPT ![tp] = @ \cup {r \in Log[tp] : r < o}]
    BY <1>4 DEF PeerCommits
  <2>2. Monotone
    BY <1>1, <2>1 DEF Monotone
  <2>3. AtLeastOnce'
    <3>1. ASSUME NEW p \in Partition, NEW r \in Log[p], r < committed'[p]
          PROVE  r \in processed'[p]
      <4>1. CASE p = tp
        BY <1>1, <2>1, <3>1, <4>1, LogAssumption
      <4>2. CASE p # tp
        BY <1>1, <2>1, <2>2, <3>1, <4>2 DEF Safe, Inv, AtLeastOnce, Monotone
      <4>. QED
        BY <4>1, <4>2
    <3>. QED
      BY <3>1 DEF AtLeastOnce, Safe
  <2>4. BatchesOf(SafeCommits)'
    BY <2>1, <2>2, BatchesStaySafe DEF Inv, BatchesOf
  <2>5. ASSUME NEW p \in Partition
        PROVE  (TrackerSafe(p) /\ StartSafe(p) /\ QueueFetched(p) /\ OnlyOwned(p))'
    BY <1>1, <2>1, <2>2
       DEF TrackerSafe, StartSafe, QueueFetched, OnlyOwned, Owned, Safe, Monotone
  <2>6. HandledProcessed'
    BY <1>1, <2>1, <2>2 DEF Inv, HandledProcessed, Message, Monotone
  <2>7. (OnlyRecords /\ RunningClient)'
    BY <2>1 DEF Inv, OnlyRecords, RunningClient
  <2>. QED
    BY <2>3, <2>4, <2>5, <2>6, <2>7 DEF Inv
<1>. QED
  BY <1>2, <1>3, <1>4

LEMMA InvStep == Inv /\ [Next]_vars => Inv'
<1>. SUFFICES ASSUME Inv, [Next]_vars PROVE Inv'
  OBVIOUS
<1>1. TypeInv'
  BY TypeStep DEF Inv
<1>2. CASE UNCHANGED vars
  BY <1>1, <1>2, InvFrame DEF vars, queueVars, ackVars, batchVars, historyVars
<1>3. CASE Next
  BY <1>1, <1>3, InvProcess, InvFetch, InvListen, InvAck, InvCommit, InvGroup DEF Next
<1>. QED
  BY <1>2, <1>3

LEMMA InvHolds == Spec => []Inv
BY InvInit, InvStep, PTL DEF Spec

\* A committed offset never passes a record whose handler did not end, for
\* every number of partitions, every log, limit and batch size, and however
\* many rebalances, restarts, failed commits and failed fetches there are.
THEOREM CommitsAtLeastOnce == Spec => []AtLeastOnce
<1>1. Inv => AtLeastOnce
  BY DEF Inv
<1>. QED
  BY <1>1, InvHolds, PTL

\* A running consumer holds no queue and no tracker of a partition it does not own.
THEOREM RevocationForgets == Spec => []RevokedIsForgotten
<1>1. Inv => RevokedIsForgotten
  BY DEF Inv, RevokedIsForgotten, RunningClient, OnlyOwned
<1>. QED
  BY <1>1, InvHolds, PTL

-----------------------------------------------------------------------------
(***************************************************************************)
(* Nothing is forgotten.  While the consumer runs and its fetch task lives *)
(* a queue has no holes and its partition is counted; the tracker that     *)
(* listen() starts at the head of a queue therefore has everything from    *)
(* there to the fetch position before it.                                  *)
(***************************************************************************)
Fetching == isRunning /\ fetch.pc # "dead"

\* A filled queue comes with the event set, or with a pass that will set it.
WakeupComing ==
    (\E tp \in Partition : queues[tp] # {}) /\ isRunning =>
        \/ isDataAvailable
        \/ fetch.pc = "getmany" /\ fetch.any
        \/ fetch.pc = "dead"

\* From each offset it holds up to the fetch position, a queue holds every record.
QueueComplete(tp) ==
    Fetching => \A q \in queues[tp] : \A o \in Log[tp] :
        q <= o /\ o < position[tp] => o \in queues[tp]

\* A partition with a queue or a tracker has a count.
Counted(tp) ==
    Fetching /\ (queues[tp] # {} \/ offsetTrackers[tp] # Absent) => inFlightCount[tp] # Absent

\* NoMessageForgotten, for one partition.
Delivered(tp, o) ==
    [tp |-> tp, offset |-> o, assignment |-> assignments[tp]] \in waitingForCommit

NoneForgotten(tp) ==
    Owned(tp) /\ Fetching /\ offsetTrackers[tp] # Absent =>
        \A o \in Log[tp] : offsetTrackers[tp].next <= o /\ o < position[tp] =>
            o \in queues[tp] \/ o \in offsetTrackers[tp].pool \/ Delivered(tp, o)

Complete(tp) == QueueComplete(tp) /\ Counted(tp) /\ NoneForgotten(tp)

LiveInv == WakeupComing /\ \A tp \in Partition : Complete(tp)

\* What a pass of the fetch loop leaves behind: no count is lost, the event is
\* not cleared, and a pass that fetched something sets it or goes on to do so.
LEMMA PassKeeps ==
    ASSUME isDataAvailable \in BOOLEAN,
           NEW counts \in [Partition -> Int \cup {Absent}],
           NEW todo \in SUBSET Partition, NEW any \in BOOLEAN,
           ContinuePass(counts, todo, any)
    PROVE  /\ isDataAvailable => isDataAvailable'
           /\ any => isDataAvailable' \/ (fetch'.pc = "getmany" /\ fetch'.any)
           /\ \A p \in Partition :
                 /\ counts[p] # Absent => inFlightCount'[p] = counts[p]
                 /\ counts[p] = Absent => inFlightCount'[p] \in {Absent, 0}
           /\ fetch'.pc = "getmany" =>
                 /\ fetch'.tp \in Partition
                 /\ inFlightCount'[fetch'.tp] # Absent
                 /\ inFlightCount'[fetch'.tp] + fetch'.max = InFlightLimit
<1>. DEFINE full == {tp \in todo : Room(counts[tp]) <= 0}
<1>1. ASSUME NEW tp \in todo \ full, NEW skipped \in SUBSET full,
             inFlightCount' = [counts EXCEPT ![tp] = IF @ = Absent THEN 0 ELSE @],
             fetch' = [pc |-> "getmany", tp |-> tp, max |-> Room(counts[tp]),
                       todo |-> todo \ (skipped \cup {tp}), any |-> any],
             UNCHANGED isDataAvailable
      PROVE  /\ isDataAvailable => isDataAvailable'
             /\ any => isDataAvailable' \/ (fetch'.pc = "getmany" /\ fetch'.any)
             /\ \A p \in Partition :
                   /\ counts[p] # Absent => inFlightCount'[p] = counts[p]
                   /\ counts[p] = Absent => inFlightCount'[p] \in {Absent, 0}
             /\ fetch'.tp \in Partition
             /\ inFlightCount'[fetch'.tp] # Absent
             /\ inFlightCount'[fetch'.tp] + fetch'.max = InFlightLimit
  <2>1. tp \in Partition /\ fetch'.tp = tp /\ fetch'.max = Room(counts[tp])
    BY <1>1
  <2>2. inFlightCount'[tp] = IF counts[tp] = Absent THEN 0 ELSE counts[tp]
    BY <1>1, <2>1
  <2>3. inFlightCount'[tp] # Absent /\ inFlightCount'[tp] \in Int
    BY <2>1, <2>2, NamesAssumption
  <2>4. inFlightCount'[tp] + Room(counts[tp]) = InFlightLimit
    BY <2>2, <2>3, LimitAssumption DEF Room
  <2>. QED
    BY <1>1, <2>1, <2>2, <2>3, <2>4
<1>2. CASE /\ inFlightCount' = counts
           /\ fetch' = FetchAt("sleep")
           /\ isDataAvailable' = Signal(isDataAvailable, any)
  BY <1>2 DEF Signal, FetchAt
<1>. QED
  BY <1>1, <1>2 DEF ContinuePass

\* A step that leaves queues, trackers and messages alone.
LEMMA LiveFrame ==
    ASSUME LiveInv,
           UNCHANGED <<client, assigned, position, queues, offsetTrackers, waitingForCommit,
                       assignments>>,
           isRunning' => isRunning,
           Fetching' => Fetching,
           \A tp \in Partition : inFlightCount'[tp] = Absent => inFlightCount[tp] = Absent,
           isRunning' =>
              \/ isDataAvailable => isDataAvailable'
              \/ \A tp \in Partition : queues[tp] = {},
           fetch.pc = "getmany" /\ fetch.any =>
              \/ isDataAvailable'
              \/ fetch'.pc = "getmany" /\ fetch'.any
              \/ fetch'.pc = "dead"
              \/ ~isRunning',
           fetch.pc = "dead" => fetch'.pc = "dead"
    PROVE  LiveInv'
<1>1. WakeupComing'
  BY DEF LiveInv, WakeupComing
<1>2. ASSUME NEW tp \in Partition PROVE Complete(tp)'
  BY DEF LiveInv, Complete, QueueComplete, Counted, NoneForgotten, Owned, Delivered
<1>. QED
  BY <1>1, <1>2 DEF LiveInv

\* A step after which nothing is queued or tracked, or the consumer is off.
LEMMA NothingHeld ==
    ASSUME \/ ~isRunning'
           \/ \A tp \in Partition : queues'[tp] = {} /\ offsetTrackers'[tp] = Absent
    PROVE  LiveInv'
BY DEF LiveInv, WakeupComing, Complete, QueueComplete, Counted, NoneForgotten, Fetching

LEMMA LiveProcess ==
    ASSUME Inv, LiveInv, Start \/ Stop \/ CloseClient \/ Restart
    PROVE  LiveInv'
<1>1. CASE Start
  <2>1. \A tp \in Partition : queues'[tp] = {} /\ offsetTrackers'[tp] = Absent
    BY <1>1 DEF Start, Inv, OnlyOwned, Owned, ackVars
  <2>. QED
    BY <2>1, NothingHeld
<1>2. CASE Stop \/ CloseClient \/ Restart
  <2>1. ~isRunning'
    BY <1>2 DEF Stop, CloseClient, Restart
  <2>. QED
    BY <2>1, NothingHeld
<1>. QED
  BY <1>1, <1>2

LEMMA LiveFetch ==
    ASSUME Inv, LiveInv,
           \/ FetchWake \/ FetchNothing \/ FetchRaises
           \/ \E tp \in Partition : \E hi \in Log[tp] :
                 FetchRecords(tp, hi) \/ FetchKeyError(tp, hi)
    PROVE  LiveInv'
<1>. USE DEF queueVars, ackVars, listenVars, batchVars, clientVars, historyVars
<1>1. /\ inFlightCount \in [Partition -> Int \cup {Absent}]
      /\ isDataAvailable \in BOOLEAN
      /\ assigned \in SUBSET Partition
      /\ fetch \in FetchState
      /\ queues \in [Partition -> SUBSET Nat] /\ position \in [Partition -> Nat]
  BY DEF Inv, TypeInv, TypeOK
<1>2. fetch.todo \in SUBSET Partition /\ fetch.any \in BOOLEAN
  BY <1>1 DEF FetchState
<1>3. CASE FetchWake \/ FetchNothing
  <2>1. /\ UNCHANGED <<client, assigned, position, queues, offsetTrackers,
                       waitingForCommit, assignments, isRunning>>
        /\ fetch.pc # "dead"
    BY <1>3 DEF FetchWake, FetchNothing
  <2>2. PICK counts \in [Partition -> Int \cup {Absent}], todo \in SUBSET Partition,
             any \in BOOLEAN :
          /\ counts = inFlightCount
          /\ ContinuePass(counts, todo, any)
          /\ fetch.pc = "getmany" => any = fetch.any
    BY <1>1, <1>2, <1>3 DEF FetchWake, FetchNothing
  <2>3. /\ isDataAvailable => isDataAvailable'
        /\ any => isDataAvailable' \/ (fetch'.pc = "getmany" /\ fetch'.any)
        /\ \A p \in Partition : counts[p] # Absent => inFlightCount'[p] = counts[p]
    BY <1>1, <2>2, PassKeeps
  <2>4. Fetching' => Fetching
    BY <2>1 DEF Fetching
  <2>. QED
    BY <2>1, <2>2, <2>3, <2>4, LiveFrame
<1>4. CASE FetchRaises
  <2>1. fetch'.pc = "dead" /\ fetch.pc = "getmany"
    BY <1>4 DEF FetchRaises, FetchAt
  <2>2. Fetching' => Fetching
    BY <2>1 DEF Fetching
  <2>. QED
    BY <1>4, <2>1, <2>2, LiveFrame DEF FetchRaises
<1>5. ASSUME NEW tp \in Partition, NEW hi \in Log[tp], FetchRecords(tp, hi)
      PROVE  LiveInv'
  <2>1. /\ position' = [position EXCEPT ![tp] = hi + 1]
        /\ queues' = [queues EXCEPT ![tp] = @ \cup Records(tp, hi)]
        /\ UNCHANGED <<client, assigned, offsetTrackers, waitingForCommit, assignments,
                       isRunning>>
        /\ fetch.pc = "getmany" /\ Owned(tp) /\ inFlightCount[tp] # Absent
    BY <1>5 DEF FetchRecords, CanReturn, Enqueue, Owned
  <2>2. hi \in Nat /\ Log[tp] \in SUBSET Nat /\ Cardinality(Records(tp, hi)) \in Nat
    BY LogAssumption, RecordsAreFinite DEF Inv, TypeInv
  <2>. DEFINE counts == [inFlightCount EXCEPT ![tp] = @ + Cardinality(Records(tp, hi))]
  <2>3. counts \in [Partition -> Int \cup {Absent}] /\ ContinuePass(counts, fetch.todo, TRUE)
    <3>1. counts \in [Partition -> Int \cup {Absent}]
      BY <1>1, <2>1, <2>2
    <3>2. ContinuePass(counts, fetch.todo, TRUE)
      BY <1>5 DEF FetchRecords
    <3>. QED
      BY <3>1, <3>2
  <2>4. /\ isDataAvailable' \/ (fetch'.pc = "getmany" /\ fetch'.any)
        /\ \A p \in Partition : counts[p] # Absent => inFlightCount'[p] = counts[p]
    BY <1>1, <1>2, <2>3, PassKeeps
  <2>5. WakeupComing'
    BY <2>4 DEF WakeupComing
  <2>6. counts[tp] \in Int /\ counts[tp] # Absent
    BY <1>1, <2>1, <2>2, <2>3, NamesAssumption
  <2>7. \A p \in Partition : inFlightCount[p] # Absent => inFlightCount'[p] # Absent
    BY <1>1, <2>3, <2>4, <2>6
  <2>8. Fetching' => Fetching
    BY <2>1 DEF Fetching
  <2>9. ASSUME NEW p \in Partition, p # tp PROVE Complete(p)'
    BY <1>1, <2>1, <2>7, <2>8, <2>9
       DEF LiveInv, Complete, QueueComplete, Counted, NoneForgotten, Owned, Delivered
  <2>10. /\ queues'[tp] = queues[tp] \cup Records(tp, hi) /\ position'[tp] = hi + 1
         /\ \A q \in queues[tp] : q < position[tp]
    BY <1>1, <2>1 DEF Inv, QueueFetched
  <2>11. \A o \in Log[tp] : o < hi + 1 /\ position[tp] <= o => o \in queues'[tp]
    BY <1>1, <2>2, <2>10 DEF Records
  <2>12. QueueComplete(tp)'
    <3>1. ASSUME Fetching', NEW q \in queues'[tp], NEW o \in Log[tp],
                 q <= o, o < position'[tp]
          PROVE  o \in queues'[tp]
      <4>1. CASE position[tp] <= o
        BY <2>10, <2>11, <3>1, <4>1
      <4>2. CASE o < position[tp]
        <5>1. q \in queues[tp]
          BY <1>1, <2>2, <2>10, <3>1, <4>2 DEF Records
        <5>. QED
          BY <2>8, <2>10, <3>1, <4>2, <5>1 DEF LiveInv, Complete, QueueComplete
      <4>. QED
        BY <1>1, <2>2, <4>1, <4>2
    <3>. QED
      BY <3>1 DEF QueueComplete
  <2>13. Counted(tp)'
    BY <2>1, <2>7 DEF Counted
  <2>14. NoneForgotten(tp)'
    <3>1. ASSUME Fetching', offsetTrackers[tp] # Absent, NEW o \in Log[tp],
                 offsetTrackers[tp].next <= o, o < position'[tp]
          PROVE  o \in queues'[tp] \/ o \in offsetTrackers[tp].pool \/ Delivered(tp, o)
      <4>1. CASE position[tp] <= o
        BY <2>10, <2>11, <3>1, <4>1
      <4>2. CASE o < position[tp]
        BY <2>1, <2>8, <2>10, <3>1, <4>2 DEF LiveInv, Complete, NoneForgotten
      <4>. QED
        BY <1>1, <2>2, <4>1, <4>2
    <3>. QED
      BY <2>1, <3>1 DEF NoneForgotten, Delivered
  <2>. QED
    BY <2>5, <2>9, <2>12, <2>13, <2>14 DEF LiveInv, Complete
<1>6. ASSUME NEW tp \in Partition, NEW hi \in Log[tp], FetchKeyError(tp, hi)
      PROVE  LiveInv'
  <2>1. fetch'.pc = "dead"
    BY <1>6 DEF FetchKeyError, FetchAt
  <2>. QED
    BY <2>1 DEF LiveInv, WakeupComing, Complete, QueueComplete, Counted, NoneForgotten,
                Fetching
<1>. QED
  BY <1>3, <1>4, <1>5, <1>6

\* The message at the head of a queue is delivered.  A tracker that starts there
\* has every record from there on in the queue.
LEMMA LiveListen ==
    ASSUME Inv, LiveInv, ListenYield \/ ListenIdle \/ ListenWait \/ ListenEnds
    PROVE  LiveInv'
<1>. USE DEF queueVars, ackVars, listenVars, batchVars, clientVars, historyVars
<1>1. CASE ListenIdle \/ ListenWait \/ ListenEnds
  <2>1. /\ UNCHANGED <<client, assigned, position, queues, offsetTrackers,
                       waitingForCommit, assignments, isRunning, fetch, inFlightCount>>
        /\ \/ isDataAvailable' = isDataAvailable
           \/ \A tp \in Partition : queues[tp] = {}
    BY <1>1 DEF ListenIdle, ListenWait, ListenEnds
  <2>2. Fetching' = Fetching
    BY <2>1 DEF Fetching
  <2>3. WakeupComing'
    BY <2>1 DEF LiveInv, WakeupComing
  <2>4. ASSUME NEW tp \in Partition PROVE Complete(tp)'
    BY <2>1, <2>2
       DEF LiveInv, Complete, QueueComplete, Counted, NoneForgotten, Owned, Delivered
  <2>. QED
    BY <2>3, <2>4 DEF LiveInv
<1>2. CASE ListenYield
  <2>1. PICK tp \in Partition, offset \in Nat : YieldAt(tp, offset)
    BY <1>2, YieldIsAtHead DEF Inv
  <2>2. /\ UNCHANGED <<client, assigned, position, assignments, isRunning, fetch,
                       inFlightCount>>
        /\ isDataAvailable /\ isDataAvailable'
    BY <1>2 DEF ListenYield, Woken
  <2>3. /\ queues \in [Partition -> SUBSET Nat] /\ position \in [Partition -> Nat]
        /\ offsetTrackers \in [Partition -> Tracker \cup {Absent}]
        /\ Log[tp] \in SUBSET Nat
    BY LogAssumption DEF Inv, TypeInv, TypeOK
  <2>4. /\ offset \in queues[tp] /\ \A q \in queues[tp] : offset <= q
        /\ queues'[tp] = queues[tp] \ {offset}
        /\ offsetTrackers'[tp] = TrackerOf(tp, offset)
        /\ waitingForCommit \subseteq waitingForCommit'
        /\ Delivered(tp, offset)'
        /\ \A p \in Partition : p # tp =>
              queues'[p] = queues[p] /\ offsetTrackers'[p] = offsetTrackers[p]
    BY <2>1, <2>2, <2>3 DEF YieldAt, Delivered
  <2>5. WakeupComing'
    BY <2>2 DEF WakeupComing
  <2>6. ASSUME NEW p \in Partition, p # tp PROVE Complete(p)'
    BY <2>2, <2>4, <2>6
       DEF LiveInv, Complete, QueueComplete, Counted, NoneForgotten, Owned, Delivered, Fetching
  <2>7. QueueComplete(tp)'
    BY <2>2, <2>3, <2>4 DEF LiveInv, Complete, QueueComplete, Fetching
  <2>8. Counted(tp)'
    BY <2>2, <2>4 DEF LiveInv, Complete, Counted, Fetching
  <2>9. NoneForgotten(tp)'
    <3>1. ASSUME Owned(tp), Fetching, NEW o \in Log[tp],
                 offsetTrackers'[tp].next <= o, o < position[tp]
          PROVE  o \in queues[tp] \/ o \in offsetTrackers'[tp].pool \/ Delivered(tp, o)
      <4>1. CASE offsetTrackers[tp] = Absent
        <5>1. offset <= o
          BY <2>4, <3>1, <4>1 DEF TrackerOf, NewTracker
        <5>. QED
          BY <2>4, <3>1, <5>1 DEF LiveInv, Complete, QueueComplete
      <4>2. CASE offsetTrackers[tp] # Absent
        BY <2>4, <3>1, <4>2 DEF LiveInv, Complete, NoneForgotten, TrackerOf
      <4>. QED
        BY <4>1, <4>2
    <3>2. ASSUME NEW o, Delivered(tp, o) PROVE Delivered(tp, o)'
      BY <2>2, <2>4, <3>2 DEF Delivered
    <3>. QED
      BY <2>2, <2>4, <3>1, <3>2 DEF NoneForgotten, Owned, Fetching
  <2>. QED
    BY <2>5, <2>6, <2>7, <2>8, <2>9 DEF LiveInv, Complete
<1>. QED
  BY <1>1, <1>2

\* What an acknowledgement takes from the messages it brings into the tracker.
LEMMA LiveAck ==
    ASSUME Inv, LiveInv,
           NEW m \in waitingForCommit, Handle(m) \/ AckDropped(m) \/ AckCounted(m)
    PROVE  LiveInv'
<1>. USE DEF queueVars, ackVars, listenVars, batchVars, clientVars, historyVars
<1>1. /\ UNCHANGED <<client, assigned, position, queues, assignments, isRunning, fetch,
                     isDataAvailable>>
      /\ Fetching' = Fetching
    BY DEF Handle, AckDropped, AckCounted, Fetching
<1>2. /\ m \in Message /\ m.tp \in Partition /\ m.offset \in Nat
      /\ waitingForCommit \subseteq Message
      /\ offsetTrackers \in [Partition -> Tracker \cup {Absent}]
      /\ inFlightCount \in [Partition -> Int \cup {Absent}]
  BY DEF Inv, TypeInv, TypeOK, Message
<1>3. WakeupComing'
  BY <1>1 DEF LiveInv, WakeupComing
<1>4. CASE Handle(m)
  <2>1. UNCHANGED <<offsetTrackers, waitingForCommit, inFlightCount>>
    BY <1>4 DEF Handle
  <2>2. ASSUME NEW tp \in Partition PROVE Complete(tp)'
    BY <1>1, <2>1
       DEF LiveInv, Complete, QueueComplete, Counted, NoneForgotten, Owned, Delivered
  <2>. QED
    BY <1>3, <2>2 DEF LiveInv
\* Both acknowledgements take m from the messages of its partition only.
<1>5. ASSUME waitingForCommit' = waitingForCommit \ {m},
             NEW tp \in Partition, NEW o, Delivered(tp, o),
             ~ (tp = m.tp /\ o = m.offset)
      PROVE  Delivered(tp, o)'
  BY <1>1, <1>5 DEF Delivered
<1>6. CASE AckDropped(m)
  <2>1. /\ UNCHANGED <<offsetTrackers, inFlightCount>>
        /\ waitingForCommit' = waitingForCommit \ {m}
        /\ offsetTrackers[m.tp] = Absent \/ inFlightCount[m.tp] = Absent
    BY <1>6 DEF AckDropped
  <2>2. Fetching => offsetTrackers[m.tp] = Absent
    BY <1>2, <2>1 DEF LiveInv, Complete, Counted
  <2>3. ASSUME NEW tp \in Partition PROVE Complete(tp)'
    BY <1>1, <1>5, <2>1, <2>2
       DEF LiveInv, Complete, QueueComplete, Counted, NoneForgotten, Owned
  <2>. QED
    BY <1>3, <2>3 DEF LiveInv
<1>7. CASE AckCounted(m)
  <2>. DEFINE tracker == offsetTrackers[m.tp]
              marked == MarkProcessed(tracker, m.offset)
  <2>1. /\ tracker # Absent /\ inFlightCount[m.tp] # Absent
        /\ waitingForCommit' = waitingForCommit \ {m}
        /\ offsetTrackers' = [offsetTrackers EXCEPT ![m.tp] = marked]
        /\ inFlightCount' = [inFlightCount EXCEPT ![m.tp] = @ - 1]
    BY <1>7 DEF AckCounted, Release
  <2>2. tracker \in Tracker /\ IsFiniteSet(tracker.pool)
    BY <1>2, <2>1 DEF Inv, TypeInv, PoolsFinite
  <2>3. /\ marked \in Tracker /\ marked.next >= tracker.next
        /\ tracker.next \in Nat /\ marked.next \in Nat
        /\ \A o \in tracker.pool \cup {m.offset} : o \in marked.pool \/ o < marked.next
    BY <1>2, <2>2, MarkProcessedMovesOverAcknowledged, MarkProcessedForgetsNothing DEF Tracker
  <2>4. /\ offsetTrackers'[m.tp] = marked
        /\ inFlightCount'[m.tp] # Absent
        /\ \A p \in Partition : p # m.tp =>
              /\ offsetTrackers'[p] = offsetTrackers[p]
              /\ inFlightCount'[p] = inFlightCount[p]
    BY <1>2, <2>1, NamesAssumption
  <2>5. ASSUME NEW tp \in Partition, tp # m.tp PROVE Complete(tp)'
    BY <1>1, <1>5, <2>1, <2>4, <2>5
       DEF LiveInv, Complete, QueueComplete, Counted, NoneForgotten, Owned
  <2>6. QueueComplete(m.tp)' /\ Counted(m.tp)'
    BY <1>1, <1>2, <2>4 DEF LiveInv, Complete, QueueComplete, Counted
  <2>7. NoneForgotten(m.tp)'
    <3>1. ASSUME Owned(m.tp), Fetching, NEW o \in Log[m.tp],
                 marked.next <= o, o < position[m.tp]
          PROVE  o \in queues[m.tp] \/ o \in marked.pool \/ Delivered(m.tp, o)'
      <4>1. o \in Nat /\ tracker.next <= o /\ ~ (o < marked.next)
        BY <1>2, <2>3, <3>1, LogAssumption
      <4>2. o \in queues[m.tp] \/ o \in tracker.pool \/ Delivered(m.tp, o)
        BY <1>2, <2>1, <3>1, <4>1 DEF LiveInv, Complete, NoneForgotten
      <4>3. CASE o \in tracker.pool \cup {m.offset}
        BY <2>3, <4>1, <4>3
      <4>. QED
        BY <1>2, <1>5, <2>1, <4>2, <4>3
    <3>. QED
      BY <1>1, <2>4, <3>1 DEF NoneForgotten, Owned
  <2>. QED
    BY <1>2, <1>3, <2>5, <2>6, <2>7 DEF LiveInv, Complete
<1>. QED
  BY <1>4, <1>6, <1>7

LEMMA LiveGroup ==
    ASSUME Inv, LiveInv,
           \/ TimerFires \/ CommitSucceeds \/ CommitFails
           \/ Revoke
           \/ \E owned \in SUBSET Partition : Assign(owned)
           \/ \E tp \in Partition : \E o \in 1 .. LogEnd[tp] : PeerCommits(tp, o)
    PROVE  LiveInv'
<1>. USE DEF queueVars, ackVars, listenVars, batchVars, clientVars, historyVars
<1>1. ASSUME \/ TimerFires \/ CommitSucceeds \/ CommitFails
             \/ \E tp \in Partition : \E o \in 1 .. LogEnd[tp] : PeerCommits(tp, o)
      PROVE  LiveInv'
  <2>1. /\ UNCHANGED <<client, assigned, position, queues, offsetTrackers,
                       waitingForCommit, assignments, isRunning, fetch, isDataAvailable>>
        /\ UNCHANGED inFlightCount
    BY <1>1 DEF TimerFires, CommitSucceeds, CommitFails, PeerCommits
  <2>2. Fetching' = Fetching
    BY <2>1 DEF Fetching
  <2>. QED
    BY <2>1, <2>2, LiveFrame
<1>2. ASSUME Revoke \/ \E owned \in SUBSET Partition : Assign(owned)
      PROVE  LiveInv'
  <2>1. \A tp \in Partition : queues'[tp] = {} /\ offsetTrackers'[tp] = Absent
    BY <1>2 DEF Revoke, DropQueues, Assign, Inv, OnlyOwned, Owned
  <2>. QED
    BY <2>1, NothingHeld
<1>. QED
  BY <1>1, <1>2

LEMMA LiveStep == Inv /\ LiveInv /\ [Next]_vars => LiveInv'
<1>. SUFFICES ASSUME Inv, LiveInv, [Next]_vars PROVE LiveInv'
  OBVIOUS
<1>1. CASE UNCHANGED vars
  BY <1>1, LiveFrame DEF vars, clientVars, queueVars, ackVars, historyVars, Fetching
<1>2. CASE Next
  BY <1>2, LiveProcess, LiveFetch, LiveListen, LiveAck, LiveGroup DEF Next
<1>. QED
  BY <1>1, <1>2

LEMMA LiveHolds == Spec => []LiveInv
<1>1. Init => LiveInv
  BY DEF Init, LiveInv, WakeupComing, Complete, QueueComplete, Counted, NoneForgotten, Fetching
<1>. QED
  BY <1>1, LiveStep, InvHolds, PTL DEF Spec

\* listen() never sleeps beside a filled queue without a wakeup to come, however
\* its looks at the queues interleave with the passes of the fetch loop.
THEOREM WakeupsAreNotLost == Spec => []NoLostWakeup
<1>1. LiveInv => NoLostWakeup
  BY DEF LiveInv, WakeupComing, NoLostWakeup
<1>. QED
  BY <1>1, LiveHolds, PTL

\* No record between a tracker's next offset and the fetch position is lost
\* inside the consumer, however acknowledgements, rebalances and failed
\* commits interleave, and whatever gaps the log has.
THEOREM NothingIsForgotten == Spec => []NoMessageForgotten
<1>1. LiveInv => NoMessageForgotten
  BY DEF LiveInv, Complete, NoneForgotten, NoMessageForgotten, Fetching, Delivered
<1>. QED
  BY <1>1, LiveHolds, PTL

-----------------------------------------------------------------------------
(***************************************************************************)
(* The count of a partition, as long as the group never rebalances.  Then  *)
(* an acknowledgement finds the tracker and the count of the assignment    *)
(* that delivered its message, and a getmany() that is awaited still has   *)
(* the room it was asked for when it returns.                              *)
(***************************************************************************)
With(tp) == {m \in waitingForCommit : m.tp = tp}

\* Messages were delivered in the order of their offsets, from the assignment
\* that still holds their tracker.
MessagesCurrent ==
    /\ client \in {"new", "rebalancing"} => waitingForCommit = {}
    /\ \A m \in waitingForCommit :
          /\ offsetTrackers[m.tp] # Absent
          /\ Owned(m.tp) => m.offset < position[m.tp]
          /\ \A o \in queues[m.tp] : m.offset < o

\* The count says what is queued and delivered, and stays in its limit.
Exact(tp) ==
    /\ IsFiniteSet(queues[tp])
    /\ inFlightCount[tp] = Absent => queues[tp] = {} /\ offsetTrackers[tp] = Absent
    /\ inFlightCount[tp] # Absent =>
          /\ inFlightCount[tp] = Cardinality(queues[tp]) + Cardinality(With(tp))
          /\ inFlightCount[tp] <= InFlightLimit

\* The room that getmany() was asked to fill is there.
RoomIsLeft ==
    fetch.pc = "getmany" =>
        /\ inFlightCount[fetch.tp] # Absent
        /\ inFlightCount[fetch.tp] + fetch.max <= InFlightLimit

CountInv ==
    /\ IsFiniteSet(waitingForCommit)
    /\ MessagesCurrent
    /\ \A tp \in Partition : Exact(tp)
    /\ RoomIsLeft

\* A step that changes no queue and no message, and loses no count.
LEMMA CountFrame ==
    ASSUME CountInv, TypeInv,
           UNCHANGED <<queues, offsetTrackers, waitingForCommit>>,
           client' \in {"new", "rebalancing"} => client \in {"new", "rebalancing"},
           \/ waitingForCommit = {}
           \/ \A p \in Partition : Owned(p)' => Owned(p) /\ position'[p] = position[p],
           \A p \in Partition :
              /\ inFlightCount[p] # Absent => inFlightCount'[p] = inFlightCount[p]
              /\ inFlightCount[p] = Absent => inFlightCount'[p] \in {Absent, 0},
           RoomIsLeft'
    PROVE  CountInv'
<1>1. (IsFiniteSet(waitingForCommit) /\ MessagesCurrent)'
  <2>1. \A m \in waitingForCommit : m.tp \in Partition
    BY DEF TypeInv, TypeOK, Message
  <2>. QED
    BY <2>1 DEF CountInv, MessagesCurrent
<1>2. ASSUME NEW tp \in Partition PROVE Exact(tp)'
  <2>1. CASE inFlightCount[tp] # Absent \/ inFlightCount'[tp] = Absent
    BY <2>1 DEF CountInv, Exact, With
  <2>2. CASE inFlightCount[tp] = Absent /\ inFlightCount'[tp] = 0
    <3>1. queues[tp] = {} /\ offsetTrackers[tp] = Absent
      BY <2>2 DEF CountInv, Exact
    <3>2. With(tp) = {}
      BY <3>1 DEF CountInv, MessagesCurrent, With
    <3>3. queues'[tp] = {} /\ offsetTrackers'[tp] = Absent /\ With(tp)' = {}
      BY <3>1, <3>2 DEF With
    <3>. QED
      BY <2>2, <3>3, FS_EmptySet, LimitAssumption, NamesAssumption DEF Exact
  <2>. QED
    BY <2>1, <2>2
<1>. QED
  BY <1>1, <1>2 DEF CountInv

LEMMA CountProcess ==
    ASSUME CountInv, Inv, Start \/ Stop \/ CloseClient \/ Restart
    PROVE  CountInv'
<1>. USE DEF queueVars, ackVars, listenVars, batchVars, clientVars, historyVars
<1>1. CASE Start \/ Stop \/ CloseClient
  <2>1. RoomIsLeft'
    BY <1>1 DEF Start, Stop, CloseClient, FetchAt, CountInv, RoomIsLeft
  <2>2. \/ waitingForCommit = {}
        \/ \A p \in Partition : Owned(p)' => Owned(p) /\ position'[p] = position[p]
    <3>1. CASE Start
      BY <3>1 DEF Start, CountInv, MessagesCurrent
    <3>2. CASE Stop \/ CloseClient
      BY <3>2 DEF Stop, CloseClient, Owned
    <3>. QED
      BY <1>1, <3>1, <3>2
  <2>3. /\ UNCHANGED <<queues, offsetTrackers, waitingForCommit, inFlightCount>>
        /\ client' \in {"new", "rebalancing"} => client \in {"new", "rebalancing"}
    BY <1>1 DEF Start, Stop, CloseClient
  <2>. QED
    BY <2>1, <2>2, <2>3, CountFrame DEF Inv
<1>2. CASE Restart
  <2>1. /\ waitingForCommit' = {} /\ fetch'.pc = "off"
        /\ \A tp \in Partition :
              queues'[tp] = {} /\ offsetTrackers'[tp] = Absent /\ inFlightCount'[tp] = Absent
    BY <1>2 DEF Restart, FetchAt
  <2>. QED
    BY <2>1, FS_EmptySet DEF CountInv, MessagesCurrent, Exact, RoomIsLeft
<1>. QED
  BY <1>1, <1>2

\* Two finite sets of numbers that have none in common.
LEMMA DisjointSets ==
    ASSUME NEW S, NEW T, IsFiniteSet(S), IsFiniteSet(T), S \cap T = {}
    PROVE  /\ IsFiniteSet(S \cup T)
           /\ Cardinality(S \cup T) = Cardinality(S) + Cardinality(T)
<1>1. /\ IsFiniteSet(S \cup T)
      /\ Cardinality(S \cup T) = Cardinality(S) + Cardinality(T) - Cardinality(S \cap T)
  BY FS_Union
<1>2. Cardinality(S) \in Nat /\ Cardinality(T) \in Nat /\ Cardinality(S \cap T) = 0
  BY FS_CardinalityType, FS_EmptySet
<1>. QED
  BY <1>1, <1>2

LEMMA CountFetch ==
    ASSUME CountInv, Inv,
           \/ FetchWake \/ FetchNothing \/ FetchRaises
           \/ \E tp \in Partition : \E hi \in Log[tp] :
                 FetchRecords(tp, hi) \/ FetchKeyError(tp, hi)
    PROVE  CountInv'
<1>. USE DEF queueVars, ackVars, listenVars, batchVars, clientVars, historyVars
<1>1. /\ inFlightCount \in [Partition -> Int \cup {Absent}]
      /\ isDataAvailable \in BOOLEAN
      /\ assigned \in SUBSET Partition
      /\ fetch \in FetchState
      /\ queues \in [Partition -> SUBSET Nat] /\ position \in [Partition -> Nat]
      /\ waitingForCommit \subseteq Message
  BY DEF Inv, TypeInv, TypeOK
<1>2. fetch.todo \in SUBSET Partition /\ fetch.any \in BOOLEAN /\ fetch.max \in Int
  BY <1>1 DEF FetchState
<1>3. CASE FetchWake \/ FetchNothing
  <2>1. UNCHANGED <<client, assigned, position, queues, offsetTrackers, waitingForCommit>>
    BY <1>3 DEF FetchWake, FetchNothing
  <2>2. PICK todo \in SUBSET Partition, any \in BOOLEAN :
           ContinuePass(inFlightCount, todo, any)
    BY <1>1, <1>2, <1>3 DEF FetchWake, FetchNothing
  <2>3. /\ \A p \in Partition :
              /\ inFlightCount[p] # Absent => inFlightCount'[p] = inFlightCount[p]
              /\ inFlightCount[p] = Absent => inFlightCount'[p] \in {Absent, 0}
        /\ fetch'.pc = "getmany" =>
              /\ inFlightCount'[fetch'.tp] # Absent
              /\ inFlightCount'[fetch'.tp] + fetch'.max = InFlightLimit
    BY <1>1, <2>2, PassKeeps
  <2>4. RoomIsLeft'
    BY <2>3, LimitAssumption DEF RoomIsLeft
  <2>. QED
    BY <2>1, <2>3, <2>4, CountFrame DEF Inv, Owned
<1>4. CASE FetchRaises
  <2>1. RoomIsLeft'
    BY <1>4 DEF FetchRaises, FetchAt, RoomIsLeft
  <2>. QED
    BY <1>4, <2>1, CountFrame DEF FetchRaises, Inv, Owned
<1>5. ASSUME NEW tp \in Partition, NEW hi \in Log[tp], FetchRecords(tp, hi)
      PROVE  CountInv'
  <2>. DEFINE records == Records(tp, hi)
              counts == [inFlightCount EXCEPT ![tp] = @ + Cardinality(records)]
  <2>1. /\ queues' = [queues EXCEPT ![tp] = @ \cup records]
        /\ position' = [position EXCEPT ![tp] = hi + 1]
        /\ hi \in records
        /\ UNCHANGED <<client, assigned, offsetTrackers, waitingForCommit>>
        /\ fetch.pc = "getmany" /\ fetch.tp = tp
        /\ Owned(tp) /\ inFlightCount[tp] # Absent
        /\ Cardinality(records) <= fetch.max
        /\ client = "up"
    BY <1>5 DEF FetchRecords, CanReturn, Enqueue, Owned
  <2>2. /\ hi \in Nat /\ records \in SUBSET Nat
        /\ IsFiniteSet(records) /\ Cardinality(records) \in Nat
    BY LogAssumption, RecordsAreFinite DEF Inv, TypeInv
  <2>3. counts \in [Partition -> Int \cup {Absent}]
    BY <1>1, <2>1, <2>2
  <2>4. ContinuePass(counts, fetch.todo, TRUE)
    BY <1>5 DEF FetchRecords
  <2>5. /\ \A p \in Partition :
              /\ counts[p] # Absent => inFlightCount'[p] = counts[p]
              /\ counts[p] = Absent => inFlightCount'[p] \in {Absent, 0}
        /\ fetch'.pc = "getmany" =>
              /\ inFlightCount'[fetch'.tp] # Absent
              /\ inFlightCount'[fetch'.tp] + fetch'.max = InFlightLimit
    BY <1>1, <1>2, <2>3, <2>4, PassKeeps
  <2>6. /\ counts[tp] = inFlightCount[tp] + Cardinality(records)
        /\ inFlightCount[tp] \in Int /\ counts[tp] \in Int /\ counts[tp] # Absent
    BY <1>1, <2>1, <2>2, NamesAssumption
  <2>7. RoomIsLeft'
    BY <2>5, LimitAssumption DEF RoomIsLeft
  <2>8. \A q \in queues[tp] : \A r \in records : q < r
    BY <1>1, <2>1, <2>2 DEF Inv, QueueFetched, Records
  <2>9. MessagesCurrent'
    <3>1. ASSUME NEW m \in waitingForCommit, NEW o \in queues'[m.tp]
          PROVE  m.offset < o
      <4>1. CASE o \in queues[m.tp]
        BY <4>1 DEF CountInv, MessagesCurrent
      <4>2. CASE o \notin queues[m.tp]
        <5>1. m.tp = tp /\ o \in records
          BY <1>1, <2>1, <3>1, <4>2 DEF Message
        <5>2. m.offset < position[tp]
          BY <2>1, <5>1 DEF CountInv, MessagesCurrent, Owned
        <5>. QED
          BY <1>1, <2>2, <5>1, <5>2 DEF Records, Message
      <4>. QED
        BY <4>1, <4>2
    <3>2. ASSUME NEW m \in waitingForCommit, Owned(m.tp)
          PROVE  m.offset < position'[m.tp]
      <4>1. /\ m.tp \in Partition /\ m.offset \in Nat /\ m.offset < position[m.tp]
            /\ position[m.tp] \in Nat
        BY <1>1, <3>2 DEF CountInv, MessagesCurrent, Message
      <4>2. position[tp] \in Nat /\ position[tp] <= hi
        BY <1>1, <2>1, <2>2, LogAssumption DEF Records
      <4>3. position[m.tp] <= position'[m.tp] /\ position'[m.tp] \in Nat
        BY <1>1, <2>1, <2>2, <4>1, <4>2
      <4>. QED
        BY <4>1, <4>3
    <3>. QED
      BY <2>1, <3>1, <3>2 DEF CountInv, MessagesCurrent, Owned
  <2>10. Exact(tp)'
    <3>1. IsFiniteSet(queues[tp]) /\ queues[tp] \cap records = {}
      BY <1>1, <2>2, <2>8 DEF CountInv, Exact
    <3>2. queues'[tp] = queues[tp] \cup records /\ With(tp)' = With(tp)
      BY <1>1, <2>1 DEF With
    <3>3. /\ IsFiniteSet(queues'[tp])
          /\ Cardinality(queues'[tp]) = Cardinality(queues[tp]) + Cardinality(records)
      BY <2>2, <3>1, <3>2, DisjointSets
    <3>4. inFlightCount[tp] = Cardinality(queues[tp]) + Cardinality(With(tp))
      BY <2>1 DEF CountInv, Exact
    <3>5. Cardinality(queues[tp]) \in Nat /\ Cardinality(With(tp)) \in Nat
      BY <3>1, FS_CardinalityType, FS_Subset DEF CountInv, With
    <3>6. inFlightCount'[tp] = counts[tp]
      BY <2>5, <2>6
    <3>7. counts[tp] <= InFlightLimit
      BY <1>2, <2>1, <2>2, <2>6, LimitAssumption DEF CountInv, RoomIsLeft
    <3>. QED
      BY <2>2, <2>6, <3>2, <3>3, <3>4, <3>5, <3>6, <3>7 DEF Exact
  <2>11. ASSUME NEW p \in Partition, p # tp PROVE Exact(p)'
    <3>1. /\ queues'[p] = queues[p] /\ With(p)' = With(p)
          /\ counts[p] = inFlightCount[p]
      BY <1>1, <2>1, <2>11 DEF With
    <3>2. CASE inFlightCount[p] # Absent \/ inFlightCount'[p] = Absent
      BY <2>1, <2>5, <3>1, <3>2 DEF CountInv, Exact
    <3>3. CASE inFlightCount[p] = Absent /\ inFlightCount'[p] = 0
      <4>1. queues[p] = {} /\ offsetTrackers[p] = Absent
        BY <3>3 DEF CountInv, Exact
      <4>2. With(p) = {}
        BY <4>1 DEF CountInv, MessagesCurrent, With
      <4>. QED
        BY <2>1, <3>1, <3>3, <4>1, <4>2, FS_EmptySet, LimitAssumption, NamesAssumption
           DEF Exact
    <3>. QED
      BY <2>5, <3>1, <3>2, <3>3
  <2>. QED
    BY <2>1, <2>7, <2>9, <2>10, <2>11 DEF CountInv
<1>6. ASSUME NEW tp \in Partition, NEW hi \in Log[tp], FetchKeyError(tp, hi)
      PROVE  CountInv'
  BY <1>6 DEF FetchKeyError, CanReturn, CountInv, RoomIsLeft
<1>. QED
  BY <1>3, <1>4, <1>5, <1>6

\* One message more or less of a partition.
LEMMA OneMore ==
    ASSUME IsFiniteSet(waitingForCommit), NEW m, m \notin waitingForCommit,
           waitingForCommit' = waitingForCommit \cup {m}
    PROVE  /\ IsFiniteSet(waitingForCommit')
           /\ Cardinality(With(m.tp)') = Cardinality(With(m.tp)) + 1
<1>1. IsFiniteSet(With(m.tp)) /\ m \notin With(m.tp)
  BY FS_Subset DEF With
<1>2. With(m.tp)' = With(m.tp) \cup {m}
  BY DEF With
<1>. QED
  BY <1>1, <1>2, FS_AddElement

LEMMA OneLess ==
    ASSUME IsFiniteSet(waitingForCommit), NEW m \in waitingForCommit,
           waitingForCommit' = waitingForCommit \ {m}
    PROVE  /\ IsFiniteSet(waitingForCommit')
           /\ Cardinality(With(m.tp)') = Cardinality(With(m.tp)) - 1
<1>1. IsFiniteSet(With(m.tp)) /\ m \in With(m.tp)
  BY FS_Subset DEF With
<1>2. With(m.tp)' = With(m.tp) \ {m}
  BY DEF With
<1>. QED
  BY <1>1, <1>2, FS_RemoveElement, FS_Subset

LEMMA CountListen ==
    ASSUME CountInv, Inv, ListenYield \/ ListenIdle \/ ListenWait \/ ListenEnds
    PROVE  CountInv'
<1>. USE DEF queueVars, ackVars, listenVars, batchVars, clientVars, historyVars
<1>1. CASE ListenIdle \/ ListenWait \/ ListenEnds
  <2>1. UNCHANGED <<client, assigned, position, queues, offsetTrackers, waitingForCommit,
                    inFlightCount, fetch>>
    BY <1>1 DEF ListenIdle, ListenWait, ListenEnds
  <2>2. RoomIsLeft'
    BY <2>1 DEF CountInv, RoomIsLeft
  <2>. QED
    BY <2>1, <2>2, CountFrame DEF Inv, Owned
<1>2. CASE ListenYield
  <2>1. PICK tp \in Partition, offset \in Nat : YieldAt(tp, offset)
    BY <1>2, YieldIsAtHead DEF Inv
  <2>2. PICK m : m = [tp |-> tp, offset |-> offset, assignment |-> assignments[tp]]
    OBVIOUS
  <2>3. /\ UNCHANGED <<client, assigned, position, inFlightCount, fetch>>
        /\ queues \in [Partition -> SUBSET Nat]
        /\ offsetTrackers \in [Partition -> Tracker \cup {Absent}]
        /\ waitingForCommit \subseteq Message
        /\ inFlightCount \in [Partition -> Int \cup {Absent}]
    BY <1>2 DEF ListenYield, Inv, TypeInv, TypeOK
  <2>4. /\ offset \in queues[tp] /\ \A q \in queues[tp] : offset <= q
        /\ queues'[tp] = queues[tp] \ {offset}
        /\ offsetTrackers'[tp] = TrackerOf(tp, offset)
        /\ waitingForCommit' = waitingForCommit \cup {m}
        /\ \A p \in Partition : p # tp =>
              queues'[p] = queues[p] /\ offsetTrackers'[p] = offsetTrackers[p]
        /\ m.tp = tp /\ m.offset = offset
    BY <2>1, <2>2, <2>3 DEF YieldAt
  <2>5. offsetTrackers'[tp] # Absent
    BY <2>1, <2>3, <2>4, NamesAssumption DEF TrackerOf, NewTracker, Tracker
  <2>6. m \notin waitingForCommit
    BY <2>4 DEF CountInv, MessagesCurrent
  <2>7. MessagesCurrent'
    <3>1. client \notin {"new", "rebalancing"}
      BY <2>4 DEF Inv, OnlyOwned, Owned
    <3>2. ASSUME NEW w \in waitingForCommit'
          PROVE  /\ offsetTrackers'[w.tp] # Absent
                 /\ Owned(w.tp) => w.offset < position[w.tp]
                 /\ \A o \in queues'[w.tp] : w.offset < o
      <4>1. CASE w = m
        <5>1. Owned(tp) => offset < position[tp]
          BY <2>4 DEF Inv, QueueFetched
        <5>2. \A o \in queues'[tp] : offset < o
          BY <2>1, <2>3, <2>4
        <5>. QED
          BY <2>4, <2>5, <4>1, <5>1, <5>2
      <4>2. CASE w \in waitingForCommit
        <5>1. /\ offsetTrackers[w.tp] # Absent
              /\ Owned(w.tp) => w.offset < position[w.tp]
              /\ \A o \in queues[w.tp] : w.offset < o
              /\ w.tp \in Partition
          BY <2>3, <4>2 DEF CountInv, MessagesCurrent, Message
        <5>2. queues'[w.tp] \subseteq queues[w.tp] /\ offsetTrackers'[w.tp] # Absent
          BY <2>4, <2>5, <5>1
        <5>. QED
          BY <5>1, <5>2
      <4>. QED
        BY <2>4, <3>2, <4>1, <4>2
    <3>. QED
      BY <2>3, <3>1, <3>2 DEF MessagesCurrent, Owned
  <2>8. IsFiniteSet(waitingForCommit') /\ Cardinality(With(tp)') = Cardinality(With(tp)) + 1
    BY <2>4, <2>6, OneMore DEF CountInv
  <2>9. Exact(tp)'
    <3>1. IsFiniteSet(queues[tp]) /\ inFlightCount[tp] # Absent
      BY <2>4 DEF CountInv, Exact
    <3>2. /\ IsFiniteSet(queues'[tp])
          /\ Cardinality(queues'[tp]) = Cardinality(queues[tp]) - 1
      BY <2>4, <3>1, FS_RemoveElement
    <3>3. Cardinality(queues[tp]) \in Nat /\ Cardinality(With(tp)) \in Nat
      BY <3>1, FS_CardinalityType, FS_Subset DEF CountInv, With
    <3>4. /\ inFlightCount[tp] = Cardinality(queues[tp]) + Cardinality(With(tp))
          /\ inFlightCount[tp] <= InFlightLimit
      BY <3>1 DEF CountInv, Exact
    <3>. QED
      BY <2>3, <2>8, <3>1, <3>2, <3>3, <3>4 DEF Exact
  <2>10. ASSUME NEW p \in Partition, p # tp PROVE Exact(p)'
    <3>1. With(p)' = With(p)
      BY <2>4, <2>10 DEF With
    <3>. QED
      BY <2>3, <2>4, <2>10, <3>1 DEF CountInv, Exact
  <2>11. RoomIsLeft'
    BY <2>3 DEF CountInv, RoomIsLeft
  <2>. QED
    BY <2>7, <2>8, <2>9, <2>10, <2>11 DEF CountInv
<1>. QED
  BY <1>1, <1>2

LEMMA CountAck ==
    ASSUME CountInv, Inv,
           NEW m \in waitingForCommit, Handle(m) \/ AckDropped(m) \/ AckCounted(m)
    PROVE  CountInv'
<1>. USE DEF queueVars, ackVars, listenVars, batchVars, clientVars, historyVars
<1>1. /\ UNCHANGED <<client, assigned, position, queues, fetch>>
      /\ m.tp \in Partition /\ m.offset \in Nat
      /\ offsetTrackers \in [Partition -> Tracker \cup {Absent}]
      /\ inFlightCount \in [Partition -> Int \cup {Absent}]
      /\ waitingForCommit \subseteq Message
      /\ fetch \in FetchState
  BY DEF Handle, AckDropped, AckCounted, Inv, TypeInv, TypeOK, Message
<1>2. CASE Handle(m)
  <2>1. UNCHANGED <<offsetTrackers, waitingForCommit, inFlightCount>>
    BY <1>2 DEF Handle
  <2>2. RoomIsLeft'
    BY <1>1, <2>1 DEF CountInv, RoomIsLeft
  <2>. QED
    BY <1>1, <2>1, <2>2, CountFrame DEF Inv, Owned
<1>3. CASE AckDropped(m)
  BY <1>1, <1>3 DEF AckDropped, CountInv, MessagesCurrent, Exact
<1>4. CASE AckCounted(m)
  <2>. DEFINE marked == MarkProcessed(offsetTrackers[m.tp], m.offset)
  <2>1. /\ offsetTrackers[m.tp] # Absent /\ inFlightCount[m.tp] # Absent
        /\ waitingForCommit' = waitingForCommit \ {m}
        /\ offsetTrackers' = [offsetTrackers EXCEPT ![m.tp] = marked]
        /\ inFlightCount' = [inFlightCount EXCEPT ![m.tp] = @ - 1]
    BY <1>4 DEF AckCounted, Release
  <2>2. marked \in Tracker
    BY <1>1, <2>1, MarkProcessedMovesOverAcknowledged DEF Inv, TypeInv, PoolsFinite
  <2>3. /\ offsetTrackers'[m.tp] # Absent
        /\ inFlightCount'[m.tp] = inFlightCount[m.tp] - 1
        /\ inFlightCount[m.tp] \in Int /\ inFlightCount'[m.tp] # Absent
        /\ \A p \in Partition : p # m.tp =>
              /\ offsetTrackers'[p] = offsetTrackers[p]
              /\ inFlightCount'[p] = inFlightCount[p]
    BY <1>1, <2>1, <2>2, NamesAssumption
  <2>4. MessagesCurrent'
    <3>1. \A w \in waitingForCommit' : w \in waitingForCommit /\ w.tp \in Partition
      BY <1>1, <2>1 DEF Message
    <3>2. \A w \in waitingForCommit' : offsetTrackers'[w.tp] # Absent
      BY <2>3, <3>1 DEF CountInv, MessagesCurrent
    <3>. QED
      BY <1>1, <2>1, <3>1, <3>2 DEF CountInv, MessagesCurrent, Owned
  <2>5. /\ IsFiniteSet(waitingForCommit')
        /\ Cardinality(With(m.tp)') = Cardinality(With(m.tp)) - 1
    BY <2>1, OneLess DEF CountInv
  <2>6. Exact(m.tp)'
    <3>1. IsFiniteSet(queues[m.tp])
      BY <1>1 DEF CountInv, Exact
    <3>2. Cardinality(queues[m.tp]) \in Nat /\ Cardinality(With(m.tp)) \in Nat
      BY <3>1, FS_CardinalityType, FS_Subset DEF CountInv, With
    <3>3. /\ inFlightCount[m.tp] = Cardinality(queues[m.tp]) + Cardinality(With(m.tp))
          /\ inFlightCount[m.tp] <= InFlightLimit
      BY <1>1, <2>1 DEF CountInv, Exact
    <3>. QED
      BY <1>1, <2>3, <2>5, <3>1, <3>2, <3>3, LimitAssumption DEF Exact
  <2>7. ASSUME NEW p \in Partition, p # m.tp PROVE Exact(p)'
    <3>1. With(p)' = With(p)
      BY <2>1, <2>7 DEF With
    <3>. QED
      BY <1>1, <2>3, <2>7, <3>1 DEF CountInv, Exact
  <2>8. RoomIsLeft'
    <3>1. ASSUME fetch.pc = "getmany"
          PROVE  /\ inFlightCount'[fetch.tp] # Absent
                 /\ inFlightCount'[fetch.tp] + fetch.max <= InFlightLimit
      <4>1. /\ inFlightCount[fetch.tp] # Absent
            /\ inFlightCount[fetch.tp] + fetch.max <= InFlightLimit
        BY <3>1 DEF CountInv, RoomIsLeft
      <4>2. CASE fetch.tp = m.tp
        BY <1>1, <2>3, <4>1, <4>2, LimitAssumption DEF FetchState
      <4>3. CASE fetch.tp # m.tp
        BY <1>1, <2>1, <4>1, <4>3
      <4>. QED
        BY <4>2, <4>3
    <3>. QED
      BY <1>1, <3>1 DEF RoomIsLeft
  <2>. QED
    BY <1>1, <2>4, <2>5, <2>6, <2>7, <2>8 DEF CountInv
<1>. QED
  BY <1>2, <1>3, <1>4

LEMMA CountGroup ==
    ASSUME CountInv, Inv,
           \/ TimerFires \/ CommitSucceeds \/ CommitFails
           \/ \E owned \in SUBSET Partition : Assign(owned)
           \/ \E tp \in Partition : \E o \in 1 .. LogEnd[tp] : PeerCommits(tp, o)
    PROVE  CountInv'
<1>. USE DEF queueVars, ackVars, listenVars, batchVars, clientVars, historyVars
<1>1. UNCHANGED <<queues, offsetTrackers, waitingForCommit, inFlightCount, fetch>>
  BY DEF TimerFires, CommitSucceeds, CommitFails, Assign, PeerCommits
<1>2. RoomIsLeft'
  BY <1>1 DEF CountInv, RoomIsLeft
<1>3. CASE \/ TimerFires \/ CommitSucceeds \/ CommitFails
           \/ \E tp \in Partition : \E o \in 1 .. LogEnd[tp] : PeerCommits(tp, o)
  <2>1. UNCHANGED <<client, assigned, position>>
    BY <1>3 DEF TimerFires, CommitSucceeds, CommitFails, PeerCommits
  <2>. QED
    BY <1>1, <1>2, <2>1, CountFrame DEF Inv, Owned
<1>4. CASE \E owned \in SUBSET Partition : Assign(owned)
  <2>1. client' = "up" /\ waitingForCommit = {}
    BY <1>4 DEF Assign, CountInv, MessagesCurrent
  <2>. QED
    BY <1>1, <1>2, <2>1, CountFrame DEF Inv
<1>. QED
  BY <1>3, <1>4

\* A rebalance that was counted is never forgotten.
LEMMA RebalancesAreCounted ==
    ASSUME TypeInv, [Next]_vars, faults'.rebalances = 0
    PROVE  faults.rebalances = 0 /\ ~Revoke
<1>. USE DEF historyVars
<1>1. faults \in [rebalances: Nat, restarts: Nat, commitErrors: Nat]
  BY DEF TypeInv, TypeOK
<1>2. CASE UNCHANGED vars
  BY <1>1, <1>2 DEF vars, Revoke
<1>3. ~Revoke
  BY <1>1 DEF Revoke
<1>4. CASE Restart \/ CommitFails
  BY <1>1, <1>3, <1>4 DEF Restart, CommitFails
<1>5. ASSUME Next, ~Restart, ~CommitFails PROVE UNCHANGED faults
  <2>1. CASE Start \/ Stop \/ CloseClient
    BY <2>1 DEF Start, Stop, CloseClient
  <2>2. CASE FetchWake \/ FetchNothing \/ FetchRaises
    BY <2>2 DEF FetchWake, FetchNothing, FetchRaises
  <2>3. ASSUME NEW tp \in Partition, NEW hi \in Log[tp],
               FetchRecords(tp, hi) \/ FetchKeyError(tp, hi)
        PROVE  UNCHANGED faults
    BY <2>3 DEF FetchRecords, FetchKeyError
  <2>4. CASE ListenYield \/ ListenIdle \/ ListenWait \/ ListenEnds
    BY <2>4 DEF ListenYield, ListenIdle, ListenWait, ListenEnds
  <2>5. ASSUME NEW m \in waitingForCommit, Handle(m) \/ AckDropped(m) \/ AckCounted(m)
        PROVE  UNCHANGED faults
    BY <2>5 DEF Handle, AckDropped, AckCounted
  <2>6. CASE TimerFires \/ CommitSucceeds
    BY <2>6 DEF TimerFires, CommitSucceeds
  <2>7. ASSUME NEW owned \in SUBSET Partition, Assign(owned) PROVE UNCHANGED faults
    BY <2>7 DEF Assign
  <2>8. ASSUME NEW tp \in Partition, NEW o \in 1 .. LogEnd[tp], PeerCommits(tp, o)
        PROVE  UNCHANGED faults
    BY <2>8 DEF PeerCommits
  <2>. QED
    BY <1>3, <1>5, <2>1, <2>2, <2>3, <2>4, <2>5, <2>6, <2>7, <2>8 DEF Next
<1>. QED
  BY <1>2, <1>3, <1>4, <1>5

CountedUntilRebalance == faults.rebalances = 0 => CountInv

LEMMA CountStep == Inv /\ CountedUntilRebalance /\ [Next]_vars => CountedUntilRebalance'
<1>. SUFFICES ASSUME Inv, CountedUntilRebalance, [Next]_vars, faults'.rebalances = 0
              PROVE  CountInv'
  BY DEF CountedUntilRebalance
<1>1. CountInv /\ ~Revoke
  BY RebalancesAreCounted DEF Inv, CountedUntilRebalance
<1>2. CASE UNCHANGED vars
  <2>1. UNCHANGED <<client, assigned, position, queues, offsetTrackers, waitingForCommit,
                    inFlightCount, fetch>>
    BY <1>2 DEF vars, clientVars, queueVars, ackVars
  <2>2. RoomIsLeft'
    BY <1>1, <2>1 DEF CountInv, RoomIsLeft
  <2>. QED
    BY <1>1, <2>1, <2>2, CountFrame DEF Inv, Owned
<1>3. CASE Next
  BY <1>1, <1>3, CountProcess, CountFetch, CountListen, CountAck, CountGroup DEF Next
<1>. QED
  BY <1>2, <1>3

LEMMA CountHolds == Spec => []CountedUntilRebalance
<1>1. Init => CountedUntilRebalance
  BY FS_EmptySet
     DEF Init, CountedUntilRebalance, CountInv, MessagesCurrent, Exact, RoomIsLeft, FetchAt
<1>. QED
  BY <1>1, CountStep, InvHolds, PTL DEF Spec

\* Until the group first rebalances, and through any restart, the count of a
\* partition is what is queued plus what is delivered and not acknowledged,
\* whatever is yielded or acknowledged while getmany() is awaited.
THEOREM InFlightIsExact == Spec => [](faults.rebalances = 0 => InFlightExact)
<1>1. CountedUntilRebalance => (faults.rebalances = 0 => InFlightExact)
  BY DEF CountedUntilRebalance, CountInv, Exact, InFlightExact, With
<1>. QED
  BY <1>1, CountHolds, PTL

LEMMA ExactIsBounded ==
    ASSUME CountInv
    PROVE  InFlightBounded
<1>. SUFFICES ASSUME NEW tp \in Partition
              PROVE  Cardinality(queues[tp]) + Cardinality({m \in waitingForCommit :
                        m.tp = tp /\ m.assignment = assignments[tp]}) <= InFlightLimit
  BY DEF InFlightBounded
<1>. DEFINE current == {m \in waitingForCommit :
                           m.tp = tp /\ m.assignment = assignments[tp]}
<1>1. IsFiniteSet(With(tp)) /\ IsFiniteSet(queues[tp]) /\ current \subseteq With(tp)
  BY FS_Subset DEF CountInv, Exact, With
<1>2. /\ Cardinality(current) <= Cardinality(With(tp))
      /\ Cardinality(current) \in Nat /\ Cardinality(With(tp)) \in Nat
      /\ Cardinality(queues[tp]) \in Nat
  BY <1>1, FS_Subset, FS_CardinalityType
<1>3. CASE inFlightCount[tp] # Absent
  BY <1>2, <1>3, LimitAssumption DEF CountInv, Exact
<1>4. CASE inFlightCount[tp] = Absent
  <2>1. queues[tp] = {} /\ offsetTrackers[tp] = Absent
    BY <1>4 DEF CountInv, Exact
  <2>2. With(tp) = {}
    BY <2>1 DEF CountInv, MessagesCurrent, With
  <2>. QED
    BY <1>2, <2>1, <2>2, FS_EmptySet, LimitAssumption
<1>. QED
  BY <1>3, <1>4

\* Until the group first rebalances the limit of a partition holds for its
\* queue and its handlers together.  (After a rebalance it need not: an
\* acknowledgement of the earlier assignment lowers the count of the new one.)
THEOREM InFlightStaysInLimit == Spec => [](faults.rebalances = 0 => InFlightBounded)
<1>1. CountedUntilRebalance => (faults.rebalances = 0 => InFlightBounded)
  BY ExactIsBounded DEF CountedUntilRebalance
<1>. QED
  BY <1>1, CountHolds, PTL

-----------------------------------------------------------------------------
(***************************************************************************)
(* The refinement of CommitLog: handlers, commits and the other members of *)
(* the group are its steps, everything else stutters.                      *)
(***************************************************************************)
LEMMA InitImplements == Init => Group!Init
BY DEF Init, Group!Init

LEMMA StepImplements == Inv /\ [Next]_vars => [Group!Next]_(Group!vars)
<1>. SUFFICES ASSUME Inv, [Next]_vars PROVE [Group!Next]_(Group!vars)
  OBVIOUS
<1>. USE DEF Group!vars
<1>1. CASE UNCHANGED <<processed, committed>>
  BY <1>1
<1>2. ASSUME NEW m \in waitingForCommit, Handle(m) PROVE Group!Next
  <2>1. m.tp \in Partition /\ m.offset \in Log[m.tp]
    BY DEF Inv, TypeInv, TypeOK, Message, OnlyRecords
  <2>2. Group!Process(m.tp, m.offset)
    BY <1>2 DEF Handle, Group!Process, clientVars
  <2>. QED
    BY <2>1, <2>2 DEF Group!Next
<1>3. CASE CommitSucceeds
  <2>1. committed' \in [Partition -> Nat] /\ UNCHANGED processed
    BY <1>3, TypeStep DEF Inv, TypeInv, TypeOK, CommitSucceeds, historyVars
  <2>2. \A tp \in Partition : committed'[tp] # committed[tp] => Safe(tp, committed'[tp])
    BY <1>3, CommitWritesSafeOffsets
  <2>3. Group!Commit
    BY <2>1, <2>2 DEF Group!Commit, Group!Complete, Safe
  <2>. QED
    BY <2>3 DEF Group!Next
<1>4. ASSUME NEW tp \in Partition, NEW o \in 1 .. LogEnd[tp], PeerCommits(tp, o)
      PROVE  Group!Next
  <2>1. /\ committed' = [committed EXCEPT ![tp] = o] /\ committed'[tp] = o
        /\ o \in Nat
        /\ processed' = [processed EXCEPT ![tp] = @ \cup {r \in Log[tp] : r < o}]
    BY <1>4, LogAssumption DEF PeerCommits, Inv, TypeInv, TypeOK
  <2>2. Group!Elsewhere(tp)
    BY <2>1 DEF Group!Elsewhere
  <2>. QED
    BY <2>2 DEF Group!Next
<1>5. CASE Next
  <2>. USE DEF clientVars, historyVars
  <2>1. CASE Start \/ Stop \/ CloseClient \/ Restart
    BY <1>1, <2>1 DEF Start, Stop, CloseClient, Restart
  <2>2. CASE FetchWake \/ FetchNothing \/ FetchRaises
    BY <1>1, <2>2 DEF FetchWake, FetchNothing, FetchRaises
  <2>3. ASSUME NEW tp \in Partition, NEW hi \in Log[tp],
               FetchRecords(tp, hi) \/ FetchKeyError(tp, hi)
        PROVE  UNCHANGED <<processed, committed>>
    BY <2>3 DEF FetchRecords, FetchKeyError
  <2>4. CASE ListenYield \/ ListenIdle \/ ListenWait \/ ListenEnds
    BY <1>1, <2>4 DEF ListenYield, ListenIdle, ListenWait, ListenEnds
  <2>5. ASSUME NEW m \in waitingForCommit, AckDropped(m) \/ AckCounted(m)
        PROVE  UNCHANGED <<processed, committed>>
    BY <2>5 DEF AckDropped, AckCounted
  <2>6. CASE TimerFires \/ CommitFails
    BY <1>1, <2>6 DEF TimerFires, CommitFails
  <2>7. ASSUME Revoke \/ \E owned \in SUBSET Partition : Assign(owned)
        PROVE  UNCHANGED <<processed, committed>>
    BY <2>7 DEF Revoke, Assign
  <2>. QED
    BY <1>1, <1>2, <1>3, <1>4, <1>5, <2>1, <2>2, <2>3, <2>4, <2>5, <2>6, <2>7 DEF Next
<1>. QED
  BY <1>1, <1>5 DEF vars, clientVars, historyVars

\* The consumer implements CommitLog: committed offsets move only to places
\* below which every record is processed, or by another member of the group,
\* and no step takes a record back from the processed ones.
THEOREM ConsumerImplementsCommitLog == Spec => ImplementsCommitLog
BY InitImplements, StepImplements, InvHolds, PTL DEF Spec, ImplementsCommitLog, Group!Spec
=============================================================================
