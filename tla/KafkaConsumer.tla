----------------------------- MODULE KafkaConsumer -----------------------------
(***************************************************************************)
(* kafka/consumer.py: one KafkaConsumer between the Kafka client library   *)
(* (external: modelled from the calls the source makes and the callbacks   *)
(* it registers) and the dispatcher, which pulls messages from listen(),   *)
(* runs their handlers in tasks and calls ack() after a handler ended.     *)
(*                                                                         *)
(* Atomicity: one event loop runs everything, so a step is what a task     *)
(* does between two awaits that suspend: the sleep and getmany of the      *)
(* fetch loop, the event and the yield of listen(), the commit call inside *)
(* ack() and inside a timer.                                               *)
(***************************************************************************)
EXTENDS OffsetTracker, Integers, Sequences, SequencesExt

CONSTANTS
    Partition,        \* the partitions of the subscribed topics
    Log,              \* Log[tp]: the offsets that hold a record; compaction and
                      \* transaction markers may leave gaps between them
    LogEnd,           \* LogEnd[tp]: every offset of Log[tp] is below it
    InFlightLimit,    \* in_flight_msg_limit_per_partition
    BatchSize,        \* batch_size
    Timer, NoTimer,   \* see BatchProcessor
    Absent,           \* the key is not in the dict
    CycleMod,         \* bound: cycle_idx, which is only used modulo the number of
                      \* queues, is kept modulo a multiple of every such number
    MaxRebalances,    \* bound: rebalances after the consumer joined
    MaxRestarts,      \* bound: times the process ends and is started again
    MaxCommitErrors,  \* bound: commits refused while the client is up
    FetchMayRaise     \* may getmany() raise?

ASSUME PartitionAssumption == IsFiniteSet(Partition)
ASSUME CycleModAssumption ==
    /\ CycleMod \in Nat \ {0}
    /\ \A n \in 1 .. Cardinality(Partition) : CycleMod % n = 0
ASSUME LogAssumption ==
    /\ LogEnd \in [Partition -> Nat]
    /\ Log \in [Partition -> SUBSET Nat]
    /\ \A tp \in Partition : \A o \in Log[tp] : o < LogEnd[tp]
ASSUME LimitAssumption == InFlightLimit \in Nat \ {0} /\ BatchSize \in Nat \ {0}
ASSUME NamesAssumption ==
    Absent \notin Int /\ Absent \notin Tracker /\ NoTimer \notin Timer
ASSUME BoundsAssumption ==
    /\ MaxRebalances \in Nat /\ MaxRestarts \in Nat /\ MaxCommitErrors \in Nat
    /\ FetchMayRaise \in BOOLEAN

VARIABLES
    \* ---- the broker and the client library (external)
    committed,        \* the group's committed offset of each partition
    position,         \* the client's next offset to fetch
    assigned,         \* what consumer.assignment() answers
    client,           \* "new", "up", "rebalancing" or "closed"
    \* ---- KafkaConsumer
    isRunning,        \* _is_running
    isDataAvailable,  \* _is_data_available.is_set()
    queues,           \* _queues: the offsets queued; {} also for no queue
    queueKeys,        \* the keys of _queues, in insertion order
    inFlightCount,    \* _in_flight_count
    offsetTrackers,   \* _offset_trackers
    waitingForCommit, \* _waiting_for_commit: one entry per message id
    fetch,            \* where the fetch task is
    listening,        \* where listen() is: "start", "yield", "wait" or "ended"
    cycleIdx,         \* cycle_idx of listen()
    \* ---- its BatchProcessor
    batch, timerTask, sleeping, calls,
    \* ---- the application, and history that no action of the code reads
    handled,          \* the messages whose handler ended and that await their ack()
    processed,        \* the offsets whose handler ended, in this process or another
    assignments,      \* how often each partition was assigned: with the offset it
                      \* stands for a message's UUID
    faults            \* how many rebalances, restarts and commit errors so far

clientVars == <<committed, position, assigned, client>>
queueVars  == <<queues, queueKeys, isDataAvailable>>
ackVars    == <<inFlightCount, offsetTrackers, waitingForCommit>>
listenVars == <<listening, cycleIdx>>
batchVars  == <<batch, timerTask, sleeping, calls>>
historyVars == <<processed, assignments, faults>>
vars == <<clientVars, isRunning, queueVars, ackVars, fetch, listenVars, batchVars,
          handled, historyVars>>

Message == [tp: Partition, offset: Nat, assignment: Nat]
Commit  == Partition \X Nat    \* an item of a batch: (tp, offset + 1)

BP == INSTANCE BatchProcessor WITH Item <- Commit

FetchState ==
    [pc: {"off", "sleep", "getmany", "dead"}, tp: Partition \cup {Absent},
     max: Int, todo: SUBSET Partition, any: BOOLEAN]

TypeOK ==
    /\ committed \in [Partition -> Nat]
    /\ position \in [Partition -> Nat]
    /\ assigned \subseteq Partition
    /\ client \in {"new", "up", "rebalancing", "closed"}
    /\ isRunning \in BOOLEAN /\ isDataAvailable \in BOOLEAN
    /\ queues \in [Partition -> SUBSET Nat]
    /\ queueKeys \in Seq(Partition)
    /\ inFlightCount \in [Partition -> Int \cup {Absent}]
    /\ offsetTrackers \in [Partition -> Tracker \cup {Absent}]
    /\ waitingForCommit \subseteq Message
    /\ fetch \in FetchState
    /\ listening \in {"start", "yield", "wait", "ended"}
    /\ cycleIdx \in Nat
    /\ BP!BatchTypeOK
    /\ handled \subseteq waitingForCommit
    /\ processed \in [Partition -> SUBSET Nat]
    /\ assignments \in [Partition -> Nat]
    /\ faults \in [rebalances: Nat, restarts: Nat, commitErrors: Nat]

-----------------------------------------------------------------------------
FetchAt(pc) == [pc |-> pc, tp |-> Absent, max |-> 0, todo |-> {}, any |-> FALSE]

First(offsets) == CHOOSE o \in offsets : \A p \in offsets : o <= p

Init ==
    /\ committed = [tp \in Partition |-> 0]
    /\ position = [tp \in Partition |-> 0]
    /\ assigned = {} /\ client = "new"
    /\ isRunning = FALSE /\ isDataAvailable = FALSE
    /\ queues = [tp \in Partition |-> {}] /\ queueKeys = << >>
    /\ inFlightCount = [tp \in Partition |-> Absent]
    /\ offsetTrackers = [tp \in Partition |-> Absent]
    /\ waitingForCommit = {} /\ handled = {}
    /\ fetch = FetchAt("off")
    /\ listening = "start" /\ cycleIdx = 0
    /\ BP!BatchInit
    /\ processed = [tp \in Partition |-> {}]
    /\ assignments = [tp \in Partition |-> 0]
    /\ faults = [rebalances |-> 0, restarts |-> 0, commitErrors |-> 0]

-----------------------------------------------------------------------------
(* start, stop, and the end of the process *)

\* start() on fresh objects; the client then joins the group.
Start ==
    /\ client = "new"
    /\ client' = "rebalancing"
    /\ isRunning' = TRUE
    /\ isDataAvailable' = FALSE
    /\ fetch' = FetchAt("sleep")
    /\ UNCHANGED <<committed, position, assigned, queues, queueKeys, ackVars,
                   listenVars, batchVars, handled, historyVars>>

\* stop() up to the cancelled fetch task.  Awaiting a fetch task that already
\* died of an exception raises it again, and stop() goes no further.
Stop ==
    /\ isRunning
    /\ isRunning' = FALSE
    /\ isDataAvailable' = TRUE
    /\ fetch' = IF fetch.pc = "dead" THEN fetch ELSE FetchAt("off")
    /\ UNCHANGED <<clientVars, queues, queueKeys, ackVars, listenVars, batchVars,
                   handled, historyVars>>

\* The rest of stop(): consumer.stop() leaves the group, with no callback.
CloseClient ==
    /\ ~isRunning /\ fetch.pc = "off"
    /\ client \in {"up", "rebalancing"}
    /\ client' = "closed"
    /\ assigned' = {}
    /\ UNCHANGED <<committed, position, isRunning, queueVars, ackVars, fetch,
                   listenVars, batchVars, handled, historyVars>>

\* The process ends, at any point, and another one starts from fresh objects.
Restart ==
    /\ client # "new"
    /\ faults.restarts < MaxRestarts
    /\ faults' = [faults EXCEPT !.restarts = @ + 1]
    /\ client' = "new" /\ assigned' = {}
    /\ isRunning' = FALSE /\ isDataAvailable' = FALSE
    /\ queues' = [tp \in Partition |-> {}] /\ queueKeys' = << >>
    /\ inFlightCount' = [tp \in Partition |-> Absent]
    /\ offsetTrackers' = [tp \in Partition |-> Absent]
    /\ waitingForCommit' = {} /\ handled' = {}
    /\ fetch' = FetchAt("off")
    /\ listening' = "start" /\ cycleIdx' = 0
    /\ batch' = << >> /\ timerTask' = NoTimer /\ sleeping' = {} /\ calls' = << >>
    /\ UNCHANGED <<committed, position, processed, assignments>>

-----------------------------------------------------------------------------
(* _fetch_loop *)

\* Mutant: the limit does not count what is in flight already.
RoomIgnoresInFlight(count) == InFlightLimit

\* max_records_to_fetch, with the count initialised when the key is missing.
Room(count) == InFlightLimit - (IF count = Absent THEN 0 ELSE count)

\* Mutant: the event is only set by the last partition of the pass.
SignalOverwrites(available, any) == any

\* _is_data_available.set() at the end of a pass that fetched something.
Signal(available, any) == available \/ any

\* The pass over the partitions in todo goes on until getmany() is awaited or
\* the pass ends.  assignment() is a set, in no particular order: any of the
\* partitions at their limit may be skipped before the one asked for.
ContinuePass(counts, todo, any) ==
    LET full == {tp \in todo : Room(counts[tp]) <= 0}
    IN  \/ \E tp \in todo \ full, skipped \in SUBSET full :
              /\ inFlightCount' = [counts EXCEPT ![tp] = IF @ = Absent THEN 0 ELSE @]
              /\ fetch' = [pc |-> "getmany", tp |-> tp, max |-> Room(counts[tp]),
                           todo |-> todo \ (skipped \cup {tp}), any |-> any]
              /\ UNCHANGED isDataAvailable
        \/ /\ todo = full
           /\ inFlightCount' = counts
           /\ fetch' = FetchAt("sleep")
           /\ isDataAvailable' = Signal(isDataAvailable, any)

\* The sleep of the fetch loop ends (and the first pass begins).
FetchWake ==
    /\ fetch.pc = "sleep"
    /\ ContinuePass(inFlightCount, assigned, FALSE)
    /\ UNCHANGED <<clientVars, isRunning, queues, queueKeys, offsetTrackers,
                   waitingForCommit, listenVars, batchVars, handled, historyVars>>

\* getmany() returns without records.
FetchNothing ==
    /\ fetch.pc = "getmany"
    /\ ContinuePass(inFlightCount, fetch.todo, fetch.any)
    /\ UNCHANGED <<clientVars, isRunning, queues, queueKeys, offsetTrackers,
                   waitingForCommit, listenVars, batchVars, handled, historyVars>>

\* The records of tp that one getmany() may return, up to the offset hi.
Records(tp, hi) == Log[tp] \cap (position[tp] .. hi)

\* getmany() can return records of the partition it was asked for: it does so
\* for an assigned partition, and not while a rebalance is going on.
CanReturn(tp, hi) ==
    /\ fetch.pc = "getmany" /\ fetch.tp = tp
    /\ client = "up" /\ tp \in assigned
    /\ hi \in Records(tp, hi)
    /\ Cardinality(Records(tp, hi)) <= fetch.max
    /\ position' = [position EXCEPT ![tp] = hi + 1]

\* Mutant: a pass gives the partition a new queue each time.
EnqueueInNewQueue(queue, records) == records

\* A queue is filled by one assignment, in the order of the offsets, so the
\* set of its offsets says what it holds and its least offset is its head.
Enqueue(queue, records) == queue \cup records

AddKey(keys, tp) == IF Contains(keys, tp) THEN keys ELSE Append(keys, tp)

FetchRecords(tp, hi) ==
    LET records == Records(tp, hi)
    IN  /\ CanReturn(tp, hi)
        /\ inFlightCount[tp] # Absent
        /\ queues' = [queues EXCEPT ![tp] = Enqueue(@, records)]
        /\ queueKeys' = AddKey(queueKeys, tp)
        /\ ContinuePass([inFlightCount EXCEPT ![tp] = @ + Cardinality(records)],
                        fetch.todo, TRUE)
        /\ UNCHANGED <<committed, assigned, client, isRunning, offsetTrackers,
                       waitingForCommit, listenVars, batchVars, handled, historyVars>>

\* The count was popped by a revocation while getmany() was awaited and the
\* partition has come back: the += of consumer.py:185 raises KeyError after
\* the first record is queued, and the fetch task ends.
FetchKeyError(tp, hi) ==
    /\ CanReturn(tp, hi)
    /\ inFlightCount[tp] = Absent
    /\ queues' = [queues EXCEPT ![tp] = Enqueue(@, {First(Records(tp, hi))})]
    /\ queueKeys' = AddKey(queueKeys, tp)
    /\ fetch' = FetchAt("dead")
    /\ UNCHANGED <<committed, assigned, client, isRunning, isDataAvailable, ackVars,
                   listenVars, batchVars, handled, historyVars>>

\* getmany() raises: nothing in the loop catches it.
FetchRaises ==
    /\ FetchMayRaise
    /\ fetch.pc = "getmany"
    /\ fetch' = FetchAt("dead")
    /\ UNCHANGED <<clientVars, isRunning, queueVars, ackVars, listenVars, batchVars,
                   handled, historyVars>>

-----------------------------------------------------------------------------
(* listen(), driven by the dispatcher's loop *)

\* The wait for the event is over; after a real wait the loop condition has
\* not been read again, so a stopped consumer may still yield once.
Woken ==
    /\ isDataAvailable
    /\ \/ listening = "wait"
       \/ listening \in {"start", "yield"} /\ isRunning

\* The partition at place j of the walk that begins at cycle_idx.
Turn(j) == queueKeys[((cycleIdx + j) % Len(queueKeys)) + 1]

\* Mutant: the tracker starts where the client will fetch next.
TrackerFromPosition(tp, offset) ==
    IF offsetTrackers[tp] = Absent THEN NewTracker(position[tp]) ELSE offsetTrackers[tp]

\* The tracker of tp once the message at this offset is yielded.
TrackerOf(tp, offset) ==
    IF offsetTrackers[tp] = Absent THEN NewTracker(offset) ELSE offsetTrackers[tp]

\* One message leaves the queue of tp; the generator stops at its yield.
Yield(tp) ==
    LET offset == First(queues[tp])
    IN  /\ queues' = [queues EXCEPT ![tp] = @ \ {offset}]
        /\ waitingForCommit' = waitingForCommit \cup
             {[tp |-> tp, offset |-> offset, assignment |-> assignments[tp]]}
        /\ offsetTrackers' = [offsetTrackers EXCEPT ![tp] = TrackerOf(tp, offset)]
        /\ listening' = "yield"

\* The first queue of the walk that holds something.
ListenYield ==
    /\ Woken
    /\ \E j \in 0 .. (Len(queueKeys) - 1) :
          /\ queues[Turn(j)] # {}
          /\ \A i \in 0 .. (j - 1) : queues[Turn(i)] = {}
          /\ Yield(Turn(j))
          /\ cycleIdx' = (cycleIdx + j + 1) % CycleMod
    /\ UNCHANGED <<clientVars, isRunning, isDataAvailable, queueKeys, inFlightCount,
                   fetch, batchVars, handled, historyVars>>

\* No queue, or none that holds anything: clear the event, then wait for it
\* again, or leave the loop.
ListenIdle ==
    /\ Woken
    /\ \A tp \in Partition : queues[tp] = {}
    /\ isDataAvailable' = FALSE
    /\ cycleIdx' = (cycleIdx + Len(queueKeys)) % CycleMod
    /\ listening' = IF isRunning THEN "wait" ELSE "ended"
    /\ UNCHANGED <<clientVars, isRunning, queues, queueKeys, ackVars, fetch, batchVars,
                   handled, historyVars>>

ListenWait ==
    /\ listening \in {"start", "yield"}
    /\ isRunning /\ ~isDataAvailable
    /\ listening' = "wait"
    /\ UNCHANGED <<clientVars, isRunning, queueVars, ackVars, fetch, cycleIdx,
                   batchVars, handled, historyVars>>

\* The application calls listen() after start(), so never while "new".
ListenEnds ==
    /\ listening \in {"start", "yield"}
    /\ ~isRunning /\ client # "new"
    /\ listening' = "ended"
    /\ UNCHANGED <<clientVars, isRunning, queueVars, ackVars, fetch, cycleIdx,
                   batchVars, handled, historyVars>>

-----------------------------------------------------------------------------
(* the handlers and ack() *)

\* The dispatcher's task for m has run the handlers (AckAfterProcessing).
Handle(m) ==
    /\ m \in waitingForCommit \ handled
    /\ handled' = handled \cup {m}
    /\ processed' = [processed EXCEPT ![m.tp] = @ \cup {m.offset}]
    /\ UNCHANGED <<clientVars, isRunning, queueVars, ackVars, fetch, listenVars,
                   batchVars, assignments, faults>>

\* Mutant: a message may be acknowledged as soon as it is delivered.
MayAckEarly(m) == m \in waitingForCommit

MayAck(m) == m \in handled

\* ack() after a revocation: there is nothing to account.
AckDropped(m) ==
    /\ MayAck(m)
    /\ \/ offsetTrackers[m.tp] = Absent
       \/ inFlightCount[m.tp] = Absent
    /\ waitingForCommit' = waitingForCommit \ {m}
    /\ handled' = handled \ {m}
    /\ UNCHANGED <<clientVars, isRunning, queueVars, inFlightCount, offsetTrackers,
                   fetch, listenVars, batchVars, historyVars>>

\* Mutant: an acknowledged message still counts as in flight.
NoRelease(count) == count

Release(count) == count - 1

\* ack() up to the await inside the batch processor.  It looks the partition
\* up by name: a message of an earlier assignment is accounted to the present
\* one.
AckCounted(m) ==
    LET tracker == offsetTrackers[m.tp]
        marked  == MarkProcessed(tracker, m.offset)
    IN  /\ MayAck(m)
        /\ tracker # Absent
        /\ inFlightCount[m.tp] # Absent
        /\ waitingForCommit' = waitingForCommit \ {m}
        /\ handled' = handled \ {m}
        /\ inFlightCount' = [inFlightCount EXCEPT ![m.tp] = Release(@)]
        /\ offsetTrackers' = [offsetTrackers EXCEPT ![m.tp] = marked]
        /\ IF Advances(tracker, m.offset)
           THEN BP!Add(<<m.tp, marked.next>>)
           ELSE UNCHANGED batchVars
        /\ UNCHANGED <<clientVars, isRunning, queueVars, fetch, listenVars, historyVars>>

-----------------------------------------------------------------------------
(* committing *)

TimerFires ==
    /\ \E t \in Timer : BP!TimerFires(t)
    /\ UNCHANGED <<clientVars, isRunning, queueVars, ackVars, fetch, listenVars,
                   handled, historyVars>>

\* Mutant: of several entries of a partition the first one is committed.
KeptEntryIsFirst(items, tp) ==
    CHOOSE i \in DOMAIN items :
        items[i][1] = tp /\ \A j \in DOMAIN items : items[j][1] = tp => i <= j

\* {tp: offset for tp, offset in batch} keeps the last entry of a partition.
KeptEntry(items, tp) ==
    CHOOSE i \in DOMAIN items :
        items[i][1] = tp /\ \A j \in DOMAIN items : items[j][1] = tp => j <= i

\* The client carries the commits out in the order of the calls.
CommitSucceeds ==
    /\ calls # << >>
    /\ client \in {"up", "rebalancing"}
    /\ committed' = [tp \in Partition |->
           IF \E i \in DOMAIN Head(calls) : Head(calls)[i][1] = tp
           THEN Head(calls)[KeptEntry(Head(calls), tp)][2]
           ELSE committed[tp]]
    /\ BP!HandlerEnds(1)
    /\ UNCHANGED <<position, assigned, client, isRunning, queueVars, ackVars, fetch,
                   listenVars, handled, historyVars>>

\* commit() raises: no part of the batch is committed or tried again.
CommitFails ==
    /\ calls # << >>
    /\ \/ client = "closed" /\ UNCHANGED faults
       \/ /\ client # "closed" /\ faults.commitErrors < MaxCommitErrors
          /\ faults' = [faults EXCEPT !.commitErrors = @ + 1]
    /\ BP!HandlerEnds(1)
    /\ UNCHANGED <<clientVars, isRunning, queueVars, ackVars, fetch, listenVars,
                   handled, processed, assignments>>

-----------------------------------------------------------------------------
(* rebalances and the rest of the group *)

\* Mutant: the queue of a revoked partition stays.
KeepQueues(revoked) == queues

DropQueues(revoked) == [tp \in Partition |-> IF tp \in revoked THEN {} ELSE queues[tp]]

\* The client stops fetching, calls on_partitions_revoked with its whole
\* assignment and keeps answering assignment() with it until the new one is
\* known.  Every key of _queues is an assigned partition, so none is left.
Revoke ==
    /\ client = "up"
    /\ faults.rebalances < MaxRebalances
    /\ faults' = [faults EXCEPT !.rebalances = @ + 1]
    /\ client' = "rebalancing"
    /\ offsetTrackers' = [tp \in Partition |->
                            IF tp \in assigned THEN Absent ELSE offsetTrackers[tp]]
    /\ inFlightCount' = [tp \in Partition |->
                           IF tp \in assigned THEN Absent ELSE inFlightCount[tp]]
    /\ queues' = DropQueues(assigned)
    /\ queueKeys' = << >>
    /\ UNCHANGED <<committed, position, assigned, isRunning, isDataAvailable,
                   waitingForCommit, fetch, listenVars, batchVars, handled, processed,
                   assignments>>

\* on_partitions_assigned does nothing; fetching starts at the committed
\* offset of every partition of the new assignment.
Assign(owned) ==
    /\ client = "rebalancing"
    /\ client' = "up"
    /\ assigned' = owned
    /\ position' = [tp \in Partition |->
                      IF tp \in owned THEN committed[tp] ELSE position[tp]]
    /\ assignments' = [tp \in Partition |->
                         IF tp \in owned THEN assignments[tp] + 1 ELSE assignments[tp]]
    /\ UNCHANGED <<committed, isRunning, queueVars, ackVars, fetch, listenVars,
                   batchVars, handled, processed, faults>>

Owned(tp) == client = "up" /\ tp \in assigned

\* Another member of the group processes and commits up to an offset.
PeerCommits(tp, offset) ==
    /\ ~Owned(tp)
    /\ offset > committed[tp]
    /\ committed' = [committed EXCEPT ![tp] = offset]
    /\ processed' = [processed EXCEPT ![tp] = @ \cup {o \in Log[tp] : o < offset}]
    /\ UNCHANGED <<position, assigned, client, isRunning, queueVars, ackVars, fetch,
                   listenVars, batchVars, handled, assignments, faults>>

-----------------------------------------------------------------------------
Next ==
    \/ Start \/ Stop \/ CloseClient \/ Restart
    \/ FetchWake \/ FetchNothing \/ FetchRaises
    \/ \E tp \in Partition : \E hi \in Log[tp] : FetchRecords(tp, hi) \/ FetchKeyError(tp, hi)
    \/ ListenYield \/ ListenIdle \/ ListenWait \/ ListenEnds
    \/ \E m \in waitingForCommit : Handle(m) \/ AckDropped(m) \/ AckCounted(m)
    \/ TimerFires \/ CommitSucceeds \/ CommitFails
    \/ Revoke
    \/ \E owned \in SUBSET Partition : Assign(owned)
    \/ \E tp \in Partition : \E o \in 1 .. LogEnd[tp] : PeerCommits(tp, o)

Spec == Init /\ [][Next]_vars

\* A task that can run is run by the event loop; handlers end; sleeps end; the
\* client joins its group, answers what it is asked and, asked again and again
\* for a partition that has records, returns some.  Nothing says that the
\* application stops, that a process dies or that the group rebalances.
Fairness ==
    /\ WF_vars(Start)
    /\ WF_vars(FetchWake)
    /\ WF_vars(FetchNothing)
    /\ \A tp \in Partition :
          SF_vars(\E hi \in Log[tp] : FetchRecords(tp, hi))
    /\ WF_vars(ListenYield) /\ WF_vars(ListenIdle)
    /\ WF_vars(ListenWait) /\ WF_vars(ListenEnds)
    /\ WF_vars(\E m \in waitingForCommit : Handle(m))
    /\ WF_vars(\E m \in waitingForCommit : AckDropped(m) \/ AckCounted(m))
    /\ WF_vars(TimerFires)
    /\ WF_vars(CommitSucceeds)
    /\ WF_vars(\E owned \in SUBSET Partition : Assign(owned))

FairSpec == Spec /\ Fairness

-----------------------------------------------------------------------------
(* Properties *)

\* Every record of tp below offset k has been handled by some process.
Safe(tp, k) == \A o \in Log[tp] : o < k => o \in processed[tp]

\* At least once: a committed offset never passes a record whose handler did
\* not end, whatever the order of the acknowledgements, the batches, stale
\* entries of revoked partitions, failed commits, restarts and rebalances.
AtLeastOnce == \A tp \in Partition : Safe(tp, committed[tp])

Group == INSTANCE CommitLog

\* The consumer implements CommitLog: beside AtLeastOnce, no step takes a
\* record back from the processed ones, and no step that moves the committed
\* offset, forward or back, moves it to a place that was not safe before.
ImplementsCommitLog == Group!Spec

\* A running consumer holds no queue and no tracker of a partition that it
\* does not own, even while the client still answers assignment() with it: no
\* message is delivered on behalf of another member (consumer.py:145-152
\* against 164-188).
RevokedIsForgotten ==
    isRunning => \A tp \in Partition : ~Owned(tp) =>
        queues[tp] = {} /\ offsetTrackers[tp] = Absent

\* While a partition is owned and the fetch task lives, each record between
\* the tracker's next offset and the fetch position is queued, delivered or
\* acknowledged: none is lost inside the consumer, where it would hold the
\* tracker back for ever.
NoMessageForgotten ==
    \A tp \in Partition :
        Owned(tp) /\ isRunning /\ fetch.pc # "dead" /\ offsetTrackers[tp] # Absent =>
            \A o \in Log[tp] : offsetTrackers[tp].next <= o /\ o < position[tp] =>
                \/ o \in queues[tp] \cup offsetTrackers[tp].pool
                \/ [tp |-> tp, offset |-> o, assignment |-> assignments[tp]]
                      \in waitingForCommit

\* listen() never sleeps beside a filled queue without the event set or a
\* fetch pass under way that will set it: fetching fills the queues of several
\* partitions one await after the other and sets the event only at the end of the
\* pass (consumer.py:187), while listen() looks at the queues in between and
\* clears it (125-126).
NoLostWakeup ==
    (\E tp \in Partition : queues[tp] # {}) /\ isRunning /\ listening = "wait" =>
        \/ isDataAvailable
        \/ fetch.pc = "getmany" /\ fetch.any
        \/ fetch.pc = "dead"

\* As long as the group never rebalances, the count of a partition is what is
\* queued plus what is delivered and not acknowledged.
InFlightExact ==
    \A tp \in Partition : inFlightCount[tp] # Absent =>
        inFlightCount[tp] = Cardinality(queues[tp])
                          + Cardinality({m \in waitingForCommit : m.tp = tp})

\* No more than in_flight_msg_limit_per_partition messages of the present
\* assignment of a partition are in the consumer and its handlers
\* (docs/docs/tutorial/async_processing/async_processing.md:130).
InFlightBounded ==
    \A tp \in Partition :
        Cardinality(queues[tp]) + Cardinality({m \in waitingForCommit :
            m.tp = tp /\ m.assignment = assignments[tp]}) <= InFlightLimit

\* Once no message of a partition is queued or with the handlers, its tracker
\* has fast-forwarded through everything that was pooled
\* (docs/docs/tutorial/async_processing/async_processing.md:92-93).  A log with
\* gaps breaks it: the offset expected next (offset_tracker.py:16) never comes.
PoolDrains ==
    \A tp \in Partition :
        /\ Owned(tp) /\ offsetTrackers[tp] # Absent
        /\ queues[tp] = {}
        /\ \A m \in waitingForCommit : m.tp # tp
        => offsetTrackers[tp].pool = {}

\* A consumer that keeps running on a partition ends up with every record of
\* it committed, the last ones included, which nothing but the timer commits.
EventuallyCommitted ==
    \A tp \in Partition :
        <>[](isRunning /\ Owned(tp) => committed[tp] = LogEnd[tp])
=============================================================================
