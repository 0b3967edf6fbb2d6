----------------------------- MODULE RabbitConsumer ----------------------------
(***************************************************************************)
(* rabbitmq/consumer.py: one task per broker queue moves what the queue's  *)
(* iterator (aio_pika, external) delivers into one asyncio.Queue, from     *)
(* which listen() yields; stop() cancels the tasks, waits for them and     *)
(* puts an end marker.  start(), stop(), listen() and ack() may be called  *)
(* at any time, also start() while a stop() still waits.                   *)
(***************************************************************************)
EXTENDS Integers, Sequences, SequencesExt

CONSTANTS
    Queue,       \* the broker's queues given to the constructor
    Delivery,    \* the messages in them
    QueueOf,     \* QueueOf[m]: where a message waits
    EndMarker,   \* the None that ends listen()
    MaxStarts    \* bound: calls of start() that start something

ASSUME DeliveriesAssumption == QueueOf \in [Delivery -> Queue] /\ EndMarker \notin Delivery
ASSUME BoundAssumption == MaxStarts \in Nat

VARIABLES
    ready,          \* the messages the broker still holds
    isRunning,      \* _is_running
    starts,         \* how often start() started
    live,           \* the _consume_queue tasks that have not ended
    cancelled,      \* those of them that stop() cancelled
    consumerTasks,  \* _consumer_tasks
    gathering,      \* the stop() calls in their gather, each by the tasks it awaits
    buffer,         \* _consumed_messages_queue
    waitingForAck,  \* _waiting_for_ack
    listening,      \* listen(): "wait" and "yield" are its awaits; "ended" before
                    \* the first call and after the last ended
    yielded,        \* the messages the dispatcher got and has not acknowledged
    overlapped      \* start() was called while a stop() still waited

taskVars == <<live, cancelled, consumerTasks, gathering>>
messageVars == <<ready, waitingForAck, yielded>>
rabbitVars == <<messageVars, buffer, isRunning, starts, taskVars, listening, overlapped>>

Task == Queue \X (1 .. MaxStarts)

RabbitTypeOK ==
    /\ ready \subseteq Delivery
    /\ isRunning \in BOOLEAN /\ overlapped \in BOOLEAN
    /\ starts \in 0 .. MaxStarts
    /\ live \subseteq Task /\ consumerTasks \subseteq Task /\ cancelled \subseteq live
    /\ gathering \subseteq SUBSET Task
    /\ buffer \in Seq(Delivery \cup {EndMarker})
    /\ waitingForAck \subseteq Delivery /\ yielded \subseteq Delivery
    /\ listening \in {"wait", "yield", "ended"}

RabbitInit ==
    /\ ready = Delivery
    /\ isRunning = FALSE /\ overlapped = FALSE /\ starts = 0
    /\ live = {} /\ cancelled = {} /\ consumerTasks = {} /\ gathering = {}
    /\ buffer = << >> /\ waitingForAck = {} /\ yielded = {}
    /\ listening = "ended"

-----------------------------------------------------------------------------
Start ==
    /\ ~isRunning /\ starts < MaxStarts
    /\ isRunning' = TRUE /\ starts' = starts + 1
    /\ consumerTasks' = Queue \X {starts + 1}
    /\ live' = live \cup consumerTasks'
    /\ overlapped' = (overlapped \/ gathering # {})
    /\ UNCHANGED <<messageVars, buffer, cancelled, gathering, listening>>

\* mutant: stop() without its end marker.
NoMarker == buffer

WithMarker == Append(buffer, EndMarker)

\* stop() up to its gather, or to its end when there is no task to wait for.
Stop ==
    /\ isRunning
    /\ isRunning' = FALSE
    /\ cancelled' = cancelled \cup (consumerTasks \cap live)
    /\ gathering' = gathering \cup ({consumerTasks} \ {{}})
    /\ buffer' = IF consumerTasks = {} THEN WithMarker ELSE buffer
    /\ UNCHANGED <<messageVars, starts, live, consumerTasks, listening, overlapped>>

\* mutant: stop() does not wait for the tasks it cancelled.
NotGathered(tasks) == tasks \in gathering

\* gather() returns when every task it was given has ended.
GatherReturns(tasks) == tasks \in gathering /\ tasks \cap live = {}

\* The list is cleared, whatever it holds by now.
StopReturns(tasks) ==
    /\ GatherReturns(tasks)
    /\ gathering' = gathering \ {tasks}
    /\ consumerTasks' = {}
    /\ buffer' = WithMarker
    /\ UNCHANGED <<messageVars, isRunning, starts, live, cancelled, listening, overlapped>>

-----------------------------------------------------------------------------
(* The tasks of _consume_queue.                                            *)

Consume(t, m) ==
    /\ t \in live \ cancelled
    /\ m \in ready /\ QueueOf[m] = t[1]
    /\ ready' = ready \ {m}
    /\ waitingForAck' = waitingForAck \cup {m}
    /\ buffer' = Append(buffer, m)
    /\ UNCHANGED <<yielded, isRunning, starts, taskVars, listening, overlapped>>

\* The cancellation is swallowed; an error of the iterator is logged.  Nothing
\* starts the task again.
TaskEnds(t) ==
    /\ t \in live
    /\ live' = live \ {t} /\ cancelled' = cancelled \ {t}
    /\ UNCHANGED <<messageVars, buffer, isRunning, starts, consumerTasks, gathering,
                   listening, overlapped>>

-----------------------------------------------------------------------------
(* listen() and ack(), called by the dispatcher.                           *)

\* The dispatcher is started, again or for the first time: a new listen() tests the
\* flag.  (Without the flag it ends at once.)
Listen ==
    /\ listening = "ended" /\ isRunning
    /\ listening' = "wait"
    /\ UNCHANGED <<messageVars, buffer, isRunning, starts, taskVars, overlapped>>

\* mutant: the flag is tested once more after the get().
YieldedWhileRunning(m) == IF isRunning THEN yielded \cup {m} ELSE yielded

Yielded(m) == yielded \cup {m}

\* mutant: the None is not told from a message.
ListenGetUnchecked ==
    /\ listening = "wait" /\ buffer # << >>
    /\ buffer' = Tail(buffer)
    /\ listening' = "yield" /\ yielded' = Yielded(Head(buffer))
    /\ UNCHANGED <<ready, waitingForAck, isRunning, starts, taskVars, overlapped>>

ListenGet ==
    /\ listening = "wait" /\ buffer # << >>
    /\ buffer' = Tail(buffer)
    /\ \/ /\ Head(buffer) = EndMarker
          /\ listening' = "ended" /\ UNCHANGED yielded
       \/ /\ Head(buffer) # EndMarker
          /\ listening' = "yield" /\ yielded' = Yielded(Head(buffer))
    /\ UNCHANGED <<ready, waitingForAck, isRunning, starts, taskVars, overlapped>>

\* The dispatcher asks for the next message: the loop tests the flag first.
ListenResume ==
    /\ listening = "yield"
    /\ listening' = IF isRunning THEN "wait" ELSE "ended"
    /\ UNCHANGED <<messageVars, buffer, isRunning, starts, taskVars, overlapped>>

\* pop() and then the broker's acknowledgement, which may fail: the entry is gone.
Ack(m) ==
    /\ m \in yielded
    /\ waitingForAck' = waitingForAck \ {m} /\ yielded' = yielded \ {m}
    /\ UNCHANGED <<ready, buffer, isRunning, starts, taskVars, listening, overlapped>>

-----------------------------------------------------------------------------
RabbitNext ==
    \/ Start \/ Stop
    \/ \E tasks \in gathering : StopReturns(tasks)
    \/ \E t \in live : TaskEnds(t) \/ \E m \in ready : Consume(t, m)
    \/ Listen \/ ListenGet \/ ListenResume
    \/ \E m \in yielded : Ack(m)

RabbitSpec == RabbitInit /\ [][RabbitNext]_rabbitVars

\* A cancelled task ends and a gather that can return does; the dispatcher goes on
\* iterating.  That messages come, or that anyone calls stop(), is not assumed.
RabbitFairness ==
    /\ \A t \in Task : WF_rabbitVars(t \in cancelled /\ TaskEnds(t))
    /\ WF_rabbitVars(\E tasks \in gathering : StopReturns(tasks))
    /\ WF_rabbitVars(ListenGet) /\ WF_rabbitVars(ListenResume)

-----------------------------------------------------------------------------
(* Properties.                                                             *)

\* A message taken from the broker is in the queue once or with the dispatcher, and
\* _waiting_for_ack has exactly those, through any stops and restarts: none is lost
\* between the two and ack() finds what it pops (consumer.py:42-43, 78-86).
NothingIsLost ==
    /\ waitingForAck = yielded \cup (ToSet(buffer) \ {EndMarker})
    /\ \A i, j \in 1 .. Len(buffer) :
         i # j /\ buffer[i] = buffer[j] => buffer[i] = EndMarker
    /\ yielded \cap ToSet(buffer) = {}

\* When stop() has returned, no task takes messages from the broker any more, as long
\* as start() was never called before an earlier stop() had returned.
StoppedIsQuiet == ~isRunning /\ gathering = {} /\ ~overlapped => live = {}

\* After stop(), listen() ends, wherever it was, unless the consumer is started again.
StopEndsListen == ~isRunning ~> (listening = "ended" \/ isRunning)
================================================================================
