---------------------------- MODULE BatchProcessor ----------------------------
(***************************************************************************)
(* kafka/batch_processor.py: items are collected and handed to a handler   *)
(* when the batch is full or when the timer armed by its first item fires. *)
(*                                                                         *)
(* Atomicity: the event loop switches tasks only at an await that really   *)
(* suspends, that is, at the timer's sleep and inside the handler.         *)
(* Everything add() or a woken timer does before the handler suspends is   *)
(* one step; a handler running is an entry of `calls`.  task.cancel() on a *)
(* timer that has not resumed from its sleep always wins, even when the    *)
(* sleep is already over, so a cancelled timer is no longer in `sleeping`. *)
(***************************************************************************)
EXTENDS Naturals, Sequences, SequencesExt, FiniteSets

CONSTANTS
    Item,        \* what is batched
    BatchSize,   \* max_batch_size
    Timer,       \* names for timer tasks
    NoTimer      \* _timer_task is None

ASSUME BatchSizeAssumption == BatchSize \in Nat \ {0}
ASSUME NoTimerAssumption == NoTimer \notin Timer

VARIABLES
    batch,       \* _batch
    timerTask,   \* _timer_task
    sleeping,    \* timer tasks inside asyncio.sleep (batch_processor.py:28)
    calls        \* batches whose handler call has not ended, in call order

batchVars == <<batch, timerTask, sleeping, calls>>

BatchTypeOK ==
    /\ batch \in Seq(Item)
    /\ timerTask \in Timer \cup {NoTimer}
    /\ sleeping \subseteq Timer
    /\ calls \in Seq(Seq(Item))

BatchInit ==
    /\ batch = << >>
    /\ timerTask = NoTimer
    /\ sleeping = {}
    /\ calls = << >>

\* Mutant: the size flush forgets to cancel the timer.
FlushWithoutCancel(items) ==
    /\ calls' = Append(calls, items)
    /\ batch' = << >>
    /\ timerTask' = NoTimer
    /\ UNCHANGED sleeping

\* _commit_batch("size") and ("time"): a size flush cancels the timer, a time
\* flush comes from the timer itself, which has left its sleep.
Flush(items) ==
    /\ calls' = Append(calls, items)
    /\ batch' = << >>
    /\ sleeping' = sleeping \ {timerTask}
    /\ timerTask' = NoTimer

\* The item fills the batch (batch_processor.py:20-21).
AddFull(x) ==
    /\ Len(batch) + 1 >= BatchSize
    /\ Flush(Append(batch, x))

\* The item opens a batch: a new task sleeps for batch_timeout.
AddArm(x) ==
    /\ Len(batch) + 1 < BatchSize
    /\ timerTask = NoTimer
    /\ batch' = Append(batch, x)
    /\ \E t \in Timer \ sleeping :
          /\ timerTask' = t
          /\ sleeping' = sleeping \cup {t}
    /\ UNCHANGED calls

\* The item joins a batch whose timer runs.
AddMore(x) ==
    /\ Len(batch) + 1 < BatchSize
    /\ timerTask # NoTimer
    /\ batch' = Append(batch, x)
    /\ UNCHANGED <<timerTask, sleeping, calls>>

Add(x) == AddFull(x) \/ AddArm(x) \/ AddMore(x)

\* Mutant: the timer hands the batch over and leaves the items in it.
TimerFiresTwice(t) ==
    /\ t \in sleeping
    /\ batch # << >>
    /\ calls' = Append(calls, batch)
    /\ sleeping' = sleeping \ {t}
    /\ timerTask' = NoTimer
    /\ UNCHANGED batch

\* A timer's sleep ends.  With an empty batch _commit_batch returns before it
\* clears _timer_task (batch_processor.py:34-35).
TimerFires(t) ==
    /\ t \in sleeping
    /\ \/ /\ batch = << >>
          /\ sleeping' = sleeping \ {t}
          /\ UNCHANGED <<batch, timerTask, calls>>
       \/ /\ batch # << >>
          /\ calls' = Append(calls, batch)
          /\ batch' = << >>
          /\ sleeping' = sleeping \ {t}
          /\ timerTask' = NoTimer

\* The handler call at place i ends, by a return or by an exception: the batch
\* was taken before the call, so either way its items are gone from here.
HandlerEnds(i) ==
    /\ i \in DOMAIN calls
    /\ calls' = RemoveAt(calls, i)
    /\ UNCHANGED <<batch, timerTask, sleeping>>

\* The calls that a step began (none or one).
Begun == IF Len(calls') > Len(calls) THEN <<Last(calls')>> ELSE << >>

BatchNext ==
    \/ \E x \in Item : Add(x)
    \/ \E t \in Timer : TimerFires(t)
    \/ \E i \in DOMAIN calls : HandlerEnds(i)

-----------------------------------------------------------------------------
\* While items wait, exactly one timer sleeps and it is the one _timer_task
\* names; while none wait, there is no timer.  So no item is stranded without
\* a timer, and no timer of an earlier batch cuts a later one short
\* (batch_processor.py:20-24 against 37-42).
OneTimerPerBatch ==
    /\ sleeping = {timerTask} \ {NoTimer}
    /\ timerTask = NoTimer <=> batch = << >>
=============================================================================
