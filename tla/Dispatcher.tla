------------------------------- MODULE Dispatcher ------------------------------
(***************************************************************************)
(* dispatcher/dispatcher.py with the two acknowledgement policies of       *)
(* dispatcher/ack_policy.py and handlers wrapped in middleware/retry.py.   *)
(* start() takes messages from the consumer, waits for a permit when a     *)
(* concurrency limit is set, and runs each message in a task; the task     *)
(* gathers one task per handler.  When listen() ends, start() waits for    *)
(* the tasks it still holds.                                               *)
(*                                                                         *)
(* A step is what one task does between two suspensions.  The consumer,    *)
(* the handlers and the middlewares of the application decide how their    *)
(* awaits end.                                                             *)
(***************************************************************************)
EXTENDS Integers, FiniteSets

CONSTANTS
    Message,     \* the messages the consumer may yield, a redelivery being another one
    Handler,     \* the registered handlers
    Routes,      \* Routes[m]: the handlers _handlers.get() finds for a message
    Malformed,   \* the messages whose payload does not deserialize
    Early,       \* the messages of routes with the policy AckBeforeProcessing
    Retries,     \* Retries[h]: the retries of the handler's Retry, 0 without one
    Limits,      \* the values of concurrency_limit to consider
    NoLimit      \* concurrency_limit=None

ASSUME MessagesAssumption == IsFiniteSet(Message) /\ Routes \in [Message -> SUBSET Handler]
ASSUME RetriesAssumption == Retries \in [Handler -> Nat]
ASSUME LimitsAssumption == Limits \subseteq Nat \cup {NoLimit} /\ NoLimit \notin Int

VARIABLES
    limit,       \* concurrency_limit
    permits,     \* the value of the semaphore
    loop,        \* start(): awaits "listen", a permit ("acquire"), the tasks ("drain"),
                 \* or has "returned"
    abandoned,   \* start() was cancelled or its last wait timed out
    tasks,       \* _tasks, each by its message
    stage,       \* how far each message is
    run,         \* how far each handler call of each message is
    attempt,     \* the local of Retry.dispatch, for each handler call
    acks         \* how often ack() was called for each message

loopVars == <<limit, loop, abandoned>>
callVars == <<run, attempt>>
vars == <<loopVars, permits, tasks, stage, callVars, acks>>

RunState == {"none", "running", "delay", "ok", "raised", "cancelled"}
Stage == {"unseen", "held", "ready", "acking", "handlers", "finished", "done"}

TypeOK ==
    /\ limit \in Nat \cup {NoLimit}
    /\ permits \in Nat
    /\ loop \in {"listen", "acquire", "drain", "returned"}
    /\ abandoned \in BOOLEAN
    /\ tasks \subseteq Message
    /\ stage \in [Message -> Stage]
    /\ run \in [Message -> [Handler -> RunState]]
    /\ attempt \in [Message -> [Handler -> Nat]]
    /\ acks \in [Message -> Nat]

Init ==
    /\ limit \in Limits
    /\ permits = IF limit = NoLimit THEN 0 ELSE limit
    /\ loop = "listen" /\ abandoned = FALSE /\ tasks = {}
    /\ stage = [m \in Message |-> "unseen"]
    /\ run = [m \in Message |-> [h \in Handler |-> "none"]]
    /\ attempt = [m \in Message |-> [h \in Handler |-> 0]]
    /\ acks = [m \in Message |-> 0]

-----------------------------------------------------------------------------
(* start(): one task takes the messages and makes a task of each.          *)

Reach(m, s) == stage' = [stage EXCEPT ![m] = s]

\* mutant: the task is not kept in _tasks.
SpawnUntracked(m) == Reach(m, "ready") /\ UNCHANGED tasks

Spawn(m) == Reach(m, "ready") /\ tasks' = tasks \cup {m}

\* A message arrives and there is a permit, or none is needed.
Take(m) ==
    /\ loop = "listen" /\ stage[m] = "unseen"
    /\ limit = NoLimit \/ permits > 0
    /\ permits' = IF limit = NoLimit THEN permits ELSE permits - 1
    /\ Spawn(m)
    /\ UNCHANGED <<loopVars, callVars, acks>>

TakeAndWait(m) ==
    /\ loop = "listen" /\ stage[m] = "unseen"
    /\ limit # NoLimit /\ permits = 0
    /\ loop' = "acquire" /\ Reach(m, "held")
    /\ UNCHANGED <<limit, abandoned, permits, tasks, callVars, acks>>

\* mutant: the acquire() is not awaited.
AcquireUnawaited(m) ==
    /\ loop = "acquire" /\ stage[m] = "held"
    /\ permits' = permits - 1 /\ loop' = "listen"
    /\ Spawn(m)
    /\ UNCHANGED <<limit, abandoned, callVars, acks>>

Acquire(m) ==
    /\ loop = "acquire" /\ stage[m] = "held"
    /\ permits > 0
    /\ permits' = permits - 1 /\ loop' = "listen"
    /\ Spawn(m)
    /\ UNCHANGED <<limit, abandoned, callVars, acks>>

\* The consumer was stopped.  With tasks left, start() waits for them.
ListenEnds ==
    /\ loop = "listen"
    /\ loop' = IF tasks = {} THEN "returned" ELSE "drain"
    /\ UNCHANGED <<limit, abandoned, permits, tasks, stage, callVars, acks>>

\* asyncio.wait() returns after the done callback of every task it was given.
Drained ==
    /\ loop = "drain" /\ tasks = {}
    /\ loop' = "returned"
    /\ UNCHANGED <<limit, abandoned, permits, tasks, stage, callVars, acks>>

\* The thirty seconds are over, the application cancels start(), or listen() raises.
Abandon ==
    /\ loop # "returned"
    /\ loop' = "returned" /\ abandoned' = TRUE
    /\ UNCHANGED <<limit, permits, tasks, stage, callVars, acks>>

-----------------------------------------------------------------------------
(* The task of one message: with_release(_handle_message(message)).        *)

Active(m) == stage[m] \in {"ready", "acking", "handlers"}

\* mutant: the release follows the await instead of standing in a finally.
LeaveAfterSuccess(m) ==
    /\ Reach(m, "finished")
    /\ permits' = IF limit = NoLimit \/ m \in Malformed THEN permits ELSE permits + 1

\* The finally of with_release runs however the coroutine ends.
Leave(m) ==
    /\ Reach(m, "finished")
    /\ permits' = IF limit = NoLimit THEN permits ELSE permits + 1

\* The policy calls ack().
CallAck(m) == Reach(m, "acking") /\ acks' = [acks EXCEPT ![m] = @ + 1]

\* The policy runs the pipeline: the middlewares of the dispatcher let the message
\* through to its handlers, or return without them.
Process(m) ==
    \E H \in {Routes[m], {}} :
        /\ Reach(m, "handlers")
        /\ run' = [run EXCEPT ![m] =
                      [h \in Handler |-> IF h \in H THEN "running" ELSE "none"]]

BeginMalformed(m) ==
    /\ stage[m] = "ready" /\ m \in Malformed
    /\ Leave(m)
    /\ UNCHANGED <<loopVars, tasks, callVars, acks>>

BeginEarly(m) ==
    /\ stage[m] = "ready" /\ m \in Early \ Malformed
    /\ CallAck(m)
    /\ UNCHANGED <<loopVars, permits, tasks, callVars>>

Begin(m) ==
    /\ stage[m] = "ready" /\ m \notin Early \cup Malformed
    /\ Process(m)
    /\ UNCHANGED <<loopVars, permits, tasks, attempt, acks>>

\* ack() returned or raised: the policies go on in the same way.
AckEndsEarly(m) ==
    /\ stage[m] = "acking" /\ m \in Early
    /\ Process(m)
    /\ UNCHANGED <<loopVars, permits, tasks, attempt, acks>>

AckEnds(m) ==
    /\ stage[m] = "acking" /\ m \notin Early
    /\ Leave(m)
    /\ UNCHANGED <<loopVars, tasks, callVars, acks>>

\* mutant: gather() without return_exceptions returns at the first error.
GatheredOrRaised(m) ==
    \/ \A h \in Handler : run[m][h] \in {"none", "ok", "raised"}
    \/ \E h \in Handler : run[m][h] = "raised"

\* gather(return_exceptions=True) returns when the last handler has ended.
Gathered(m) == \A h \in Handler : run[m][h] \in {"none", "ok", "raised"}

Processed(m) ==
    /\ stage[m] = "handlers" /\ Gathered(m) /\ m \notin Early
    /\ CallAck(m)
    /\ UNCHANGED <<loopVars, permits, tasks, callVars>>

\* The pipeline of an acknowledged message returned, or a middleware raised in any.
ProcessedLast(m) ==
    /\ stage[m] = "handlers" /\ Gathered(m)
    /\ Leave(m)
    /\ UNCHANGED <<loopVars, tasks, callVars, acks>>

\* handle_result: whether t.result() raises or not, the task is discarded first.
HandleResult(m) ==
    /\ stage[m] = "finished"
    /\ Reach(m, "done") /\ tasks' = tasks \ {m}
    /\ UNCHANGED <<loopVars, permits, callVars, acks>>

\* After start() the event loop may be closed: it cancels the task and, through
\* gather, its handlers.  A cancellation is no Exception: neither Retry nor the
\* policy goes on.  By then the task has run its first step: it was scheduled
\* before start() could return.
CancelTask(m) ==
    /\ loop = "returned" /\ stage[m] \in {"acking", "handlers"}
    /\ run' = [run EXCEPT ![m] =
                  [h \in Handler |-> IF run[m][h] \in {"running", "delay"}
                                     THEN "cancelled" ELSE run[m][h]]]
    /\ Leave(m)
    /\ UNCHANGED <<loopVars, tasks, attempt, acks>>

-----------------------------------------------------------------------------
(* The task of one handler: Handler.handle with a Retry around it.         *)

AttemptReturns(m, h) ==
    /\ run[m][h] = "running"
    /\ run' = [run EXCEPT ![m][h] = "ok"]
    /\ UNCHANGED <<loopVars, permits, tasks, stage, attempt, acks>>

\* mutant: the attempts are not counted.
SameAttempt(m, h) == UNCHANGED attempt

NextAttempt(m, h) == attempt' = [attempt EXCEPT ![m][h] = @ + 1]

\* Retry.dispatch catches the error and sleeps.
AttemptRetried(m, h) ==
    /\ run[m][h] = "running" /\ attempt[m][h] < Retries[h]
    /\ run' = [run EXCEPT ![m][h] = "delay"]
    /\ NextAttempt(m, h)
    /\ UNCHANGED <<loopVars, permits, tasks, stage, acks>>

\* The retries are used up, or retry_on does not list the error.
AttemptRaises(m, h) ==
    /\ run[m][h] = "running"
    /\ run' = [run EXCEPT ![m][h] = "raised"]
    /\ UNCHANGED <<loopVars, permits, tasks, stage, attempt, acks>>

DelayEnds(m, h) ==
    /\ run[m][h] = "delay"
    /\ run' = [run EXCEPT ![m][h] = "running"]
    /\ UNCHANGED <<loopVars, permits, tasks, stage, attempt, acks>>

-----------------------------------------------------------------------------
Attempt(m, h) == AttemptReturns(m, h) \/ AttemptRetried(m, h) \/ AttemptRaises(m, h)

TaskStep(m) ==
    \/ BeginMalformed(m) \/ BeginEarly(m) \/ Begin(m)
    \/ AckEndsEarly(m) \/ AckEnds(m)
    \/ Processed(m) \/ ProcessedLast(m) \/ HandleResult(m)

LoopStep(m) == Take(m) \/ TakeAndWait(m) \/ Acquire(m)

Next ==
    \/ ListenEnds \/ Drained \/ Abandon
    \/ \E m \in Message :
        \/ LoopStep(m) \/ TaskStep(m) \/ CancelTask(m)
        \/ \E h \in Handler : Attempt(m, h) \/ DelayEnds(m, h)

Spec == Init /\ [][Next]_vars

\* asyncio runs every task that is ready, a sleep ends, and handlers, middlewares
\* and ack() end sooner or later.  Nothing says that handlers ever succeed, that
\* messages arrive or that the consumer is stopped.
Fairness ==
    /\ WF_vars(Drained)
    /\ \A m \in Message :
        /\ WF_vars(Acquire(m)) /\ WF_vars(TaskStep(m))
        /\ \A h \in Handler : WF_vars(Attempt(m, h)) /\ WF_vars(DelayEnds(m, h))

FairSpec == Spec /\ Fairness

-----------------------------------------------------------------------------
(* Properties.                                                             *)

\* Every permit is in the semaphore or with a message whose task has not ended: on
\* no path through a message task is the release of dispatcher.py:82 missed or made
\* twice, so that the limit neither shrinks nor grows over time.
PermitsBalance ==
    limit # NoLimit => permits + Cardinality({m \in Message : Active(m)}) = limit

\* Whatever the dispatcher does with a message is allowed by MessageLife: at most one
\* ack(), in its place before or after all handlers (ack_policy.py:25-28, 42-46).
ML == INSTANCE MessageLife WITH
    given <- {m \in Message : stage[m] # "unseen"},
    started <- {c \in Message \X Handler : run[c[1]][c[2]] # "none"},
    ended <- {c \in Message \X Handler : run[c[1]][c[2]] \in {"ok", "raised"}}
ImplementsMessageLife == ML!Life

\* A start() that returned by itself has left nothing behind: no message is held
\* without a task and no task still runs (dispatcher.py:99-103).
DrainIsComplete ==
    loop = "returned" /\ ~abandoned => \A m \in Message : stage[m] \in {"unseen", "done"}

\* A message that was taken is done with in the end, unless start() was abandoned:
\* the loop gets its permit back and retrying comes to an end.  A limit of zero is
\* accepted by asyncio.Semaphore and dispatches nothing.
EveryMessageSettles ==
    \A m \in Message :
        (limit # 0 /\ stage[m] # "unseen") ~> (stage[m] = "done" \/ abandoned)

\* docs/docs/tutorial/advanced/ack_policy.md:40-41 on the default policy: "If your
\* application crashes, the database goes down, or an exception is raised before the
\* handler completes, the message is never acknowledged."
RaisedIsNotAcknowledged ==
    \A m \in Message \ Early :
        acks[m] > 0 => \A h \in Handler : run[m][h] # "raised"
================================================================================
