# A verification of dispytch

dispytch is an asynchronous Python library for event handling. An `EventDispatcher` takes
messages from a `Consumer` (Kafka, RabbitMQ or Redis), decodes each one, runs the handlers
registered for its route in tasks of their own and acknowledges the message before or after
them. Everything runs on one asyncio event loop: there are no data races, but every `await`
is a place where other tasks, callbacks of a client library or a cancellation get in between.

This directory models the stateful parts of the library in TLA+, checks them with TLC on
small instances, and proves safety properties of the central ones with TLAPS for all values of
their constants. `PROJECT.json` lists the components, runs, mutants, hazards, findings and
theorems, and maps each definition to the lines it models.

## 1. The system

Paths are below `src/dispytch/`.

| component | state it keeps | operations | who calls it |
|---|---|---|---|
| offset tracker `kafka/offset_tracker.py` | next expected offset, pool of later ones | `mark_processed` | Kafka consumer, one tracker per partition |
| batch processor `kafka/batch_processor.py` | open batch, timer task | `add`, timer, flush | Kafka consumer |
| Kafka consumer `kafka/consumer.py` | queues, in-flight counts, trackers, messages to commit, data event, fetch task | `start`, `stop`, fetch loop, `listen`, `ack`, rebalance callbacks, batch commit | dispatcher, aiokafka |
| event dispatcher `dispatcher/dispatcher.py` | tries of handlers and policies, set of tasks, semaphore | registration, `start`, message tasks, handler tasks | application, consumer |
| acknowledgement policies `dispatcher/ack_policy.py` | none | `execute` | message task |
| retry `middleware/retry.py` | attempt count of one call | `dispatch` | handler's middleware chain |
| lock `middleware/async_lock.py` | semaphore and reference count per key | `dispatch` | handler's middleware chain |
| middleware pipeline `dispatcher/middleware.py`, interceptor, filter `middleware/` | none | `execute`, `dispatch` | handler task |
| dependency resolution `di/tree.py`, `dependency.py`, `solver.py` | a task per node and event, one exit stack per event | `resolve`, teardown | handler call |
| dependency graph `di/builder.py`, `extractor.py` | cached tree per function | depth-first build, cycle check | first resolution |
| route trie `dispatcher/trie.py` | nodes with values | `insert`, `get` | dispatcher |
| registration `dispatcher/router.py`, `handler.py`, `dispatcher.py` | a router's table of handlers, the dispatcher's two tries | `handler`, `add_router`, `set_ack_policy` | application |
| RabbitMQ consumer `rabbitmq/consumer.py` | message queue, unacknowledged messages, consuming tasks | `start`, `stop`, consuming tasks, `listen`, `ack` | dispatcher, aio_pika |
| emitter `emitter/` | the timeout callback | `emit`, `on_timeout`, `format_dynamic` | application |
| producers `kafka/`, `rabbitmq/`, `redis/producer.py` | none | `send` | emitter |
| Redis consumer `redis/consumer.py` | none | `listen`, `ack` | dispatcher |
| serializers `serialization/` | none | one call each | emitter, dispatcher |

How they interact: the dispatcher's loop iterates over `Consumer.listen()` and makes a task
per message; that task calls `Consumer.ack()` through the policy and starts one task per
handler; a handler call goes through its middlewares (retry, lock) and resolves its
dependencies around the function. An emitter fills the fields of an event into its route and
gives it to a producer; the dispatcher cuts the route of what arrives into segments, looks
them up in its tries, and a handler's `SubscriptionParam`s are the segments at the
placeholders of its own subscription. The Kafka consumer's `ack()` feeds the partition's offset
tracker and, when the tracker moves, the batch processor, whose timer and full batches call
the client library's commit.

What is hard about each, and what makes it correct:

* **Offset tracker.** Acknowledgements come in any order, repeated, and from before the
  tracker's start. It must stand at the first offset that is not acknowledged, always.
* **Batch processor.** The timer races the flush by size. Each item is handed over exactly
  once and in order, and no item waits without a timer.
* **Kafka consumer.** The fetch loop, `listen()`, the handlers, the commits and two callbacks
  of the client interleave; a rebalance deletes state under a suspended task. No commit may
  pass an unprocessed record, whatever fails; a revoked partition leaves nothing behind; a
  record of an owned partition is not lost inside; `listen()` is woken; the number in flight
  is bounded; a consumer that keeps running commits everything.
* **Dispatcher.** Message tasks end by return, error and cancellation on many paths; each
  must give its permit back once, leave the task set, and acknowledge at most once and in its
  place. `start()` must not return over tasks it should have waited for, and every message
  taken must be settled.
* **Lock.** The entry of a key is dropped by its last user and made again by the next, and a
  waiter can be cancelled before or after it was handed a permit. The limit holds per key,
  all users of a key share one semaphore, and everyone gets through.
* **Pipeline.** A lock may stand inside one `Retry` and outside another: it must be held in
  every attempt of the inner one and free during the delays of the outer one. Nested retries
  multiply, a filter or an interceptor may end the way in anywhere, and every event must come
  out.
* **Dependency graph.** A function may be reached along several paths, with and without
  `use_cache`. It must become one node or several as asked for, and only a real cycle may be
  refused.
* **Routing.** Patterns overlap, share nodes under different placeholder names, and hide one
  another where `override_wildcard` is used; a router is copied when it is added; a delimiter
  inside a value shifts the segments after it. A route must find exactly the handlers whose
  pattern matches, each as often as it was registered.
* **Emitter.** A timeout races the broker, and its callback may be replaced, asynchronous, or
  raise. An `emit()` that returned must be accounted for.
* **Dependency resolution.** Shared nodes are awaited from several tasks, exits are pushed in
  the order in which tasks happen to end, and `gather` leaves tasks running when one fails.
  A dependency is made once per event, entered before and left after whatever uses it, and
  nothing is kept.
* **RabbitMQ consumer.** `stop()` cancels tasks and waits for them while `start()`, `listen()`
  and `ack()` may go on. A message taken from the broker is in exactly one place, a stopped
  consumer takes nothing, and `listen()` ends.

## 2. Modules

    OffsetTracker <--- KafkaConsumer ---implements---> CommitLog
          |                 |
          |            BatchProcessor
          +---- CommitPath ----+ ---implements---> BatchQueue
    Dispatcher (policies, Retry) ---implements---> MessageLife
    AsyncLock <--- Pipeline
    RouteText <--- Routing, Emission <--- EventFlow
    DependencyTree, DependencyGraph      RabbitConsumer

A step of a model is what one task does between two suspensions, since asyncio switches
tasks nowhere else. An `await` that does not suspend (an unlocked semaphore, a set event, a
finished future) is part of its step. The client libraries and asyncio's own objects are
external: modelled from the calls made and the callbacks registered here, and marked so in the
map. A definition introduced by a comment "mutant" is a plausible bug in the definition after
it; it is used to show that a property notices that bug, and by nothing else.

**OffsetTracker** has a tracker as a value and `MarkProcessed` as an operator; the `while`
loop is replaced by the place where it stops (`FirstGap`). **CommitPath** feeds one tracker, and
the batch processor with what comes out of it, as `ack()` does; it also has the loop as a
recursion (`Loop`) and compares the closed form with it in every state.

**BatchProcessor** has `AddFull`, `AddArm` and `AddMore` (the three ways through `add()`),
`TimerFires` (the sleep ends, the batch goes to the handler) and `HandlerEnds`. `calls` are
the handler calls in progress: the batch is emptied before the handler is awaited, so several
can run. **BatchQueue** is its abstract specification: items go in, and leave in batches, in
order, once; an item does not stay for ever.

**KafkaConsumer** holds the consumer, instantiates BatchProcessor on its own variables, and
uses OffsetTracker. Actions and code:

* `Start`, `Stop`, `CloseClient`: `start()` and the two halves of `stop()`; a fetch task that
  died of an error makes `stop()` raise between them. `Restart`: the process ends at any point
  and a new one starts from fresh objects, with what the broker has.
* `FetchWake`, `FetchNothing`, `FetchRecords`, `FetchKeyError`, `FetchRaises`: the fetch loop up
  to its next suspension, which is `getmany()` or the sleep; `ContinuePass` is the rest of the
  pass over `assignment()`, a set in no particular order. `FetchKeyError` is the `+=` on a key
  that a revocation removed while `getmany()` was awaited.
* `ListenYield`, `ListenIdle`, `ListenWait`, `ListenEnds`: the generator up to its next yield,
  its wait for the event or its end, with the round-robin walk from `cycle_idx`.
* `Handle`: the message's handlers ended. `AckDropped`, `AckCounted`: `ack()` after a
  revocation, and with tracker and count. That an `ack()` follows the handlers is what
  AckAfterProcessing does and what MessageLife states of the dispatcher: the two models meet
  there.
* `TimerFires`, `CommitSucceeds`, `CommitFails`: the batch is handed to the commit; the client
  carries it out, keeping the last offset of each partition, or refuses it.
* `Revoke`, `Assign`, `PeerCommits`: the two callbacks and what the rest of the group does
  with a partition it holds meanwhile.

A queue is the set of its offsets (one assignment fills it in order), a message id is the
partition, the offset and the number of the assignment. `processed` and `assignments` are
history. **CommitLog** is the abstract specification: records get processed and stay so, and
a commit moves an offset, forward or back, only to a place below which all is processed.

**Dispatcher** models `start()` (`Take`, `TakeAndWait`, `Acquire`, `ListenEnds`, `Drained`,
`Abandon`), the task of a message (`BeginMalformed`, `BeginEarly`, `Begin`, `AckEndsEarly`,
`AckEnds`, `Processed`, `ProcessedLast`, `HandleResult`, `CancelTask`) under either policy, and
the task of a handler in a Retry (`AttemptReturns`, `AttemptRetried`, `AttemptRaises`,
`DelayEnds`). Which handlers a route has is a constant. `Abandon` is the timeout of the last
wait, a cancelled `start()` or a `listen()` that raises. A middleware of the dispatcher may
skip the handlers (`Process`) or raise (`ProcessedLast`). **MessageLife** is the abstract
specification: handlers start once, end once each, and the one `ack()` comes before all or
after all of them, never for a payload that does not decode.

**AsyncLock** models `dispatch()` (`Enter`, `EnterAndWait`, `Resume`, `Leave`) and cancellation
(`Cancel`, `Unwind`). The semaphore is asyncio's of Python 3.13 (the version the project
requires): a released permit goes to the first waiting future, and a waiter cancelled after
it was woken hands the permit on.

**Pipeline** composes AsyncLock with the other middlewares: a handler behind a sequence of
layers. A task goes in through the layers (`GoIn`) and comes out with what the handler returned
or raised (`GoOut`). It can be suspended at the lock, in the handler, in the handler of an
exception and in the delay of a `Retry`, and nowhere else, so one step leads through all the
layers between two such places: `StopInwards` and `StopOutwards` say where the next one is.
Each time a task goes in through the lock is a call of AsyncLock of its own; a pipeline has one
lock (`PipelinesAssumption`), since two locks of one pipeline are different AsyncLocks to the
code and the same lock twice waits for itself. How many passages there are is the one bound
(`Call`). `CancelTask` is a cancellation anywhere.

**DependencyGraph** is the recursive `_build_dependency_branches` as the stack of its calls
(`active`), for signatures that are chosen at the start. `Dependencies` is what
`extract_dependencies` makes of a signature, `ComesTo` the order of its dict. For the next
dependency of the innermost call there are `Reuse` (a node is in `resolved`), `RefuseCycle` and
`Descend`; `Return` ends a call below the first and hangs its node into the caller, `Finish` ends
the first. A call and the node made of it have one number (`builds`). The two properties speak of
the step that ends a build: what it raises is compared with the call graph (`Needs`), and who
shares a node with who asked for it.

**MCDependencyTree** puts the two halves of the injection one after the other: the tree is built,
and if the signatures are those of the example, DependencyTree resolves it for two events. Only
the state in which exactly that tree was built (`ExampleIsBuilt`) lets the events begin, so the
constants of that half are what the code makes.

**RouteText** is `format_dynamic`: a text is a sequence of `Part`s between delimiters, some of
them names of fields (`BracedName` says of which); a value may be several parts.

**Routing** has a trie as the function from the paths of its nodes to their values, `Insert` and
`Get` as in `trie.py`, and the actions `Decorate`, `Handler`, `AddRouter` and `SetAckPolicy` of
an application that registers. A router keeps its dict as the sequence of its entries, in the
order of insertion (`AppendedAt`), and `add_router` inserts what is in it one by one
(`Collected`, `InsertAll`). `Route` is what is looked up; the two properties ask it of every
route in every state. `delimited` says whether the dispatcher was given a
`route_delimiter`, which decides what a segment is. `registered` and `policiesSet` are history:
with them `FindsAll` and `FindsUnhidden` say what lookup finds without any tree, and
`FindsMostExact` what `trie.py:20` promises of policies. The two differ where a pattern that does
not match hides one that does.

**Emission** models `emit()` with the producers: `EmitRefused` is everything that raises before
the producer awaits its client, `EmitSends` the rest. After that the client may deliver
(`Arrives`), the call may return, raise or time out, in any combination the client allows:
a message that timed out may still arrive. That the call of a client which returns has delivered
the message (`SendReturns`) is an assumption about the client, not something the library
guarantees; SettledIsKnown rests on it. Only the producers of Kafka and RabbitMQ turn a
timeout into `ProducerTimeout`.

**EventFlow** puts Emission and Routing on the two ends of a Redis connection. `RedisDelivers` is
the broker, which hands a message to a channel subscription, a pattern subscription, both or
nobody; `ListenSkips` and `HandleMessage` are `listen()` and what the dispatcher does with a
message. How messages and handlers interleave is Dispatcher's subject; here a message is
dispatched in one step, and the question is which handlers it reaches with which arguments.
EventsReachTheirHandlers asks it of the events whose route is written like the subscription,
provided that every `{name}` in it is a whole segment (`Whole`) and that no value contains the
delimiter (`Unsplit`).

**DependencyTree** models the resolution of one handler's tree for several events. A call of
`DependencyNode.resolve` is named by the parameters that lead to it. `AwaitTask`, `MakeTask`,
`FunctionRaises`, `CallRaises`, `CallEnters` and `CallFails` are the steps of a call,
`TaskEnters` and `TaskRaises` those of the shared task of a node; `RunHandler`,
`ResolveRaises`, `HandlerReturns`, `HandlerRaises` and `Cancel` are `DependencyTree.resolve`
around the handler; `LeaveDependency`, `LeaveNode` and `Unwound` are the exit stack. A generator is
resumed only when no error passes its wrapper; a context manager sees the error, may swallow
it or raise another. Not considered: a cancellation that comes after a first error.

**RabbitConsumer** models `start()`, `stop()` with its gather (`Stop`, `StopReturns`), the
consuming tasks (`Consume`, `TaskEnds`), `listen()` (`Listen`, `ListenGet`, `ListenResume`) and
`Ack`, with `start()` and `stop()` at any moment and more than one `stop()` under way.

**MCMessagePath** checks RabbitConsumer, Dispatcher and CommitPath in one run. They share no state:
the consumer yields to any dispatcher, the dispatcher runs over any consumer, and acknowledgements
reach the tracker in any order, so that each part is seen with everything around it free. A
behaviour shows one of them (`shown`), and the others rest in their initial states, in which their
fairness asks nothing of them.

## 3. Runs

| run | what it asks | bounds |
|---|---|---|
| message_path | RabbitConsumer: nothing lost, stopped is quiet, `stop()` ends `listen()`. Dispatcher: permits, drain, MessageLife, every message settles. CommitPath: is the tracker's closed form the loop, and `next` the first unacknowledged offset; one timer per open batch; BatchQueue with its liveness | 2 queues, 3 messages, 2 starts; 3 messages, 2 handlers, one retry, limits None, 0, 1, 2; starts 0..2, offsets 0..6 in any order and repeated, batches of 3, 2 timers, 3 calls at once |
| kafka_faults | TypeOK, AtLeastOnce, RevokedIsForgotten, NoMessageForgotten, ImplementsCommitLog | log {0,1,3}, limit 2, batches of 2; 1 rebalance, 1 restart, 1 refused commit, a fetch that raises |
| kafka_steady | `listen()` is woken; the count is exact and bounded; everything gets committed | 2 partitions with 3 and 1 records, limit 2, no faults |
| pipeline | the lock excludes, in every attempt; shared entries; retries multiply; every event comes out | limit 1; 4 tasks with 2 keys behind a lock, 2 behind five pipelines of two or three kinds of layers and more |
| flow | lookup finds what matches; policies; a returned `emit()` is accounted for; events reach their handlers | 5 subscriptions, 3 handlers, 1 router, 2 policies, 3 registrations in any order; 9 events, 1 call, 2 entries of the Redis stream |
| dependencies | cycles refused, nodes shared; the handler has all, made once, order of teardown, nothing left or kept, every build and every event ends | 8000 choices of the signatures of three functions; for one of them 2 events, a tree of 3 parameters and 2 nodes, one of them shared and a generator |
| kafka_stale_ack, kafka_gap, dispatcher_raised, pipeline_retries, flow_policy, dependencies_leak | findings, section 5 | |

Why these bounds are enough to meet the hard cases:

* Three records, a limit of two and batches of two are the least with which an
  acknowledgement is pooled, the tracker fast-forwards over it, the limit stops the fetch
  loop, a batch is cut by size and another by time, and a batch holds two offsets of one
  partition. The gap before the last record makes the tracker wait where the log holds
  nothing; a rebalance then starts it again behind the gap. One rebalance suffices for a
  message of an earlier assignment, a stale batch and the lost key of the fetch loop; with a
  restart in addition, for a commit by an earlier process. `CycleMod`, `MaxRebalances`,
  `MaxRestarts` and `MaxCommitErrors` are the only bounds in guards. The two timers are told
  apart by identity only, so their symmetry is used (the run has no liveness property).
* Two partitions of unequal length are needed for the round-robin walk and for a pass over
  the assignment that fills one queue and goes on to another. In between `listen()` can look at
  the filled queue and sleep beside it with the event cleared, which is what NoLostWakeup is
  about: with one partition the pass would end in the step that fills the queue.
* Three messages fill a limit of two and leave one waiting; among them are a message with two
  handlers (gather), one acknowledged early and one that does not decode.
* Four tasks behind a lock, three of them with one key and one permit, give two waiters, so
  that a permit can be handed to one that is then cancelled and must go on to the other. Two
  tasks suffice for a task that comes back to the lock in a second attempt while another
  waits; larger limits are covered by the proofs about AsyncLock.
* Three registrations are the least in which one pattern hides another of three, a router is
  added twice, and a decoration comes after its router was added. Handlers, routers and
  policies are only looked up before the first `emit()`, since Configure ends there; events are
  emitted after fewer registrations, and without policies. The events include values with a
  delimiter, a missing field, a config and a route of the wrong backend, and an exchange
  nobody has. Two entries of the stream hold a message delivered twice, or behind a
  confirmation.
* Three functions with two parameters each are the least with a cycle that does not go through
  the handler, a node reached along two paths, and the same function asked for with and
  without `use_cache`. The parameters come from nine forms, so that defaults and metadata, a
  subscription parameter and a hint that is refused all occur.
* One shared node and two events are the least with which the lookup in `_tasks` matters
  across calls and across events, and two nodes the least with an order of teardown.
* `CHECK_DEADLOCK FALSE` where the system really may stop: logs, messages, calls and events are
  finite, and an application may stop for good.

Each property of a passing run is violated when some mapped definition is replaced by its
mutant (`PROJECT.json`, "mutants").

**Fairness.** asyncio runs every task that can run and ends every sleep: weak fairness of the
steps of tasks and timers. Handlers, middlewares, commits and the entering and leaving of
dependencies are assumed to end, without a word on how; so are the delays of a `Retry` and the handlers of an
interceptor (`Runs(t)` of Pipeline). In KafkaConsumer the client joins its
group, and `getmany()`, asked again and again for a partition with records, returns some:
strong fairness, because each single call may return nothing. Never assumed: that a message
arrives, a handler succeeds, anyone calls `stop()`, a process dies or the group rebalances.

## 4. Proofs

All proofs hold for every value of the constants that satisfies the named assumptions of the
modules (finite sets of partitions, messages or calls, positive limits, offsets below the end
of the log), so for any number of rebalances, restarts and failures, not only the bounds of the
runs.

**OffsetTrackerProofs**: `FirstGap` exists for a finite pool, and
`MarkProcessedMovesOverAcknowledged` says what the consumer's proof needs of
`mark_processed`: a tracker again, never a step back, and only over acknowledged offsets.
`MarkProcessedForgetsNothing` and `MarkProcessedIsExact` say what it leaves in the pool.
`FastForwardIsTheLoop` is about the model itself: the closed form solves the equation of the
`while` loop of the source, round by round, and each round leaves a smaller pool.
`ClosedFormIsRight` in CommitPathProofs follows: taken as a recursion the loop has that one
solution (`LoopExists`, `LoopFastForwards`).

**KafkaConsumerProofs**: `TypeCorrect`, `CommitsAtLeastOnce`, `RevocationForgets`,
`ConsumerImplementsCommitLog`. AtLeastOnce alone is not inductive: a commit takes its offset
from a batch, a batch from a tracker, a tracker starts from a queue. The invariant `Inv`
follows an offset back along this way: every item of the open batch and of the calls in
progress is safe to commit (`BatchesOf(SafeCommits)`); everything below a tracker's `next`
and everything in its pool is processed (`TrackerSafe`); what lies before the place where a
tracker would start, the head of the queue or the fetch position, is processed (`StartSafe`),
which in turn needs that what is queued lies below the fetch position (`QueueFetched`) and
that only owned partitions have a queue or a tracker (`OnlyOwned`, `RunningClient`); a message stands for a record of the log (`OnlyRecords`), and
one that may be acknowledged is processed (`HandledProcessed`). Stale batches survive a
rebalance because processed records stay processed (`Monotone`). The refinement follows
from the same invariant, one step of CommitLog per action that moves `committed` or
`processed`.

Two more invariants stand on `Inv`. `LiveInv` gives `WakeupsAreNotLost` and
`NothingIsForgotten`. NoLostWakeup speaks of a `listen()` that sleeps; its invariant
(`WakeupComing`) says of every moment that beside a filled queue the event is set, or a pass
of the fetch loop that has fetched something goes on, or the fetch task is dead. A record is
not forgotten because a queue has no holes (`QueueComplete`) when a tracker is started at its
head, and because whatever is queued or tracked is counted (`Counted`), so that an
acknowledgement reaches the tracker. `CountInv` gives `InFlightIsExact` and
`InFlightStaysInLimit`, under the condition that the group has not rebalanced: every message
then belongs to the present assignment (`MessagesCurrent`), the count is what it stands for
(`Exact`), and a `getmany()` under way has room for what it was asked for (`RoomIsLeft`). The
condition is needed, kafka_stale_ack shows what happens after a rebalance; restarts are
within it.

**DispatcherProofs**: `TypeCorrect`, `PermitsAreKept`, `NothingIsLeftBehind`,
`DispatcherImplementsMessageLife`. The inductive invariant adds to types and permit balance:
`Tracked` (the task set is the set of messages whose done callback has not run), `LoopInv`
(the loop holds at most one message, and only while it waits for a permit; if it returned by
itself the task set is empty) and `StageInv` (how far a message is determines how often it was
acknowledged and which handlers run), from which each step is a step of MessageLife or
leaves it alone.

**PipelineProofs**, first of AsyncLock alone: `TypeCorrect`, `LockExcludes`, `EntriesMatchUsers`. Mutual exclusion
rests on a sum (`PermitInv`: free permits and holders of a semaphore add up to the limit), on
all users of a key sharing the entry's semaphore (`EntryInv`), and on the reference count
being the number of users (`CountInv`), without which the entry would be dropped early.

Then of the pipelines: `PipelineUsesLock`, `HandlersAreExclusive`, for every set of pipelines with
at most one lock each. The invariant adds to AsyncLock's own where a task may be (`Places`) and,
for each task, that once it is past the lock its last passage is inside (`AtLock`). On the way
in this holds because no layer is skipped up to the next stop (`StopsInwards`), on the way out
because the lock is left exactly when the next stop lies outside of it (`StopsOutwards`). Each
step of the pipeline is then one step of one passage, or none, so that AsyncLock's theorems hold
here too; that running handlers are different passages inside gives the limit on handlers.

Last `NestedRetriesMultiply`, for any number of retries one inside another. The attempts of the
layers, from the outermost on, are the digits of a number whose base at a `Retry` is the number
of its tries and at any other layer 1 (`Number`); the greatest one is `MaxRuns` - 1
(`GreatestNumber`). The invariant (`RunsInv`) says that a task about to run its handler has run
it as often as its number says, or fewer times if something was not retried. A failed run counts
the number up by one: the error passes the retries that have no tries left, whose digits are the
greatest ones (`Full`), and on the way in they start again from 0 (`Cleared`), which is the carry
of an addition (`NextNumber`). The facts about numbers are proved on the values of the leading
digits, by a minimal counterexample. That the outcomes "returned" and "cancelled" are no
exceptions of the handler is `ErrorAssumption`.

**CommitPathProofs**: `TrackerStaysExact`, `OneTimer`, `ClosedFormIsRight`, and
`ProcessorImplementsQueue`, the safety part of BatchQueue. BatchProcessor is treated first, with any items and with what has been
handed over as a history variable; its invariant (`BatchInv`) adds that an open batch is shorter
than `BatchSize`. Then `PathInv` says that the tracker is what the set of acknowledged offsets
says, from which every offset it returns is an item, and a step of CommitPath one of
BatchProcessor or none of its business.

**DependencyTreeProofs**: `HandlersHaveAll`, `NothingIsMadeTwice`, `UsersLeaveBeforeUsed`,
`NothingIsLeftOpen`, `NothingStaysBehind`, for every tree and any number of events. Events share
nodes and nothing else, so the invariant is one of each event: a call that has its value has a
task and all of its parameters (`CallsInOrder`), a task was made once and by a call that had
them (`TasksInOrder`), the stack holds every open dependency once and above what it was given
(`StackInOrder`, `StackFits`), and what is still to be forgotten has its exit there
(`KeptIsOnStack`). These hold while the event is `Intact`, that is until an error of the
dependencies themselves goes through the stack. That a handler finds everything entered
although `resolve()` awaits the roots only is `RootsEnteredLast`, a minimal counterexample on the
length of calls.

In the same module, of the build: `RefusesExactlyCycles` and `SharesAsAsked`, for any functions
and signatures. The invariant (`GraphInv`) says of the calls under way that each was made for the
dependency its caller has come to (`CallsNest`), so that their functions are a chain in which each
uses the next (`TheWayHere`), and that `resolving` is that chain without the handler
(`ResolvingFits`): a function met again needs itself (`RefusedIsCyclic`). The other direction is
the harder one, since a search that reuses nodes does not walk every path. It is the invariant
`NoneIsCyclic`, that no function whose node is finished needs itself; a call that returns keeps
it, because all that it needs has finished nodes (`NeedsAreFinished`), and so does the first call
at the end. For the sharing, `resolved` has the one finished node of a function with `use_cache`
while no other is being made (`ResolvedFits`), every child is a finished node made for what was
asked for (`ChildrenFit`), and a node with two parents is one with `use_cache` (`EdgesFit`). Both
theorems say what a build does when it ends; that it ends is `BuildsAndEventsEnd`, for TLC.

**EventFlowProofs**: `OutcomesAreKnown`, `RoutesFindTheirHandlers`, `RoutesFindTheirPolicy`,
`MostExactUnlessHidden`, `HandlersAreReached`, for any subscriptions, routes, events and any number of registrations.
For the first, the invariant says of each state that a report belongs to a call that has
returned, that a call has one report, and that one without has arrived.

Lookup is proved of any tree first. `Get` is a recursion over the nodes on the way
(`LookupExists`), so each statement about it is proved of the values at the nodes, by a
counterexample at a node of the greatest depth. `LookupCounts`: a lookup that walks both branches
finds a value as often as the nodes at the end of a way for the route hold it together.
`LookupFollows`: a lookup that prefers the exact branch ends at the one node whose way takes the
exact segment wherever the tree has it, or nowhere. What the tree holds is `RoutingInv`: every
registered value lies at the path of its pattern, in order and as often as it was registered
(`Holds`, `HoldsPolicies`), and every node is on the way to such a path (`InsertGrows`). With it
the nodes that exist are spoken of as patterns: a pattern that no other one hides is the way a
lookup follows (`UnhiddenIsFollowed`), and the way it follows belongs to such a pattern
(`PoliciesAreFound`). `MostExactUnlessHidden` is what is left of the promise of `trie.py:20`: it is
kept for every route of which no pattern that does not match hides one that does. Routers are in the invariant with the type of their table only, since
`add_router` copies what they hold.

For the last, an event's formatted route matches the pattern its route was written like, because
each `{name}` is a segment of its own and becomes a wildcard (`ReachesItsHandler`); Redis delivers
on the channel that `emit()` published to (`FirstChannel`), and the argument is cut out at the
place of the name (`BindsToAHole`). `FlowInv` adds that what is in transit, in the feed or
handled belongs to a call that was sent, whose event does not change any more (`Tracked`), and that
registration has ended before anything is handled. The assumptions used are that texts are
sequences of parts (`TextsAssumption`, `EventAssumption`) and that `*` is no `{name}`
(`StarAssumption`).

**RabbitConsumerProofs**: `TypeCorrect`, `NoMessageLost`, `StopStops`. NothingIsLost needs that a
message in the consumer is no longer at the broker (`TakenInv`), StoppedIsQuiet that every live
task is on the list of the running consumer or awaited by every `stop()` under way
(`QuietInv`).

Only model-checked:

* Liveness under fairness, which is out of reach of the prover: EventuallyCommitted,
  EveryMessageSettles, EveryTaskEnds, BuildsAndEventsEnd, StopEndsListen and the fairness of
  BatchQueue.
* InFlightExact and InFlightBounded after a rebalance do not hold, nor does PoolDrains on a log
  with a gap; RetriedAsDocumented and MostExactPolicyApplies do not hold at all: section 5.

## 5. Findings

Each is a run in which TLC finds a documented statement violated (`PROJECT.json`, "findings").

* **kafka_stale_ack.** More messages than `in_flight_msg_limit_per_partition` can be in flight
  after a rebalance: `ack()` looks a partition up by name, so a message of an earlier
  assignment lowers the count of the present one.
* **kafka_gap.** The tracker steps from one offset to the next integer. Where the log has no
  record there (compaction, transaction markers) it waits for ever, later offsets stay
  pooled, and nothing of the partition is committed until it is assigned anew.
* **dispatcher_raised.** Under the default policy a message whose handler raised is
  acknowledged: the handlers are gathered with `return_exceptions=True`.
* **pipeline_retries.** `retries.md:61-63` counts nine retries for a router and a handler with
  three each. The inner `Retry` starts over in every attempt of the outer one, and each tries
  four times: a failing handler is run 16 times, retried 15 times. RetriesMultiply states
  the count of the code.
* **flow_policy.** `trie.py:20` promises the most exact match. The lookup leaves the wildcard out
  as soon as the exact child exists, whatever is below it: a policy for `a.b` takes the
  events of `a.c` away from a policy for `{x}.c`, although it does not match them itself, and
  they get the default policy. PolicyIsUnhidden states the rule of the code.
* **dependencies_leak.** When one dependency fails, the exit stack is unwound while others are
  still being made. A context manager entered afterwards is never left, and may have been
  given a dependency that was left already. UsersLeaveFirst and AllIsLeft therefore excuse
  events with a failed dependency. The proof showed another face of it: a context manager that
  swallows the error on its way out makes the nodes forget the event, and a call that still
  waits for its parameters then makes its dependency a second time. MadeOnce excuses that
  moment, and no other.

Behaviour that no document contradicts but a user may not expect is listed under "hazards"
with a note: a fetch task that dies silently, a batch lost with a refused commit, a generator
whose cleanup is skipped and a `_tasks` entry that stays when a handler raises, an end marker
that ends the next `listen()`, a concurrency limit of zero. Modelling the rest showed more of
this kind. A handler decorated after
its router was added is never called, and a router added twice calls its handlers twice. Without a delimiter a text such as
`{a}.{b}` is one segment that begins and ends with a brace, and becomes one wildcard; one such as
`user.{id}` becomes no wildcard at all, although `emit()` fills it in, so that a handler that
subscribes to the very text of the event's route is not called. The proof of
EventsReachTheirHandlers did not go through without that condition (`Whole`).

One more statement of the documentation differs from the code and has no run: the global limit
"restricts the total number of active handler tasks" (`async_processing.md:51-52`). The semaphore
counts messages, each of which may run several handlers; PermitsBalance speaks of messages.

## 6. What is not modelled

* Serializers: calls of json and msgpack. That they may raise is a choice in Dispatcher
  (`BeginMalformed`) and Emission (`serializable`).
* The length of a retry's delay: a sleep ends some time.
* Which of several exception handlers of an interceptor is the nearest class, and `add_handler()`
  while events are handled: Pipeline says only which errors have a handler.
* Validation of values by pydantic; `get_internal_dependencies_tree`, which has no caller.
* Properties of messages (headers, partition keys, priorities), logging, the checks of
  constructor arguments, the examples and the benchmark.
* Two locks taken in opposite orders by two handlers can block each other; that is the
  application's doing.

## 7. Plan

Done: every component of section 1 but the serializers is modelled, and the safety properties of
all of them are proved.

What is left is liveness, and PoolDrains for a log without gaps and a group that does not
rebalance, which is liveness too. No safety property that a passing run checks is without a
theorem.
