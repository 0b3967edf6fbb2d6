------------------------------- MODULE Pipeline -------------------------------
(***************************************************************************)
(* One handler behind its middlewares: MiddlewarePipeline                  *)
(* (dispatcher/middleware.py) composed of Filter, Retry,                   *)
(* ExceptionInterceptor and AsyncLock (middleware/).                       *)
(*                                                                         *)
(* A layer calls the next one, so a task goes in through the layers and    *)
(* out again with what the handler returned or raised.  Between two        *)
(* suspensions a task runs alone: a step goes from one place where the     *)
(* task waits to the next, through all the layers between them.  Each time *)
(* it goes in through the lock is a call of AsyncLock of its own.          *)
(***************************************************************************)
EXTENDS AsyncLock, SequencesExt

CONSTANTS
    Task,       \* the events; a call of the lock is a task with the number of its passage
    Error,      \* what may be raised
    Pipelines   \* layers, the router's before the handler's, the first one outermost:
                \* retries and on for what a Retry repeats, on for what an interceptor handles

Layer == [is: {"filter", "lock", "retry", "interceptor"}, retries: Nat, on: SUBSET Error]

ASSUME ErrorAssumption == "returned" \notin Error /\ "cancelled" \notin Error
ASSUME PipelinesAssumption ==
    /\ Pipelines \subseteq Seq(Layer)
    /\ \A p \in Pipelines : \A i, j \in DOMAIN p : p[i].is = "lock" /\ p[j].is = "lock" => i = j

VARIABLES
    layers,     \* the handler's pipeline
    admits,     \* does the filter let the event of a task pass?
    doing,      \* "new", "waiting", "dropped", "running", "asleep", "handling" or "over"
    layer,      \* the layer where the task waits; past the last one is the handler
    attempt,    \* the attempt of each Retry around the handler
    passage,    \* how often the task has gone in through the lock
    result,     \* "returned", "cancelled" or an error, on the way out
    \* ---- history
    runs        \* how often the handler was run for the task

taskVars == <<layers, admits, doing, layer, attempt, passage, result, runs>>

PipelineInit ==
    /\ Init
    /\ layers \in Pipelines
    /\ admits \in [Task -> BOOLEAN]
    /\ (\A i \in DOMAIN layers : layers[i].is # "filter") => admits = [t \in Task |-> TRUE]
    /\ doing = [t \in Task |-> "new"] /\ layer = [t \in Task |-> 0]
    /\ attempt = [t \in Task |-> [i \in DOMAIN layers |-> 0]]
    /\ passage = [t \in Task |-> 0] /\ runs = [t \in Task |-> 0]
    /\ result = [t \in Task |-> "returned"]

-----------------------------------------------------------------------------
(* The way in                                                              *)

Handler == Len(layers) + 1

Passage(t) == <<t, passage[t]>>

Lowest(S)  == CHOOSE i \in S : \A j \in S : i <= j
Highest(S) == CHOOSE i \in S : \A j \in S : i >= j

IsLock(i) == i \in DOMAIN layers /\ layers[i].is = "lock"

Drops(t, i) == i \in DOMAIN layers /\ layers[i].is = "filter" /\ ~admits[t]

\* Retry and ExceptionInterceptor call the next layer at once.
StopInwards(t, i) == Lowest({j \in i .. Handler : j = Handler \/ IsLock(j) \/ Drops(t, j)})

Reaches(t, i) ==
    /\ layer' = [layer EXCEPT ![t] = i]
    /\ doing' = [doing EXCEPT ![t] = IF i = Handler THEN "running" ELSE "dropped"]
    /\ runs'  = [runs EXCEPT ![t] = IF i = Handler THEN @ + 1 ELSE @]

\* mutant: the attempts are counted in the middleware, not in its dispatch().
CountedOn(t, i) == UNCHANGED attempt

\* Each Retry further in starts with its first attempt.
FirstAttempts(t, i) ==
    attempt' = [attempt EXCEPT ![t] = [k \in DOMAIN @ |-> IF k >= i THEN 0 ELSE @[k]]]

GoIn(t, i) ==
    /\ FirstAttempts(t, i)
    /\ UNCHANGED <<layers, admits, result>>
    /\ LET stop == StopInwards(t, i) IN
       IF ~IsLock(stop)
       THEN Reaches(t, stop) /\ UNCHANGED <<vars, passage>>
       ELSE /\ <<t, passage[t] + 1>> \in Call       \* bound: the passages there are
            /\ passage' = [passage EXCEPT ![t] = @ + 1]
            /\ \/ /\ Enter(<<t, passage[t] + 1>>)
                  /\ Reaches(t, StopInwards(t, stop + 1))
               \/ /\ EnterAndWait(<<t, passage[t] + 1>>)
                  /\ layer' = [layer EXCEPT ![t] = stop]
                  /\ doing' = [doing EXCEPT ![t] = "waiting"]
                  /\ UNCHANGED runs

-----------------------------------------------------------------------------
(* The way out                                                             *)

\* should_retry() for an error of the given attempt.
ShouldRetry(i, error, n) == layers[i].is = "retry" /\ n < layers[i].retries /\ error \in layers[i].on

\* A class in the error's MRO has a handler.
Intercepts(i, error) == layers[i].is = "interceptor" /\ error \in layers[i].on

\* Neither catches a CancelledError, which is no Exception.
Catches(t, i, r) == r \in Error /\ (ShouldRetry(i, r, attempt[t][i]) \/ Intercepts(i, r))

StopOutwards(t, i, r) == Highest({0} \cup {j \in 1 .. i : Catches(t, j, r)})

\* mutant: the lock is released by whatever comes out of the handler.
ReleasedAtOnce(i, stop) == i = Len(layers) /\ \E j \in DOMAIN layers : IsLock(j)

\* Is the lock on the way out from layer i to the layer that stops it?
LeavesLock(i, stop) == \E j \in stop + 1 .. i : IsLock(j)

NextAttempt(t, i) == attempt' = [attempt EXCEPT ![t][i] = @ + 1]

\* From layer i outwards: the next stop, and what the task does there.
StopsAt(t, stop, r) ==
    /\ layer'  = [layer EXCEPT ![t] = stop]
    /\ result' = [result EXCEPT ![t] = r]
    /\ IF stop = 0
       THEN doing' = [doing EXCEPT ![t] = "over"] /\ UNCHANGED attempt
       ELSE IF layers[stop].is = "retry"
       THEN doing' = [doing EXCEPT ![t] = "asleep"] /\ NextAttempt(t, stop)
       ELSE doing' = [doing EXCEPT ![t] = "handling"] /\ UNCHANGED attempt
    /\ UNCHANGED <<layers, admits, passage, runs>>

GoOut(t, i, r) ==
    LET stop == StopOutwards(t, i, r) IN
    /\ StopsAt(t, stop, r)
    /\ IF LeavesLock(i, stop) THEN Leave(Passage(t)) ELSE UNCHANGED vars

-----------------------------------------------------------------------------
(* Steps                                                                   *)

Outcome == {"returned"} \cup Error

Execute(t) == doing[t] = "new" /\ GoIn(t, 1)

Acquired(t) ==
    /\ doing[t] = "waiting" /\ Resume(Passage(t))
    /\ Reaches(t, StopInwards(t, layer[t] + 1))
    /\ UNCHANGED <<layers, admits, attempt, passage, result>>

NotAcquired(t) ==
    /\ doing[t] = "waiting" /\ Unwind(Passage(t))
    /\ StopsAt(t, StopOutwards(t, layer[t] - 1, "cancelled"), "cancelled")

FilterReturns(t) == doing[t] = "dropped" /\ GoOut(t, layer[t] - 1, "returned")

HandlerEnds(t) == doing[t] = "running" /\ \E r \in Outcome : GoOut(t, Len(layers), r)

\* The handler of the exception ends; what it raises goes on outwards.
InterceptorEnds(t) == doing[t] = "handling" /\ \E r \in Outcome : GoOut(t, layer[t] - 1, r)

RetryWakes(t) == doing[t] = "asleep" /\ GoIn(t, layer[t] + 1)

CancelTask(t) ==
    \/ doing[t] \in {"running", "handling", "asleep"} /\ GoOut(t, layer[t] - 1, "cancelled")
    \/ doing[t] = "waiting" /\ Cancel(Passage(t)) /\ UNCHANGED taskVars

Runs(t) ==
    \/ Acquired(t) \/ NotAcquired(t) \/ FilterReturns(t)
    \/ HandlerEnds(t) \/ InterceptorEnds(t) \/ RetryWakes(t)

PipelineNext == \E t \in Task : Execute(t) \/ Runs(t) \/ CancelTask(t)

\* Delays, handlers and the handlers of exceptions end; a task that is ready runs.
PipelineSpec == PipelineInit /\ [][PipelineNext]_<<vars, taskVars>>
                /\ \A t \in Task : WF_<<vars, taskVars>>(Runs(t))

-----------------------------------------------------------------------------

HasLock == \E i \in DOMAIN layers : IsLock(i)

RunningWith(k) == {t \in Task : doing[t] = "running" /\ KeyOf[Passage(t)] = k}

\* Wherever the lock stands among retries, filters and interceptors, no more handlers with
\* one key run at a time than it allows, in a repeated attempt too (async_lock.py:33-35
\* under retry.py:24-33).
HandlersExclude == HasLock => \A k \in Key : Cardinality(RunningWith(k)) <= Limit

\* How often a Retry tries what it is around, and any other layer.
Tries(ls) == [i \in DOMAIN ls |-> IF ls[i].is = "retry" THEN ls[i].retries + 1 ELSE 1]

Product(w) ==
    LET upTo[i \in 0 .. Len(w)] == IF i = 0 THEN 1 ELSE upTo[i - 1] * w[i]
    IN  upTo[Len(w)]

MaxRuns == Product(Tries(layers))

AlwaysRetried == \A i \in DOMAIN layers :
    layers[i].is # "interceptor" /\ (layers[i].is = "retry" => layers[i].on = Error)

\* Nested retries multiply by what each layer tries, not by what it retries: a handler is
\* run at most (r1 + 1) * (r2 + 1) times, and an event of which an error is left has been
\* tried exactly so often, since an inner Retry starts over in every attempt of an outer
\* one (retry.py:23-33).  The documentation counts otherwise, see RetriedAsDocumented.
RetriesMultiply ==
    \A t \in Task :
        /\ runs[t] <= MaxRuns
        /\ doing[t] = "over" /\ result[t] \in Error /\ AlwaysRetried => runs[t] = MaxRuns

OnlyRetries == \A i \in DOMAIN layers : layers[i].is = "retry"

Retries(ls) == [i \in DOMAIN ls |-> ls[i].retries]

\* docs/docs/tutorial/middleware/retries.md:61-63 on a router and a handler with a Retry of
\* 3 each: "they will multiply. A failing event [...] will be retried **9 times**."  The
\* inner Retry retries the first run of each of its turns as well (retry.py:23): 15 times.
RetriedAsDocumented ==
    OnlyRetries => \A t \in Task : runs[t] <= 1 + Product(Retries(layers))

\* Every event comes out of its pipeline, whoever is cancelled while it waits for the lock
\* and however often others retry inside or outside of it.
EveryTaskEnds == Limit > 0 => \A t \in Task : doing[t] # "new" ~> doing[t] = "over"
===============================================================================
