----------------------------- MODULE DependencyTree ----------------------------
(***************************************************************************)
(* di/tree.py with the context managers that di/dependency.py makes of     *)
(* dependencies: how the dependencies of one handler are resolved and torn *)
(* down for several events at once.                                        *)
(*                                                                         *)
(* Each event resolves the tree on an exit stack of its own.  Each         *)
(* parameter, of the handler or of a dependency, is one call of            *)
(* DependencyNode.resolve in a task of its own; the calls of one node      *)
(* share the task that makes its value, found under the stack in _tasks.   *)
(* A call is named by the parameters that lead to it from the handler.     *)
(*                                                                         *)
(* A step is what one task does between two suspensions.  Entering and     *)
(* leaving a dependency is up to the application: it may take time, raise, *)
(* and, for a context manager, swallow the error it is given.              *)
(***************************************************************************)
EXTENDS Integers, Sequences, SequencesExt

CONSTANTS
    Event,        \* the events, each with its DIContext and AsyncExitStack
    Node,         \* the nodes of the tree; a dependency with use_cache is one node
    Param,        \* the parameters that are dependencies
    Target,       \* Target[p]: the node a parameter refers to
    RootParams,   \* the parameters of the handler
    Params,       \* Params[n]: the parameters of a node's function
    Generator,    \* the nodes whose function is a generator or returns an iterator
    Call          \* the calls of resolve()

Extensions(c, P) == {Append(c, p) : p \in P}

ASSUME TreeAssumption ==
    /\ Target \in [Param -> Node] /\ RootParams \subseteq Param
    /\ Params \in [Node -> SUBSET Param] /\ Generator \subseteq Node
    /\ Call \subseteq Seq(Param) \ {<< >>}
    /\ Call = Extensions(<< >>, RootParams) \cup
                UNION {Extensions(c, Params[Target[Last(c)]]) : c \in Call}

VARIABLES
    phase,        \* of each event: "resolving", "handler", "unwinding" or "ended"
    raising,      \* an error is on its way through the exit stack
    cancelled,    \* the task of the handler was cancelled while it resolved
    calls,        \* how far each call is
    tasks,        \* how far the task is that enters the dependency of a node
    entries,      \* the nodes that have the event's stack in _tasks
    stack,        \* the exits to call, the last one first
    live,         \* the nodes whose dependency was entered and not yet left
    \* ---- history, read by no action
    made,         \* how often each node's dependency was made for the event
    cleaned,      \* the nodes whose own cleanup code was run
    failed,       \* a dependency raised while it was made or entered
    erred         \* some error went through the exit stack

taskVars == <<calls, tasks, entries>>
exitVars == <<raising, live, cleaned, erred>>
vars == <<phase, cancelled, taskVars, stack, exitVars, made, failed>>

Exit == [of: {"dependency", "node"}, node: Node]

TypeOK ==
    /\ phase \in [Event -> {"resolving", "handler", "unwinding", "ended"}]
    /\ raising \in [Event -> BOOLEAN] /\ cancelled \in [Event -> BOOLEAN]
    /\ failed \in [Event -> BOOLEAN] /\ erred \in [Event -> BOOLEAN]
    /\ calls \in [Event -> [Call -> {"children", "value", "entered", "failed"}]]
    /\ tasks \in [Event -> [Node -> {"none", "running", "entered", "failed"}]]
    /\ entries \in [Event -> SUBSET Node]
    /\ stack \in [Event -> Seq(Exit)]
    /\ live \in [Event -> SUBSET Node] /\ cleaned \in [Event -> SUBSET Node]
    /\ made \in [Event -> [Node -> Nat]]

\* resolve() has made the tasks of all calls: those below the handler's parameters
\* do nothing but make the tasks of their own parameters.
Init ==
    /\ phase = [e \in Event |-> "resolving"]
    /\ raising = [e \in Event |-> FALSE] /\ cancelled = [e \in Event |-> FALSE]
    /\ failed = [e \in Event |-> FALSE] /\ erred = [e \in Event |-> FALSE]
    /\ calls = [e \in Event |-> [c \in Call |-> "children"]]
    /\ tasks = [e \in Event |-> [n \in Node |-> "none"]]
    /\ entries = [e \in Event |-> {}]
    /\ stack = [e \in Event |-> << >>]
    /\ live = [e \in Event |-> {}] /\ cleaned = [e \in Event |-> {}]
    /\ made = [e \in Event |-> [n \in Node |-> 0]]

-----------------------------------------------------------------------------
(* DependencyNode.resolve, up to its yield.                                *)

NodeOf(c) == Target[Last(c)]
SubCalls(c) == Extensions(c, Params[NodeOf(c)])
RootCalls == Extensions(<< >>, RootParams)

CallIs(e, c, state) == calls' = [calls EXCEPT ![e][c] = state]
TaskIs(e, n, state) == tasks' = [tasks EXCEPT ![e][n] = state]
Failing(e) == failed' = [failed EXCEPT ![e] = TRUE]

\* gather() returned: every call it was given is entered.
Gathered(e, C) == ~cancelled[e] /\ \A c \in C : calls[e][c] = "entered"

\* gather() raised: at the first call that failed, whatever the others do, or, when
\* it was cancelled itself, at the latest when all have ended.
GatherRaised(e, C) ==
    \/ \E c \in C : calls[e][c] = "failed"
    \/ /\ cancelled[e]
       /\ \A c \in C : calls[e][c] = "entered"

\* mutant: the values of all events in one dict.
FoundForAny(e, n) == \E f \in Event : n \in entries[f]

\* mutant: the dict is not looked at.
NeverFound(e, n) == FALSE

\* self._tasks.get(stack) is not None
Found(e, n) == n \in entries[e]

\* The values of the parameters are there, and the node's task is made already.
AwaitTask(e, c) ==
    /\ calls[e][c] = "children" /\ Gathered(e, SubCalls(c))
    /\ Found(e, NodeOf(c))
    /\ CallIs(e, c, "value")
    /\ UNCHANGED <<phase, cancelled, tasks, entries, stack, exitVars, made, failed>>

\* Otherwise the function is called and what it returned is entered in a new task.
MakeTask(e, c) ==
    /\ calls[e][c] = "children" /\ Gathered(e, SubCalls(c))
    /\ ~Found(e, NodeOf(c))
    /\ CallIs(e, c, "value") /\ TaskIs(e, NodeOf(c), "running")
    /\ entries' = [entries EXCEPT ![e] = @ \cup {NodeOf(c)}]
    /\ made' = [made EXCEPT ![e][NodeOf(c)] = @ + 1]
    /\ UNCHANGED <<phase, cancelled, stack, exitVars, failed>>

\* The function raised: no task, and the next call of the node tries again.
FunctionRaises(e, c) ==
    /\ calls[e][c] = "children" /\ Gathered(e, SubCalls(c))
    /\ ~Found(e, NodeOf(c))
    /\ CallIs(e, c, "failed") /\ Failing(e)
    /\ UNCHANGED <<phase, cancelled, tasks, entries, stack, exitVars, made>>

CallRaises(e, c) ==
    /\ calls[e][c] = "children" /\ GatherRaised(e, SubCalls(c))
    /\ CallIs(e, c, "failed")
    /\ UNCHANGED <<phase, cancelled, tasks, entries, stack, exitVars, made, failed>>

\* mutant: the stack is unwound in the order of entering.
PushedBelow(e, of, n) == stack' = [stack EXCEPT ![e] = <<[of |-> of, node |-> n]>> \o @]

\* mutant: only the exits of calls are kept.
NotPushed(e, of, n) ==
    stack' = [stack EXCEPT ![e] = IF of = "node" THEN Append(@, [of |-> of, node |-> n])
                                  ELSE @]

\* enter_async_context keeps the exit of what it entered.  A stack that is already
\* unwound takes it as well.
Pushed(e, of, n) == stack' = [stack EXCEPT ![e] = Append(@, [of |-> of, node |-> n])]

\* The task of a node: the dependency is entered, or raises.
TaskEnters(e, n) ==
    /\ tasks[e][n] = "running" /\ ~cancelled[e]
    /\ TaskIs(e, n, "entered")
    /\ live' = [live EXCEPT ![e] = @ \cup {n}]
    /\ Pushed(e, "dependency", n)
    /\ UNCHANGED <<phase, cancelled, calls, entries, raising, cleaned, erred, made, failed>>

TaskRaises(e, n) ==
    /\ tasks[e][n] = "running"
    /\ TaskIs(e, n, "failed")
    /\ IF cancelled[e] THEN UNCHANGED failed ELSE Failing(e)
    /\ UNCHANGED <<phase, cancelled, calls, entries, stack, exitVars, made>>

\* mutant: the task is yielded and not its result.
MadeNotAwaited(e, n) == tasks[e][n] \in {"running", "entered"}

Awaited(e, n) == tasks[e][n] = "entered"

\* The task's result is yielded, and the call is entered in turn.
CallEnters(e, c) ==
    /\ calls[e][c] = "value" /\ ~cancelled[e]
    /\ Awaited(e, NodeOf(c))
    /\ CallIs(e, c, "entered")
    /\ Pushed(e, "node", NodeOf(c))
    /\ UNCHANGED <<phase, cancelled, tasks, entries, exitVars, made, failed>>

CallFails(e, c) ==
    /\ calls[e][c] = "value"
    /\ \/ tasks[e][NodeOf(c)] = "failed"
       \/ cancelled[e] /\ tasks[e][NodeOf(c)] = "entered"
    /\ CallIs(e, c, "failed")
    /\ UNCHANGED <<phase, cancelled, tasks, entries, stack, exitVars, made, failed>>

-----------------------------------------------------------------------------
(* DependencyTree.resolve around the handler.                              *)

PhaseIs(e, p) == phase' = [phase EXCEPT ![e] = p]

Raise(e) ==
    /\ raising' = [raising EXCEPT ![e] = TRUE]
    /\ erred' = [erred EXCEPT ![e] = TRUE]

RunHandler(e) ==
    /\ phase[e] = "resolving" /\ Gathered(e, RootCalls)
    /\ PhaseIs(e, "handler")
    /\ UNCHANGED <<cancelled, taskVars, stack, exitVars, made, failed>>

ResolveRaises(e) ==
    /\ phase[e] = "resolving" /\ GatherRaised(e, RootCalls)
    /\ PhaseIs(e, "unwinding") /\ Raise(e)
    /\ UNCHANGED <<cancelled, taskVars, stack, live, cleaned, made, failed>>

HandlerReturns(e) ==
    /\ phase[e] = "handler"
    /\ PhaseIs(e, "unwinding")
    /\ UNCHANGED <<cancelled, taskVars, stack, exitVars, made, failed>>

\* Also when it is cancelled.
HandlerRaises(e) ==
    /\ phase[e] = "handler"
    /\ PhaseIs(e, "unwinding") /\ Raise(e)
    /\ UNCHANGED <<cancelled, taskVars, stack, live, cleaned, made, failed>>

\* The cancellation reaches every task that has not ended; entering a dependency
\* does not withstand it.  (One that comes after an error is not considered.)
Cancel(e) ==
    /\ phase[e] = "resolving" /\ ~cancelled[e]
    /\ \A c \in Call : calls[e][c] # "failed"
    /\ \A n \in Node : tasks[e][n] # "failed"
    /\ cancelled' = [cancelled EXCEPT ![e] = TRUE]
    /\ UNCHANGED <<phase, taskVars, stack, exitVars, made, failed>>

-----------------------------------------------------------------------------
(* AsyncExitStack.__aexit__: one exit after the other, last in, first out. *)

NextOf(s) == Last(s)
Popped(e) == stack' = [stack EXCEPT ![e] = Front(@)]

\* The exit of a dependency.  A generator is resumed only if there is no error; with
\* one its wrapper raises at its own yield.  A context manager sees the error and may
\* end it, and either kind may raise one of its own.
LeaveDependency(e) ==
    /\ phase[e] = "unwinding" /\ stack[e] # << >>
    /\ NextOf(stack[e]).of = "dependency"
    /\ Popped(e)
    /\ live' = [live EXCEPT ![e] = @ \ {NextOf(stack[e]).node}]
    /\ IF raising[e] /\ NextOf(stack[e]).node \in Generator
       THEN UNCHANGED <<raising, cleaned, erred>>
       ELSE /\ cleaned' = [cleaned EXCEPT ![e] = @ \cup {NextOf(stack[e]).node}]
            /\ \/ Raise(e)
               \/ raising' = [raising EXCEPT ![e] = FALSE] /\ UNCHANGED erred
    /\ UNCHANGED <<phase, cancelled, taskVars, made, failed>>

\* mutant: the entry stays.
Kept(e, n) == entries

Forgotten(e, n) == [entries EXCEPT ![e] = @ \ {n}]

\* The exit of a call: the code after the yield is skipped by an error.
LeaveNode(e) ==
    /\ phase[e] = "unwinding" /\ stack[e] # << >>
    /\ NextOf(stack[e]).of = "node"
    /\ Popped(e)
    /\ entries' = IF raising[e] THEN entries ELSE Forgotten(e, NextOf(stack[e]).node)
    /\ UNCHANGED <<phase, cancelled, calls, tasks, exitVars, made, failed>>

Unwound(e) ==
    /\ phase[e] = "unwinding" /\ stack[e] = << >>
    /\ PhaseIs(e, "ended")
    /\ UNCHANGED <<cancelled, taskVars, stack, exitVars, made, failed>>

-----------------------------------------------------------------------------
CallStep(e, c) ==
    \/ AwaitTask(e, c) \/ MakeTask(e, c) \/ FunctionRaises(e, c) \/ CallRaises(e, c)
    \/ CallEnters(e, c) \/ CallFails(e, c)

Step(e) ==
    \/ \E c \in Call : CallStep(e, c)
    \/ \E n \in Node : TaskEnters(e, n) \/ TaskRaises(e, n)
    \/ RunHandler(e) \/ ResolveRaises(e) \/ HandlerReturns(e) \/ HandlerRaises(e)
    \/ LeaveDependency(e) \/ LeaveNode(e) \/ Unwound(e)

Next == \E e \in Event : Step(e) \/ Cancel(e)

Spec == Init /\ [][Next]_vars

-----------------------------------------------------------------------------
(* Properties.                                                             *)

\* While a handler runs, all of its event's dependencies are entered and none has
\* been left, those of its dependencies included (tree.py:57-61).
HandlerHasAll ==
    \A e \in Event : phase[e] = "handler" => {NodeOf(c) : c \in Call} \subseteq live[e]

\* A dependency is made at most once for an event, although the calls of a shared
\* node look into _tasks at any time (tree.py:30-34, use_cache of dependency.py:53).
\* After a failure that no longer holds once the stack is unwound: a context manager
\* that swallows the error makes the nodes forget the event, and a call that still
\* waits for its parameters then makes its node again.
MadeOnce ==
    \A e \in Event : \A n \in Node :
        made[e][n] <= 1 \/ (failed[e] /\ phase[e] \in {"unwinding", "ended"})

\* A dependency is entered after those it was given and left before them, unless some
\* dependency failed (tree.py:24, 32, 51).
UsersLeaveFirst ==
    \A e \in Event : \A n \in live[e] :
        failed[e] \/ \A p \in Params[n] : Target[p] \in live[e]

\* At the end nothing is left open, also when the handler raised, an exit raised or
\* the resolution was cancelled, unless a dependency failed.
AllIsLeft == \A e \in Event : phase[e] = "ended" /\ ~failed[e] => live[e] = {}

\* Without an error every dependency ran its cleanup and the nodes, which live as long
\* as the program, keep nothing of the event (tree.py:37).
NothingIsKept ==
    \A e \in Event :
        phase[e] = "ended" /\ ~erred[e] =>
            entries[e] = {} /\ cleaned[e] = {NodeOf(c) : c \in Call}

\* docs/docs/tutorial/di/di.md:54: "Handles cleanup automatically for
\* context-manager-based dependencies."
ContextsAreLeft ==
    \A e \in Event :
        phase[e] = "ended" => live[e] \subseteq Generator
================================================================================
