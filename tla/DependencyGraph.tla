---------------------------- MODULE DependencyGraph ----------------------------
(***************************************************************************)
(* How the tree of a handler's dependencies is built: extract_dependencies *)
(* of di/extractor.py and the recursive _build_dependency_branches of      *)
(* di/builder.py, as the stack of its calls.                               *)
(*                                                                         *)
(* A call and the node made of what it returns have one number: the place  *)
(* in `builds`, where they come in the order of the calls.  A parameter is *)
(* known by its position.  A function of the application is <<f>>; one     *)
(* made for an event or a subscription parameter is new at each            *)
(* extraction: <<k, i>> for the parameter i that call k extracted.         *)
(***************************************************************************)
EXTENDS Naturals, FiniteSets, Sequences, SequencesExt

CONSTANTS
    Function,     \* the functions of the application
    Handler,      \* the one whose dependencies are asked for
    Signatures    \* what their signatures may be: the parameters of each function

\* What may be a default or a piece of metadata: Dependency(func), SubscriptionParam().
Item == [is: {"dependency"}, func: Function, useCache: BOOLEAN] \cup [is: {"param", "other"}]

Parameter == [default: Item, metadata: Seq(Item), hint: {"event", "not a model", "other"}]

ASSUME SignaturesAssumption ==
    Handler \in Function /\ Signatures \subseteq [Function -> Seq(Parameter)]

VARIABLES
    sig,          \* the signatures
    builds,       \* the calls so far, each with its dependencies and its children
    active,       \* the calls that have not returned, the innermost last
    resolved,     \* resolved[func]: the node to use again
    resolving,    \* the functions on the way to the innermost call
    raised        \* the exception that ended the build

graphVars == <<sig, builds, active, resolved, resolving, raised>>

-----------------------------------------------------------------------------
(* extract_dependencies                                                    *)

\* The default comes before the metadata.
Items(p) == <<p.default>> \o p.metadata

Has(p, kind) == \E item \in ToSet(Items(p)) : item.is = kind

\* The later dict.update() wins: a parameter that is a SubscriptionParam or an Event is
\* not the Dependency it also names.
Injected(p) == Has(p, "param") \/ p.hint = "event"

IsDependency(p) == Injected(p) \/ Has(p, "dependency")

Closure(k, i) == [func |-> <<k, i>>, useCache |-> TRUE]

UserDefined(p) ==
    LET item == Items(p)[SelectInSeq(Items(p), LAMBDA it : it.is = "dependency")]
    IN  [func |-> <<item.func>>, useCache |-> item.useCache]

ExtractedFrom(p, k, i) == IF Injected(p) THEN Closure(k, i) ELSE UserDefined(p)

\* The functions made here have no parameters but the context.
Parameters(func) == IF Len(func) = 1 THEN sig[func[1]] ELSE << >>

Dependencies(func, k) ==
    LET params == Parameters(func)
    IN  [i \in {j \in DOMAIN params : IsDependency(params[j])} |-> ExtractedFrom(params[i], k, i)]

\* dict.update() leaves a name in its place and appends the new ones: what names a
\* Dependency comes first, then the events, then the subscription parameters.
Turn(p) == IF Has(p, "dependency") THEN 0 ELSE IF p.hint = "event" THEN 1 ELSE 2

NotAfter(func, i, j) ==
    LET params == Parameters(func)
    IN  \/ Turn(params[i]) < Turn(params[j])
        \/ Turn(params[i]) = Turn(params[j]) /\ i <= j

\* Event[...] of something that is not a BaseModel.
Malformed(func) == \E p \in ToSet(Parameters(func)) : p.hint = "not a model"

-----------------------------------------------------------------------------
(* _build_dependency_branches                                              *)

Extended(f, x, y) == [z \in DOMAIN f \cup {x} |-> IF z = x THEN y ELSE f[z]]

Called(dependency, k) ==
    [dependency |-> dependency, dependencies |-> Dependencies(dependency.func, k),
     children |-> << >>]

\* get_dependency_tree
GraphInit ==
    /\ sig \in Signatures
    /\ builds = <<Called([func |-> <<Handler>>, useCache |-> FALSE], 1)>> /\ active = <<1>>
    /\ resolved = << >> /\ resolving = {} /\ raised = ""

Current == Last(active)

\* The parameters that call k has not come to yet, and the one it comes to next.
Left(k) == DOMAIN builds[k].dependencies \ DOMAIN builds[k].children
ComesTo(k, i) ==
    i \in Left(k) /\ \A j \in Left(k) : NotAfter(builds[k].dependency.func, i, j)

WithChild(k, i, node) == [builds EXCEPT ![k].children = Extended(builds[k].children, i, node)]

Cached(dependency) == dependency.useCache /\ dependency.func \in DOMAIN resolved

\* No call catches it.
BuildRaises(error) ==
    /\ raised' = error /\ active' = << >>
    /\ UNCHANGED <<sig, builds, resolved, resolving>>

Reuse(i) ==
    LET dependency == builds[Current].dependencies[i]
    IN  /\ Cached(dependency)
        /\ builds' = WithChild(Current, i, resolved[dependency.func])
        /\ UNCHANGED <<sig, active, resolved, resolving, raised>>

RefuseCycle(i) ==
    LET dependency == builds[Current].dependencies[i]
    IN  /\ ~Cached(dependency) /\ dependency.func \in resolving
        /\ BuildRaises("CyclicDependencyError")

Descend(i) ==
    LET dependency == builds[Current].dependencies[i]
    IN  /\ ~Cached(dependency) /\ dependency.func \notin resolving
        /\ resolving' = resolving \cup {dependency.func}
        /\ builds' = Append(builds, Called(dependency, Len(builds) + 1))
        /\ active' = Append(active, Len(builds) + 1)
        /\ UNCHANGED <<sig, resolved, raised>>

\* mutant: the dependency stays among those being resolved.
NeverRemoved(dependency) == resolving

Removed(dependency) == resolving \ {dependency.func}

\* mutant: use_cache is looked at only when a node is looked for.
RememberedAlways(dependency, node) == Extended(resolved, dependency.func, node)

Remembered(dependency, node) ==
    IF dependency.useCache THEN Extended(resolved, dependency.func, node) ELSE resolved

\* The innermost call returns, and the node made of it is the next child of its caller.
Return ==
    LET dependency == builds[Current].dependency
        caller     == Last(Front(active))
    IN  /\ Len(active) > 1 /\ Left(Current) = {}
        /\ \E i \in Left(caller) :
              ComesTo(caller, i) /\ builds' = WithChild(caller, i, Current)
        /\ resolving' = Removed(dependency)
        /\ resolved' = Remembered(dependency, Current)
        /\ active' = Front(active)
        /\ UNCHANGED <<sig, raised>>

\* The tree is made of what the first call returns.
Finish ==
    /\ Len(active) = 1 /\ Left(Current) = {}
    /\ active' = << >>
    /\ UNCHANGED <<sig, builds, resolved, resolving, raised>>

\* A call begins with the extraction, which may raise.
GraphNext ==
    /\ active # << >>
    /\ IF Malformed(builds[Current].dependency.func) THEN BuildRaises("TypeError")
       ELSE \/ \E i \in Left(Current) :
                  ComesTo(Current, i) /\ (Reuse(i) \/ RefuseCycle(i) \/ Descend(i))
            \/ Return \/ Finish

GraphSpec == GraphInit /\ [][GraphNext]_graphVars

-----------------------------------------------------------------------------
(* The tree, said of the call graph instead of the search                  *)

\* The functions f asks for.
Uses(f) ==
    {UserDefined(p).func[1] : p \in {q \in ToSet(sig[f]) : Has(q, "dependency") /\ ~Injected(q)}}

ClosedUnderUse(S) == \A f \in S : Uses(f) \subseteq S

\* What f needs, directly or not.
Needs(f) ==
    {g \in Function : \A S \in SUBSET Function :
        Uses(f) \subseteq S /\ ClosedUnderUse(S) => g \in S}

Cyclic == \E f \in Needs(Handler) \cup {Handler} : f \in Needs(f)

\* Every dependency that was extracted has a node, made for what was asked for, and two
\* parameters have the same one exactly when both ask for the same function with use_cache.
SharedAsAsked ==
    \A k \in DOMAIN builds :
        /\ Left(k) = {}
        /\ \A i \in DOMAIN builds[k].children :
            LET node  == builds[k].children[i]
                asked == builds[k].dependencies[i]
            IN  /\ builds[node].dependency = asked
                /\ \A m \in DOMAIN builds : \A j \in DOMAIN builds[m].children :
                    <<k, i>> # <<m, j>> =>
                        (builds[m].children[j] = node <=>
                            asked = builds[m].dependencies[j] /\ asked.useCache)

BuildEnds == active # << >> /\ active' = << >>

\* A handler is refused when, and only when, something it needs needs itself, however
\* often and through whatever other functions it is reached (builder.py:40-45).
CyclesAreRefused ==
    [][BuildEnds /\ raised' # "TypeError" => (raised' # "" <=> Cyclic)]_graphVars

\* Whatever the paths to a function, the nodes of a finished tree are shared as use_cache
\* says (builder.py:36-50).
NodesAreShared == [][BuildEnds /\ raised' = "" => SharedAsAsked']_graphVars

================================================================================
