--------------------------- MODULE MCDependencyTree ----------------------------
(***************************************************************************)
(* DIResolver.resolve: the tree is built for a handler of any small        *)
(* signatures; for one of them, with two dependencies one of which, a      *)
(* generator, the other needs as well, it is then resolved for two events. *)
(***************************************************************************)
EXTENDS DependencyTree, DependencyGraph, TLC

CONSTANTS e1, e2

Other == [is |-> "other"]
Needed(f, useCache) == [is |-> "dependency", func |-> f, useCache |-> useCache]
ByDefault(item) == [default |-> item, metadata |-> << >>, hint |-> "other"]
Annotated(item, hint) == [default |-> Other, metadata |-> <<Other, item>>, hint |-> hint]

\* All signatures of a handler and two functions with two parameters.
First  == {ByDefault(item) :
            item \in {Other, Needed("f", TRUE), Needed("f", FALSE), Needed("g", FALSE)}}
Second == {Annotated(item, "other") :
            item \in {Other, Needed("f", TRUE), Needed("g", TRUE), [is |-> "param"]}}
            \cup {Annotated(Other, "not a model")}
MCFunction   == {"h", "f", "g"}
MCSignatures == [MCFunction -> {<<p, q>> : p \in First, q \in Second}]

\* In the example the handler needs f and g, and f needs g.
Example == [f \in MCFunction |->
    CASE f = "h" -> <<ByDefault(Needed("f", TRUE)), Annotated(Needed("g", TRUE), "other")>>
      [] f = "f" -> <<ByDefault(Other), Annotated(Needed("g", TRUE), "other")>>
      [] f = "g" -> <<ByDefault(Other), Annotated(Other, "other")>>]

\* The calls of its build: for h, f and g, in this order.
UsesOnce(f) == [func |-> <<f>>, useCache |-> TRUE]
ExampleBuilds == <<
    [dependency   |-> [func |-> <<"h">>, useCache |-> FALSE],
     dependencies |-> <<UsesOnce("f"), UsesOnce("g")>>, children |-> <<2, 3>>],
    [dependency   |-> UsesOnce("f"),
     dependencies |-> (2 :> UsesOnce("g")), children |-> (2 :> 3)],
    [dependency   |-> UsesOnce("g"),
     dependencies |-> << >>, children |-> << >>]>>

\* Its nodes are 2 and 3; a parameter is the number of a call and a position.
ParamsOf(k)  == {k} \X DOMAIN ExampleBuilds[k].children
MCEvent      == {e1, e2}
MCNode       == 2 .. Len(ExampleBuilds)
MCRootParams == ParamsOf(1)
MCParams     == [n \in MCNode |-> ParamsOf(n)]
MCParam      == UNION {ParamsOf(k) : k \in DOMAIN ExampleBuilds}
MCTarget     == [p \in MCParam |-> ExampleBuilds[p[1]].children[p[2]]]
MCGenerator  == {3}
MCCall       == {<<p>> : p \in MCRootParams} \cup
                UNION {{<<p, q>> : q \in MCParams[MCTarget[p]]} : p \in MCRootParams}

-----------------------------------------------------------------------------
\* The tree that DependencyTree is given is the one that was built.
ExampleIsBuilt == active = << >> /\ raised = "" /\ builds = ExampleBuilds

MCVars == <<vars, graphVars>>

Build      == GraphNext /\ UNCHANGED vars
Resolve(e) == ExampleIsBuilt /\ Step(e) /\ UNCHANGED graphVars
Abort(e)   == ExampleIsBuilt /\ Cancel(e) /\ UNCHANGED graphVars

MCInit == GraphInit /\ Init

MCSpec ==
    /\ MCInit
    /\ [][Build \/ \E e \in Event : Resolve(e) \/ Abort(e)]_MCVars

\* The event loop runs what can run, and what the application awaits ends.
MCFairSpec == MCSpec /\ WF_MCVars(Build) /\ \A e \in Event : WF_MCVars(Resolve(e))

\* Every build ends, and then every event of the example's handler comes to its end, with
\* the handler run or not: shared nodes never wait for each other, and no error is waited
\* for for ever (builder.py:33-50, tree.py:23-37).
BuildsAndEventsEnd ==
    \A e \in Event : <>(phase[e] = "ended" \/ (active = << >> /\ sig # Example))
================================================================================
