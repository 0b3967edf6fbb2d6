-------------------------------- MODULE Routing --------------------------------
(***************************************************************************)
(* Registration and lookup: dispatcher/trie.py, dispatcher/router.py,      *)
(* get_route_segments() of dispatcher/consumer.py and the registering half *)
(* of dispatcher/dispatcher.py.                                            *)
(*                                                                         *)
(* A subscription is the sequence of its attributes, each a text.  With a  *)
(* route delimiter each part of the text is a segment, without one each    *)
(* attribute.  A trie is a function from the paths of its nodes to their   *)
(* values.                                                                 *)
(***************************************************************************)
EXTENDS RouteText, FiniteSets

CONSTANTS
    Star,           \* the part "*"
    Subscription,   \* the subscriptions in use, each the sequence of its attributes
    Route,          \* the routes that are looked up, each the sequence of its segments
    Router,
    Callback,       \* the handler functions
    Policy,         \* the policies given to set_ack_policy()
    DefaultPolicy   \* default_ack_policy

ASSUME StarAssumption == Star \in Part \ Braced
ASSUME TextsAssumption == Subscription \subseteq Seq(Text) /\ Route \subseteq Seq(Text)
ASSUME PolicyAssumption == DefaultPolicy \notin Policy

VARIABLES
    delimited,      \* was the dispatcher given a route_delimiter?
    routers,        \* the _handlers of each router: [subscription, funcs], in order
    handlers,       \* the dispatcher's _handlers
    policies,       \* the dispatcher's _ack_policies
    \* ---- history: every registration with the dispatcher, in order
    registered, policiesSet

routingVars == <<delimited, routers, handlers, policies, registered, policiesSet>>

-----------------------------------------------------------------------------
(* Trie                                                                    *)

\* delimiter.join(values).split(delimiter), or the values.
Segments(values) ==
    IF delimited
    THEN LET parts == FlattenSeq(values) IN [i \in DOMAIN parts |-> <<parts[i]>>]
    ELSE values

IsPlaceholder(segment) == Head(segment) \in Braced /\ Last(segment) \in Braced

EmptyTrie == [path \in {<< >>} |-> << >>]

ValuesAt(trie, path) == IF path \in DOMAIN trie THEN trie[path] ELSE << >>

\* mutant: the segment is kept as it is written.
PathAsWritten(key) == key

Path(key) ==
    [i \in DOMAIN key |-> IF IsPlaceholder(key[i]) THEN <<Star>> ELSE key[i]]

\* Makes the nodes that are missing on the way.
Insert(trie, key, value) ==
    [path \in DOMAIN trie \cup Prefixes(Path(key)) |->
        IF path = Path(key) THEN Append(ValuesAt(trie, path), value)
                            ELSE ValuesAt(trie, path)]

\* mutant: both branches are walked in any case.
TakesBoth(trie, exact, overrideWildcard) == TRUE

\* Is the wildcard branch walked beside, or instead of, the exact one?
TakesWildcard(trie, exact, overrideWildcard) ==
    ~overrideWildcard \/ exact \notin DOMAIN trie

Get(trie, key, overrideWildcard) ==
    LET nodes == {path \in DOMAIN trie : Len(path) <= Len(key)}
        below[path \in nodes] ==
            IF Len(path) = Len(key) THEN trie[path]
            ELSE LET segment  == key[Len(path) + 1]
                     exact    == Append(path, segment)
                     wildcard == Append(path, <<Star>>)
                 IN  (IF exact \in nodes THEN below[exact] ELSE << >>) \o
                     (IF /\ TakesWildcard(trie, exact, overrideWildcard)
                         /\ segment # <<Star>> /\ wildcard \in nodes
                      THEN below[wildcard] ELSE << >>)
    IN  below[<< >>]

-----------------------------------------------------------------------------
(* Registration                                                            *)

RoutingInit ==
    /\ delimited \in BOOLEAN
    /\ routers = [r \in Router |-> << >>]
    /\ handlers = EmptyTrie /\ policies = EmptyTrie
    /\ registered = << >> /\ policiesSet = << >>

HandlerFor(s, f) == [func |-> f, pattern |-> Segments(s)]

\* table[s].append(f), in a defaultdict(list).
AppendedAt(table, s, f) ==
    IF \E i \in DOMAIN table : table[i].subscription = s
    THEN [i \in DOMAIN table |->
            IF table[i].subscription = s THEN [table[i] EXCEPT !.funcs = Append(@, f)]
                                         ELSE table[i]]
    ELSE Append(table, [subscription |-> s, funcs |-> <<f>>])

\* @router.handler(s)
Decorate(r, s, f) ==
    /\ routers' = [routers EXCEPT ![r] = AppendedAt(@, s, f)]
    /\ UNCHANGED <<delimited, handlers, policies, registered, policiesSet>>

InsertAll(trie, added) ==
    LET upTo[i \in 0 .. Len(added)] ==
            IF i = 0 THEN trie ELSE Insert(upTo[i - 1], added[i].pattern, added[i])
    IN  upTo[Len(added)]

Register(added) ==
    /\ handlers' = InsertAll(handlers, added)
    /\ registered' = registered \o added

\* @dispatcher.handler(s)
Handler(s, f) ==
    /\ Register(<<HandlerFor(s, f)>>)
    /\ UNCHANGED <<delimited, routers, policies, policiesSet>>

\* The handlers of a router, by subscription, in the order the dict keeps.
Collected(table) ==
    FlattenSeq([i \in DOMAIN table |->
        [j \in DOMAIN table[i].funcs |-> HandlerFor(table[i].subscription, table[i].funcs[j])]])

\* Copies what the router holds now: later decorations of it are not seen, and a
\* router added twice is there twice.
AddRouter(r) ==
    /\ Register(Collected(routers[r]))
    /\ UNCHANGED <<delimited, routers, policies, policiesSet>>

SetAckPolicy(s, p) ==
    /\ policies' = Insert(policies, Segments(s), p)
    /\ policiesSet' = Append(policiesSet, [pattern |-> Segments(s), policy |-> p])
    /\ UNCHANGED <<delimited, routers, handlers, registered>>

-----------------------------------------------------------------------------
(* Lookup, for the route of an event                                       *)

HandlersOf(route) == Get(handlers, route, FALSE)

PolicyOf(route) ==
    LET found == Get(policies, route, TRUE)
    IN  IF found = << >> THEN DefaultPolicy ELSE Head(found)

-----------------------------------------------------------------------------
(* What lookup should find, said of patterns instead of trees              *)

IsWildcard(segment) == segment = <<Star>> \/ IsPlaceholder(segment)

Agree(segment, other) == segment = other \/ (IsWildcard(segment) /\ IsWildcard(other))

Matches(pattern, route) ==
    /\ Len(pattern) = Len(route)
    /\ \A i \in DOMAIN route : IsWildcard(pattern[i]) \/ pattern[i] = route[i]

Count(s, x) == Cardinality({i \in DOMAIN s : s[i] = x})

\* The handlers found for a route are those with a matching pattern, each as often as
\* it was registered, whatever else the trie holds (trie.py:38-53, dispatcher.py:164-180).
FindsAll(route) ==
    \A h \in ToSet(registered) \cup ToSet(HandlersOf(route)) :
        Count(HandlersOf(route), h) =
            IF Matches(h.pattern, route) THEN Count(registered, h) ELSE 0

\* A pattern is out of the way of another one for this route when, at the first place
\* where they differ, the other one is exact and this one is a wildcard.
HiddenBy(pattern, other, route) ==
    \E i \in DOMAIN route :
        /\ i <= Len(pattern) /\ i <= Len(other)
        /\ IsWildcard(pattern[i]) /\ ~IsWildcard(other[i]) /\ other[i] = route[i]
        /\ \A j \in 1 .. i - 1 : Agree(pattern[j], other[j])

\* The policy that is found for a route is the first one set for the matching pattern that
\* no other one hides.  A hiding pattern need not match itself: a policy for a.b takes the
\* events of a.c away from a policy for {x}.c (trie.py:49), and they get the default.
FindsUnhidden(route) ==
    LET unhidden == {i \in DOMAIN policiesSet :
            /\ Matches(policiesSet[i].pattern, route)
            /\ \A s \in ToSet(policiesSet) : ~HiddenBy(policiesSet[i].pattern, s.pattern, route)}
    IN  PolicyOf(route) =
            IF unhidden = {} THEN DefaultPolicy ELSE policiesSet[Min(unhidden)].policy

\* Whatever is registered, in whatever order, a route finds the handlers whose patterns
\* match it, each as often as it was registered.
LookupIsMatching == \A route \in Route : FindsAll(route)

\* Whatever policies are set and in whatever order, the events of a route are acknowledged
\* by the first one set for the matching pattern that no pattern, matching or not, hides by
\* an earlier exact segment, or by the default (trie.py:46-51).
PolicyIsUnhidden == \A route \in Route : FindsUnhidden(route)

MatchingPolicies(route) == {s \in ToSet(policiesSet) : Matches(s.pattern, route)}

\* The indices of the policies set for the most exact of the patterns that match.
MostExact(route) ==
    {i \in DOMAIN policiesSet :
        /\ Matches(policiesSet[i].pattern, route)
        /\ \A s \in MatchingPolicies(route) : ~HiddenBy(policiesSet[i].pattern, s.pattern, route)}

\* The most exact of several matching patterns, as the lookup promises it.
FindsMostExact(route) ==
    PolicyOf(route) = IF MostExact(route) = {} THEN DefaultPolicy
                      ELSE policiesSet[Min(MostExact(route))].policy

\* dispatcher/trie.py:20 on override_wildcard, with which dispatcher.py looks policies up: "If
\* True, returns the most exact match."  A pattern that does not match can hide the only
\* one that does (trie.py:49), and then nothing is found.
MostExactPolicyApplies == \A route \in Route : FindsMostExact(route)

================================================================================
