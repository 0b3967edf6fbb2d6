------------------------------ MODULE EventFlow ------------------------------
(***************************************************************************)
(* From emit() to a handler: Emission and Routing with RedisConsumer       *)
(* (redis/consumer.py) between them, the lookups of _handle_message and    *)
(* _execute_handlers (dispatcher/dispatcher.py) and the binding of         *)
(* SubscriptionParam (di/extractor.py).  Dispatcher models how messages    *)
(* and handlers interleave; here a message is dispatched in one step.      *)
(***************************************************************************)
EXTENDS Routing, Emission

CONSTANT Wants      \* the names of the SubscriptionParams of each handler function

\* Each name can be written {name}.
ASSUME WantsAssumption ==
    \A f \in Callback : \A n \in Wants[f] : \E p \in Braced : BracedName[p] = n

VARIABLES
    feed,           \* what pubsub.listen() has yet to yield: [type, call, channel]
    handled,        \* calls whose message was dispatched
    invoked         \* handler invocations: [call, handler, args]

flowVars == <<feed, handled, invoked>>
vars == <<routingVars, emissionVars, flowVars>>

Init == RoutingInit /\ EmissionInit /\ feed = << >> /\ handled = {} /\ invoked = {}

-----------------------------------------------------------------------------
(* Redis                                                                   *)

\* What a connection gets of a published message: once for its channel subscription,
\* once for its pattern subscription, or both, or nothing.
Deliveries == {<< >>, <<"message">>, <<"pmessage">>, <<"message", "pmessage">>}

RedisDelivers(c) ==
    /\ Arrives(c) /\ calls[c].backend = "redis"
    /\ \E types \in Deliveries :
        feed' = feed \o [i \in DOMAIN types |->
                    [type |-> types[i], call |-> c, channel |-> To(calls[c].event)[1]]]
    /\ UNCHANGED <<routingVars, handled, invoked>>

\* The connection is told of its own subscriptions in the same stream.
RedisConfirms ==
    /\ feed' = Append(feed, [type |-> "subscribe"])
    /\ UNCHANGED <<routingVars, emissionVars, handled, invoked>>

\* RedisEventSubscription(channel=...); acknowledging such a message does nothing.
SubscriptionOf(entry) == <<entry.channel>>

ListenSkips ==
    /\ feed # << >> /\ Head(feed).type \notin {"message", "pmessage"}
    /\ feed' = Tail(feed)
    /\ UNCHANGED <<routingVars, emissionVars, handled, invoked>>

-----------------------------------------------------------------------------
(* The dispatcher                                                          *)

HoleOf(name) == <<CHOOSE p \in Braced : BracedName[p] = name>>

\* mutant: the position is that of the last segment with the name.
BindLast(actual, pattern, name) ==
    actual[CHOOSE i \in DOMAIN pattern : IsPlaceholder(pattern[i]) /\
                \A j \in DOMAIN pattern : IsPlaceholder(pattern[j]) => j <= i]

\* _extract_param: the value at the first segment written {name}; without one, the
\* handler's dependencies fail and it does not run.
CanBind(pattern, name) == Contains(pattern, HoleOf(name))

Bind(actual, pattern, name) == actual[SelectInSeq(pattern, LAMBDA s : s = HoleOf(name))]

Invocation(c, route, h) ==
    [call |-> c, handler |-> h, args |-> [n \in Wants[h.func] |-> Bind(route, h.pattern, n)]]

HandleMessage ==
    /\ feed # << >> /\ Head(feed).type \in {"message", "pmessage"}
    /\ LET c     == Head(feed).call
           route == Segments(SubscriptionOf(Head(feed)))
           runs  == {h \in ToSet(HandlersOf(route)) :
                        \A n \in Wants[h.func] : CanBind(h.pattern, n)}
       IN  /\ handled' = handled \cup {c}
           /\ invoked' = invoked \cup {Invocation(c, route, h) : h \in runs}
    /\ feed' = Tail(feed)
    /\ UNCHANGED <<routingVars, emissionVars>>

-----------------------------------------------------------------------------

\* Applications register their handlers and policies before they emit.
Configure ==
    /\ \A c \in Call : calls[c] = NotCalled
    /\ feed = << >>
    /\ \/ \E r \in Router, s \in Subscription, f \in Callback : Decorate(r, s, f)
       \/ \E r \in Router : AddRouter(r)
       \/ \E s \in Subscription, f \in Callback : Handler(s, f)
       \/ \E s \in Subscription, p \in Policy : SetAckPolicy(s, p)
    /\ UNCHANGED <<emissionVars, flowVars>>

EmissionStep ==
    /\ \/ \E c \in Call, b \in Backend, event \in Event :
            EmitRefused(c, b, event) \/ EmitSends(c, b, event)
       \/ \E c \in Call :
            \/ Arrives(c) /\ calls[c].backend # "redis"
            \/ SendReturns(c) \/ SendRaises(c) \/ SendTimesOut(c) \/ AwaitedCallbackEnds(c)
       \/ \E b \in Backend, callback \in Reporter : OnTimeout(b, callback)
    /\ UNCHANGED <<routingVars, flowVars>>

Next ==
    \/ Configure \/ EmissionStep
    \/ \E c \in Call : RedisDelivers(c)
    \/ RedisConfirms \/ ListenSkips \/ HandleMessage

Spec == Init /\ [][Next]_vars

-----------------------------------------------------------------------------
\* Does the event use the route the handler subscribes to, with the names the handler
\* asks for among its fields?
SameRoute(event, h) == Segments(event.route.texts) = h.pattern

\* Is every {name} in the pattern a whole segment?  Within a longer one, as without a
\* delimiter, it is filled in by emit() but no wildcard.
Whole(pattern) == \A s \in ToSet(pattern) : ToSet(s) \cap Braced # {} => Len(s) = 1

\* "Substituted values must not contain the delimiter" (dynamic_routes.md:257).
Unsplit(event) == \A name \in DOMAIN event.fields : delimited => Len(event.fields[name]) = 1

\* A handled event has reached every handler whose subscription is written like the
\* event's route, and each SubscriptionParam of it is the field of that name, whatever
\* else is registered (emitter.py:35, trie.py:38-53, extractor.py:126-137).
EventsReachTheirHandlers ==
    \A c \in handled, h \in ToSet(registered) :
        LET event == calls[c].event
        IN  /\ SameRoute(event, h) /\ Whole(h.pattern) /\ Unsplit(event)
            /\ \A n \in Wants[h.func] : CanBind(h.pattern, n)
            => [call |-> c, handler |-> h, args |-> [n \in Wants[h.func] |-> event.fields[n]]]
                    \in invoked

=============================================================================
