----------------------------- MODULE MCEventFlow -----------------------------
(* Two small sets of registrations and events, chosen so that patterns overlap, *)
(* hide one another and differ in length.                                       *)
EXTENDS EventFlow

CONSTANTS MaxRegistered, MaxFeed

Parts == {"user", "7", "9", "4", "*", "x", "y", "x{id}", "{id}", "{org}"}

Names == [p \in {"{id}", "{org}"} |-> IF p = "{id}" THEN "id" ELSE "org"]

Subscriptions == {
    <<<<"user", "{id}">>>>, <<<<"user", "7">>>>, <<<<"{id}", "{org}">>>>,
    <<<<"{id}">>>>, <<<<"user">>, <<"*">>, <<"4">>>> }      \* the last one of RabbitMQ

WantsOf == [f \in Callback |->
    CASE f = "none" -> {} [] f = "one" -> {"id"} [] f = "both" -> {"org", "id"}]

Field(id) == [n \in {"id"} |-> id]
NoConfig == [kind |-> "none", texts |-> << >>]

EventOf(kind, texts, config, id) ==
    [route |-> [kind |-> kind, texts |-> texts], config |-> config,
     fields |-> Field(id), serializable |-> TRUE]

Events == {
    EventOf("redis", <<<<"user", "{id}">>>>, NoConfig, <<"7">>),
    EventOf("redis", <<<<"user", "{id}">>>>, NoConfig, <<"7", "4">>),
    EventOf("redis", <<<<"{id}">>>>, [kind |-> "kafka", texts |-> <<>>], <<"user", "7">>),
    [EventOf("redis", <<<<"{id}", "{org}">>>>, NoConfig, << >>)
        EXCEPT !.fields = [n \in {"org", "id"} |-> IF n = "id" THEN <<"user">> ELSE <<"7">>]],
    EventOf("redis", <<<<"{org}">>>>, NoConfig, <<"7">>),
    EventOf("kafka", <<<<"user">>>>, [kind |-> "kafka", texts |-> <<<<"{id}">>>>], <<"7">>),
    EventOf("rabbitmq", <<<<"x{id}">>, <<"user", "{id}">>>>, NoConfig, <<"7">>),
    EventOf("rabbitmq", <<<<"y">>, <<"user">>>>, NoConfig, <<"7">>),
    EventOf("none", << >>, NoConfig, <<"7">>) }

Exchanges == {<<"x{id}">>}      \* a name with other text around a field is one part here

Segment == {"user", "7", "*"}
Routes == UNION {[1 .. n -> {<<p>> : p \in Segment}] : n \in 1 .. 2} \cup {<<<<"4">>, <<"4">>>>} \cup
          {<<t>> : t \in {<<"user", "7">>, <<"9", "4">>, <<"user", "{id}">>}} \cup
          {<<<<"user">>, <<"7">>, <<p>>>> : p \in {"4", "7"}}

Idle == \A c \in Call : calls[c] = NotCalled

Decorated == UNION {UNION {{<<r, i, j>> : j \in DOMAIN routers[r][i].funcs} :
                        i \in DOMAIN routers[r]} : r \in Router}

Bounded ==
    /\ Len(registered') + Len(policiesSet') + Cardinality(Decorated') <= MaxRegistered
    /\ Len(feed') <= MaxFeed
    \* emits only after a few registrations that differ for them
    /\ Idle' \/ (Decorated = {} /\ policiesSet = << >> /\ Len(registered) < MaxRegistered)
    \* only the emitter of Kafka is given another callback, and while it is at work
    /\ onTimeout' # onTimeout =>
            /\ onTimeout' = [onTimeout EXCEPT !["kafka"] = onTimeout'["kafka"]]
            /\ \E c \in Call : calls[c].pc = "sending" /\ calls[c].backend = "kafka"

MCNext == Next /\ Bounded

MCSpec == Init /\ [][MCNext]_vars

=============================================================================
