------------------------------- MODULE Emission -------------------------------
(***************************************************************************)
(* EventEmitter (emitter/emitter.py) and the producers of Kafka, RabbitMQ  *)
(* and Redis.                                                              *)
(*                                                                         *)
(* There is one emitter per backend.  Whatever is wrong with an event      *)
(* shows before the producer awaits its client; after that the client may  *)
(* answer, time out or raise, and its message may still arrive.            *)
(***************************************************************************)
EXTENDS RouteText, FiniteSets

CONSTANTS
    Call,           \* calls of emit()
    Event,          \* [route, config: [kind, texts], fields, serializable]
    Exchange,       \* the exchanges RabbitMQProducer was given
    Log,            \* the _on_timeout an emitter starts with
    Reporter,       \* functions given to on_timeout(); those in Awaited are
    Awaited         \* asynchronous

\* RedisEventRoute has one attribute, the channel.
ASSUME EventAssumption ==
    \A event \in Event :
        /\ event.route.texts \in Seq(Text) /\ event.config.texts \in Seq(Text)
        /\ event.route.kind = "redis" => Len(event.route.texts) = 1
        /\ \A name \in DOMAIN event.fields : event.fields[name] \in Text
ASSUME ReporterAssumption == Log \notin Reporter /\ Awaited \subseteq Reporter

Backend == {"kafka", "rabbitmq", "redis"}

VARIABLES
    calls,          \* of each call of emit(): [pc, backend, event, callback]
    onTimeout,      \* the _on_timeout of each emitter
    inTransit,      \* calls whose message the client library still holds
    published,      \* what reached a broker, in order: [call, to]
    \* ---- history: the callbacks that ran to their end, with the event of a call
    reported

emissionVars == <<calls, onTimeout, inTransit, published, reported>>

NotCalled == [pc |-> "new"]

EmissionInit ==
    /\ calls = [c \in Call |-> NotCalled]
    /\ onTimeout = [b \in Backend |-> Log]
    /\ inTransit = {} /\ published = << >> /\ reported = {}

-----------------------------------------------------------------------------
(* What the producers accept                                               *)

To(event) == FormatDynamic(event.route.texts, event.fields)

\* The checks of each producer's send(); Redis ignores the config.
KafkaAccepts(event) == event.config.kind \in {"none", "kafka"} /\ event.route.kind = "kafka"

RabbitAccepts(event) ==
    /\ event.config.kind \in {"none", "rabbitmq"} /\ event.route.kind = "rabbitmq"
    /\ To(event)[1] \in Exchange

RedisAccepts(event) == event.route.kind = "redis"

Sendable(b, event) ==
    /\ event.route.kind # "none"                    \* not an EventRoute
    /\ CanFormatDynamic(event.route.texts \o event.config.texts, event.fields)
    /\ event.serializable
    /\ CASE b = "kafka"    -> KafkaAccepts(event)
         [] b = "rabbitmq" -> RabbitAccepts(event)
         [] b = "redis"    -> RedisAccepts(event)

-----------------------------------------------------------------------------
(* emit()                                                                  *)

EmitRefused(c, b, event) ==
    /\ calls[c] = NotCalled /\ ~Sendable(b, event)
    /\ calls' = [calls EXCEPT ![c].pc = "raised"]
    /\ UNCHANGED <<onTimeout, inTransit, published, reported>>

EmitSends(c, b, event) ==
    /\ calls[c] = NotCalled /\ Sendable(b, event)
    /\ calls' = [calls EXCEPT ![c] =
            [pc |-> "sending", backend |-> b, event |-> event, callback |-> Log]]
    /\ inTransit' = inTransit \cup {c}
    /\ UNCHANGED <<onTimeout, published, reported>>

\* The message reaches the broker, perhaps after its emit() has given up.
Arrives(c) ==
    /\ c \in inTransit
    /\ inTransit' = inTransit \ {c}
    /\ published' = Append(published, [call |-> c, to |-> To(calls[c].event)])
    /\ UNCHANGED <<calls, onTimeout, reported>>

Ends(c, pc) == calls' = [calls EXCEPT ![c].pc = pc]

\* Assumed of the client: a call of it that returns has delivered the message.
SendReturns(c) ==
    /\ calls[c].pc = "sending" /\ \E m \in ToSet(published) : m.call = c
    /\ Ends(c, "returned")
    /\ UNCHANGED <<onTimeout, inTransit, published, reported>>

SendRaises(c) ==
    /\ calls[c].pc = "sending"
    /\ Ends(c, "raised")
    /\ UNCHANGED <<onTimeout, inTransit, published, reported>>

\* The callback returned, or raised out of emit().
CallbackEnds(c, callback) ==
    \/ /\ reported' = reported \cup {<<c, callback>>}
       /\ Ends(c, "returned")
    \/ /\ Ends(c, "raised")
       /\ UNCHANGED reported

\* mutant: an awaitable result is not awaited.
NotAwaited(c, callback) ==
    IF callback \in Awaited THEN Ends(c, "returned") /\ UNCHANGED reported
    ELSE CallbackEnds(c, callback)

Report(c, callback) ==
    IF callback \in Awaited
    THEN /\ calls' = [calls EXCEPT ![c].pc = "reporting", ![c].callback = callback]
         /\ UNCHANGED reported
    ELSE CallbackEnds(c, callback)

\* Only these producers turn the timeout of their client into ProducerTimeout.
SendTimesOut(c) ==
    /\ calls[c].pc = "sending" /\ calls[c].backend \in {"kafka", "rabbitmq"}
    /\ Report(c, onTimeout[calls[c].backend])
    /\ UNCHANGED <<onTimeout, inTransit, published>>

AwaitedCallbackEnds(c) ==
    /\ calls[c].pc = "reporting"
    /\ CallbackEnds(c, calls[c].callback)
    /\ UNCHANGED <<onTimeout, inTransit, published>>

\* on_timeout() may be called while emits are under way.
OnTimeout(b, callback) ==
    /\ onTimeout' = [onTimeout EXCEPT ![b] = callback]
    /\ UNCHANGED <<calls, inTransit, published, reported>>

-----------------------------------------------------------------------------
\* An emit() that returned is accounted for: its event has reached the broker, or one
\* callback has run to its end with it, even an asynchronous one; a refused or failed
\* one is never reported as timed out (emitter.py:26-46).  A timeout does not say that
\* the event is lost: it may be reported and arrive.
SettledIsKnown ==
    \A c \in Call :
        LET reports == {r \in reported : r[1] = c}
        IN  /\ Cardinality(reports) <= 1
            /\ reports # {} => calls[c].pc = "returned"
            /\ calls[c].pc = "returned" =>
                    reports # {} \/ \E m \in ToSet(published) : m.call = c

=============================================================================
