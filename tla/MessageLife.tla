------------------------------ MODULE MessageLife ------------------------------
(***************************************************************************)
(* What EventDispatcher promises of a message it was given, whatever runs  *)
(* beside it: its handlers are started once, each ends at most once, and   *)
(* its ack() is called at most once: before its handlers under             *)
(* AckBeforeProcessing, after the last of them under AckAfterProcessing,   *)
(* never for a message that cannot be decoded.                             *)
(***************************************************************************)
EXTENDS Integers

CONSTANTS
    Message,     \* the messages the consumer may yield, a redelivery being another one
    Handler,     \* the registered handlers
    Malformed,   \* the messages whose payload does not deserialize
    Early        \* the messages of routes with the policy AckBeforeProcessing

VARIABLES
    given,       \* the messages the dispatcher took
    started,     \* the handler calls made: pairs of a message and a handler
    ended,       \* those of them that returned or raised
    acks         \* how often ack() was called for each message
lifeVars == <<given, started, ended, acks>>

LifeInit ==
    /\ given = {} /\ started = {} /\ ended = {}
    /\ acks = [m \in Message |-> 0]

Give(m) ==
    /\ m \notin given
    /\ given' = given \cup {m}
    /\ UNCHANGED <<started, ended, acks>>

Start(m) ==
    /\ m \in given \ Malformed
    /\ \A h \in Handler : <<m, h>> \notin started
    /\ acks[m] = (IF m \in Early THEN 1 ELSE 0)
    /\ \E H \in SUBSET Handler : started' = started \cup ({m} \X H)
    /\ UNCHANGED <<given, ended, acks>>

End(m, h) ==
    /\ <<m, h>> \in started \ ended
    /\ ended' = ended \cup {<<m, h>>}
    /\ UNCHANGED <<given, started, acks>>

Ack(m) ==
    /\ m \in given \ Malformed
    /\ acks[m] = 0
    /\ \A h \in Handler : <<m, h>> \in started => m \notin Early /\ <<m, h>> \in ended
    /\ acks' = [acks EXCEPT ![m] = 1]
    /\ UNCHANGED <<given, started, ended>>

LifeNext ==
    \E m \in Message : Give(m) \/ Start(m) \/ Ack(m) \/ \E h \in Handler : End(m, h)

Life == LifeInit /\ [][LifeNext]_lifeVars
================================================================================
