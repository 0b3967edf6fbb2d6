----------------------------- MODULE MCMessagePath -----------------------------
(***************************************************************************)
(* What a message passes between the broker and its commit, each part on   *)
(* its own and with everything around it free: a consumer (RabbitConsumer) *)
(* that yields it, the Dispatcher that handles it, and the tracker and the *)
(* batch (CommitPath) that its acknowledgement goes through.  The parts    *)
(* share no state, so a behaviour shows one of them and the others rest.   *)
(*                                                                         *)
(* The consumer has two queues, one with two messages, and is started      *)
(* twice.                                                                  *)
(***************************************************************************)
EXTENDS RabbitConsumer, MCDispatcher, CommitPath

CONSTANTS q1, q2

MCQueue    == {q1, q2}
MCDelivery == {m1, m2, m3}
MCQueueOf  == (m1 :> q1) @@ (m2 :> q1) @@ (m3 :> q2)

-----------------------------------------------------------------------------
VARIABLE shown    \* the part that the behaviour shows

MCVars == <<rabbitVars, vars, commitVars, shown>>

\* The parts that are not shown have one initial state.
MCInit ==
    /\ shown \in {"consumer", "dispatcher", "commit path"}
    /\ RabbitInit /\ Init /\ CommitInit
    /\ shown = "dispatcher" \/ limit = NoLimit
    /\ shown = "commit path" \/ start = 0

MCNext ==
    /\ UNCHANGED shown
    /\ \/ shown = "consumer" /\ RabbitNext /\ UNCHANGED <<vars, commitVars>>
       \/ shown = "dispatcher" /\ Next /\ UNCHANGED <<rabbitVars, commitVars>>
       \/ shown = "commit path" /\ CommitNext /\ UNCHANGED <<rabbitVars, vars>>

\* The fairness of each part asks nothing of it in its initial state.
MCSpec == MCInit /\ [][MCNext]_MCVars /\ RabbitFairness /\ Fairness /\ WF_commitVars(Fires)
================================================================================
