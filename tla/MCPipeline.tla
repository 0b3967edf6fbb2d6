------------------------------ MODULE MCPipeline ------------------------------
(* Events that contend for one key, and one with another key, behind several      *)
(* pipelines, of which those with a Retry outside the lock pass it twice.         *)
EXTENDS Pipeline, TLC

Errors == {"e1", "e2"}
Retry(retries, on) == [is |-> "retry", retries |-> retries, on |-> on]
Lock == [is |-> "lock", retries |-> 0, on |-> {}]
Filter == [is |-> "filter", retries |-> 0, on |-> {}]
Interceptor(on) == [is |-> "interceptor", retries |-> 0, on |-> on]

PipelinesChecked == {
    <<Lock>>,
    <<Retry(1, {"e2"}), Interceptor({"e1"})>>,
    <<Filter, Retry(1, {"e1"}), Lock>>,
    <<Retry(1, Errors), Lock, Retry(1, Errors)>>,
    <<Interceptor({"e2"}), Lock, Retry(1, {"e1"}), Filter>>,
    <<Lock, Filter, Interceptor({"e1"})>> }

\* A router and a handler with three retries each.
NestedRetries == {<<Retry(3, Errors), Retry(3, Errors)>>}

Passages == Task \X (1 .. 2)
KeyOfTask == [c \in Passages |-> IF c[1] = "t4" THEN "own" ELSE "shared"]

\* Four events behind the lock alone, two behind the pipelines with several layers.
Bounded == layers = <<Lock>> \/ {t \in Task : doing'[t] # "new"} \subseteq {"t1", "t2"}

MCSpec == PipelineInit /\ [][PipelineNext /\ Bounded]_<<vars, taskVars>>
            /\ \A t \in Task : WF_<<vars, taskVars>>(Runs(t))
===============================================================================
