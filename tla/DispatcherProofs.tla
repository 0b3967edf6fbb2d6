---------------------------- MODULE DispatcherProofs ---------------------------
(***************************************************************************)
(* What Dispatcher keeps for every set of messages, handlers and routes,   *)
(* every limit and every number of retries.                                *)
(***************************************************************************)
EXTENDS Dispatcher, FiniteSetTheorems, TLAPS

Loop(m) == stage[m] \in {"ready", "acking", "handlers", "finished"}

\* _tasks holds exactly the tasks whose done callback has not run.
Tracked == \A m \in Message : m \in tasks <=> Loop(m)

\* Only the message that waits for a permit, at most one, is held; start() that
\* returned by itself left no task.
LoopInv ==
    /\ abandoned => loop = "returned"
    /\ loop = "returned" /\ ~abandoned => tasks = {}
    /\ \A m \in Message : stage[m] = "held" => loop = "acquire" \/ abandoned
    /\ loop = "acquire" =>
         \A m, n \in Message : stage[m] = "held" /\ stage[n] = "held" => m = n

\* Where a message is tells which of its handlers may run and whether ack() was called.
StageOf(m) ==
    /\ stage[m] \in {"unseen", "held", "ready"} =>
         acks[m] = 0 /\ \A h \in Handler : run[m][h] = "none"
    /\ stage[m] = "acking" =>
         /\ acks[m] = 1 /\ m \notin Malformed
         /\ \A h \in Handler : run[m][h] \in {"none", "ok", "raised"}
         /\ m \in Early => \A h \in Handler : run[m][h] = "none"
    /\ stage[m] = "handlers" =>
         m \notin Malformed /\ acks[m] = (IF m \in Early THEN 1 ELSE 0)
    /\ stage[m] # "handlers" => \A h \in Handler : run[m][h] \notin {"running", "delay"}

StageInv == \A m \in Message : StageOf(m)

IInv == TypeOK /\ PermitsBalance /\ Tracked /\ LoopInv /\ StageInv

Holders == {m \in Message : Active(m)}

-----------------------------------------------------------------------------
(* Types.                                                                  *)

\* The initial state is well typed.
LEMMA InitTypes == Init => TypeOK
<1> SUFFICES ASSUME Init PROVE TypeOK
  OBVIOUS
<1>1. limit \in Nat \cup {NoLimit} /\ permits \in Nat
  BY LimitsAssumption DEF Init
<1>2. stage \in [Message -> Stage] /\ acks \in [Message -> Nat]
  BY DEF Init, Stage
<1>3. run \in [Message -> [Handler -> RunState]] /\ attempt \in [Message -> [Handler -> Nat]]
  BY DEF Init, RunState
<1> QED
  BY <1>1, <1>2, <1>3 DEF Init, TypeOK

\* No step leaves the types.
LEMMA TypesPreserved == TypeOK /\ [Next]_vars => TypeOK'
<1> SUFFICES ASSUME TypeOK, [Next]_vars PROVE TypeOK'
  OBVIOUS
<1>1. CASE UNCHANGED vars
  BY <1>1 DEF TypeOK, vars, loopVars, callVars
<1>2. CASE ListenEnds \/ Drained \/ Abandon
  BY <1>2 DEF ListenEnds, Drained, Abandon, TypeOK, loopVars, callVars
<1>3. ASSUME NEW m \in Message, LoopStep(m) PROVE TypeOK'
  BY <1>3, LimitsAssumption
     DEF LoopStep, Take, TakeAndWait, Acquire, Spawn, Reach, TypeOK, Stage, loopVars, callVars
<1>4. ASSUME NEW m \in Message, TaskStep(m) PROVE TypeOK'
  <2>1. /\ stage' \in [Message -> Stage] /\ acks' \in [Message -> Nat]
        /\ permits' \in Nat /\ tasks' \subseteq Message
    <3>1. CASE BeginMalformed(m) \/ AckEnds(m) \/ ProcessedLast(m)
      BY <3>1, LimitsAssumption
         DEF BeginMalformed, AckEnds, ProcessedLast, Leave, Reach, TypeOK, Stage
    <3>2. CASE BeginEarly(m) \/ Processed(m)
      <4>1. acks[m] + 1 \in Nat
        BY DEF TypeOK
      <4>2. acks' \in [Message -> Nat]
        BY <3>2, <4>1 DEF BeginEarly, Processed, CallAck, TypeOK
      <4> QED
        BY <3>2, <4>2 DEF BeginEarly, Processed, CallAck, Reach, TypeOK, Stage
    <3>3. CASE Begin(m) \/ AckEndsEarly(m)
      BY <3>3 DEF Begin, AckEndsEarly, Process, Reach, TypeOK, Stage
    <3>4. CASE HandleResult(m)
      BY <3>4 DEF HandleResult, Reach, TypeOK, Stage
    <3> QED
      BY <1>4, <3>1, <3>2, <3>3, <3>4 DEF TaskStep
  <2>2. run' \in [Message -> [Handler -> RunState]]
    <3>1. CASE Process(m)
      BY <3>1 DEF Process, TypeOK, RunState
    <3>2. CASE UNCHANGED run
      BY <3>2 DEF TypeOK
    <3> QED
      BY <1>4, <3>1, <3>2
         DEF TaskStep, BeginMalformed, BeginEarly, Begin, AckEndsEarly, AckEnds, Processed,
             ProcessedLast, HandleResult, callVars
  <2>3. UNCHANGED <<loopVars, attempt>>
    BY <1>4 DEF TaskStep, BeginMalformed, BeginEarly, Begin, AckEndsEarly, AckEnds,
                Processed, ProcessedLast, HandleResult, callVars
  <2> QED
    BY <2>1, <2>2, <2>3 DEF TypeOK, loopVars
<1>5. ASSUME NEW m \in Message, CancelTask(m) PROVE TypeOK'
  <2>1. run' \in [Message -> [Handler -> RunState]]
    BY <1>5 DEF CancelTask, TypeOK, RunState
  <2>2. stage' \in [Message -> Stage] /\ permits' \in Nat
    BY <1>5, LimitsAssumption DEF CancelTask, Leave, Reach, TypeOK, Stage
  <2> QED
    BY <1>5, <2>1, <2>2 DEF CancelTask, TypeOK, loopVars
<1>6. ASSUME NEW m \in Message, NEW h \in Handler, Attempt(m, h) \/ DelayEnds(m, h)
      PROVE TypeOK'
  <2>1. PICK s \in RunState : run' = [run EXCEPT ![m][h] = s]
    BY <1>6 DEF Attempt, AttemptReturns, AttemptRetried, AttemptRaises, DelayEnds, RunState
  <2>2. run' \in [Message -> [Handler -> RunState]]
    BY <2>1 DEF TypeOK
  <2>3. attempt' \in [Message -> [Handler -> Nat]]
    <3>1. CASE NextAttempt(m, h)
      <4>1. attempt[m][h] + 1 \in Nat
        BY DEF TypeOK
      <4> QED
        BY <3>1, <4>1 DEF NextAttempt, TypeOK
    <3>2. CASE UNCHANGED attempt
      BY <3>2 DEF TypeOK
    <3> QED
      BY <1>6, <3>1, <3>2
         DEF Attempt, AttemptReturns, AttemptRetried, AttemptRaises, DelayEnds
  <2>4. UNCHANGED <<loopVars, permits, tasks, stage, acks>>
    BY <1>6 DEF Attempt, AttemptReturns, AttemptRetried, AttemptRaises, DelayEnds
  <2> QED
    BY <2>2, <2>3, <2>4 DEF TypeOK, loopVars
<1> QED
  BY <1>1, <1>2, <1>3, <1>4, <1>5, <1>6 DEF Next

-----------------------------------------------------------------------------
(* Permits.                                                                *)

\* Only these steps move a message between the active stages and the others.
LEMMA HoldersOfStep ==
  ASSUME TypeOK, NEW m \in Message, NEW s \in Stage, Reach(m, s)
  PROVE  /\ IsFiniteSet(Holders) /\ IsFiniteSet(Holders')
         /\ ~Active(m) /\ s \in {"ready", "acking", "handlers"}
              => Cardinality(Holders') = Cardinality(Holders) + 1
         /\ Active(m) /\ s \notin {"ready", "acking", "handlers"}
              => Cardinality(Holders') = Cardinality(Holders) - 1
         /\ Active(m) /\ s \in {"ready", "acking", "handlers"}
              => Holders' = Holders
         /\ ~Active(m) /\ s \notin {"ready", "acking", "handlers"}
              => Holders' = Holders
<1>1. /\ \A n \in Message : n # m => (Active(n)' <=> Active(n))
      /\ Active(m)' <=> s \in {"ready", "acking", "handlers"}
  BY DEF Reach, Active, TypeOK
<1>2. IsFiniteSet(Holders) /\ IsFiniteSet(Holders')
  BY MessagesAssumption, FS_Subset DEF Holders
<1>3. ASSUME ~Active(m), s \in {"ready", "acking", "handlers"}
      PROVE  Cardinality(Holders') = Cardinality(Holders) + 1
  <2>1. Holders' = Holders \cup {m} /\ m \notin Holders
    BY <1>1, <1>3 DEF Holders
  <2> QED
    BY <1>2, <2>1, FS_AddElement
<1>4. ASSUME Active(m), s \notin {"ready", "acking", "handlers"}
      PROVE  Cardinality(Holders') = Cardinality(Holders) - 1
  <2>1. Holders' = Holders \ {m} /\ m \in Holders
    BY <1>1, <1>4 DEF Holders
  <2> QED
    BY <1>2, <2>1, FS_RemoveElement
<1>5. (Active(m) <=> s \in {"ready", "acking", "handlers"}) => Holders' = Holders
  BY <1>1 DEF Holders
<1> QED
  BY <1>2, <1>3, <1>4, <1>5

\* At first all permits are in the semaphore.
LEMMA InitPermits == Init => PermitsBalance
<1> SUFFICES ASSUME Init PROVE PermitsBalance
  OBVIOUS
<1>1. Holders = {}
  BY DEF Init, Holders, Active
<1> QED
  BY <1>1, FS_EmptySet, LimitsAssumption DEF Init, PermitsBalance, Holders

\* A permit leaves the semaphore with a task and comes back when the task ends.
LEMMA PermitsPreserved == TypeOK /\ PermitsBalance /\ [Next]_vars => PermitsBalance'
<1> SUFFICES ASSUME TypeOK, PermitsBalance, [Next]_vars PROVE PermitsBalance'
  OBVIOUS
<1>0. /\ IsFiniteSet(Holders) /\ Cardinality(Holders) \in Nat
      /\ limit # NoLimit => permits + Cardinality(Holders) = limit
      /\ permits \in Nat /\ limit' = limit /\ limit \in Nat \cup {NoLimit}
  <2>1. IsFiniteSet(Holders)
    BY MessagesAssumption, FS_Subset DEF Holders
  <2>2. limit' = limit
    BY DEF Next, vars, loopVars, ListenEnds, Drained, Abandon, LoopStep, Take, TakeAndWait,
           Acquire, TaskStep, BeginMalformed, BeginEarly, Begin, AckEndsEarly, AckEnds,
           Processed, ProcessedLast, HandleResult, CancelTask, Attempt, AttemptReturns,
           AttemptRetried, AttemptRaises, DelayEnds
  <2> QED
    BY <2>1, <2>2, FS_CardinalityType DEF TypeOK, PermitsBalance, Holders
<1>q. SUFFICES ASSUME limit # NoLimit
               PROVE  permits' + Cardinality(Holders') = limit
  BY <1>0 DEF PermitsBalance, Holders
<1>s. ASSUME UNCHANGED <<permits, stage>> PROVE permits' + Cardinality(Holders') = limit
  <2>1. Holders' = Holders
    BY <1>s DEF Holders, Active
  <2> QED
    BY <1>0, <1>q, <1>s, <2>1
<1>1. CASE \/ UNCHANGED vars \/ ListenEnds \/ Drained \/ Abandon
           \/ \E m \in Message, h \in Handler : Attempt(m, h) \/ DelayEnds(m, h)
  <2>1. UNCHANGED <<permits, stage>>
    BY <1>1 DEF vars, ListenEnds, Drained, Abandon, Attempt, AttemptReturns, AttemptRetried,
                AttemptRaises, DelayEnds
  <2> QED
    BY <1>s, <2>1
<1>2. ASSUME NEW m \in Message, Take(m) \/ Acquire(m)
      PROVE  permits' + Cardinality(Holders') = limit
  <2>1. ~Active(m) /\ Reach(m, "ready") /\ permits' = permits - 1
    BY <1>2, <1>q DEF Take, Acquire, Spawn, Active
  <2>2. Cardinality(Holders') = Cardinality(Holders) + 1
    BY <2>1, HoldersOfStep DEF Stage
  <2> QED
    BY <1>0, <1>q, <2>1, <2>2
<1>3. ASSUME NEW m \in Message, TakeAndWait(m) \/ HandleResult(m)
      PROVE  permits' + Cardinality(Holders') = limit
  <2>1. PICK s \in {"held", "done"} : ~Active(m) /\ Reach(m, s) /\ permits' = permits
    BY <1>3 DEF TakeAndWait, HandleResult, Active
  <2>2. Holders' = Holders
    BY <2>1, HoldersOfStep DEF Stage
  <2> QED
    BY <1>0, <1>q, <2>1, <2>2
<1>4. ASSUME NEW m \in Message,
             BeginMalformed(m) \/ AckEnds(m) \/ ProcessedLast(m) \/ CancelTask(m)
      PROVE  permits' + Cardinality(Holders') = limit
  <2>1. Active(m) /\ Reach(m, "finished") /\ permits' = permits + 1
    BY <1>4, <1>q DEF BeginMalformed, AckEnds, ProcessedLast, CancelTask, Leave, Active
  <2>2. Cardinality(Holders') = Cardinality(Holders) - 1
    BY <2>1, HoldersOfStep DEF Stage
  <2> QED
    BY <1>0, <1>q, <2>1, <2>2
<1>5. ASSUME NEW m \in Message,
             BeginEarly(m) \/ Begin(m) \/ AckEndsEarly(m) \/ Processed(m)
      PROVE  permits' + Cardinality(Holders') = limit
  <2>1. PICK s \in {"acking", "handlers"} : Active(m) /\ Reach(m, s) /\ permits' = permits
    BY <1>5 DEF BeginEarly, Begin, AckEndsEarly, Processed, CallAck, Process, Active
  <2>2. Holders' = Holders
    BY <2>1, HoldersOfStep DEF Stage
  <2> QED
    BY <1>0, <1>q, <2>1, <2>2
<1> QED
  BY <1>1, <1>2, <1>3, <1>4, <1>5 DEF Next, LoopStep, TaskStep

-----------------------------------------------------------------------------
(* The loop and the set of tasks.                                          *)

\* A task is in _tasks from its creation to its done callback; one message waits at most.
LEMMA LoopPreserved == TypeOK /\ Tracked /\ LoopInv /\ [Next]_vars => Tracked' /\ LoopInv'
<1> SUFFICES ASSUME TypeOK, Tracked, LoopInv, [Next]_vars PROVE Tracked' /\ LoopInv'
  OBVIOUS
<1>1. CASE UNCHANGED <<loopVars, tasks, stage>>
  BY <1>1 DEF Tracked, LoopInv, Loop, loopVars
<1>2. CASE ListenEnds \/ Drained \/ Abandon
  BY <1>2 DEF ListenEnds, Drained, Abandon, Tracked, LoopInv, Loop
<1>3. ASSUME NEW m \in Message, Take(m) \/ Acquire(m) PROVE Tracked' /\ LoopInv'
  <2>1. /\ \A n \in Message : n # m => stage'[n] = stage[n] /\ (n \in tasks' <=> n \in tasks)
        /\ stage'[m] = "ready" /\ m \in tasks' /\ abandoned' = abandoned
        /\ loop \in {"listen", "acquire"} /\ loop' = "listen"
        /\ loop = "acquire" => stage[m] = "held"
    BY <1>3 DEF Take, Acquire, Spawn, Reach, TypeOK, loopVars
  <2> QED
    BY <2>1 DEF Tracked, LoopInv, Loop
<1>4. ASSUME NEW m \in Message, TakeAndWait(m) PROVE Tracked' /\ LoopInv'
  <2>1. /\ \A n \in Message : n # m => stage'[n] = stage[n]
        /\ stage[m] = "unseen" /\ stage'[m] = "held" /\ tasks' = tasks
        /\ loop = "listen" /\ loop' = "acquire" /\ abandoned' = abandoned
    BY <1>4 DEF TakeAndWait, Reach, TypeOK
  <2> QED
    BY <2>1 DEF Tracked, LoopInv, Loop
<1>5. ASSUME NEW m \in Message, HandleResult(m) PROVE Tracked' /\ LoopInv'
  <2>1. /\ \A n \in Message : n # m => stage'[n] = stage[n]
        /\ stage'[m] = "done" /\ tasks' = tasks \ {m}
        /\ loop' = loop /\ abandoned' = abandoned
    BY <1>5 DEF HandleResult, Reach, TypeOK, loopVars
  <2> QED
    BY <2>1 DEF Tracked, LoopInv, Loop
<1>6. ASSUME NEW m \in Message, TaskStep(m) \/ CancelTask(m), ~HandleResult(m)
      PROVE  Tracked' /\ LoopInv'
  <2>1. /\ \A n \in Message : n # m => stage'[n] = stage[n]
        /\ stage[m] \in {"ready", "acking", "handlers"}
        /\ stage'[m] \in {"acking", "handlers", "finished"}
        /\ tasks' = tasks /\ loop' = loop /\ abandoned' = abandoned
    <3>1. /\ stage[m] \in {"ready", "acking", "handlers"}
          /\ UNCHANGED <<loopVars, tasks>>
      BY <1>6 DEF TaskStep, BeginMalformed, BeginEarly, Begin, AckEndsEarly, AckEnds,
                  Processed, ProcessedLast, CancelTask
    <3>2. PICK s \in {"acking", "handlers", "finished"} : Reach(m, s)
      BY <1>6 DEF TaskStep, BeginMalformed, BeginEarly, Begin, AckEndsEarly, AckEnds,
                  Processed, ProcessedLast, CancelTask, Leave, CallAck, Process
    <3> QED
      BY <3>1, <3>2 DEF Reach, TypeOK, loopVars
  <2> QED
    BY <2>1 DEF Tracked, LoopInv, Loop
<1>7. ASSUME NEW m \in Message, NEW h \in Handler, Attempt(m, h) \/ DelayEnds(m, h)
      PROVE  Tracked' /\ LoopInv'
  BY <1>1, <1>7
     DEF Attempt, AttemptReturns, AttemptRetried, AttemptRaises, DelayEnds
<1> QED
  BY <1>1, <1>2, <1>3, <1>4, <1>5, <1>6, <1>7 DEF Next, LoopStep, TaskStep, vars

-----------------------------------------------------------------------------
(* The stages.                                                             *)

\* A step on behalf of one message leaves the others as they are.
LEMMA OthersKept ==
  ASSUME TypeOK, NEW m \in Message, NEW n \in Message, n # m,
         LoopStep(m) \/ TaskStep(m) \/ CancelTask(m)
           \/ \E h \in Handler : Attempt(m, h) \/ DelayEnds(m, h)
  PROVE  /\ stage'[n] = stage[n] /\ run'[n] = run[n] /\ acks'[n] = acks[n]
<1>1. stage'[n] = stage[n]
  <2>1. (\E s \in Stage : Reach(m, s)) \/ UNCHANGED stage
    BY DEF LoopStep, Take, TakeAndWait, Acquire, Spawn, TaskStep, BeginMalformed, BeginEarly,
           Begin, AckEndsEarly, AckEnds, Processed, ProcessedLast, HandleResult, CancelTask,
           Leave, CallAck, Process, Attempt, AttemptReturns, AttemptRetried, AttemptRaises,
           DelayEnds, Stage
  <2> QED
    BY <2>1 DEF Reach, TypeOK
<1>2. acks'[n] = acks[n]
  <2>1. CallAck(m) \/ UNCHANGED acks
    BY DEF LoopStep, Take, TakeAndWait, Acquire, TaskStep, BeginMalformed, BeginEarly,
           Begin, AckEndsEarly, AckEnds, Processed, ProcessedLast, HandleResult, CancelTask,
           Attempt, AttemptReturns, AttemptRetried, AttemptRaises, DelayEnds
  <2> QED
    BY <2>1 DEF CallAck, TypeOK
<1>3. run'[n] = run[n]
  <2>1. CASE Process(m)
    BY <2>1 DEF Process, TypeOK
  <2>2. CASE CancelTask(m)
    BY <2>2 DEF CancelTask, TypeOK
  <2>3. CASE \E h \in Handler : Attempt(m, h) \/ DelayEnds(m, h)
    BY <2>3 DEF Attempt, AttemptReturns, AttemptRetried, AttemptRaises, DelayEnds, TypeOK
  <2>4. Process(m) \/ CancelTask(m) \/ (\E h \in Handler : Attempt(m, h) \/ DelayEnds(m, h))
          \/ UNCHANGED run
    BY DEF LoopStep, Take, TakeAndWait, Acquire, TaskStep, BeginMalformed, BeginEarly,
           Begin, AckEndsEarly, AckEnds, Processed, ProcessedLast, HandleResult, callVars
  <2> QED
    BY <2>1, <2>2, <2>3, <2>4
<1> QED
  BY <1>1, <1>2, <1>3

\* Each step of a message task leads to a stage whose facts hold.
LEMMA StagePreserved == TypeOK /\ StageInv /\ [Next]_vars => StageInv'
<1> SUFFICES ASSUME TypeOK, StageInv, [Next]_vars PROVE StageInv'
  OBVIOUS
<1>1. SUFFICES ASSUME NEW n \in Message PROVE StageOf(n)'
  BY DEF StageInv
<1>2. StageOf(n)
  BY DEF StageInv
<1>3. CASE UNCHANGED <<stage, run, acks>>
  BY <1>2, <1>3 DEF StageOf
<1>4. CASE ListenEnds \/ Drained \/ Abandon \/ UNCHANGED vars
  BY <1>3, <1>4 DEF ListenEnds, Drained, Abandon, vars, callVars
<1>5. ASSUME NEW m \in Message, n # m,
             LoopStep(m) \/ TaskStep(m) \/ CancelTask(m)
               \/ \E h \in Handler : Attempt(m, h) \/ DelayEnds(m, h)
      PROVE  StageOf(n)'
  <2>1. stage'[n] = stage[n] /\ run'[n] = run[n] /\ acks'[n] = acks[n]
    BY <1>5, OthersKept
  <2> QED
    BY <1>2, <2>1 DEF StageOf
<1>6. CASE LoopStep(n)
  <2>1. /\ stage[n] \in {"unseen", "held"} /\ stage'[n] \in {"held", "ready"}
        /\ UNCHANGED <<run, acks>>
    BY <1>6 DEF LoopStep, Take, TakeAndWait, Acquire, Spawn, Reach, TypeOK, callVars
  <2> QED
    BY <1>2, <2>1 DEF StageOf
<1>7. CASE BeginMalformed(n) \/ AckEnds(n) \/ ProcessedLast(n) \/ HandleResult(n)
  <2>1. /\ stage'[n] \in {"finished", "done"} /\ UNCHANGED <<run, acks>>
        /\ stage[n] = "handlers" => Gathered(n)
    BY <1>7 DEF BeginMalformed, AckEnds, ProcessedLast, HandleResult, Leave, Reach, TypeOK,
                callVars
  <2>2. \A h \in Handler : run[n][h] \notin {"running", "delay"}
    BY <1>2, <2>1 DEF StageOf, Gathered
  <2> QED
    BY <2>1, <2>2 DEF StageOf
<1>8. CASE BeginEarly(n) \/ Processed(n)
  <2>1. /\ stage'[n] = "acking" /\ UNCHANGED run /\ acks'[n] = acks[n] + 1
        /\ n \in Early => stage[n] = "ready"
        /\ n \notin Early => stage[n] = "handlers" /\ Gathered(n)
        /\ stage[n] = "ready" => n \notin Malformed
    BY <1>8 DEF BeginEarly, Processed, CallAck, Reach, TypeOK, callVars
  <2>2. n \notin Malformed /\ acks[n] = 0
    BY <1>2, <2>1 DEF StageOf
  <2>3. /\ \A h \in Handler : run[n][h] \in {"none", "ok", "raised"}
        /\ n \in Early => \A h \in Handler : run[n][h] = "none"
    BY <1>2, <2>1 DEF StageOf, Gathered
  <2> QED
    BY <2>1, <2>2, <2>3 DEF StageOf
<1>9. CASE Begin(n) \/ AckEndsEarly(n)
  <2>1. /\ stage'[n] = "handlers" /\ UNCHANGED acks
        /\ n \in Early => stage[n] = "acking"
        /\ n \notin Early => stage[n] = "ready" /\ n \notin Malformed
    BY <1>9 DEF Begin, AckEndsEarly, Process, Reach, TypeOK
  <2> QED
    BY <1>2, <2>1 DEF StageOf
<1>10. CASE CancelTask(n)
  <2>1. /\ stage'[n] = "finished"
        /\ \A h \in Handler : run'[n][h] \notin {"running", "delay"}
    BY <1>10 DEF CancelTask, Leave, Reach, TypeOK
  <2> QED
    BY <2>1 DEF StageOf
<1>11. ASSUME NEW h \in Handler, Attempt(n, h) \/ DelayEnds(n, h) PROVE StageOf(n)'
  <2>1. run[n][h] \in {"running", "delay"} /\ UNCHANGED <<stage, acks>>
    BY <1>11 DEF Attempt, AttemptReturns, AttemptRetried, AttemptRaises, DelayEnds
  <2>2. stage[n] = "handlers"
    BY <1>2, <2>1 DEF StageOf
  <2> QED
    BY <1>2, <2>1, <2>2 DEF StageOf
<1> QED
  BY <1>4, <1>5, <1>6, <1>7, <1>8, <1>9, <1>10, <1>11 DEF Next, TaskStep

-----------------------------------------------------------------------------
(* The invariant and what follows from it.                                 *)

\* The types, the permits, the set of tasks, the loop and the stages, together: each step
\* of the dispatcher keeps all of them.
THEOREM Invariant == Spec => []IInv
<1>1. Init => IInv
  <2> SUFFICES ASSUME Init PROVE IInv
    OBVIOUS
  <2>1. TypeOK /\ PermitsBalance
    BY InitTypes, InitPermits
  <2>2. Tracked /\ LoopInv /\ StageInv
    BY DEF Init, Tracked, Loop, LoopInv, StageInv, StageOf
  <2> QED
    BY <2>1, <2>2 DEF IInv
<1>2. IInv /\ [Next]_vars => IInv'
  BY TypesPreserved, PermitsPreserved, LoopPreserved, StagePreserved DEF IInv
<1> QED
  BY <1>1, <1>2, PTL DEF Spec

\* The variables keep their types; the value of the semaphore is never negative.
THEOREM TypeCorrect == Spec => []TypeOK
<1>1. IInv => TypeOK
  BY DEF IInv
<1> QED
  BY <1>1, Invariant, PTL

\* Every path through a message task gives its permit back exactly once, so that the
\* concurrency limit of start() neither shrinks nor grows.
THEOREM PermitsAreKept == Spec => []PermitsBalance
<1>1. IInv => PermitsBalance
  BY DEF IInv
<1> QED
  BY <1>1, Invariant, PTL

\* When start() returns by itself, every message it took is done with.
THEOREM NothingIsLeftBehind == Spec => []DrainIsComplete
<1>1. IInv => DrainIsComplete
  BY DEF IInv, TypeOK, Stage, Tracked, Loop, LoopInv, DrainIsComplete
<1> QED
  BY <1>1, Invariant, PTL

-----------------------------------------------------------------------------
(* The refinement.                                                         *)

givenBar   == {m \in Message : stage[m] # "unseen"}
startedBar == {c \in Message \X Handler : run[c[1]][c[2]] # "none"}
endedBar   == {c \in Message \X Handler : run[c[1]][c[2]] \in {"ok", "raised"}}

\* The initial state maps to the initial state of MessageLife.
LEMMA InitLife == Init => ML!LifeInit
<1> SUFFICES ASSUME Init PROVE ML!LifeInit
  OBVIOUS
<1>1. givenBar = {} /\ startedBar = {} /\ endedBar = {}
  BY DEF Init, givenBar, startedBar, endedBar
<1> QED
  BY <1>1 DEF Init, ML!LifeInit, givenBar, startedBar, endedBar

\* Steps that MessageLife does not see.
LEMMA HiddenStep ==
  ASSUME TypeOK, UNCHANGED acks,
         \A m \in Message : stage'[m] = "unseen" <=> stage[m] = "unseen",
         \A m \in Message, h \in Handler :
            /\ run'[m][h] = "none" <=> run[m][h] = "none"
            /\ run'[m][h] \in {"ok", "raised"} <=> run[m][h] \in {"ok", "raised"}
  PROVE  UNCHANGED ML!lifeVars
<1>1. givenBar' = givenBar /\ startedBar' = startedBar /\ endedBar' = endedBar
  BY DEF givenBar, startedBar, endedBar
<1> QED
  BY <1>1 DEF ML!lifeVars, givenBar, startedBar, endedBar

\* The policy calls ack().
LEMMA AckStep ==
  ASSUME IInv, NEW m \in Message, BeginEarly(m) \/ Processed(m)
  PROVE  ML!Ack(m)
<1>1. /\ CallAck(m) /\ UNCHANGED run /\ stage[m] # "unseen" /\ stage'[m] # "unseen"
      /\ m \notin Malformed /\ acks[m] = 0
      /\ m \in Early => \A h \in Handler : run[m][h] = "none"
      /\ m \notin Early => Gathered(m)
  BY DEF BeginEarly, Processed, CallAck, Reach, callVars, IInv, TypeOK, StageInv, StageOf
<1>2. givenBar' = givenBar
  BY <1>1 DEF CallAck, Reach, givenBar, IInv, TypeOK
<1>3. startedBar' = startedBar /\ endedBar' = endedBar
  BY <1>1 DEF startedBar, endedBar
<1>4. \A h \in Handler : <<m, h>> \in startedBar => m \notin Early /\ <<m, h>> \in endedBar
  BY <1>1 DEF Gathered, startedBar, endedBar
<1>5. acks' = [acks EXCEPT ![m] = 1]
  BY <1>1 DEF CallAck, IInv, TypeOK
<1>6. m \in givenBar
  BY <1>1 DEF givenBar
<1> QED
  BY <1>1, <1>2, <1>3, <1>4, <1>5, <1>6 DEF ML!Ack, givenBar, startedBar, endedBar

\* The policy runs the pipeline.
LEMMA StartStep ==
  ASSUME IInv, NEW m \in Message, Begin(m) \/ AckEndsEarly(m)
  PROVE  ML!Start(m)
<1>1. /\ Process(m) /\ UNCHANGED acks /\ stage[m] # "unseen" /\ m \notin Malformed
      /\ acks[m] = (IF m \in Early THEN 1 ELSE 0)
      /\ \A h \in Handler : run[m][h] = "none"
  BY DEF Begin, AckEndsEarly, IInv, StageInv, StageOf
<1>2. PICK H \in {Routes[m], {}} :
        /\ Reach(m, "handlers")
        /\ run' = [run EXCEPT ![m] =
                     [h \in Handler |-> IF h \in H THEN "running" ELSE "none"]]
  BY <1>1 DEF Process
<1>3. H \in SUBSET Handler
  BY <1>2, MessagesAssumption
<1>4. \A n \in Message, h \in Handler :
        /\ run'[n][h] # "none" <=> run[n][h] # "none" \/ (n = m /\ h \in H)
        /\ run'[n][h] \in {"ok", "raised"} <=> run[n][h] \in {"ok", "raised"}
  BY <1>1, <1>2 DEF IInv, TypeOK
<1>5. startedBar' = startedBar \cup ({m} \X H)
  BY <1>3, <1>4 DEF startedBar
<1>6. endedBar' = endedBar
  BY <1>4 DEF endedBar
<1>7. givenBar' = givenBar /\ m \in givenBar
  BY <1>1, <1>2 DEF Reach, givenBar, IInv, TypeOK
<1>8. \A h \in Handler : <<m, h>> \notin startedBar
  BY <1>1 DEF startedBar
<1> QED
  BY <1>1, <1>3, <1>5, <1>6, <1>7, <1>8 DEF ML!Start, givenBar, startedBar, endedBar

\* A handler returns or raises for good.
LEMMA EndStep ==
  ASSUME IInv, NEW m \in Message, NEW h \in Handler,
         AttemptReturns(m, h) \/ AttemptRaises(m, h)
  PROVE  ML!End(m, h)
<1>1. PICK s \in {"ok", "raised"} : run' = [run EXCEPT ![m][h] = s]
  BY DEF AttemptReturns, AttemptRaises
<1>2. run[m][h] = "running" /\ UNCHANGED <<stage, acks>>
  BY DEF AttemptReturns, AttemptRaises
<1>3. \A n \in Message, g \in Handler :
        /\ run'[n][g] # "none" <=> run[n][g] # "none"
        /\ run'[n][g] \in {"ok", "raised"} <=>
             run[n][g] \in {"ok", "raised"} \/ (n = m /\ g = h)
  BY <1>1, <1>2 DEF IInv, TypeOK
<1>4. startedBar' = startedBar /\ endedBar' = endedBar \cup {<<m, h>>}
  BY <1>3 DEF startedBar, endedBar
<1>5. <<m, h>> \in startedBar \ endedBar
  BY <1>2 DEF startedBar, endedBar
<1>6. givenBar' = givenBar
  BY <1>2 DEF givenBar
<1> QED
  BY <1>2, <1>4, <1>5, <1>6 DEF ML!End, givenBar, startedBar, endedBar

\* Every step maps to a step of MessageLife or to none.
LEMMA StepOfLife == IInv /\ [Next]_vars => [ML!LifeNext]_ML!lifeVars
<1> SUFFICES ASSUME IInv, [Next]_vars PROVE [ML!LifeNext]_ML!lifeVars
  OBVIOUS
<1>1. CASE UNCHANGED <<stage, run, acks>>
  BY <1>1 DEF ML!lifeVars
<1>2. CASE ListenEnds \/ Drained \/ Abandon \/ UNCHANGED vars
  BY <1>1, <1>2 DEF ListenEnds, Drained, Abandon, vars, callVars
<1>3. ASSUME NEW m \in Message, LoopStep(m) PROVE [ML!LifeNext]_ML!lifeVars
  <2>1. UNCHANGED <<run, acks>>
    BY <1>3 DEF LoopStep, Take, TakeAndWait, Acquire, callVars
  <2>2. startedBar' = startedBar /\ endedBar' = endedBar
    BY <2>1 DEF startedBar, endedBar
  <2>3. CASE stage[m] = "unseen"
    <3>1. PICK s \in {"held", "ready"} : Reach(m, s)
      BY <1>3 DEF LoopStep, Take, TakeAndWait, Acquire, Spawn
    <3>2. m \notin givenBar /\ givenBar' = givenBar \cup {m}
      BY <2>3, <3>1 DEF Reach, givenBar, IInv, TypeOK
    <3>3. ML!Give(m)
      BY <2>1, <2>2, <3>2 DEF ML!Give, givenBar, startedBar, endedBar
    <3> QED
      BY <3>3 DEF ML!LifeNext
  <2>4. CASE stage[m] # "unseen"
    <3>1. \A n \in Message : stage'[n] = "unseen" <=> stage[n] = "unseen"
      BY <1>3, <2>4 DEF LoopStep, Take, TakeAndWait, Acquire, Spawn, Reach, IInv, TypeOK
    <3> QED
      BY <2>1, <3>1, HiddenStep DEF IInv
  <2> QED
    BY <2>3, <2>4
<1>4. ASSUME NEW m \in Message,
             BeginMalformed(m) \/ AckEnds(m) \/ ProcessedLast(m) \/ HandleResult(m)
      PROVE  [ML!LifeNext]_ML!lifeVars
  <2>1. UNCHANGED <<run, acks>> /\ stage[m] # "unseen"
    BY <1>4 DEF BeginMalformed, AckEnds, ProcessedLast, HandleResult, callVars
  <2>2. PICK s \in {"finished", "done"} : Reach(m, s)
    BY <1>4 DEF BeginMalformed, AckEnds, ProcessedLast, HandleResult, Leave
  <2>3. \A n \in Message : stage'[n] = "unseen" <=> stage[n] = "unseen"
    BY <2>1, <2>2 DEF Reach, IInv, TypeOK
  <2> QED
    BY <2>1, <2>3, HiddenStep DEF IInv
<1>5. ASSUME NEW m \in Message, CancelTask(m) PROVE [ML!LifeNext]_ML!lifeVars
  <2>1. \A n \in Message : stage'[n] = "unseen" <=> stage[n] = "unseen"
    BY <1>5 DEF CancelTask, Leave, Reach, IInv, TypeOK
  <2>2. \A n \in Message, h \in Handler :
          /\ run'[n][h] = "none" <=> run[n][h] = "none"
          /\ run'[n][h] \in {"ok", "raised"} <=> run[n][h] \in {"ok", "raised"}
    BY <1>5 DEF CancelTask, IInv, TypeOK
  <2>3. UNCHANGED acks
    BY <1>5 DEF CancelTask
  <2> QED
    BY <2>1, <2>2, <2>3, HiddenStep DEF IInv
<1>6. ASSUME NEW m \in Message, NEW h \in Handler, AttemptRetried(m, h) \/ DelayEnds(m, h)
      PROVE  [ML!LifeNext]_ML!lifeVars
  <2>1. PICK s \in {"running", "delay"} :
          run' = [run EXCEPT ![m][h] = s] /\ run[m][h] \in {"running", "delay"}
    BY <1>6 DEF AttemptRetried, DelayEnds
  <2>2. \A n \in Message, g \in Handler :
          /\ run'[n][g] = "none" <=> run[n][g] = "none"
          /\ run'[n][g] \in {"ok", "raised"} <=> run[n][g] \in {"ok", "raised"}
    BY <2>1 DEF IInv, TypeOK
  <2>3. UNCHANGED <<stage, acks>>
    BY <1>6 DEF AttemptRetried, DelayEnds
  <2> QED
    BY <2>2, <2>3, HiddenStep DEF IInv
<1>7. ASSUME NEW m \in Message,
             \/ BeginEarly(m) \/ Processed(m) \/ Begin(m) \/ AckEndsEarly(m)
             \/ \E h \in Handler : AttemptReturns(m, h) \/ AttemptRaises(m, h)
      PROVE  [ML!LifeNext]_ML!lifeVars
  BY <1>7, AckStep, StartStep, EndStep DEF ML!LifeNext
<1> QED
  BY <1>2, <1>3, <1>4, <1>5, <1>6, <1>7 DEF Next, TaskStep, Attempt

\* Every step of the dispatcher is a step of the life of one message or changes nothing
\* MessageLife speaks of: one ack() at most, in its place before or after the handlers.
THEOREM DispatcherImplementsMessageLife == Spec => ImplementsMessageLife
<1>1. Init => ML!LifeInit
  BY InitLife
<1>2. IInv /\ [Next]_vars => [ML!LifeNext]_ML!lifeVars
  BY StepOfLife
<1> QED
  BY <1>1, <1>2, Invariant, PTL DEF Spec, ImplementsMessageLife, ML!Life
================================================================================
