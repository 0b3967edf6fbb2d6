-------------------------- MODULE DependencyTreeProofs --------------------------
(***************************************************************************)
(* How the tree of a handler's dependencies is built, for any functions    *)
(* and signatures (at the end), and what resolving it promises, for every  *)
(* tree and every set of events.                                           *)
(*                                                                         *)
(* An event touches nothing of another one, so the invariant is one of     *)
(* each event.  Its parts hold until an error of the dependencies goes     *)
(* through the exit stack: from then on a context manager may swallow the  *)
(* error, and the nodes forget an event whose tasks still run.             *)
(***************************************************************************)
EXTENDS DependencyTree, DependencyGraph, WellFoundedInduction, SequenceTheorems, TLAPS

Up(e) == phase[e] \in {"resolving", "handler"}
Intact(e) == Up(e) \/ ~failed[e] \/ ~erred[e]

Entered(e, C) == \A c \in C : calls[e][c] = "entered"

\* The exit is on the stack of the event.
ExitOf(of, n) == [of |-> of, node |-> n]
On(e, x) == \E i \in 1 .. Len(stack[e]) : stack[e][i] = x

\* A failure comes from the application or from a cancellation.
FailuresKnown(e) ==
    /\ raising[e] => erred[e]
    /\ \A c \in Call : calls[e][c] = "failed" => failed[e] \/ cancelled[e]
    /\ \A n \in Node : tasks[e][n] = "failed" => failed[e] \/ cancelled[e]

\* A call waits for its parameters, then for the task of its node.
CallsInOrder(e) ==
    \A c \in Call :
        /\ calls[e][c] \in {"value", "entered"} =>
                tasks[e][NodeOf(c)] # "none" /\ Entered(e, SubCalls(c))
        /\ calls[e][c] = "entered" => tasks[e][NodeOf(c)] = "entered"

\* A task has a call that made it, and is the only one of its node.
TasksInOrder(e) ==
    \A n \in Node :
        /\ tasks[e][n] # "none" =>
                \E c \in Call : NodeOf(c) = n /\ calls[e][c] # "children" /\ Entered(e, SubCalls(c))
        /\ made[e][n] = IF tasks[e][n] = "none" THEN 0 ELSE 1
        /\ Up(e) => (n \in entries[e] <=> tasks[e][n] # "none")

\* Only a cancelled event is unwound while calls are under way.
PhaseFits(e) ==
    /\ phase[e] = "handler" => Entered(e, Call)
    /\ ~Up(e) => Entered(e, Call) \/ (cancelled[e] /\ erred[e])
    /\ phase[e] = "ended" => stack[e] = << >>

\* The stack holds each entered dependency once, above those it was given.
StackInOrder(e) ==
    /\ \A i, j \in 1 .. Len(stack[e]) :
            stack[e][i].of = "dependency" /\ stack[e][i] = stack[e][j] => i = j
    /\ \A i \in 1 .. Len(stack[e]) : stack[e][i].of = "dependency" =>
            \A p \in Params[stack[e][i].node] : \E j \in 1 .. Len(stack[e]) :
                j < i /\ stack[e][j] = ExitOf("dependency", Target[p])

StackFits(e) ==
    /\ \A n \in Node :
            /\ On(e, ExitOf("dependency", n)) <=> n \in live[e]
            /\ n \in live[e] => tasks[e][n] = "entered"
            /\ Up(e) /\ tasks[e][n] = "entered" => n \in live[e]
    /\ Up(e) => \A c \in Call : calls[e][c] = "entered" => On(e, ExitOf("node", NodeOf(c)))

\* What is still to be cleaned and forgotten has its exit on the stack.
KeptIsOnStack(e) ==
    /\ cleaned[e] \subseteq {NodeOf(c) : c \in Call}
    /\ Up(e) => cleaned[e] = {}
    /\ ~Up(e) /\ ~erred[e] =>
            /\ \A n \in entries[e] : On(e, ExitOf("node", n))
            /\ \A c \in Call : NodeOf(c) \in cleaned[e] \cup live[e]

EventInv(e) ==
    /\ FailuresKnown(e)
    /\ Intact(e) => /\ CallsInOrder(e) /\ TasksInOrder(e) /\ PhaseFits(e)
                    /\ StackInOrder(e) /\ StackFits(e) /\ KeptIsOnStack(e)

IInv == TypeOK /\ \A e \in Event : EventInv(e)

-----------------------------------------------------------------------------
(* The tree.                                                               *)

LEMMA TreeFacts ==
  /\ \A c \in Call : /\ c \in Seq(Param) /\ c # << >> /\ Len(c) \in Nat
                     /\ NodeOf(c) \in Node /\ SubCalls(c) \subseteq Call
                     /\ c \in RootCalls \/ \E b \in Call : c \in SubCalls(b) /\ Len(b) < Len(c)
  /\ \A c \in Call : \A p \in Params[NodeOf(c)] :
        /\ p \in Param /\ Target[p] \in Node
        /\ Append(c, p) \in SubCalls(c) /\ NodeOf(Append(c, p)) = Target[p]
  /\ RootCalls \subseteq Call
<1>1. \A c \in Call : c \in Seq(Param) /\ c # << >>
  BY TreeAssumption
<1>2. ASSUME NEW c \in Call PROVE Last(c) \in Param /\ NodeOf(c) \in Node /\ Len(c) \in Nat
  <2>1. Last(c) \in Param /\ Len(c) \in Nat
    BY <1>1 DEF Last
  <2> QED
    BY <2>1, TreeAssumption DEF NodeOf
<1>3. ASSUME NEW c \in Call PROVE SubCalls(c) \subseteq Call
  BY TreeAssumption DEF SubCalls, NodeOf
<1>4. ASSUME NEW c \in Call, NEW p \in Params[NodeOf(c)]
      PROVE  /\ p \in Param /\ Target[p] \in Node
             /\ Append(c, p) \in SubCalls(c) /\ NodeOf(Append(c, p)) = Target[p]
  <2>1. p \in Param
    BY <1>2, TreeAssumption
  <2>2. Last(Append(c, p)) = p
    BY <1>1, <2>1 DEF Last
  <2>3. Append(c, p) \in SubCalls(c)
    BY DEF SubCalls, Extensions
  <2> QED
    BY <2>1, <2>2, <2>3, TreeAssumption DEF NodeOf
<1>5. ASSUME NEW c \in Call, c \notin RootCalls
      PROVE  \E b \in Call : c \in SubCalls(b) /\ Len(b) < Len(c)
  <2>1. PICK b \in Call : c \in SubCalls(b)
    BY <1>5, TreeAssumption DEF RootCalls, SubCalls, NodeOf
  <2>2. PICK p \in Params[NodeOf(b)] : c = Append(b, p)
    BY <2>1 DEF SubCalls, Extensions
  <2>3. p \in Param /\ b \in Seq(Param)
    BY <1>1, <1>4, <2>2
  <2>4. Len(c) = Len(b) + 1 /\ Len(b) \in Nat
    BY <2>2, <2>3
  <2> QED
    BY <2>1, <2>4
<1>6. RootCalls \subseteq Call
  BY TreeAssumption DEF RootCalls
<1> QED
  BY <1>1, <1>2, <1>3, <1>4, <1>5, <1>6

\* When the calls of the handler's own parameters are entered, all calls are: a
\* shortest one that is not would be one of a parameter of a call that is.
LEMMA RootsEnteredLast ==
  ASSUME NEW e \in Event, CallsInOrder(e), Entered(e, RootCalls)
  PROVE  Entered(e, Call)
<1> DEFINE missing == {c \in Call : calls[e][c] # "entered"}
           lengths == {Len(c) : c \in missing}
<1>1. SUFFICES ASSUME missing # {} PROVE FALSE
  BY DEF Entered
<1>2. lengths \subseteq Nat /\ lengths # {}
  BY <1>1, TreeFacts
<1>3. PICK k \in lengths : \A l \in lengths : ~ (<<l, k>> \in OpToRel(<, Nat))
  BY <1>2, NatLessThanWellFounded, WFMin
<1>4. \A l \in lengths : ~ (l < k)
  BY <1>2, <1>3 DEF OpToRel
<1>5. PICK c \in missing : k = Len(c)
  BY <1>3
<1>6. PICK b \in Call : c \in SubCalls(b) /\ Len(b) < Len(c)
  BY <1>5, TreeFacts DEF Entered
<1>7. b \notin missing
  BY <1>4, <1>5, <1>6
<1> QED
  BY <1>5, <1>6, <1>7 DEF CallsInOrder, Entered

-----------------------------------------------------------------------------
(* The exit stack.                                                         *)

LEMMA PushFacts ==
  ASSUME NEW s \in Seq(Exit), NEW x \in Exit
  PROVE  /\ Append(s, x) \in Seq(Exit)
         /\ Len(s) \in Nat /\ Len(Append(s, x)) = Len(s) + 1
         /\ \A i \in 1 .. Len(s) : s[i] \in Exit /\ Append(s, x)[i] = s[i]
         /\ Append(s, x)[Len(s) + 1] = x
OBVIOUS

LEMMA PopFacts ==
  ASSUME NEW s \in Seq(Exit), s # << >>
  PROVE  /\ Front(s) \in Seq(Exit) /\ Last(s) \in Exit
         /\ Len(Front(s)) \in Nat /\ Len(s) = Len(Front(s)) + 1
         /\ \A i \in 1 .. Len(Front(s)) : Front(s)[i] = s[i] /\ s[i] \in Exit
         /\ Last(s) = s[Len(Front(s)) + 1]
<1> DEFINE k == Len(s) - 1
           t == Front(s)
<1>1. k \in Nat /\ Len(s) = k + 1
  OBVIOUS
<1>2. \A i \in 1 .. k + 1 : s[i] \in Exit
  BY <1>1
<1>3. t = SubSeq(s, 1, k)
  BY DEF Front
<1> HIDE DEF k, t
<1>4. /\ t \in Seq(Exit) /\ Len(t) = IF 1 <= k THEN k - 1 + 1 ELSE 0
      /\ \A i \in 1 .. k - 1 + 1 : t[i] = s[1 + i - 1]
  BY <1>1, <1>2, <1>3, SubSeqProperties
<1>5. Len(t) = k
  BY <1>1, <1>4
<1>6. \A i \in 1 .. k : t[i] = s[i]
  BY <1>1, <1>4
<1> QED
  BY <1>1, <1>2, <1>4, <1>5, <1>6 DEF Last, t

LEMMA ExitFacts ==
  /\ \A n \in Node : ExitOf("dependency", n) \in Exit /\ ExitOf("node", n) \in Exit
  /\ \A x \in Exit : /\ x.of \in {"dependency", "node"} /\ x.node \in Node
                     /\ x = ExitOf(x.of, x.node)
  /\ \A m, n, of : ExitOf(of, n).of = of /\ ExitOf(of, n).node = n
BY DEF Exit, ExitOf

-----------------------------------------------------------------------------
(* The parts of the invariant, one event at a time.                        *)

\* What a step does not change of an event.
SameOf(e) ==
    /\ phase'[e] = phase[e] /\ cancelled'[e] = cancelled[e] /\ calls'[e] = calls[e]
    /\ tasks'[e] = tasks[e] /\ entries'[e] = entries[e] /\ stack'[e] = stack[e]
    /\ raising'[e] = raising[e] /\ live'[e] = live[e] /\ cleaned'[e] = cleaned[e]
    /\ erred'[e] = erred[e] /\ made'[e] = made[e] /\ failed'[e] = failed[e]

LEMMA SameKeeps ==
  ASSUME NEW e \in Event, EventInv(e), SameOf(e)
  PROVE  EventInv(e)'
<1>1. Intact(e)' <=> Intact(e)
  BY DEF SameOf, Intact, Up
<1>2. FailuresKnown(e)'
  BY DEF EventInv, SameOf, FailuresKnown
<1>3. ASSUME CallsInOrder(e) PROVE CallsInOrder(e)'
  BY <1>3 DEF SameOf, CallsInOrder, Entered
<1>4. ASSUME TasksInOrder(e) PROVE TasksInOrder(e)'
  BY <1>4 DEF SameOf, TasksInOrder, Entered, Up
<1>5. ASSUME PhaseFits(e) PROVE PhaseFits(e)'
  BY <1>5 DEF SameOf, PhaseFits, Entered, Up
<1>6. ASSUME StackInOrder(e) PROVE StackInOrder(e)'
  BY <1>6 DEF SameOf, StackInOrder
<1>7. ASSUME StackFits(e) PROVE StackFits(e)'
  BY <1>7 DEF SameOf, StackFits, On, Up
<1>8. ASSUME KeptIsOnStack(e) PROVE KeptIsOnStack(e)'
  BY <1>8 DEF SameOf, KeptIsOnStack, On, Up
<1> QED
  BY <1>1, <1>2, <1>3, <1>4, <1>5, <1>6, <1>7, <1>8 DEF EventInv

\* A step of a task finds the event before its handler, or cancelled, and no error or
\* one that did not come from a failure.
LEMMA UnderWay ==
  ASSUME TypeOK, NEW e \in Event, Intact(e), EventInv(e),
         \/ \E c \in Call : calls[e][c] # "entered"
         \/ \E n \in Node : tasks[e][n] = "running"
  PROVE  /\ ~Entered(e, Call)
         /\ phase[e] = "resolving" \/ (~Up(e) /\ cancelled[e] /\ erred[e] /\ ~failed[e])
<1>1. ~Entered(e, Call)
  BY DEF EventInv, TasksInOrder, CallsInOrder, Entered
<1>2. phase[e] # "handler"
  BY <1>1 DEF EventInv, PhaseFits
<1>3. ~Up(e) => cancelled[e] /\ erred[e]
  BY <1>1 DEF EventInv, PhaseFits
<1> QED
  BY <1>1, <1>2, <1>3 DEF Up, Intact

\* A call goes on from waiting, to waiting for the task or to failing.
LEMMA CallMoves ==
  ASSUME TypeOK, NEW e \in Event, EventInv(e), NEW c \in Call, NEW state,
         calls'[e] = [calls[e] EXCEPT ![c] = state],
         \/ /\ state = "value" /\ calls[e][c] = "children"
            /\ tasks[e][NodeOf(c)] # "none" \/ ~Intact(e)
            /\ Entered(e, SubCalls(c))
         \/ /\ state = "failed" /\ calls[e][c] \in {"children", "value"}
            /\ failed'[e] \/ cancelled[e],
         failed[e] => failed'[e],
         phase'[e] = phase[e], cancelled'[e] = cancelled[e], tasks'[e] = tasks[e],
         entries'[e] = entries[e], stack'[e] = stack[e], raising'[e] = raising[e],
         live'[e] = live[e], cleaned'[e] = cleaned[e], erred'[e] = erred[e],
         made'[e] = made[e]
  PROVE  EventInv(e)'
<1>1. /\ \A d \in Call : calls'[e][d] = IF d = c THEN state ELSE calls[e][d]
      /\ state \in {"value", "failed"} /\ calls[e][c] \in {"children", "value"}
  BY DEF TypeOK
<1>2. FailuresKnown(e)'
  BY <1>1 DEF EventInv, FailuresKnown
<1>3. SUFFICES ASSUME Intact(e)'
               PROVE  /\ CallsInOrder(e)' /\ TasksInOrder(e)' /\ PhaseFits(e)'
                      /\ StackInOrder(e)' /\ StackFits(e)' /\ KeptIsOnStack(e)'
  BY <1>2 DEF EventInv
<1>4. Intact(e)
  BY <1>3 DEF Intact, Up
<1>5. /\ CallsInOrder(e) /\ TasksInOrder(e) /\ PhaseFits(e)
      /\ StackInOrder(e) /\ StackFits(e) /\ KeptIsOnStack(e)
  BY <1>4 DEF EventInv
<1>6. ~Entered(e, Call) /\ (phase[e] = "resolving" \/ (~Up(e) /\ cancelled[e] /\ erred[e]))
  BY <1>1, <1>4, UnderWay
<1>7. \A d \in Call : Entered(e, SubCalls(d)) => Entered(e, SubCalls(d))'
  BY <1>1, TreeFacts DEF Entered
<1>8. CallsInOrder(e)'
  BY <1>1, <1>4, <1>5, <1>7 DEF CallsInOrder
<1>9. TasksInOrder(e)'
  <2>1. \A d \in Call : calls[e][d] # "children" => calls'[e][d] # "children"
    BY <1>1
  <2>2. Up(e)' <=> Up(e)
    BY DEF Up
  <2> QED
    BY <1>5, <1>7, <2>1, <2>2 DEF TasksInOrder
<1>10. PhaseFits(e)'
  BY <1>5, <1>6 DEF PhaseFits, Up
<1>11. StackInOrder(e)'
  BY <1>5 DEF StackInOrder
<1>12. StackFits(e)'
  <2>1. \A d \in Call : calls'[e][d] = "entered" => calls[e][d] = "entered"
    BY <1>1
  <2>2. Up(e)' <=> Up(e)
    BY DEF Up
  <2>3. \A x \in Exit : On(e, x)' <=> On(e, x)
    BY DEF On
  <2> QED
    BY <1>5, <2>1, <2>2, <2>3, ExitFacts, TreeFacts DEF StackFits
<1>13. KeptIsOnStack(e)'
  BY <1>5 DEF KeptIsOnStack, On, Up
<1> QED
  BY <1>8, <1>9, <1>10, <1>11, <1>12, <1>13

LEMMA MakeTaskKeeps ==
  ASSUME TypeOK, NEW e \in Event, EventInv(e), NEW c \in Call, MakeTask(e, c)
  PROVE  EventInv(e)'
<1> DEFINE n == NodeOf(c)
<1>1. /\ n \in Node /\ calls[e][c] = "children" /\ ~cancelled[e] /\ n \notin entries[e]
      /\ \A d \in Call : calls'[e][d] = IF d = c THEN "value" ELSE calls[e][d]
      /\ \A m \in Node : /\ tasks'[e][m] = IF m = n THEN "running" ELSE tasks[e][m]
                         /\ made'[e][m] = IF m = n THEN made[e][m] + 1 ELSE made[e][m]
      /\ entries'[e] = entries[e] \cup {n} /\ Entered(e, SubCalls(c))
      /\ phase' = phase /\ cancelled' = cancelled /\ stack' = stack /\ raising' = raising
      /\ live' = live /\ cleaned' = cleaned /\ erred' = erred /\ failed' = failed
  BY TreeFacts DEF MakeTask, TypeOK, CallIs, TaskIs, Gathered, Entered, Found, exitVars
<1>2. FailuresKnown(e)'
  BY <1>1 DEF EventInv, FailuresKnown
<1>3. SUFFICES ASSUME Intact(e)'
               PROVE  /\ CallsInOrder(e)' /\ TasksInOrder(e)' /\ PhaseFits(e)'
                      /\ StackInOrder(e)' /\ StackFits(e)' /\ KeptIsOnStack(e)'
  BY <1>2 DEF EventInv
<1>4. Intact(e)
  BY <1>1, <1>3 DEF Intact, Up
<1>5. /\ CallsInOrder(e) /\ TasksInOrder(e) /\ PhaseFits(e)
      /\ StackInOrder(e) /\ StackFits(e) /\ KeptIsOnStack(e)
  BY <1>4 DEF EventInv
<1>6. phase[e] = "resolving" /\ Up(e) /\ Up(e)'
  BY <1>1, <1>4, UnderWay DEF Up
<1>7. tasks[e][n] = "none" /\ made[e][n] = 0
  BY <1>1, <1>5, <1>6 DEF TasksInOrder
<1>8. \A d \in Call : Entered(e, SubCalls(d)) => Entered(e, SubCalls(d))'
  BY <1>1, TreeFacts DEF Entered
<1>9. CallsInOrder(e)'
  <2>1. \A d \in Call : calls'[e][d] \in {"value", "entered"} =>
            /\ tasks'[e][NodeOf(d)] # "none" /\ Entered(e, SubCalls(d))'
            /\ calls'[e][d] = "entered" => tasks'[e][NodeOf(d)] = "entered"
    BY <1>1, <1>5, <1>7, <1>8, TreeFacts DEF CallsInOrder
  <2> QED
    BY <2>1 DEF CallsInOrder
<1>10. TasksInOrder(e)'
  <2>1. ASSUME NEW m \in Node, tasks'[e][m] # "none"
        PROVE  \E d \in Call : /\ NodeOf(d) = m /\ calls'[e][d] # "children"
                               /\ Entered(e, SubCalls(d))'
    <3>1. CASE m = n
      BY <1>1, <1>8, <3>1
    <3>2. CASE m # n
      <4>1. PICK d \in Call : NodeOf(d) = m /\ calls[e][d] # "children" /\ Entered(e, SubCalls(d))
        BY <1>1, <1>5, <2>1, <3>2 DEF TasksInOrder
      <4> QED
        BY <1>1, <1>8, <4>1
    <3> QED
      BY <3>1, <3>2
  <2>2. \A m \in Node : made'[e][m] = IF tasks'[e][m] = "none" THEN 0 ELSE 1
    BY <1>1, <1>5, <1>7 DEF TasksInOrder
  <2>3. \A m \in Node : m \in entries'[e] <=> tasks'[e][m] # "none"
    BY <1>1, <1>5, <1>6 DEF TasksInOrder
  <2> QED
    BY <2>1, <2>2, <2>3 DEF TasksInOrder
<1>11. PhaseFits(e)'
  BY <1>1, <1>6 DEF PhaseFits
<1>12. StackInOrder(e)'
  BY <1>1, <1>5 DEF StackInOrder
<1>13. StackFits(e)'
  <2>1. \A x : On(e, x)' <=> On(e, x)
    BY <1>1 DEF On
  <2>2. \A m \in Node : tasks'[e][m] = "entered" <=> tasks[e][m] = "entered"
    BY <1>1, <1>7
  <2>3. \A d \in Call : calls'[e][d] = "entered" => calls[e][d] = "entered"
    BY <1>1
  <2> QED
    BY <1>1, <1>5, <1>6, <2>1, <2>2, <2>3 DEF StackFits
<1>14. KeptIsOnStack(e)'
  BY <1>1, <1>5, <1>6 DEF KeptIsOnStack
<1> QED
  BY <1>9, <1>10, <1>11, <1>12, <1>13, <1>14

\* The exit of a node or of its dependency joins the stack.
LEMMA PushKeeps ==
  ASSUME TypeOK, NEW e \in Event, NEW of \in {"dependency", "node"}, NEW n \in Node,
         stack'[e] = Append(stack[e], ExitOf(of, n))
  PROVE  /\ \A x : On(e, x)' <=> (On(e, x) \/ x = ExitOf(of, n))
         /\ /\ StackInOrder(e)
            /\ of = "dependency" =>
                    /\ ~On(e, ExitOf(of, n))
                    /\ \A p \in Params[n] : On(e, ExitOf("dependency", Target[p]))
            => StackInOrder(e)'
<1> DEFINE s == stack[e]
           k == Len(stack[e])
           t == stack'[e]
<1>1. s \in Seq(Exit) /\ ExitOf(of, n) \in Exit
  BY ExitFacts DEF TypeOK
<1>2. /\ k \in Nat /\ Len(t) = k + 1 /\ t[k + 1] = ExitOf(of, n)
      /\ \A i \in 1 .. k : t[i] = s[i] /\ s[i] \in Exit
  BY <1>1, PushFacts
<1>3. ASSUME NEW x PROVE On(e, x)' <=> (On(e, x) \/ x = ExitOf(of, n))
  <2>1. On(e, x)' => On(e, x) \/ x = ExitOf(of, n)
    <3>1. SUFFICES ASSUME NEW i \in 1 .. k + 1, t[i] = x, x # ExitOf(of, n) PROVE On(e, x)
      BY <1>2 DEF On
    <3>2. i \in 1 .. k
      BY <1>2, <3>1
    <3> QED
      BY <1>2, <3>1, <3>2 DEF On
  <2>2. On(e, x) => On(e, x)'
    <3>1. SUFFICES ASSUME NEW i \in 1 .. k, s[i] = x PROVE On(e, x)'
      BY DEF On
    <3>2. i \in 1 .. Len(t) /\ t[i] = x
      BY <1>2, <3>1
    <3> QED
      BY <3>2 DEF On
  <2>3. x = ExitOf(of, n) => On(e, x)'
    <3>1. k + 1 \in 1 .. Len(t)
      BY <1>2
    <3> QED
      BY <1>2, <3>1 DEF On
  <2> QED
    BY <2>1, <2>2, <2>3
<1>4. ASSUME StackInOrder(e),
             of = "dependency" =>
                 /\ ~On(e, ExitOf(of, n))
                 /\ \A p \in Params[n] : On(e, ExitOf("dependency", Target[p]))
      PROVE  StackInOrder(e)'
  <2>1. ASSUME NEW i \in 1 .. Len(t), NEW j \in 1 .. Len(t), t[i].of = "dependency", t[i] = t[j]
        PROVE  i = j
    <3>1. CASE i \in 1 .. k /\ j \in 1 .. k
      BY <1>2, <1>4, <2>1, <3>1 DEF StackInOrder
    <3>2. CASE i = k + 1 /\ j \in 1 .. k
      BY <1>2, <1>4, <2>1, <3>2, ExitFacts DEF On
    <3>3. CASE j = k + 1 /\ i \in 1 .. k
      BY <1>2, <1>4, <2>1, <3>3, ExitFacts DEF On
    <3> QED
      BY <1>2, <3>1, <3>2, <3>3
  <2>2. ASSUME NEW i \in 1 .. Len(t), t[i].of = "dependency", NEW p \in Params[t[i].node]
        PROVE  \E j \in 1 .. Len(t) : j < i /\ t[j] = ExitOf("dependency", Target[p])
    <3>1. CASE i \in 1 .. k
      <4>1. PICK j \in 1 .. k : j < i /\ s[j] = ExitOf("dependency", Target[p])
        BY <1>2, <1>4, <2>2, <3>1 DEF StackInOrder
      <4> QED
        BY <1>2, <4>1
    <3>2. CASE i = k + 1
      <4>1. of = "dependency" /\ p \in Params[n]
        BY <1>2, <2>2, <3>2, ExitFacts
      <4>2. PICK j \in 1 .. k : s[j] = ExitOf("dependency", Target[p])
        BY <1>4, <4>1 DEF On
      <4> QED
        BY <1>2, <3>2, <4>2
    <3> QED
      BY <1>2, <3>1, <3>2
  <2> QED
    BY <2>1, <2>2 DEF StackInOrder
<1> QED
  BY <1>3, <1>4

LEMMA CallEntersKeeps ==
  ASSUME TypeOK, NEW e \in Event, EventInv(e), NEW c \in Call, CallEnters(e, c)
  PROVE  EventInv(e)'
<1> DEFINE n == NodeOf(c)
<1>1. /\ n \in Node /\ calls[e][c] = "value" /\ ~cancelled[e] /\ tasks[e][n] = "entered"
      /\ \A d \in Call : calls'[e][d] = IF d = c THEN "entered" ELSE calls[e][d]
      /\ stack'[e] = Append(stack[e], ExitOf("node", n))
      /\ phase' = phase /\ cancelled' = cancelled /\ tasks' = tasks /\ entries' = entries
      /\ raising' = raising /\ live' = live /\ cleaned' = cleaned /\ erred' = erred
      /\ made' = made /\ failed' = failed
  BY TreeFacts DEF CallEnters, TypeOK, CallIs, Pushed, Awaited, exitVars, ExitOf
<1>2. FailuresKnown(e)'
  BY <1>1 DEF EventInv, FailuresKnown
<1>3. SUFFICES ASSUME Intact(e)'
               PROVE  /\ CallsInOrder(e)' /\ TasksInOrder(e)' /\ PhaseFits(e)'
                      /\ StackInOrder(e)' /\ StackFits(e)' /\ KeptIsOnStack(e)'
  BY <1>2 DEF EventInv
<1>4. Intact(e)
  BY <1>1, <1>3 DEF Intact, Up
<1>5. /\ CallsInOrder(e) /\ TasksInOrder(e) /\ PhaseFits(e)
      /\ StackInOrder(e) /\ StackFits(e) /\ KeptIsOnStack(e)
  BY <1>4 DEF EventInv
<1>6. phase[e] = "resolving" /\ Up(e) /\ Up(e)'
  BY <1>1, <1>4, UnderWay DEF Up
<1>7. /\ \A x : On(e, x)' <=> (On(e, x) \/ x = ExitOf("node", n))
      /\ StackInOrder(e)'
  BY <1>1, <1>5, PushKeeps
<1>8. \A d \in Call : Entered(e, SubCalls(d)) => Entered(e, SubCalls(d))'
  BY <1>1, TreeFacts DEF Entered
<1>9. CallsInOrder(e)'
  BY <1>1, <1>5, <1>8 DEF CallsInOrder
<1>10. TasksInOrder(e)'
  <2>1. \A d \in Call : calls[e][d] # "children" => calls'[e][d] # "children"
    BY <1>1
  <2> QED
    BY <1>1, <1>5, <1>6, <1>8, <2>1 DEF TasksInOrder
<1>11. PhaseFits(e)'
  BY <1>1, <1>6 DEF PhaseFits
<1>12. StackFits(e)'
  <2>1. \A m \in Node : ExitOf("dependency", m) # ExitOf("node", n)
    BY DEF ExitOf
  <2>2. ASSUME NEW d \in Call, calls'[e][d] = "entered" PROVE On(e, ExitOf("node", NodeOf(d)))'
    BY <1>1, <1>5, <1>6, <1>7, <2>2 DEF StackFits
  <2> QED
    BY <1>1, <1>5, <1>6, <1>7, <2>1, <2>2 DEF StackFits
<1>13. KeptIsOnStack(e)'
  BY <1>1, <1>5, <1>6 DEF KeptIsOnStack
<1> QED
  BY <1>7, <1>9, <1>10, <1>11, <1>12, <1>13

LEMMA TaskEntersKeeps ==
  ASSUME TypeOK, NEW e \in Event, EventInv(e), NEW n \in Node, TaskEnters(e, n)
  PROVE  EventInv(e)'
<1>1. /\ tasks[e][n] = "running" /\ ~cancelled[e]
      /\ \A m \in Node : tasks'[e][m] = IF m = n THEN "entered" ELSE tasks[e][m]
      /\ stack'[e] = Append(stack[e], ExitOf("dependency", n))
      /\ live'[e] = live[e] \cup {n}
      /\ phase' = phase /\ cancelled' = cancelled /\ calls' = calls /\ entries' = entries
      /\ raising' = raising /\ cleaned' = cleaned /\ erred' = erred
      /\ made' = made /\ failed' = failed
  BY DEF TaskEnters, TypeOK, TaskIs, Pushed, ExitOf
<1>2. FailuresKnown(e)'
  BY <1>1 DEF EventInv, FailuresKnown
<1>3. SUFFICES ASSUME Intact(e)'
               PROVE  /\ CallsInOrder(e)' /\ TasksInOrder(e)' /\ PhaseFits(e)'
                      /\ StackInOrder(e)' /\ StackFits(e)' /\ KeptIsOnStack(e)'
  BY <1>2 DEF EventInv
<1>4. Intact(e)
  BY <1>1, <1>3 DEF Intact, Up
<1>5. /\ CallsInOrder(e) /\ TasksInOrder(e) /\ PhaseFits(e)
      /\ StackInOrder(e) /\ StackFits(e) /\ KeptIsOnStack(e)
  BY <1>4 DEF EventInv
<1>6. phase[e] = "resolving" /\ Up(e) /\ Up(e)'
  BY <1>1, <1>4, UnderWay DEF Up
<1>7. ~On(e, ExitOf("dependency", n))
  BY <1>1, <1>5 DEF StackFits
<1>8. \A p \in Params[n] : On(e, ExitOf("dependency", Target[p]))
  <2>1. PICK c \in Call : NodeOf(c) = n /\ Entered(e, SubCalls(c))
    BY <1>1, <1>5 DEF TasksInOrder
  <2>2. ASSUME NEW p \in Params[n] PROVE On(e, ExitOf("dependency", Target[p]))
    <3>1. /\ Append(c, p) \in SubCalls(c) /\ Append(c, p) \in Call /\ Target[p] \in Node
          /\ NodeOf(Append(c, p)) = Target[p]
      BY <2>1, TreeFacts
    <3>2. tasks[e][Target[p]] = "entered"
      BY <1>5, <2>1, <3>1 DEF CallsInOrder, Entered
    <3> QED
      BY <1>5, <1>6, <3>1, <3>2 DEF StackFits
  <2> QED
    BY <2>2
<1>9. /\ \A x : On(e, x)' <=> (On(e, x) \/ x = ExitOf("dependency", n))
      /\ StackInOrder(e)'
  BY <1>1, <1>5, <1>7, <1>8, PushKeeps
<1>10. CallsInOrder(e)'
  BY <1>1, <1>5, TreeFacts DEF CallsInOrder, Entered
<1>11. TasksInOrder(e)'
  BY <1>1, <1>5, <1>6 DEF TasksInOrder, Entered
<1>12. PhaseFits(e)'
  BY <1>1, <1>6 DEF PhaseFits
<1>13. StackFits(e)'
  <2>1. \A m \in Node : ExitOf("dependency", m) = ExitOf("dependency", n) <=> m = n
    BY DEF ExitOf
  <2>2. \A m \in Node : On(e, ExitOf("dependency", m))' <=> m \in live'[e]
    BY <1>1, <1>5, <1>9, <2>1 DEF StackFits
  <2>3. \A m \in Node : m \in live'[e] <=> tasks'[e][m] = "entered"
    BY <1>1, <1>5, <1>6 DEF StackFits
  <2>4. \A c \in Call : calls'[e][c] = "entered" => On(e, ExitOf("node", NodeOf(c)))'
    BY <1>1, <1>5, <1>6, <1>9 DEF StackFits
  <2> QED
    BY <2>2, <2>3, <2>4 DEF StackFits
<1>14. KeptIsOnStack(e)'
  BY <1>1, <1>5, <1>6 DEF KeptIsOnStack
<1> QED
  BY <1>9, <1>10, <1>11, <1>12, <1>13, <1>14

LEMMA TaskRaisesKeeps ==
  ASSUME TypeOK, NEW e \in Event, EventInv(e), NEW n \in Node, TaskRaises(e, n)
  PROVE  EventInv(e)'
<1>1. /\ tasks[e][n] = "running" /\ (failed[e] => failed'[e]) /\ (failed'[e] \/ cancelled[e])
      /\ \A m \in Node : tasks'[e][m] = IF m = n THEN "failed" ELSE tasks[e][m]
      /\ phase' = phase /\ cancelled' = cancelled /\ calls' = calls /\ entries' = entries
      /\ stack' = stack /\ raising' = raising /\ live' = live /\ cleaned' = cleaned
      /\ erred' = erred /\ made' = made
  BY DEF TaskRaises, TypeOK, TaskIs, Failing, exitVars
<1>2. FailuresKnown(e)'
  BY <1>1 DEF EventInv, FailuresKnown
<1>3. SUFFICES ASSUME Intact(e)'
               PROVE  /\ CallsInOrder(e)' /\ TasksInOrder(e)' /\ PhaseFits(e)'
                      /\ StackInOrder(e)' /\ StackFits(e)' /\ KeptIsOnStack(e)'
  BY <1>2 DEF EventInv
<1>4. Intact(e)
  BY <1>1, <1>3 DEF Intact, Up
<1>5. /\ CallsInOrder(e) /\ TasksInOrder(e) /\ PhaseFits(e)
      /\ StackInOrder(e) /\ StackFits(e) /\ KeptIsOnStack(e)
  BY <1>4 DEF EventInv
<1>6. ~Entered(e, Call) /\ (phase[e] = "resolving" \/ (~Up(e) /\ cancelled[e] /\ erred[e]))
  BY <1>1, <1>4, UnderWay
<1>7. Up(e)' <=> Up(e)
  BY <1>1 DEF Up
<1>8. CallsInOrder(e)'
  BY <1>1, <1>5, TreeFacts DEF CallsInOrder, Entered
<1>9. TasksInOrder(e)'
  BY <1>1, <1>5, <1>7 DEF TasksInOrder, Entered
<1>10. PhaseFits(e)'
  BY <1>1, <1>5, <1>6, <1>7 DEF PhaseFits, Entered
<1>11. StackInOrder(e)'
  BY <1>1, <1>5 DEF StackInOrder
<1>12. StackFits(e)'
  <2>1. \A x : On(e, x)' <=> On(e, x)
    BY <1>1 DEF On
  <2>2. \A m \in Node : tasks'[e][m] = "entered" <=> tasks[e][m] = "entered"
    BY <1>1
  <2> QED
    BY <1>1, <1>5, <1>7, <2>1, <2>2 DEF StackFits
<1>13. KeptIsOnStack(e)'
  BY <1>1, <1>5, <1>7 DEF KeptIsOnStack, On
<1> QED
  BY <1>8, <1>9, <1>10, <1>11, <1>12, <1>13

\* The handler is run, or its exit stack is unwound.  With no error on its way the
\* handler returned: all is entered and has its exits on the stack.
LEMMA PhaseMoves ==
  ASSUME TypeOK, NEW e \in Event, EventInv(e), Up(e),
         \/ phase'[e] = "handler" /\ Entered(e, RootCalls) /\ erred'[e] = erred[e]
         \/ /\ phase'[e] = "unwinding" /\ erred'[e]
            /\ phase[e] = "handler" \/ cancelled[e] \/ failed[e]
         \/ phase'[e] = "unwinding" /\ phase[e] = "handler" /\ erred'[e] = erred[e],
         raising'[e] => erred'[e],
         calls'[e] = calls[e], cancelled'[e] = cancelled[e], tasks'[e] = tasks[e],
         entries'[e] = entries[e], stack'[e] = stack[e], live'[e] = live[e],
         cleaned'[e] = cleaned[e], made'[e] = made[e], failed'[e] = failed[e]
  PROVE  EventInv(e)'
<1>1. Up(e) /\ phase'[e] # "ended" /\ (Up(e)' => phase'[e] = "handler")
  BY DEF Up
<1>2. FailuresKnown(e)'
  BY DEF EventInv, FailuresKnown
<1>3. SUFFICES ASSUME Intact(e)'
               PROVE  /\ CallsInOrder(e)' /\ TasksInOrder(e)' /\ PhaseFits(e)'
                      /\ StackInOrder(e)' /\ StackFits(e)' /\ KeptIsOnStack(e)'
  BY <1>2 DEF EventInv
<1>4. Intact(e)
  BY <1>1, <1>3 DEF Intact, Up
<1>5. /\ CallsInOrder(e) /\ TasksInOrder(e) /\ PhaseFits(e)
      /\ StackInOrder(e) /\ StackFits(e) /\ KeptIsOnStack(e)
  BY <1>4 DEF EventInv
<1>6. CallsInOrder(e)'
  BY <1>5 DEF CallsInOrder, Entered
<1>7. TasksInOrder(e)'
  BY <1>1, <1>5 DEF TasksInOrder, Entered
<1>8. phase[e] = "handler" \/ Entered(e, RootCalls) => Entered(e, Call)
  BY <1>5, RootsEnteredLast DEF PhaseFits
<1>9. PhaseFits(e)'
  <2>1. Entered(e, Call)' <=> Entered(e, Call)
    BY DEF Entered
  <2>2. phase'[e] = "handler" => Entered(e, Call)
    BY <1>8
  <2>3. phase'[e] = "unwinding" => Entered(e, Call) \/ (cancelled[e] /\ erred'[e])
    BY <1>3, <1>8 DEF Intact, Up
  <2> QED
    BY <1>1, <2>1, <2>2, <2>3 DEF PhaseFits, Up
<1>10. StackInOrder(e)'
  BY <1>5 DEF StackInOrder
<1>11. StackFits(e)'
  <2>1. \A x : On(e, x)' <=> On(e, x)
    BY DEF On
  <2> QED
    BY <1>1, <1>5, <2>1 DEF StackFits
<1>12. KeptIsOnStack(e)'
  <2>1. \A x : On(e, x)' <=> On(e, x)
    BY DEF On
  <2>2. ASSUME ~Up(e)', ~erred'[e]
        PROVE  /\ \A n \in entries[e] : On(e, ExitOf("node", n))
               /\ \A c \in Call : NodeOf(c) \in live[e]
    <3>1. Entered(e, Call)
      BY <1>8, <2>2 DEF Up
    <3>2. ASSUME NEW n \in entries[e] PROVE On(e, ExitOf("node", n))
      <4>1. n \in Node /\ tasks[e][n] # "none"
        BY <1>1, <1>5, <3>2 DEF TypeOK, TasksInOrder
      <4>2. PICK c \in Call : NodeOf(c) = n
        BY <1>5, <4>1 DEF TasksInOrder
      <4> QED
        BY <1>1, <1>5, <3>1, <4>2 DEF StackFits, Entered
    <3>3. ASSUME NEW c \in Call PROVE NodeOf(c) \in live[e]
      BY <1>1, <1>5, <3>1, TreeFacts DEF CallsInOrder, StackFits, Entered
    <3> QED
      BY <3>2, <3>3
  <2> QED
    BY <1>1, <1>5, <2>1, <2>2 DEF KeptIsOnStack
<1> QED
  BY <1>6, <1>7, <1>9, <1>10, <1>11, <1>12

LEMMA CancelKeeps ==
  ASSUME TypeOK, NEW e \in Event, EventInv(e), Cancel(e)
  PROVE  EventInv(e)'
<1>1. /\ phase[e] = "resolving" /\ cancelled'[e]
      /\ phase' = phase /\ calls' = calls /\ tasks' = tasks /\ entries' = entries
      /\ stack' = stack /\ raising' = raising /\ live' = live /\ cleaned' = cleaned
      /\ erred' = erred /\ made' = made /\ failed' = failed
  BY DEF Cancel, TypeOK, taskVars, exitVars
<1>2. FailuresKnown(e)'
  BY <1>1 DEF EventInv, FailuresKnown
<1>3. Intact(e) /\ Up(e)
  BY <1>1 DEF Intact, Up
<1>4. CallsInOrder(e)' /\ TasksInOrder(e)'
  BY <1>1, <1>3 DEF EventInv, CallsInOrder, TasksInOrder, Entered, Up
<1>5. PhaseFits(e)'
  BY <1>1 DEF PhaseFits, Up
<1>6. StackInOrder(e)' /\ StackFits(e)' /\ KeptIsOnStack(e)'
  BY <1>1, <1>3 DEF EventInv, StackInOrder, StackFits, KeptIsOnStack, On, Up
<1> QED
  BY <1>2, <1>4, <1>5, <1>6 DEF EventInv

\* The last exit leaves the stack.
LEMMA PopKeeps ==
  ASSUME TypeOK, NEW e \in Event, stack[e] # << >>, stack'[e] = Front(stack[e]),
         NEW x, x = NextOf(stack[e])
  PROVE  /\ x \in Exit /\ On(e, x)
         /\ \A y : On(e, y)' => On(e, y)
         /\ \A y : On(e, y) /\ y # x => On(e, y)'
         /\ StackInOrder(e) => /\ StackInOrder(e)'
                               /\ x.of = "dependency" => ~On(e, x)'
<1> DEFINE s == stack[e]
           t == stack'[e]
           k == Len(t)
<1>1. /\ x \in Exit /\ k \in Nat /\ Len(s) = k + 1 /\ s[k + 1] = x
      /\ \A i \in 1 .. k : t[i] = s[i] /\ s[i] \in Exit
  BY PopFacts DEF TypeOK, NextOf
<1>2. On(e, x)
  <2>1. k + 1 \in 1 .. Len(s)
    BY <1>1
  <2> QED
    BY <1>1, <2>1 DEF On
<1>3. ASSUME NEW y, On(e, y)' PROVE On(e, y)
  <2>1. PICK i \in 1 .. k : t[i] = y
    BY <1>3 DEF On
  <2>2. i \in 1 .. Len(s) /\ s[i] = y
    BY <1>1, <2>1
  <2> QED
    BY <2>2 DEF On
<1>4. ASSUME NEW y, On(e, y), y # x PROVE On(e, y)'
  <2>1. PICK i \in 1 .. k + 1 : s[i] = y
    BY <1>1, <1>4 DEF On
  <2>2. i \in 1 .. k /\ t[i] = y
    BY <1>1, <1>4, <2>1
  <2> QED
    BY <2>2 DEF On
<1>5. ASSUME StackInOrder(e) PROVE StackInOrder(e)'
  <2>1. ASSUME NEW i \in 1 .. k, NEW j \in 1 .. k, t[i].of = "dependency", t[i] = t[j]
        PROVE  i = j
    BY <1>1, <1>5, <2>1 DEF StackInOrder
  <2>2. ASSUME NEW i \in 1 .. k, t[i].of = "dependency", NEW p \in Params[t[i].node]
        PROVE  \E j \in 1 .. k : j < i /\ t[j] = ExitOf("dependency", Target[p])
    <3>1. PICK j \in 1 .. k + 1 : j < i /\ s[j] = ExitOf("dependency", Target[p])
      BY <1>1, <1>5, <2>2 DEF StackInOrder
    <3>2. j \in 1 .. k
      BY <1>1, <3>1
    <3> QED
      BY <1>1, <3>1, <3>2
  <2> QED
    BY <2>1, <2>2 DEF StackInOrder
<1>6. ASSUME StackInOrder(e), x.of = "dependency", On(e, x)' PROVE FALSE
  <2>1. PICK i \in 1 .. k : t[i] = x
    BY <1>6 DEF On
  <2>2. i \in 1 .. Len(s) /\ k + 1 \in 1 .. Len(s) /\ s[i] = s[k + 1] /\ i # k + 1
    BY <1>1, <2>1
  <2> QED
    BY <1>1, <1>6, <2>2 DEF StackInOrder
<1> QED
  BY <1>1, <1>2, <1>3, <1>4, <1>5, <1>6

LEMMA LeaveDependencyKeeps ==
  ASSUME TypeOK, NEW e \in Event, EventInv(e), LeaveDependency(e)
  PROVE  EventInv(e)'
<1>0. PICK x : x = NextOf(stack[e])
  OBVIOUS
<1> DEFINE n == x.node
<1>1. /\ phase[e] = "unwinding" /\ stack[e] # << >> /\ x.of = "dependency"
      /\ stack'[e] = Front(stack[e]) /\ live'[e] = live[e] \ {n}
      /\ cleaned'[e] \subseteq cleaned[e] \cup {n}
      /\ cleaned[e] \subseteq cleaned'[e]
      /\ n \in cleaned'[e] \/ raising[e]
      /\ (erred[e] => erred'[e]) /\ (raising'[e] => erred'[e] \/ raising[e])
      /\ phase' = phase /\ cancelled' = cancelled /\ calls' = calls /\ tasks' = tasks
      /\ entries' = entries /\ made' = made /\ failed' = failed
  BY <1>0 DEF LeaveDependency, Popped, TypeOK, Raise, taskVars
<1>2. FailuresKnown(e)'
  BY <1>1 DEF EventInv, FailuresKnown
<1>3. SUFFICES ASSUME Intact(e)'
               PROVE  /\ CallsInOrder(e)' /\ TasksInOrder(e)' /\ PhaseFits(e)'
                      /\ StackInOrder(e)' /\ StackFits(e)' /\ KeptIsOnStack(e)'
  BY <1>2 DEF EventInv
<1>4. Intact(e)
  BY <1>1, <1>3 DEF Intact, Up
<1>5. /\ CallsInOrder(e) /\ TasksInOrder(e) /\ PhaseFits(e)
      /\ StackInOrder(e) /\ StackFits(e) /\ KeptIsOnStack(e)
  BY <1>4 DEF EventInv
<1>6. ~Up(e) /\ ~Up(e)'
  BY <1>1 DEF Up
<1>7. /\ x \in Exit /\ On(e, x) /\ ~On(e, x)' /\ StackInOrder(e)'
      /\ \A y : y # x => (On(e, y)' <=> On(e, y))
  BY <1>0, <1>1, <1>5, PopKeeps
<1>8. n \in Node /\ x = ExitOf("dependency", n)
  BY <1>1, <1>7, ExitFacts
<1>9. CallsInOrder(e)' /\ TasksInOrder(e)'
  BY <1>1, <1>5, <1>6 DEF CallsInOrder, TasksInOrder, Entered
<1>10. PhaseFits(e)'
  BY <1>1, <1>5, <1>6 DEF PhaseFits, Entered
<1>11. StackFits(e)'
  <2>1. \A m \in Node : ExitOf("dependency", m) = x <=> m = n
    BY <1>8 DEF ExitOf
  <2> QED
    BY <1>1, <1>5, <1>6, <1>7, <2>1 DEF StackFits
<1>12. KeptIsOnStack(e)'
  <2>1. \E c \in Call : NodeOf(c) = n
    BY <1>5, <1>7, <1>8 DEF StackFits, TasksInOrder
  <2>2. \A m : ExitOf("node", m) # x
    BY <1>8 DEF ExitOf
  <2>3. raising[e] => erred'[e]
    BY <1>1 DEF EventInv, FailuresKnown
  <2>4. \A c \in Call : ~erred'[e] => NodeOf(c) \in cleaned'[e] \cup live'[e]
    BY <1>1, <1>5, <1>6, <2>3 DEF KeptIsOnStack
  <2> QED
    BY <1>1, <1>5, <1>6, <1>7, <2>1, <2>2, <2>4 DEF KeptIsOnStack
<1> QED
  BY <1>7, <1>9, <1>10, <1>11, <1>12

LEMMA LeaveNodeKeeps ==
  ASSUME TypeOK, NEW e \in Event, EventInv(e), LeaveNode(e)
  PROVE  EventInv(e)'
<1>0. PICK x : x = NextOf(stack[e])
  OBVIOUS
<1> DEFINE n == x.node
<1>1. /\ phase[e] = "unwinding" /\ stack[e] # << >> /\ x.of = "node"
      /\ stack'[e] = Front(stack[e])
      /\ entries'[e] \subseteq entries[e]
      /\ n \notin entries'[e] \/ raising[e]
      /\ phase' = phase /\ cancelled' = cancelled /\ calls' = calls /\ tasks' = tasks
      /\ raising' = raising /\ live' = live /\ cleaned' = cleaned /\ erred' = erred
      /\ made' = made /\ failed' = failed
  BY <1>0 DEF LeaveNode, Popped, Forgotten, TypeOK, exitVars
<1>2. FailuresKnown(e)'
  BY <1>1 DEF EventInv, FailuresKnown
<1>3. SUFFICES ASSUME Intact(e)'
               PROVE  /\ CallsInOrder(e)' /\ TasksInOrder(e)' /\ PhaseFits(e)'
                      /\ StackInOrder(e)' /\ StackFits(e)' /\ KeptIsOnStack(e)'
  BY <1>2 DEF EventInv
<1>4. Intact(e)
  BY <1>1, <1>3 DEF Intact, Up
<1>5. /\ CallsInOrder(e) /\ TasksInOrder(e) /\ PhaseFits(e)
      /\ StackInOrder(e) /\ StackFits(e) /\ KeptIsOnStack(e)
  BY <1>4 DEF EventInv
<1>6. ~Up(e) /\ ~Up(e)'
  BY <1>1 DEF Up
<1>7. /\ x \in Exit /\ On(e, x) /\ StackInOrder(e)'
      /\ \A y : y # x => (On(e, y)' <=> On(e, y))
  BY <1>0, <1>1, <1>5, PopKeeps
<1>8. n \in Node /\ x = ExitOf("node", n)
  BY <1>1, <1>7, ExitFacts
<1>9. CallsInOrder(e)' /\ TasksInOrder(e)'
  BY <1>1, <1>5, <1>6 DEF CallsInOrder, TasksInOrder, Entered
<1>10. PhaseFits(e)'
  BY <1>1, <1>5, <1>6 DEF PhaseFits, Entered
<1>11. StackFits(e)'
  <2>1. \A m \in Node : ExitOf("dependency", m) # x
    BY <1>8 DEF ExitOf
  <2> QED
    BY <1>1, <1>5, <1>6, <1>7, <2>1 DEF StackFits
<1>12. KeptIsOnStack(e)'
  <2>1. \A m \in Node : ExitOf("node", m) = x <=> m = n
    BY <1>8 DEF ExitOf
  <2>2. raising[e] => erred[e]
    BY DEF EventInv, FailuresKnown
  <2>3. entries[e] \subseteq Node
    BY DEF TypeOK
  <2> QED
    BY <1>1, <1>5, <1>6, <1>7, <2>1, <2>2, <2>3 DEF KeptIsOnStack
<1> QED
  BY <1>7, <1>9, <1>10, <1>11, <1>12

LEMMA UnwoundKeeps ==
  ASSUME TypeOK, NEW e \in Event, EventInv(e), Unwound(e)
  PROVE  EventInv(e)'
<1>1. /\ phase[e] = "unwinding" /\ stack[e] = << >> /\ phase'[e] = "ended"
      /\ cancelled' = cancelled /\ calls' = calls /\ tasks' = tasks /\ entries' = entries
      /\ stack' = stack /\ raising' = raising /\ live' = live /\ cleaned' = cleaned
      /\ erred' = erred /\ made' = made /\ failed' = failed
  BY DEF Unwound, PhaseIs, TypeOK, taskVars, exitVars
<1>2. FailuresKnown(e)'
  BY <1>1 DEF EventInv, FailuresKnown
<1>3. SUFFICES ASSUME Intact(e)'
               PROVE  /\ CallsInOrder(e)' /\ TasksInOrder(e)' /\ PhaseFits(e)'
                      /\ StackInOrder(e)' /\ StackFits(e)' /\ KeptIsOnStack(e)'
  BY <1>2 DEF EventInv
<1>4. Intact(e)
  BY <1>1, <1>3 DEF Intact, Up
<1>5. /\ CallsInOrder(e) /\ TasksInOrder(e) /\ PhaseFits(e)
      /\ StackInOrder(e) /\ StackFits(e) /\ KeptIsOnStack(e)
  BY <1>4 DEF EventInv
<1>6. ~Up(e) /\ ~Up(e)'
  BY <1>1 DEF Up
<1>7. CallsInOrder(e)' /\ TasksInOrder(e)'
  BY <1>1, <1>5, <1>6 DEF CallsInOrder, TasksInOrder, Entered
<1>8. PhaseFits(e)'
  BY <1>1, <1>5, <1>6 DEF PhaseFits, Entered
<1>9. StackInOrder(e)' /\ StackFits(e)' /\ KeptIsOnStack(e)'
  BY <1>1, <1>5, <1>6 DEF StackInOrder, StackFits, KeptIsOnStack, On
<1> QED
  BY <1>7, <1>8, <1>9

-----------------------------------------------------------------------------
(* Every step.                                                             *)

LEMMA TypesKept ==
  ASSUME TypeOK, [Next]_vars
  PROVE  TypeOK'
<1>1. CASE UNCHANGED vars
  BY <1>1 DEF TypeOK, vars, taskVars, exitVars
<1>2. ASSUME NEW e \in Event, NEW c \in Call, CallStep(e, c) PROVE TypeOK'
  <2>1. NodeOf(c) \in Node
    BY TreeFacts
  <2>2. CASE AwaitTask(e, c) \/ FunctionRaises(e, c) \/ CallRaises(e, c) \/ CallFails(e, c)
    <3>1. CallIs(e, c, "value") \/ CallIs(e, c, "failed")
      BY <2>2 DEF AwaitTask, FunctionRaises, CallRaises, CallFails
    <3>2. calls' \in [Event -> [Call -> {"children", "value", "entered", "failed"}]]
      <4>1. CASE CallIs(e, c, "value")
        BY <4>1 DEF TypeOK, CallIs
      <4>2. CASE CallIs(e, c, "failed")
        BY <4>2 DEF TypeOK, CallIs
      <4> QED
        BY <3>1, <4>1, <4>2
    <3>3. failed' = failed \/ Failing(e)
      BY <2>2 DEF AwaitTask, FunctionRaises, CallRaises, CallFails
    <3>4. failed' \in [Event -> BOOLEAN]
      BY <3>3 DEF TypeOK, Failing
    <3>5. UNCHANGED <<phase, cancelled, tasks, entries, stack, exitVars, made>>
      BY <2>2 DEF AwaitTask, FunctionRaises, CallRaises, CallFails
    <3> QED
      BY <3>2, <3>4, <3>5 DEF TypeOK, exitVars
  <2>3. CASE MakeTask(e, c)
    <3>1. made' \in [Event -> [Node -> Nat]] /\ entries' \in [Event -> SUBSET Node]
      BY <2>1, <2>3 DEF TypeOK, MakeTask
    <3> QED
      BY <2>1, <2>3, <3>1 DEF TypeOK, MakeTask, CallIs, TaskIs, exitVars
  <2>4. CASE CallEnters(e, c)
    <3>1. ExitOf("node", NodeOf(c)) \in Exit
      BY <2>1, ExitFacts
    <3>2. stack' \in [Event -> Seq(Exit)]
      BY <2>4, <3>1 DEF TypeOK, CallEnters, Pushed, ExitOf
    <3> QED
      BY <2>4, <3>2 DEF TypeOK, CallEnters, CallIs, exitVars
  <2> QED
    BY <1>2, <2>2, <2>3, <2>4 DEF CallStep
<1>3. ASSUME NEW e \in Event, NEW n \in Node, TaskEnters(e, n) \/ TaskRaises(e, n) PROVE TypeOK'
  <2>1. CASE TaskEnters(e, n)
    <3>1. ExitOf("dependency", n) \in Exit
      BY ExitFacts
    <3>2. stack' \in [Event -> Seq(Exit)]
      BY <2>1, <3>1 DEF TypeOK, TaskEnters, Pushed, ExitOf
    <3> QED
      BY <2>1, <3>2 DEF TypeOK, TaskEnters, TaskIs
  <2>2. CASE TaskRaises(e, n)
    BY <2>2 DEF TypeOK, TaskRaises, TaskIs, Failing, exitVars
  <2> QED
    BY <1>3, <2>1, <2>2
<1>4. ASSUME NEW e \in Event,
             \/ RunHandler(e) \/ ResolveRaises(e) \/ HandlerReturns(e) \/ HandlerRaises(e)
             \/ Unwound(e) \/ Cancel(e)
      PROVE  TypeOK'
  BY <1>4 DEF TypeOK, RunHandler, ResolveRaises, HandlerReturns, HandlerRaises, Unwound, Cancel,
              PhaseIs, Raise, taskVars, exitVars
<1>5. ASSUME NEW e \in Event, LeaveDependency(e) \/ LeaveNode(e) PROVE TypeOK'
  <2>1. stack[e] \in Seq(Exit) /\ stack[e] # << >>
    BY <1>5 DEF TypeOK, LeaveDependency, LeaveNode
  <2>2. Front(stack[e]) \in Seq(Exit) /\ NextOf(stack[e]).node \in Node
    BY <2>1, PopFacts, ExitFacts DEF NextOf
  <2>3. stack' \in [Event -> Seq(Exit)]
    BY <1>5, <2>2 DEF TypeOK, LeaveDependency, LeaveNode, Popped
  <2>4. CASE LeaveDependency(e)
    <3>0. live' \in [Event -> SUBSET Node]
      <4>1. live' = [live EXCEPT ![e] = @ \ {NextOf(stack[e]).node}]
        BY <2>4 DEF LeaveDependency
      <4> QED
        BY <4>1 DEF TypeOK
    <3>1. cleaned' \in [Event -> SUBSET Node]
      <4>1. PICK n \in Node : n = NextOf(stack[e]).node
        BY <2>2
      <4>2. [cleaned EXCEPT ![e] = @ \cup {n}] \in [Event -> SUBSET Node]
        BY DEF TypeOK
      <4>3. cleaned' = cleaned \/ cleaned' = [cleaned EXCEPT ![e] = @ \cup {n}]
        BY <2>4, <4>1 DEF LeaveDependency
      <4>4. cleaned \in [Event -> SUBSET Node]
        BY DEF TypeOK
      <4> QED
        BY <4>2, <4>3, <4>4
    <3>2. raising' \in [Event -> BOOLEAN] /\ erred' \in [Event -> BOOLEAN]
      BY <2>4 DEF TypeOK, LeaveDependency, Raise
    <3>3. UNCHANGED <<phase, cancelled, taskVars, made, failed>>
      BY <2>4 DEF LeaveDependency
    <3> QED
      BY <2>3, <3>0, <3>1, <3>2, <3>3 DEF TypeOK, taskVars
  <2>5. CASE LeaveNode(e)
    BY <2>2, <2>3, <2>5 DEF TypeOK, LeaveNode, Forgotten, exitVars
  <2> QED
    BY <1>5, <2>4, <2>5
<1> QED
  BY <1>1, <1>2, <1>3, <1>4, <1>5 DEF Next, Step

\* An event's step is its own.
LEMMA OthersUntouched ==
  ASSUME TypeOK, NEW e \in Event, Step(e) \/ Cancel(e), NEW f \in Event, f # e
  PROVE  SameOf(f)
<1>1. ASSUME NEW c \in Call, CallStep(e, c) PROVE SameOf(f)
  BY <1>1 DEF TypeOK, CallStep, AwaitTask, MakeTask, FunctionRaises, CallRaises, CallEnters,
              CallFails, CallIs, TaskIs, Failing, Pushed, exitVars, SameOf
<1>2. ASSUME NEW n \in Node, TaskEnters(e, n) \/ TaskRaises(e, n) PROVE SameOf(f)
  BY <1>2 DEF TypeOK, TaskEnters, TaskRaises, TaskIs, Failing, Pushed, exitVars, SameOf
<1>3. ASSUME \/ RunHandler(e) \/ ResolveRaises(e) \/ HandlerReturns(e) \/ HandlerRaises(e)
             \/ Unwound(e) \/ Cancel(e)
      PROVE  SameOf(f)
  BY <1>3 DEF TypeOK, RunHandler, ResolveRaises, HandlerReturns, HandlerRaises, Unwound, Cancel,
              PhaseIs, Raise, taskVars, exitVars, SameOf
<1>4. ASSUME LeaveDependency(e) \/ LeaveNode(e) PROVE SameOf(f)
  BY <1>4 DEF TypeOK, LeaveDependency, LeaveNode, Popped, Forgotten, Raise, taskVars, exitVars, SameOf
<1> QED
  BY <1>1, <1>2, <1>3, <1>4 DEF Step

LEMMA OwnStepKeeps ==
  ASSUME TypeOK, NEW e \in Event, EventInv(e), Step(e) \/ Cancel(e)
  PROVE  EventInv(e)'
<1>1. ASSUME NEW c \in Call, CallStep(e, c) PROVE EventInv(e)'
  <2>0. SubCalls(c) \subseteq Call
    BY TreeFacts
  <2>1. CASE AwaitTask(e, c)
    <3>1. tasks[e][NodeOf(c)] # "none" \/ ~Intact(e)
      <4>1. SUFFICES ASSUME Intact(e) PROVE tasks[e][NodeOf(c)] # "none"
        OBVIOUS
      <4>2. Up(e)
        BY <2>1, <4>1, UnderWay DEF AwaitTask, Gathered, Up
      <4> QED
        BY <2>1, <4>1, <4>2, TreeFacts DEF AwaitTask, Found, EventInv, TasksInOrder
    <3>2. /\ calls'[e] = [calls[e] EXCEPT ![c] = "value"] /\ calls[e][c] = "children"
          /\ Entered(e, SubCalls(c)) /\ failed' = failed /\ phase' = phase
          /\ cancelled' = cancelled /\ tasks' = tasks /\ entries' = entries /\ stack' = stack
          /\ raising' = raising /\ live' = live /\ cleaned' = cleaned /\ erred' = erred
          /\ made' = made
      BY <2>1 DEF TypeOK, AwaitTask, CallIs, Gathered, Entered, exitVars
    <3> QED
      BY <3>1, <3>2, CallMoves
  <2>2. CASE FunctionRaises(e, c) \/ CallRaises(e, c) \/ CallFails(e, c)
    <3>1. /\ calls'[e] = [calls[e] EXCEPT ![c] = "failed"] /\ calls[e][c] \in {"children", "value"}
          /\ (failed[e] => failed'[e]) /\ phase' = phase
          /\ cancelled' = cancelled /\ tasks' = tasks /\ entries' = entries /\ stack' = stack
          /\ raising' = raising /\ live' = live /\ cleaned' = cleaned /\ erred' = erred
          /\ made' = made
      BY <2>2 DEF TypeOK, FunctionRaises, CallRaises, CallFails, CallIs, Failing, exitVars
    <3>2. failed'[e] \/ cancelled[e]
      <4>1. CASE FunctionRaises(e, c)
        BY <4>1 DEF TypeOK, FunctionRaises, Failing
      <4>2. CASE CallRaises(e, c) \/ CallFails(e, c)
        <5>1. \/ cancelled[e] \/ tasks[e][NodeOf(c)] = "failed"
              \/ \E d \in SubCalls(c) : calls[e][d] = "failed"
          BY <4>2 DEF CallRaises, GatherRaised, CallFails
        <5> QED
          BY <2>0, <3>1, <5>1, TreeFacts DEF EventInv, FailuresKnown
      <4> QED
        BY <2>2, <4>1, <4>2
    <3> QED
      BY <3>1, <3>2, CallMoves
  <2> QED
    BY <1>1, <2>1, <2>2, MakeTaskKeeps, CallEntersKeeps DEF CallStep
<1>2. ASSUME NEW n \in Node, TaskEnters(e, n) \/ TaskRaises(e, n) PROVE EventInv(e)'
  BY <1>2, TaskEntersKeeps, TaskRaisesKeeps
<1>3. CASE RunHandler(e)
  <2>1. /\ Up(e) /\ phase'[e] = "handler" /\ Entered(e, RootCalls)
        /\ calls' = calls /\ cancelled' = cancelled /\ tasks' = tasks /\ entries' = entries
        /\ stack' = stack /\ raising' = raising /\ live' = live /\ cleaned' = cleaned
        /\ erred' = erred /\ made' = made /\ failed' = failed
    BY <1>3 DEF TypeOK, RunHandler, PhaseIs, Gathered, Entered, Up, taskVars, exitVars
  <2>2. raising'[e] => erred'[e]
    BY <2>1 DEF EventInv, FailuresKnown
  <2> QED
    BY <2>1, <2>2, PhaseMoves
<1>4. CASE ResolveRaises(e) \/ HandlerRaises(e)
  <2>1. /\ Up(e) /\ phase'[e] = "unwinding" /\ erred'[e]
        /\ calls' = calls /\ cancelled' = cancelled /\ tasks' = tasks /\ entries' = entries
        /\ stack' = stack /\ live' = live /\ cleaned' = cleaned /\ made' = made
        /\ failed' = failed
    BY <1>4 DEF TypeOK, ResolveRaises, HandlerRaises, PhaseIs, Raise, Up, taskVars
  <2>2. phase[e] = "handler" \/ cancelled[e] \/ failed[e]
    <3>1. phase[e] = "handler" \/ cancelled[e] \/ \E c \in RootCalls : calls[e][c] = "failed"
      BY <1>4 DEF ResolveRaises, HandlerRaises, GatherRaised
    <3> QED
      BY <3>1, TreeFacts DEF EventInv, FailuresKnown
  <2> QED
    BY <2>1, <2>2, PhaseMoves
<1>5. CASE HandlerReturns(e)
  <2>1. /\ Up(e) /\ phase'[e] = "unwinding" /\ phase[e] = "handler"
        /\ calls' = calls /\ cancelled' = cancelled /\ tasks' = tasks /\ entries' = entries
        /\ stack' = stack /\ raising' = raising /\ live' = live /\ cleaned' = cleaned
        /\ erred' = erred /\ made' = made /\ failed' = failed
    BY <1>5 DEF TypeOK, HandlerReturns, PhaseIs, Up, taskVars, exitVars
  <2>2. raising'[e] => erred'[e]
    BY <2>1 DEF EventInv, FailuresKnown
  <2> QED
    BY <2>1, <2>2, PhaseMoves
<1>6. CASE LeaveDependency(e) \/ LeaveNode(e) \/ Unwound(e) \/ Cancel(e)
  BY <1>6, LeaveDependencyKeeps, LeaveNodeKeeps, UnwoundKeeps, CancelKeeps
<1> QED
  BY <1>1, <1>2, <1>3, <1>4, <1>5, <1>6 DEF Step

LEMMA InitHolds == Init => IInv
<1> SUFFICES ASSUME Init PROVE IInv
  OBVIOUS
<1>1. TypeOK
  BY DEF Init, TypeOK
<1>2. ASSUME NEW e \in Event PROVE EventInv(e)
  <2>1. /\ phase[e] = "resolving" /\ ~raising[e] /\ stack[e] = << >> /\ Len(stack[e]) = 0
        /\ entries[e] = {} /\ live[e] = {} /\ cleaned[e] = {}
        /\ \A c \in Call : calls[e][c] = "children"
        /\ \A n \in Node : tasks[e][n] = "none" /\ made[e][n] = 0
    BY DEF Init
  <2>2. FailuresKnown(e)
    BY <2>1 DEF FailuresKnown
  <2>3. CallsInOrder(e) /\ TasksInOrder(e)
    BY <2>1, TreeFacts DEF CallsInOrder, TasksInOrder
  <2>4. PhaseFits(e)
    BY <2>1 DEF PhaseFits, Up
  <2>5. StackInOrder(e) /\ StackFits(e) /\ KeptIsOnStack(e)
    BY <2>1 DEF StackInOrder, StackFits, KeptIsOnStack, On, Up
  <2> QED
    BY <2>2, <2>3, <2>4, <2>5 DEF EventInv
<1> QED
  BY <1>1, <1>2 DEF IInv

LEMMA StepKeeps == IInv /\ [Next]_vars => IInv'
<1> SUFFICES ASSUME IInv, [Next]_vars PROVE IInv'
  OBVIOUS
<1>1. TypeOK'
  BY TypesKept DEF IInv
<1>2. CASE UNCHANGED vars
  <2>1. \A e \in Event : SameOf(e)
    BY <1>2 DEF vars, taskVars, exitVars, SameOf
  <2> QED
    BY <1>1, <2>1, SameKeeps DEF IInv
<1>3. ASSUME NEW e \in Event, Step(e) \/ Cancel(e), NEW f \in Event PROVE EventInv(f)'
  <2>1. CASE f = e
    BY <1>3, <2>1, OwnStepKeeps DEF IInv
  <2>2. CASE f # e
    <3>1. SameOf(f)
      BY <1>3, <2>2, OthersUntouched DEF IInv
    <3> QED
      BY <3>1, SameKeeps DEF IInv
  <2> QED
    BY <2>1, <2>2
<1> QED
  BY <1>1, <1>2, <1>3 DEF Next, IInv

THEOREM InvHolds == Spec => []IInv
BY InitHolds, StepKeeps, PTL DEF Spec

-----------------------------------------------------------------------------
(* The properties.                                                         *)

\* While a handler runs, all of its event's dependencies are entered and none has been
\* left: those of dependencies too, however the calls of shared nodes are ordered.
THEOREM HandlersHaveAll == Spec => []HandlerHasAll
<1>1. ASSUME IInv PROVE HandlerHasAll
  <2>1. ASSUME NEW e \in Event, phase[e] = "handler", NEW c \in Call PROVE NodeOf(c) \in live[e]
    <3>1. /\ Up(e) /\ CallsInOrder(e) /\ StackFits(e) /\ Entered(e, Call)
      BY <1>1, <2>1 DEF IInv, EventInv, PhaseFits, Intact, Up
    <3> QED
      BY <3>1, TreeFacts DEF CallsInOrder, StackFits, Entered
  <2> QED
    BY <2>1 DEF HandlerHasAll
<1> QED
  BY <1>1, InvHolds, PTL

\* As long as no dependency failed, and up to the end of the handler in any case, no
\* node's dependency is made twice for an event.
THEOREM NothingIsMadeTwice == Spec => []MadeOnce
<1>1. ASSUME IInv PROVE MadeOnce
  <2>1. ASSUME NEW e \in Event, NEW n \in Node, ~(failed[e] /\ phase[e] \in {"unwinding", "ended"})
        PROVE  made[e][n] <= 1
    <3>1. TasksInOrder(e)
      BY <1>1, <2>1 DEF IInv, TypeOK, EventInv, Intact, Up
    <3> QED
      BY <3>1 DEF TasksInOrder
  <2> QED
    BY <2>1 DEF MadeOnce
<1> QED
  BY <1>1, InvHolds, PTL

\* A dependency that is open has all it was given open, while entering as well as while
\* leaving, unless some dependency failed.
THEOREM UsersLeaveBeforeUsed == Spec => []UsersLeaveFirst
<1>1. ASSUME IInv PROVE UsersLeaveFirst
  <2>1. ASSUME NEW e \in Event, NEW n \in live[e], ~failed[e], NEW p \in Params[n]
        PROVE  Target[p] \in live[e]
    <3>1. StackInOrder(e) /\ StackFits(e) /\ n \in Node
      BY <1>1, <2>1 DEF IInv, TypeOK, EventInv, Intact
    <3>2. PICK i \in 1 .. Len(stack[e]) : stack[e][i] = ExitOf("dependency", n)
      BY <3>1 DEF StackFits, On
    <3>3. PICK j \in 1 .. Len(stack[e]) : stack[e][j] = ExitOf("dependency", Target[p])
      BY <3>1, <3>2, ExitFacts DEF StackInOrder
    <3>4. Target[p] \in Node
      BY <3>1, TreeAssumption
    <3> QED
      BY <3>1, <3>3, <3>4 DEF StackFits, On
  <2> QED
    BY <2>1 DEF UsersLeaveFirst
<1> QED
  BY <1>1, InvHolds, PTL

\* An event that ended without a failed dependency left every dependency it entered.
THEOREM NothingIsLeftOpen == Spec => []AllIsLeft
<1>1. ASSUME IInv PROVE AllIsLeft
  <2>1. ASSUME NEW e \in Event, phase[e] = "ended", ~failed[e] PROVE live[e] = {}
    <3>1. StackFits(e) /\ stack[e] = << >> /\ live[e] \subseteq Node
      BY <1>1, <2>1 DEF IInv, TypeOK, EventInv, PhaseFits, Intact
    <3>2. \A n \in Node : ~On(e, ExitOf("dependency", n))
      BY <3>1 DEF On
    <3> QED
      BY <3>1, <3>2 DEF StackFits
  <2> QED
    BY <2>1 DEF AllIsLeft
<1> QED
  BY <1>1, InvHolds, PTL

\* An event that ended without any error cleaned up after every dependency, and no node
\* of the tree, which lives as long as the program, still has an entry of it.
THEOREM NothingStaysBehind == Spec => []NothingIsKept
<1>1. ASSUME IInv PROVE NothingIsKept
  <2>1. ASSUME NEW e \in Event, phase[e] = "ended", ~erred[e]
        PROVE  entries[e] = {} /\ cleaned[e] = {NodeOf(c) : c \in Call}
    <3>1. /\ StackFits(e) /\ KeptIsOnStack(e) /\ ~Up(e) /\ stack[e] = << >>
          /\ live[e] \subseteq Node
      BY <1>1, <2>1 DEF IInv, TypeOK, EventInv, PhaseFits, Intact, Up
    <3>2. \A x : ~On(e, x)
      BY <3>1 DEF On
    <3>3. live[e] = {}
      BY <3>1, <3>2 DEF StackFits
    <3> QED
      BY <2>1, <3>1, <3>2, <3>3 DEF KeptIsOnStack
  <2> QED
    BY <2>1 DEF NothingIsKept
<1> QED
  BY <1>1, InvHolds, PTL

(***************************************************************************)
(* The graph: how the tree is built, for any functions and signatures.     *)
(*                                                                         *)
(* The calls under way are a chain of functions, each used by the one      *)
(* before it, and `resolving` is that chain: a function met again needs    *)
(* itself.  The other direction needs NoneIsCyclic: what a call that       *)
(* returns needs has all been finished before, so that if it needed itself *)
(* one that does would have been finished earlier.                         *)
(***************************************************************************)

\* What may be depended on: a function of the application, or one made by an extraction.
Func == {<<f>> : f \in Function} \cup (Nat \X Nat)
Dependency == [func: Func, useCache: BOOLEAN]
Build ==
    [dependency: Dependency, dependencies: UNION {[D -> Dependency] : D \in SUBSET Nat},
     children: UNION {[D -> Nat] : D \in SUBSET Nat}]

\* A non-empty set of numbers has a least one.
LEMMA LeastNumber ==
    ASSUME NEW S \in SUBSET Nat, S # {}
    PROVE  \E m \in S : \A k \in S : m <= k
<1>1. PICK m \in S : \A k \in S : ~ (<<k, m>> \in OpToRel(<, Nat))
  BY NatLessThanWellFounded, WFMin
<1>2. \A k \in S : ~ (k < m)
  BY <1>1 DEF OpToRel
<1>. QED
  BY <1>2

\* A user-defined dependency is one of a function of the application.
LEMMA UserDefinedIs ==
    ASSUME NEW p \in Parameter, Has(p, "dependency")
    PROVE  \E f \in Function, b \in BOOLEAN :
              UserDefined(p) = [func |-> <<f>>, useCache |-> b]
<1>. DEFINE I == {i \in 1 .. Len(Items(p)) : Items(p)[i].is = "dependency"}
<1>1. Items(p) \in Seq(Item)
  <2>1. p.default \in Item /\ p.metadata \in Seq(Item)
    BY DEF Parameter
  <2>2. <<p.default>> \in Seq(Item)
    BY <2>1
  <2>. QED
    BY <2>1, <2>2, ConcatProperties DEF Items
<1>2. I # {} /\ I \in SUBSET Nat
  BY <1>1 DEF Has, ToSet
<1>3. Min(I) \in I
  BY <1>2, LeastNumber DEF Min
<1>4. SelectInSeq(Items(p), LAMBDA it : it.is = "dependency") = Min(I)
  BY <1>2 DEF SelectInSeq
<1>. DEFINE item == Items(p)[Min(I)]
<1>5. item \in Item /\ item.is = "dependency"
  BY <1>1, <1>3
<1>6. item.func \in Function /\ item.useCache \in BOOLEAN
  BY <1>5 DEF Item
<1>7. UserDefined(p) = [func |-> <<item.func>>, useCache |-> item.useCache]
  BY <1>4 DEF UserDefined
<1>. QED
  BY <1>6, <1>7

\* What a call extracts: functions of the application, those that its own function uses,
\* and new ones of its own.
LEMMA DependenciesAre ==
    ASSUME SignaturesAssumption, sig \in Signatures, NEW func \in Func, NEW k \in Nat
    PROVE  LET deps == Dependencies(func, k)
           IN  /\ deps \in UNION {[D -> Dependency] : D \in SUBSET Nat}
               /\ \A i \in DOMAIN deps :
                    \/ deps[i].func = <<k, i>>
                    \/ \E f, g \in Function :
                        func = <<f>> /\ deps[i].func = <<g>> /\ g \in Uses(f)
               /\ \A f \in Function : \A g \in Uses(f) :
                    func = <<f>> => g \in Function /\ \E i \in DOMAIN deps : deps[i].func = <<g>>
               /\ (\A f \in Function : func # <<f>>) => DOMAIN deps = {}
<1>. DEFINE params == Parameters(func)
            deps == Dependencies(func, k)
<1>1. ASSUME NEW f \in Function, func = <<f>>
      PROVE  params = sig[f] /\ sig[f] \in Seq(Parameter)
  <2>1. Len(func) = 1 /\ func[1] = f
    BY <1>1
  <2>. QED
    BY <2>1, SignaturesAssumption DEF Parameters
<1>2. ASSUME \A f \in Function : func # <<f>>
      PROVE  params = << >>
  <2>1. func \in Nat \X Nat
    BY <1>2 DEF Func
  <2>2. Len(func) = 2
    BY <2>1
  <2>. QED
    BY <2>2 DEF Parameters
<1>3. params \in Seq(Parameter)
  <2>1. << >> \in Seq(Parameter)
    OBVIOUS
  <2>. QED
    BY <1>1, <1>2, <2>1
<1>4. DOMAIN deps = {j \in DOMAIN params : IsDependency(params[j])} /\ DOMAIN deps \in SUBSET Nat
  BY <1>3 DEF Dependencies
<1>5. ASSUME NEW i \in DOMAIN deps
      PROVE  /\ deps[i] \in Dependency
             /\ \/ deps[i].func = <<k, i>>
                \/ \E f, g \in Function : func = <<f>> /\ deps[i].func = <<g>> /\ g \in Uses(f)
  <2>1. i \in DOMAIN params /\ i \in Nat /\ IsDependency(params[i]) /\ params[i] \in Parameter
    BY <1>3, <1>4
  <2>2. deps[i] = ExtractedFrom(params[i], k, i)
    BY <1>4 DEF Dependencies
  <2>3. CASE Injected(params[i])
    <3>1. deps[i] = [func |-> <<k, i>>, useCache |-> TRUE]
      BY <2>2, <2>3 DEF ExtractedFrom, Closure
    <3>. QED
      BY <2>1, <3>1 DEF Dependency, Func
  <2>4. CASE ~Injected(params[i])
    <3>1. deps[i] = UserDefined(params[i]) /\ Has(params[i], "dependency")
      BY <2>1, <2>2, <2>4 DEF ExtractedFrom, IsDependency
    <3>2. PICK g \in Function, b \in BOOLEAN : deps[i] = [func |-> <<g>>, useCache |-> b]
      BY <2>1, <3>1, UserDefinedIs
    <3>3. PICK f \in Function : func = <<f>>
      BY <1>2, <2>1
    <3>4. params[i] \in ToSet(sig[f])
      BY <1>1, <2>1, <3>3 DEF ToSet
    <3>5. g = UserDefined(params[i]).func[1]
      BY <3>1, <3>2
    <3>6. g \in Uses(f)
      BY <2>4, <3>1, <3>4, <3>5 DEF Uses
    <3>. QED
      BY <3>2, <3>3, <3>6 DEF Dependency, Func
  <2>. QED
    BY <2>3, <2>4
<1>6. deps \in UNION {[D -> Dependency] : D \in SUBSET Nat}
  <2>1. deps \in [DOMAIN deps -> Dependency]
    BY <1>5 DEF Dependencies
  <2>. QED
    BY <1>4, <2>1
<1>7. ASSUME NEW f \in Function, NEW g \in Uses(f), func = <<f>>
      PROVE  g \in Function /\ \E i \in DOMAIN deps : deps[i].func = <<g>>
  <2>1. PICK p \in ToSet(sig[f]) :
            Has(p, "dependency") /\ ~Injected(p) /\ g = UserDefined(p).func[1]
    BY <1>7 DEF Uses
  <2>2. PICK i \in DOMAIN params : params[i] = p
    BY <1>1, <1>7, <2>1 DEF ToSet
  <2>3. i \in DOMAIN deps
    BY <1>4, <2>1, <2>2 DEF IsDependency
  <2>4. deps[i] = UserDefined(p)
    BY <1>4, <2>1, <2>2, <2>3 DEF Dependencies, ExtractedFrom
  <2>5. p \in Parameter
    BY <1>3, <2>2
  <2>6. PICK h \in Function, b \in BOOLEAN : UserDefined(p) = [func |-> <<h>>, useCache |-> b]
    BY <2>1, <2>5, UserDefinedIs
  <2>7. g = h
    BY <2>1, <2>6
  <2>8. g \in Function /\ deps[i].func = <<g>>
    BY <2>4, <2>6, <2>7
  <2>. QED
    BY <2>3, <2>8
<1>8. (\A f \in Function : func # <<f>>) => DOMAIN deps = {}
  BY <1>2, <1>4
<1>. HIDE DEF deps
<1>. QED
  BY <1>5, <1>6, <1>7, <1>8 DEF deps

\* The calls that have not returned, and those that have.
Open == {active[n] : n \in DOMAIN active}
Finished == DOMAIN builds \ Open

GraphTypes ==
    /\ sig \in Signatures
    /\ builds \in Seq(Build) /\ active \in Seq(DOMAIN builds)
    /\ 1 \in DOMAIN builds /\ builds[1].dependency = [func |-> <<Handler>>, useCache |-> FALSE]
    /\ \A k \in DOMAIN builds :
          builds[k].dependencies = Dependencies(builds[k].dependency.func, k)

\* Each call under way was made for the parameter its caller has come to.
CallsNest ==
    /\ active # << >> => active[1] = 1
    /\ \A m, n \in DOMAIN active : m < n => active[m] < active[n]
    /\ \A n \in 1 .. Len(active) - 1 : \E i \in Left(active[n]) :
          /\ ComesTo(active[n], i)
          /\ builds[active[n + 1]].dependency = builds[active[n]].dependencies[i]

\* `resolving` holds the functions of the calls under way, each once.
ResolvingFits ==
    /\ resolving = {builds[active[n]].dependency.func : n \in 2 .. Len(active)}
    /\ \A m, n \in 2 .. Len(active) :
          builds[active[m]].dependency.func = builds[active[n]].dependency.func => m = n

ChildrenFit ==
    /\ \A k \in DOMAIN builds : \A i \in DOMAIN builds[k].children :
          /\ i \in DOMAIN builds[k].dependencies
          /\ builds[k].children[i] \in Finished \ {1}
          /\ builds[builds[k].children[i]].dependency = builds[k].dependencies[i]
    /\ \A k \in Finished : Left(k) = {}

\* There is one finished node for a function with use_cache, and `resolved` has it; no
\* other one is being made.
ResolvedFits ==
    /\ \A func \in DOMAIN resolved :
          /\ resolved[func] \in Finished \ {1}
          /\ builds[resolved[func]].dependency = [func |-> func, useCache |-> TRUE]
    /\ \A k \in Finished \ {1} : builds[k].dependency.useCache =>
          /\ builds[k].dependency.func \in DOMAIN resolved
          /\ resolved[builds[k].dependency.func] = k
    /\ \A n \in 2 .. Len(active) : builds[active[n]].dependency.useCache =>
          builds[active[n]].dependency.func \notin DOMAIN resolved

\* A node that two parameters have is one with use_cache.
EdgesFit ==
    \A k, m \in DOMAIN builds : \A i \in DOMAIN builds[k].children :
        \A j \in DOMAIN builds[m].children :
            builds[k].children[i] = builds[m].children[j] =>
                \/ k = m /\ i = j
                \/ builds[builds[k].children[i]].dependency.useCache

\* No function whose node is finished needs itself.
NoneIsCyclic ==
    \A k \in Finished \ {1} : \A f \in Function :
        builds[k].dependency.func = <<f>> => f \notin Needs(f)

\* Together, while nothing was raised: what was raised is not returned from.
BuildInv == CallsNest /\ ResolvingFits /\ ChildrenFit /\ ResolvedFits /\ EdgesFit /\ NoneIsCyclic

GraphInv ==
    /\ GraphTypes
    /\ raised # "" => active = << >>
    /\ raised = "" => BuildInv

\* What a function uses and a call extracts stays the same: the signatures do.
LEMMA SameSignatures ==
    ASSUME sig' = sig
    PROVE  /\ \A f : Uses(f)' = Uses(f) /\ Needs(f)' = Needs(f)
           /\ \A func, k : Dependencies(func, k)' = Dependencies(func, k)
BY DEF Uses, Needs, ClosedUnderUse, Dependencies, Parameters

\* One more child of call k.
LEMMA WithChildIs ==
    ASSUME GraphTypes, NEW k \in DOMAIN builds, NEW i \in Nat, NEW node \in Nat,
           i \notin DOMAIN builds[k].children
    PROVE  LET grown == WithChild(k, i, node)
           IN  /\ grown \in Seq(Build) /\ DOMAIN grown = DOMAIN builds
               /\ Len(grown) = Len(builds)
               /\ \A m \in DOMAIN builds :
                    /\ grown[m].dependency = builds[m].dependency
                    /\ grown[m].dependencies = builds[m].dependencies
                    /\ m # k => grown[m] = builds[m]
               /\ DOMAIN grown[k].children = DOMAIN builds[k].children \cup {i}
               /\ grown[k].children[i] = node
               /\ \A j \in DOMAIN builds[k].children :
                    grown[k].children[j] = builds[k].children[j]
<1>. DEFINE grown == WithChild(k, i, node)
            children == Extended(builds[k].children, i, node)
<1>1. builds \in Seq(Build) /\ builds[k] \in Build
  BY DEF GraphTypes
<1>2. PICK D \in SUBSET Nat : builds[k].children \in [D -> Nat]
  BY <1>1 DEF Build
<1>3. /\ children \in [D \cup {i} -> Nat] /\ children[i] = node
      /\ DOMAIN children = DOMAIN builds[k].children \cup {i}
      /\ \A j \in DOMAIN builds[k].children : children[j] = builds[k].children[j]
  BY <1>2 DEF Extended
<1>4. D \cup {i} \in SUBSET Nat
  OBVIOUS
<1>5. children \in UNION {[E -> Nat] : E \in SUBSET Nat}
  BY <1>3, <1>4
<1>. HIDE DEF children
<1>6. builds[k] = [dependency |-> builds[k].dependency, dependencies |-> builds[k].dependencies,
                   children |-> builds[k].children]
  BY <1>1 DEF Build
<1>7. grown = [builds EXCEPT ![k] = [builds[k] EXCEPT !.children = children]]
  BY DEF WithChild, children
<1>8. [builds[k] EXCEPT !.children = children] \in Build
  BY <1>1, <1>5 DEF Build
<1>9. /\ grown[k] = [builds[k] EXCEPT !.children = children]
      /\ \A m \in DOMAIN builds : m # k => grown[m] = builds[m]
      /\ DOMAIN grown = DOMAIN builds
  BY <1>7
<1>10. grown \in Seq(Build) /\ Len(grown) = Len(builds)
  BY <1>1, <1>7, <1>8
<1>11. /\ grown[k].children = children /\ grown[k].dependency = builds[k].dependency
       /\ grown[k].dependencies = builds[k].dependencies
  BY <1>6, <1>9
<1>. HIDE DEF grown
<1>. QED
  BY <1>3, <1>9, <1>10, <1>11 DEF grown

\* A new call.
LEMMA CalledIs ==
    ASSUME SignaturesAssumption, sig \in Signatures, NEW dependency \in Dependency, NEW k \in Nat
    PROVE  /\ Called(dependency, k) \in Build
           /\ Called(dependency, k).dependency = dependency
           /\ Called(dependency, k).dependencies = Dependencies(dependency.func, k)
           /\ DOMAIN Called(dependency, k).children = {}
<1>1. dependency.func \in Func
  BY DEF Dependency
<1>2. Dependencies(dependency.func, k) \in UNION {[D -> Dependency] : D \in SUBSET Nat}
  BY <1>1, DependenciesAre
<1>. DEFINE deps == Dependencies(dependency.func, k)
            none == << >>
<1>3. none \in [{} -> Nat] /\ DOMAIN none = {}
  OBVIOUS
<1>4. none \in UNION {[D -> Nat] : D \in SUBSET Nat}
  BY <1>3
<1>5. Called(dependency, k) =
        [dependency |-> dependency, dependencies |-> deps, children |-> none]
  BY DEF Called
<1>6. deps \in UNION {[D -> Dependency] : D \in SUBSET Nat}
  BY <1>2
<1>. HIDE DEF deps, none
<1>7. Called(dependency, k) \in Build
  BY <1>4, <1>5, <1>6 DEF Build
<1>. QED
  BY <1>3, <1>5, <1>7 DEF deps

\* The stack of the calls under way, the innermost last, has no call twice.
LEMMA ActiveIs ==
    ASSUME GraphTypes, CallsNest, active # << >>
    PROVE  /\ Len(active) \in Nat /\ Len(active) >= 1 /\ DOMAIN active = 1 .. Len(active)
           /\ Current = active[Len(active)] /\ Current \in DOMAIN builds /\ Current \in Open
           /\ \A n \in DOMAIN active : active[n] \in DOMAIN builds /\ active[n] \in Open
           /\ \A m, n \in DOMAIN active : active[m] = active[n] => m = n
           /\ DOMAIN builds \subseteq Nat
<1>1. active \in Seq(DOMAIN builds) /\ builds \in Seq(Build)
  BY DEF GraphTypes
<1>2. Len(active) \in Nat /\ Len(active) >= 1 /\ DOMAIN active = 1 .. Len(active)
  BY <1>1
<1>3. \A n \in DOMAIN active : active[n] \in DOMAIN builds /\ active[n] \in Open
  BY <1>1 DEF Open
<1>4. DOMAIN builds \subseteq Nat
  BY <1>1
<1>5. ASSUME NEW m \in DOMAIN active, NEW n \in DOMAIN active, active[m] = active[n] PROVE m = n
  <2>1. ~(m < n) /\ ~(n < m)
    BY <1>3, <1>4, <1>5 DEF CallsNest
  <2>. QED
    BY <1>2, <2>1
<1>. QED
  BY <1>2, <1>3, <1>4, <1>5 DEF Current, Last

\* The parameters left to a call, where only the children of another one change.
LEMMA SameLeft ==
    ASSUME NEW k, builds'[k].dependencies = builds[k].dependencies,
           builds'[k].children = builds[k].children
    PROVE  Left(k)' = Left(k)
BY DEF Left

\* The parameters of a call are numbers, its dependencies are dependencies.
LEMMA DependencyIs ==
    ASSUME NEW call \in Build, NEW i \in DOMAIN call.dependencies
    PROVE  i \in Nat /\ call.dependencies[i] \in Dependency
<1>1. PICK D \in SUBSET Nat : call.dependencies \in [D -> Dependency]
  BY DEF Build
<1>. QED
  BY <1>1

\* Priming what a call extracts, and what is left to it.
LEMMA PrimedExtraction ==
    ASSUME sig' = sig
    PROVE  \A m : Dependencies(builds[m].dependency.func, m)' =
                    Dependencies(builds'[m].dependency.func, m)
BY DEF Dependencies, Parameters

\* A call under way other than the innermost one keeps waiting for the same one.
LEMMA NestingStays ==
    ASSUME NEW n, NEW i \in Left(active[n]), ComesTo(active[n], i),
           sig' = sig, active'[n] = active[n], active'[n + 1] = active[n + 1],
           builds'[active[n]] = builds[active[n]],
           builds'[active[n + 1]].dependency = builds[active[n + 1]].dependency,
           builds[active[n + 1]].dependency = builds[active[n]].dependencies[i]
    PROVE  (\E j \in Left(active[n]) :
                /\ ComesTo(active[n], j)
                /\ builds[active[n + 1]].dependency = builds[active[n]].dependencies[j])'
<1>1. i \in Left(active[n])'
  BY DEF Left
<1>2. ComesTo(active[n], i)'
  BY DEF Left, ComesTo, NotAfter, Parameters
<1>. QED
  BY <1>1, <1>2

\* One lemma for each step: a node that is resolved already becomes the child, ...
LEMMA ReuseKeeps ==
    ASSUME SignaturesAssumption, GraphTypes, BuildInv, active # << >>,
           NEW i \in Left(Current), ComesTo(Current, i), Reuse(i)
    PROVE  GraphTypes' /\ BuildInv'
<1>. DEFINE k == Current
            dependency == builds[k].dependencies[i]
            node == resolved[dependency.func]
<1>1. /\ CallsNest /\ ResolvingFits /\ ChildrenFit /\ ResolvedFits /\ EdgesFit /\ NoneIsCyclic
      /\ sig' = sig /\ active' = active /\ resolved' = resolved /\ resolving' = resolving
      /\ builds' = WithChild(k, i, node)
      /\ dependency.useCache /\ dependency.func \in DOMAIN resolved
  BY DEF Reuse, BuildInv, Cached
<1>2. /\ k \in DOMAIN builds /\ k \in Open /\ DOMAIN builds \subseteq Nat
      /\ Len(active) \in Nat /\ Len(active) >= 1 /\ DOMAIN active = 1 .. Len(active)
      /\ k = active[Len(active)]
      /\ \A n \in DOMAIN active : active[n] \in DOMAIN builds
      /\ \A n \in 1 .. Len(active) - 1 : active[n] # k
  BY <1>1, ActiveIs
<1>3. i \in DOMAIN builds[k].dependencies /\ i \notin DOMAIN builds[k].children
  BY DEF Left
<1>4. builds[k] \in Build
  BY <1>2 DEF GraphTypes
<1>5. i \in Nat /\ dependency \in Dependency
  BY <1>3, <1>4, DependencyIs
<1>6. node \in Finished \ {1} /\ builds[node].dependency = dependency
  BY <1>1, <1>5 DEF ResolvedFits, Dependency
<1>7. node \in Nat /\ node \in DOMAIN builds
  BY <1>2, <1>6 DEF Finished
<1>. HIDE DEF k, node
<1>8. /\ builds' \in Seq(Build) /\ DOMAIN builds' = DOMAIN builds
      /\ \A m \in DOMAIN builds :
            /\ builds'[m].dependency = builds[m].dependency
            /\ builds'[m].dependencies = builds[m].dependencies
            /\ m # k => builds'[m] = builds[m]
      /\ DOMAIN builds'[k].children = DOMAIN builds[k].children \cup {i}
      /\ builds'[k].children[i] = node
      /\ \A j \in DOMAIN builds[k].children : builds'[k].children[j] = builds[k].children[j]
  BY <1>1, <1>2, <1>3, <1>5, <1>7, WithChildIs
<1>9. Open' = Open /\ Finished' = Finished
  BY <1>1, <1>8 DEF Open, Finished
<1>10. \A m \in DOMAIN builds \ {k} : Left(m)' = Left(m)
  BY <1>8, SameLeft
<1>11. GraphTypes'
  <2>1. sig' \in Signatures /\ active' \in Seq(DOMAIN builds')
    BY <1>1, <1>8 DEF GraphTypes
  <2>2. \A m \in DOMAIN builds :
            builds'[m].dependencies = Dependencies(builds'[m].dependency.func, m)
    BY <1>8 DEF GraphTypes
  <2>3. 1 \in DOMAIN builds'
        /\ builds'[1].dependency = [func |-> <<Handler>>, useCache |-> FALSE]
    BY <1>8 DEF GraphTypes
  <2>. QED
    BY <1>1, <1>8, <2>1, <2>2, <2>3, PrimedExtraction DEF GraphTypes
<1>12. CallsNest'
  <2>1. ASSUME NEW n \in 1 .. Len(active) - 1
        PROVE  (\E j \in Left(active[n]) :
                    /\ ComesTo(active[n], j)
                    /\ builds[active[n + 1]].dependency = builds[active[n]].dependencies[j])'
    <3>1. PICK j \in Left(active[n]) :
              /\ ComesTo(active[n], j)
              /\ builds[active[n + 1]].dependency = builds[active[n]].dependencies[j]
      BY <1>1 DEF CallsNest
    <3>2. n \in DOMAIN active /\ n + 1 \in DOMAIN active
      BY <1>2
    <3>3. /\ builds'[active[n]] = builds[active[n]]
          /\ builds'[active[n + 1]].dependency = builds[active[n + 1]].dependency
      BY <1>2, <1>8, <3>2
    <3>. QED
      BY <1>1, <3>1, <3>3, NestingStays
  <2>2. /\ active' # << >> => active'[1] = 1
        /\ \A m, n \in DOMAIN active' : m < n => active'[m] < active'[n]
    BY <1>1 DEF CallsNest
  <2>. QED
    BY <1>1, <2>1, <2>2 DEF CallsNest
<1>13. ResolvingFits'
  <2>1. \A n \in 2 .. Len(active) :
            builds'[active'[n]].dependency = builds[active[n]].dependency
    <3>. TAKE n \in 2 .. Len(active)
    <3>1. active[n] \in DOMAIN builds
      BY <1>2
    <3>. QED
      BY <1>1, <1>8, <3>1
  <2>2. resolving' = {builds'[active'[n]].dependency.func : n \in 2 .. Len(active)}
    BY <1>1, <2>1 DEF ResolvingFits
  <2>3. \A m, n \in 2 .. Len(active) :
            builds'[active'[m]].dependency.func = builds'[active'[n]].dependency.func => m = n
    BY <1>1, <2>1 DEF ResolvingFits
  <2>. QED
    BY <1>1, <2>2, <2>3 DEF ResolvingFits
<1>14. ChildrenFit'
  <2>1. ASSUME NEW m \in DOMAIN builds, NEW j \in DOMAIN builds'[m].children
        PROVE  /\ j \in DOMAIN builds'[m].dependencies
               /\ builds'[m].children[j] \in Finished \ {1}
               /\ builds'[builds'[m].children[j]].dependency = builds'[m].dependencies[j]
    <3>1. CASE m # k \/ j # i
      <4>1. j \in DOMAIN builds[m].children /\ builds'[m].children[j] = builds[m].children[j]
        BY <1>8, <2>1, <3>1
      <4>2. builds[m].children[j] \in Finished \ {1}
        BY <1>1, <4>1 DEF ChildrenFit
      <4>. QED
        BY <1>1, <1>8, <4>1, <4>2 DEF ChildrenFit, Finished
    <3>2. CASE m = k /\ j = i
      BY <1>3, <1>6, <1>7, <1>8, <3>2
    <3>. QED
      BY <3>1, <3>2
  <2>2. \A m \in Finished : m \in DOMAIN builds \ {k}
    BY <1>2 DEF Finished
  <2>. QED
    BY <1>1, <1>8, <1>9, <1>10, <2>1, <2>2 DEF ChildrenFit
<1>15. ResolvedFits'
  <2>1. \A m \in Finished : builds'[m].dependency = builds[m].dependency
    BY <1>8 DEF Finished
  <2>2. \A n \in 2 .. Len(active) :
            builds'[active'[n]].dependency = builds[active[n]].dependency
    <3>. TAKE n \in 2 .. Len(active)
    <3>1. active[n] \in DOMAIN builds
      BY <1>2
    <3>. QED
      BY <1>1, <1>8, <3>1
  <2>3. \A func \in DOMAIN resolved :
            /\ resolved[func] \in Finished \ {1}
            /\ builds'[resolved[func]].dependency = [func |-> func, useCache |-> TRUE]
    BY <1>1, <2>1 DEF ResolvedFits
  <2>4. \A m \in Finished \ {1} : builds'[m].dependency.useCache =>
            /\ builds'[m].dependency.func \in DOMAIN resolved
            /\ resolved[builds'[m].dependency.func] = m
    BY <1>1, <2>1 DEF ResolvedFits
  <2>5. \A n \in 2 .. Len(active) : builds'[active'[n]].dependency.useCache =>
            builds'[active'[n]].dependency.func \notin DOMAIN resolved
    BY <1>1, <2>2 DEF ResolvedFits
  <2>. QED
    BY <1>1, <1>9, <2>3, <2>4, <2>5 DEF ResolvedFits
<1>16. EdgesFit'
  <2>1. ASSUME NEW m \in DOMAIN builds, NEW l \in DOMAIN builds,
               NEW p \in DOMAIN builds'[m].children, NEW q \in DOMAIN builds'[l].children,
               builds'[m].children[p] = builds'[l].children[q], ~(m = l /\ p = q)
        PROVE  builds'[builds'[m].children[p]].dependency.useCache
    <3>1. CASE (m = k /\ p = i) \/ (l = k /\ q = i)
      <4>1. builds'[m].children[p] = node
        BY <1>8, <2>1, <3>1
      <4>. QED
        BY <1>1, <1>6, <1>7, <1>8, <4>1
    <3>2. CASE ~(m = k /\ p = i) /\ ~(l = k /\ q = i)
      <4>1. /\ p \in DOMAIN builds[m].children /\ builds'[m].children[p] = builds[m].children[p]
            /\ q \in DOMAIN builds[l].children /\ builds'[l].children[q] = builds[l].children[q]
        BY <1>8, <2>1, <3>2
      <4>2. builds[builds[m].children[p]].dependency.useCache
        BY <1>1, <2>1, <4>1 DEF EdgesFit
      <4>3. builds[m].children[p] \in DOMAIN builds
        BY <1>1, <4>1 DEF ChildrenFit, Finished
      <4>. QED
        BY <1>8, <4>1, <4>2, <4>3
    <3>. QED
      BY <3>1, <3>2
  <2>. QED
    BY <1>8, <2>1 DEF EdgesFit
<1>17. NoneIsCyclic'
  <2>1. \A m \in Finished : builds'[m].dependency = builds[m].dependency
    BY <1>8 DEF Finished
  <2>. QED
    BY <1>1, <1>9, <2>1, SameSignatures DEF NoneIsCyclic
<1>. QED
  BY <1>11, <1>12, <1>13, <1>14, <1>15, <1>16, <1>17 DEF BuildInv

\* ... a call is made for a dependency that is not being resolved, ...
LEMMA DescendKeeps ==
    ASSUME SignaturesAssumption, GraphTypes, BuildInv, active # << >>,
           NEW i \in Left(Current), ComesTo(Current, i), Descend(i)
    PROVE  GraphTypes' /\ BuildInv'
<1>. DEFINE k == Current
            dependency == builds[k].dependencies[i]
            new == Len(builds) + 1
            last == Len(active)
<1>1. /\ CallsNest /\ ResolvingFits /\ ChildrenFit /\ ResolvedFits /\ EdgesFit /\ NoneIsCyclic
      /\ sig' = sig /\ resolved' = resolved
      /\ active' = Append(active, new) /\ builds' = Append(builds, Called(dependency, new))
      /\ resolving' = resolving \cup {dependency.func}
      /\ ~(dependency.useCache /\ dependency.func \in DOMAIN resolved)
      /\ dependency.func \notin resolving
  BY DEF Descend, BuildInv, Cached
<1>2. /\ k \in DOMAIN builds /\ DOMAIN builds \subseteq Nat
      /\ last \in Nat /\ last >= 1 /\ DOMAIN active = 1 .. last
      /\ k = active[last]
      /\ \A n \in DOMAIN active : active[n] \in DOMAIN builds
  BY <1>1, ActiveIs
<1>3. i \in DOMAIN builds[k].dependencies
  BY DEF Left
<1>4. builds[k] \in Build /\ builds \in Seq(Build) /\ active \in Seq(DOMAIN builds)
  BY <1>2 DEF GraphTypes
<1>5. dependency \in Dependency
  BY <1>3, <1>4, DependencyIs
<1>6. new \in Nat /\ DOMAIN builds = 1 .. new - 1
  BY <1>4
<1>. HIDE DEF k, dependency, last
<1>7. /\ Called(dependency, new) \in Build
      /\ Called(dependency, new).dependency = dependency
      /\ Called(dependency, new).dependencies = Dependencies(dependency.func, new)
      /\ DOMAIN Called(dependency, new).children = {}
  BY <1>5, <1>6, CalledIs DEF GraphTypes
<1>8. /\ builds' \in Seq(Build) /\ DOMAIN builds' = DOMAIN builds \cup {new}
      /\ new \notin DOMAIN builds
      /\ \A m \in DOMAIN builds : builds'[m] = builds[m] /\ m < new
      /\ builds'[new] = Called(dependency, new)
  <2>. DEFINE called == Called(dependency, new)
  <2>. HIDE DEF called
  <2>1. called \in Build /\ builds' = Append(builds, called)
    BY <1>1, <1>7 DEF called
  <2>2. /\ builds' \in Seq(Build) /\ DOMAIN builds' = 1 .. new
        /\ \A m \in DOMAIN builds : builds'[m] = builds[m]
        /\ builds'[new] = called
    BY <1>4, <1>6, <2>1
  <2>3. \A m \in DOMAIN builds : m < new
    BY <1>6
  <2>. QED
    BY <1>6, <2>2, <2>3 DEF called
<1>. HIDE DEF new
<1>9. /\ active' \in Seq(DOMAIN builds') /\ Len(active') = last + 1
      /\ DOMAIN active' = 1 .. last + 1
      /\ \A n \in DOMAIN active : active'[n] = active[n]
      /\ active'[last + 1] = new
  <2>1. active \in Seq(DOMAIN builds') /\ new \in DOMAIN builds'
    <3>1. DOMAIN builds \subseteq DOMAIN builds'
      BY <1>8
    <3>2. \A n \in 1 .. last : active[n] \in DOMAIN builds'
      BY <1>2, <3>1
    <3>. QED
      BY <1>2, <1>4, <1>8, <3>2 DEF last
  <2>. QED
    BY <1>1, <1>2, <2>1 DEF last
<1>10. Open' = Open \cup {new} /\ Finished' = Finished
  <2>1. Open' = Open \cup {new}
    <3>1. \A n \in DOMAIN active' : active'[n] \in Open \cup {new}
      BY <1>2, <1>9 DEF Open
    <3>2. \A n \in DOMAIN active : n \in DOMAIN active' /\ active'[n] = active[n]
      BY <1>2, <1>9
    <3>3. last + 1 \in DOMAIN active'
      BY <1>2, <1>9
    <3>. QED
      BY <1>9, <3>1, <3>2, <3>3 DEF Open
  <2>. QED
    BY <1>8, <2>1 DEF Finished
<1>11. GraphTypes'
  <2>1. \A m \in DOMAIN builds' :
            builds'[m].dependencies = Dependencies(builds'[m].dependency.func, m)
    BY <1>7, <1>8 DEF GraphTypes
  <2>2. 1 \in DOMAIN builds'
        /\ builds'[1].dependency = [func |-> <<Handler>>, useCache |-> FALSE]
    BY <1>8 DEF GraphTypes
  <2>3. sig' \in Signatures
    BY <1>1 DEF GraphTypes
  <2>. QED
    BY <1>1, <1>8, <1>9, <2>1, <2>2, <2>3, PrimedExtraction DEF GraphTypes
<1>12. CallsNest'
  <2>1. ASSUME NEW n \in 1 .. last
        PROVE  (\E j \in Left(active[n]) :
                    /\ ComesTo(active[n], j)
                    /\ builds[active[n + 1]].dependency = builds[active[n]].dependencies[j])'
    <3>1. CASE n < last
      <4>1. n \in 1 .. last - 1 /\ n \in DOMAIN active /\ n + 1 \in DOMAIN active
        BY <1>2, <2>1, <3>1
      <4>2. PICK j \in Left(active[n]) :
                /\ ComesTo(active[n], j)
                /\ builds[active[n + 1]].dependency = builds[active[n]].dependencies[j]
        BY <1>1, <4>1 DEF CallsNest, last
      <4>3. /\ active'[n] = active[n] /\ active'[n + 1] = active[n + 1]
            /\ builds'[active[n]] = builds[active[n]]
            /\ builds'[active[n + 1]].dependency = builds[active[n + 1]].dependency
        BY <1>2, <1>8, <1>9, <4>1
      <4>. QED
        BY <1>1, <4>2, <4>3, NestingStays
    <3>2. CASE n = last
      <4>1. active'[n] = k /\ active'[n + 1] = new /\ builds'[k] = builds[k]
        BY <1>2, <1>8, <1>9, <3>2
      <4>2. i \in Left(active[n])' /\ ComesTo(active[n], i)'
        BY <1>1, <4>1 DEF Left, ComesTo, NotAfter, Parameters, k
      <4>3. builds'[new].dependency = builds'[k].dependencies[i]
        BY <1>7, <1>8, <4>1 DEF dependency
      <4>. QED
        BY <4>1, <4>2, <4>3
    <3>. QED
      BY <1>2, <3>1, <3>2
  <2>2. active'[1] = 1
    BY <1>1, <1>2, <1>9 DEF CallsNest
  <2>3. ASSUME NEW m \in DOMAIN active', NEW n \in DOMAIN active', m < n
        PROVE  active'[m] < active'[n]
    <3>1. m \in DOMAIN active /\ active[m] \in DOMAIN builds /\ active'[m] = active[m]
      BY <1>2, <1>9, <2>3
    <3>2. CASE n = last + 1
      BY <1>8, <1>9, <3>1, <3>2
    <3>3. CASE n # last + 1
      BY <1>1, <1>2, <1>9, <2>3, <3>1, <3>3 DEF CallsNest
    <3>. QED
      BY <3>2, <3>3
  <2>4. 1 .. Len(active') - 1 = 1 .. last
    BY <1>2, <1>9
  <2>. QED
    BY <2>1, <2>2, <2>3, <2>4 DEF CallsNest
<1>. DEFINE under == 2 .. last
<1>13. /\ 2 .. Len(active') = under \cup {last + 1}
       /\ last + 1 \notin under
       /\ \A n \in under : builds'[active'[n]].dependency = builds[active[n]].dependency
       /\ builds'[active'[last + 1]].dependency = dependency
  <2>1. \A n \in under : n \in DOMAIN active
    BY <1>2
  <2>2. \A n \in under : builds'[active'[n]].dependency = builds[active[n]].dependency
    BY <1>2, <1>8, <1>9, <2>1
  <2>. QED
    BY <1>2, <1>7, <1>8, <1>9, <2>2
<1>14. ResolvingFits'
  <2>1. resolving = {builds[active[n]].dependency.func : n \in under}
    BY <1>1 DEF ResolvingFits, last
  <2>2. \A m, n \in under :
            builds[active[m]].dependency.func = builds[active[n]].dependency.func => m = n
    BY <1>1 DEF ResolvingFits, last
  <2>. HIDE DEF under
  <2>3. \A n \in under : builds[active[n]].dependency.func # dependency.func
    BY <1>1, <2>1
  <2>4. resolving' = {builds'[active'[n]].dependency.func : n \in under \cup {last + 1}}
    <3>1. \A f \in resolving' :
              \E n \in under \cup {last + 1} : f = builds'[active'[n]].dependency.func
      BY <1>1, <1>13, <2>1
    <3>2. \A n \in under \cup {last + 1} :
              builds'[active'[n]].dependency.func \in resolving'
      BY <1>1, <1>13, <2>1
    <3>. QED
      BY <3>1, <3>2
  <2>5. \A m, n \in under \cup {last + 1} :
            builds'[active'[m]].dependency.func = builds'[active'[n]].dependency.func => m = n
    BY <1>13, <2>2, <2>3
  <2>. QED
    BY <1>13, <2>4, <2>5 DEF ResolvingFits
<1>15. ChildrenFit'
  <2>1. ASSUME NEW m \in DOMAIN builds', NEW j \in DOMAIN builds'[m].children
        PROVE  /\ j \in DOMAIN builds'[m].dependencies
               /\ builds'[m].children[j] \in Finished \ {1}
               /\ builds'[builds'[m].children[j]].dependency = builds'[m].dependencies[j]
    <3>1. m \in DOMAIN builds /\ builds'[m] = builds[m]
      BY <1>7, <1>8, <2>1
    <3>2. builds[m].children[j] \in Finished \ {1}
      BY <1>1, <2>1, <3>1 DEF ChildrenFit
    <3>3. builds[m].children[j] \in DOMAIN builds
      BY <3>2 DEF Finished
    <3>. QED
      BY <1>1, <1>8, <2>1, <3>1, <3>2, <3>3 DEF ChildrenFit
  <2>2. ASSUME NEW m \in Finished PROVE Left(m)' = {}
    <3>1. builds'[m] = builds[m]
      BY <1>8 DEF Finished
    <3>. QED
      BY <1>1, <3>1, SameLeft DEF ChildrenFit
  <2>. QED
    BY <1>10, <2>1, <2>2 DEF ChildrenFit
<1>16. ResolvedFits'
  <2>1. \A m \in Finished : builds'[m].dependency = builds[m].dependency
    BY <1>8 DEF Finished
  <2>2. \A func \in DOMAIN resolved :
            /\ resolved[func] \in Finished \ {1}
            /\ builds'[resolved[func]].dependency = [func |-> func, useCache |-> TRUE]
    BY <1>1, <2>1 DEF ResolvedFits
  <2>3. \A m \in Finished \ {1} : builds'[m].dependency.useCache =>
            /\ builds'[m].dependency.func \in DOMAIN resolved
            /\ resolved[builds'[m].dependency.func] = m
    BY <1>1, <2>1 DEF ResolvedFits
  <2>4. \A n \in under : builds[active[n]].dependency.useCache =>
            builds[active[n]].dependency.func \notin DOMAIN resolved
    BY <1>1 DEF ResolvedFits, last
  <2>. HIDE DEF under
  <2>5. \A n \in under \cup {last + 1} : builds'[active'[n]].dependency.useCache =>
            builds'[active'[n]].dependency.func \notin DOMAIN resolved
    BY <1>1, <1>13, <2>4
  <2>. QED
    BY <1>1, <1>10, <1>13, <2>2, <2>3, <2>5 DEF ResolvedFits
<1>17. EdgesFit'
  <2>1. \A m \in DOMAIN builds' : \A j \in DOMAIN builds'[m].children :
            m \in DOMAIN builds /\ j \in DOMAIN builds[m].children /\ builds'[m] = builds[m]
    BY <1>7, <1>8
  <2>2. \A m \in DOMAIN builds : \A j \in DOMAIN builds[m].children :
            builds[m].children[j] \in DOMAIN builds
    BY <1>1 DEF ChildrenFit, Finished
  <2>. QED
    BY <1>1, <1>8, <2>1, <2>2 DEF EdgesFit
<1>18. NoneIsCyclic'
  <2>1. \A m \in Finished \ {1} : builds'[m].dependency = builds[m].dependency
    BY <1>8 DEF Finished
  <2>. QED
    BY <1>1, <1>10, <2>1, SameSignatures DEF NoneIsCyclic
<1>. QED
  BY <1>11, <1>12, <1>14, <1>15, <1>16, <1>17, <1>18 DEF BuildInv

\* A call with nothing left has a finished node for every function that its own uses.
LEMMA UsesAreFinished ==
    ASSUME SignaturesAssumption, GraphTypes, ChildrenFit, NEW k \in DOMAIN builds, Left(k) = {},
           NEW f \in Function, builds[k].dependency.func = <<f>>, NEW g \in Uses(f)
    PROVE  g \in Function /\ \E m \in Finished \ {1} : builds[m].dependency.func = <<g>>
<1>. DEFINE deps == Dependencies(builds[k].dependency.func, k)
<1>1. builds[k] \in Build /\ k \in Nat /\ builds[k].dependencies = deps
  <2>1. builds \in Seq(Build)
    BY DEF GraphTypes
  <2>2. builds[k].dependencies = Dependencies(builds[k].dependency.func, k)
    BY DEF GraphTypes
  <2>. QED
    BY <2>1, <2>2
<1>2. builds[k].dependency.func \in Func /\ sig \in Signatures
  BY <1>1 DEF Build, Dependency, GraphTypes
<1>3. g \in Function /\ \E i \in DOMAIN deps : deps[i].func = <<g>>
  BY <1>1, <1>2, DependenciesAre
<1>. HIDE DEF deps
<1>4. PICK i \in DOMAIN builds[k].dependencies : builds[k].dependencies[i].func = <<g>>
  BY <1>1, <1>3
<1>5. i \in DOMAIN builds[k].children
  BY <1>4 DEF Left
<1>6. /\ builds[k].children[i] \in Finished \ {1}
      /\ builds[builds[k].children[i]].dependency = builds[k].dependencies[i]
  BY <1>5 DEF ChildrenFit
<1>. QED
  BY <1>3, <1>4, <1>6

\* And for every function that its own needs, directly or not: the functions of the
\* finished nodes are closed under use.
LEMMA NeedsAreFinished ==
    ASSUME SignaturesAssumption, GraphTypes, ChildrenFit, NEW k \in DOMAIN builds, Left(k) = {},
           NEW f \in Function, builds[k].dependency.func = <<f>>, NEW g \in Needs(f)
    PROVE  \E m \in Finished \ {1} : builds[m].dependency.func = <<g>>
<1>. DEFINE S == {h \in Function : \E m \in Finished \ {1} : builds[m].dependency.func = <<h>>}
<1>1. Uses(f) \subseteq S
  BY UsesAreFinished
<1>2. ASSUME NEW h \in S PROVE Uses(h) \subseteq S
  <2>1. PICK m \in Finished \ {1} : builds[m].dependency.func = <<h>>
    OBVIOUS
  <2>2. m \in DOMAIN builds /\ Left(m) = {}
    BY <2>1 DEF ChildrenFit, Finished
  <2>. QED
    BY <2>1, <2>2, UsesAreFinished
<1>3. ClosedUnderUse(S)
  BY <1>2 DEF ClosedUnderUse
<1>4. S \in SUBSET Function
  OBVIOUS
<1>. HIDE DEF S
<1>5. g \in S
  BY <1>1, <1>3, <1>4 DEF Needs
<1>. QED
  BY <1>5 DEF S

\* It does not need itself: otherwise it would have been finished before, as one that does.
LEMMA CompleteIsAcyclic ==
    ASSUME SignaturesAssumption, GraphTypes, ChildrenFit, NoneIsCyclic,
           NEW k \in DOMAIN builds, Left(k) = {},
           NEW f \in Function, builds[k].dependency.func = <<f>>
    PROVE  f \notin Needs(f)
BY NeedsAreFinished DEF NoneIsCyclic

\* ... the innermost call returns: its node is the only one of its function, ...
LEMMA ReturnKeeps ==
    ASSUME SignaturesAssumption, GraphTypes, BuildInv, active # << >>, Return
    PROVE  GraphTypes' /\ BuildInv'
<1>. DEFINE k == Current
            last == Len(active)
            caller == active[last - 1]
            dependency == builds[k].dependency
<1>1. /\ CallsNest /\ ResolvingFits /\ ChildrenFit /\ ResolvedFits /\ EdgesFit /\ NoneIsCyclic
      /\ sig' = sig /\ active' = Front(active) /\ last > 1 /\ Left(k) = {}
      /\ resolving' = resolving \ {dependency.func}
      /\ resolved' = IF dependency.useCache THEN Extended(resolved, dependency.func, k)
                                            ELSE resolved
  BY DEF Return, BuildInv, Removed, Remembered
<1>2. /\ k \in DOMAIN builds /\ k \in Open /\ DOMAIN builds \subseteq Nat
      /\ last \in Nat /\ last >= 1 /\ DOMAIN active = 1 .. last
      /\ k = active[last]
      /\ \A n \in DOMAIN active : active[n] \in DOMAIN builds /\ active[n] \in Open
      /\ \A m, n \in DOMAIN active : active[m] = active[n] => m = n
  BY <1>1, ActiveIs
<1>3. builds[k] \in Build /\ builds \in Seq(Build) /\ active \in Seq(DOMAIN builds)
  BY <1>2 DEF GraphTypes
<1>4. /\ active' \in Seq(DOMAIN builds) /\ Len(active') = last - 1
      /\ DOMAIN active' = 1 .. last - 1
      /\ \A n \in 1 .. last - 1 : active'[n] = active[n]
  <2>1. active' = SubSeq(active, 1, last - 1)
    BY <1>1 DEF Front
  <2>2. \A n \in 1 .. last - 1 : active[n] \in DOMAIN builds
    BY <1>1, <1>2
  <2>. QED
    BY <1>1, <1>2, <1>3, <2>1, <2>2, SubSeqProperties
<1>5. Last(Front(active)) = caller
  BY <1>1, <1>2, <1>4 DEF Last
<1>. HIDE DEF k, last, dependency
<1>6. /\ caller \in DOMAIN builds /\ caller # k /\ caller \in Open
      /\ last - 1 \in DOMAIN active
  BY <1>1, <1>2
<1>7. PICK i \in Left(caller) : ComesTo(caller, i) /\ builds' = WithChild(caller, i, k)
  BY <1>5 DEF Return, k
<1>8. dependency = builds[caller].dependencies[i]
  <2>1. last - 1 \in 1 .. last - 1 /\ (last - 1) + 1 = last
    BY <1>1, <1>2
  <2>2. PICK j \in Left(caller) :
            /\ ComesTo(caller, j)
            /\ builds[active[(last - 1) + 1]].dependency = builds[caller].dependencies[j]
    BY <1>1, <2>1 DEF CallsNest, last
  <2>3. builds[caller] \in Build
    BY <1>3, <1>6
  <2>4. i \in Nat /\ j \in Nat
    BY <1>7, <2>2, <2>3, DependencyIs DEF Left
  <2>. DEFINE func == builds[caller].dependency.func
  <2>5. NotAfter(func, i, j) /\ NotAfter(func, j, i)
    BY <1>7, <2>2 DEF ComesTo
  <2>6. i = j
    BY <2>4, <2>5 DEF NotAfter, Turn
  <2>. QED
    BY <1>2, <2>1, <2>2, <2>6 DEF dependency
<1>9. i \in DOMAIN builds[caller].dependencies /\ i \notin DOMAIN builds[caller].children
  BY <1>7 DEF Left
<1>10. i \in Nat /\ dependency \in Dependency
  BY <1>3, <1>6, <1>8, <1>9, DependencyIs
<1>11. k \in Nat
  BY <1>2
<1>. HIDE DEF caller
<1>12. /\ builds' \in Seq(Build) /\ DOMAIN builds' = DOMAIN builds
       /\ \A m \in DOMAIN builds :
            /\ builds'[m].dependency = builds[m].dependency
            /\ builds'[m].dependencies = builds[m].dependencies
            /\ m # caller => builds'[m] = builds[m]
       /\ DOMAIN builds'[caller].children = DOMAIN builds[caller].children \cup {i}
       /\ builds'[caller].children[i] = k
       /\ \A j \in DOMAIN builds[caller].children :
            builds'[caller].children[j] = builds[caller].children[j]
  BY <1>6, <1>7, <1>9, <1>10, <1>11, WithChildIs
<1>13. /\ Open' = Open \ {k} /\ Finished' = Finished \cup {k}
       /\ k # 1 /\ k \notin Finished /\ caller \notin Finished
  <2>1. Open' = Open \ {k}
    <3>1. \A n \in 1 .. last - 1 : n \in DOMAIN active /\ n # last
      BY <1>1, <1>2
    <3>2. last \in DOMAIN active
      BY <1>2
    <3>3. \A n \in 1 .. last - 1 : active'[n] \in Open \ {k}
      BY <1>2, <1>4, <3>1, <3>2
    <3>4. \A n \in DOMAIN active : n \in 1 .. last - 1 \/ active[n] = k
      BY <1>2
    <3>. QED
      BY <1>4, <3>1, <3>3, <3>4 DEF Open
  <2>2. k # 1
    <3>1. 1 \in DOMAIN active /\ last \in DOMAIN active /\ 1 # last
      BY <1>1, <1>2
    <3>2. active[1] = 1
      BY <1>1, <3>1 DEF CallsNest
    <3>. QED
      BY <1>2, <3>1, <3>2
  <2>. QED
    BY <1>2, <1>6, <1>12, <2>1, <2>2 DEF Finished
<1>14. GraphTypes'
  <2>1. \A m \in DOMAIN builds :
            builds'[m].dependencies = Dependencies(builds'[m].dependency.func, m)
    BY <1>12 DEF GraphTypes
  <2>2. 1 \in DOMAIN builds'
        /\ builds'[1].dependency = [func |-> <<Handler>>, useCache |-> FALSE]
    BY <1>12 DEF GraphTypes
  <2>3. sig' \in Signatures
    BY <1>1 DEF GraphTypes
  <2>. QED
    BY <1>1, <1>4, <1>12, <2>1, <2>2, <2>3, PrimedExtraction DEF GraphTypes
<1>15. CallsNest'
  <2>1. ASSUME NEW n \in 1 .. last - 2
        PROVE  (\E j \in Left(active[n]) :
                    /\ ComesTo(active[n], j)
                    /\ builds[active[n + 1]].dependency = builds[active[n]].dependencies[j])'
    <3>1. n \in 1 .. last - 1 /\ n + 1 \in 1 .. last - 1 /\ n # last - 1
          /\ n \in DOMAIN active /\ n + 1 \in DOMAIN active
      BY <1>1, <1>2
    <3>2. PICK j \in Left(active[n]) :
              /\ ComesTo(active[n], j)
              /\ builds[active[n + 1]].dependency = builds[active[n]].dependencies[j]
      BY <1>1, <3>1 DEF CallsNest, last
    <3>3. active[n] # caller
      BY <1>2, <1>6, <3>1 DEF caller
    <3>4. /\ active'[n] = active[n] /\ active'[n + 1] = active[n + 1]
          /\ builds'[active[n]] = builds[active[n]]
          /\ builds'[active[n + 1]].dependency = builds[active[n + 1]].dependency
      BY <1>2, <1>4, <1>12, <3>1, <3>3
    <3>. QED
      BY <1>1, <3>2, <3>4, NestingStays
  <2>2. active'[1] = 1
    <3>1. 1 \in 1 .. last - 1
      BY <1>1, <1>2
    <3>. QED
      BY <1>1, <1>2, <1>4, <3>1 DEF CallsNest
  <2>3. ASSUME NEW m \in DOMAIN active', NEW n \in DOMAIN active', m < n
        PROVE  active'[m] < active'[n]
    <3>1. m \in DOMAIN active /\ n \in DOMAIN active
      BY <1>1, <1>2, <1>4
    <3>. QED
      BY <1>1, <1>4, <2>3, <3>1 DEF CallsNest
  <2>4. 1 .. Len(active') - 1 = 1 .. last - 2
    BY <1>2, <1>4
  <2>. QED
    BY <2>1, <2>2, <2>3, <2>4 DEF CallsNest
<1>. DEFINE under == 2 .. last - 1
<1>16. /\ 2 .. Len(active) = under \cup {last} /\ 2 .. Len(active') = under
       /\ last \notin under
       /\ \A n \in under : builds'[active'[n]].dependency = builds[active[n]].dependency
       /\ builds[active[last]].dependency = dependency
  <2>1. \A n \in under : n \in DOMAIN active /\ n \in 1 .. last - 1
    BY <1>1, <1>2
  <2>2. \A n \in under : builds'[active'[n]].dependency = builds[active[n]].dependency
    BY <1>2, <1>4, <1>12, <2>1
  <2>3. 2 .. last = under \cup {last}
    BY <1>1, <1>2
  <2>. QED
    BY <1>1, <1>2, <1>4, <2>2, <2>3 DEF last, dependency
<1>. HIDE DEF under
<1>17. ResolvingFits'
  <2>1. resolving = {builds[active[n]].dependency.func : n \in under \cup {last}}
    BY <1>1, <1>16 DEF ResolvingFits
  <2>2. \A m, n \in under \cup {last} :
            builds[active[m]].dependency.func = builds[active[n]].dependency.func => m = n
    BY <1>1, <1>16 DEF ResolvingFits
  <2>3. \A n \in under : builds[active[n]].dependency.func # dependency.func
    BY <1>16, <2>2
  <2>4. resolving' = {builds'[active'[n]].dependency.func : n \in under}
    <3>1. \A f \in resolving' : \E n \in under : f = builds'[active'[n]].dependency.func
      BY <1>1, <1>16, <2>1
    <3>2. \A n \in under : builds'[active'[n]].dependency.func \in resolving'
      BY <1>1, <1>16, <2>1, <2>3
    <3>. QED
      BY <3>1, <3>2
  <2>5. \A m, n \in under :
            builds'[active'[m]].dependency.func = builds'[active'[n]].dependency.func => m = n
    BY <1>16, <2>2
  <2>. QED
    BY <1>16, <2>4, <2>5 DEF ResolvingFits
<1>18. ChildrenFit'
  <2>1. ASSUME NEW m \in DOMAIN builds, NEW j \in DOMAIN builds'[m].children
        PROVE  /\ j \in DOMAIN builds'[m].dependencies
               /\ builds'[m].children[j] \in (Finished \cup {k}) \ {1}
               /\ builds'[builds'[m].children[j]].dependency = builds'[m].dependencies[j]
    <3>1. CASE m # caller \/ j # i
      <4>1. j \in DOMAIN builds[m].children /\ builds'[m].children[j] = builds[m].children[j]
        BY <1>12, <2>1, <3>1
      <4>2. builds[m].children[j] \in Finished \ {1}
        BY <1>1, <4>1 DEF ChildrenFit
      <4>3. builds[m].children[j] \in DOMAIN builds
        BY <4>2 DEF Finished
      <4>. QED
        BY <1>1, <1>12, <4>1, <4>2, <4>3 DEF ChildrenFit
    <3>2. CASE m = caller /\ j = i
      BY <1>2, <1>8, <1>9, <1>12, <1>13, <3>2 DEF dependency
    <3>. QED
      BY <3>1, <3>2
  <2>2. ASSUME NEW m \in Finished \cup {k} PROVE Left(m)' = {}
    <3>1. m \in DOMAIN builds /\ m # caller /\ Left(m) = {}
      BY <1>1, <1>2, <1>6, <1>13 DEF ChildrenFit, Finished
    <3>2. builds'[m] = builds[m]
      BY <1>12, <3>1
    <3>. QED
      BY <3>1, <3>2, SameLeft
  <2>. QED
    BY <1>12, <1>13, <2>1, <2>2 DEF ChildrenFit
<1>19. ResolvedFits'
  <2>1. \A m \in Finished \cup {k} : builds'[m].dependency = builds[m].dependency
    BY <1>2, <1>12 DEF Finished
  <2>2. dependency.useCache => dependency.func \notin DOMAIN resolved
    BY <1>1, <1>16 DEF ResolvedFits
  <2>3. dependency.useCache =>
            /\ DOMAIN resolved' = DOMAIN resolved \cup {dependency.func}
            /\ resolved'[dependency.func] = k
            /\ \A func \in DOMAIN resolved : resolved'[func] = resolved[func]
    BY <1>1, <2>2 DEF Extended
  <2>4. ~dependency.useCache => resolved' = resolved
    BY <1>1
  <2>5. dependency.useCache => dependency = [func |-> dependency.func, useCache |-> TRUE]
    BY <1>10 DEF Dependency
  <2>6. builds[k].dependency = dependency
    BY DEF dependency
  <2>. HIDE DEF dependency
  <2>7. \A func \in DOMAIN resolved' :
            /\ resolved'[func] \in (Finished \cup {k}) \ {1}
            /\ builds'[resolved'[func]].dependency = [func |-> func, useCache |-> TRUE]
    <3>1. ASSUME NEW func \in DOMAIN resolved
          PROVE  /\ resolved[func] \in Finished \ {1}
                 /\ builds'[resolved[func]].dependency = [func |-> func, useCache |-> TRUE]
      BY <1>1, <2>1, <3>1 DEF ResolvedFits
    <3>2. CASE dependency.useCache
      <4>1. builds'[k].dependency = [func |-> dependency.func, useCache |-> TRUE]
        BY <2>1, <2>5, <2>6, <3>2
      <4>2. k \in (Finished \cup {k}) \ {1}
        BY <1>13
      <4>. QED
        BY <2>3, <3>1, <3>2, <4>1, <4>2
    <3>3. CASE ~dependency.useCache
      BY <2>4, <3>1, <3>3
    <3>. QED
      BY <3>2, <3>3
  <2>8. \A m \in (Finished \cup {k}) \ {1} : builds'[m].dependency.useCache =>
            /\ builds'[m].dependency.func \in DOMAIN resolved'
            /\ resolved'[builds'[m].dependency.func] = m
    BY <1>1, <1>13, <2>1, <2>2, <2>3, <2>4, <2>6 DEF ResolvedFits
  <2>9. \A n \in under : builds[active[n]].dependency.func # dependency.func
    BY <1>1, <1>16 DEF ResolvingFits
  <2>10. \A n \in under : builds'[active'[n]].dependency.useCache =>
            builds'[active'[n]].dependency.func \notin DOMAIN resolved'
    BY <1>1, <1>16, <2>3, <2>4, <2>9 DEF ResolvedFits
  <2>. QED
    BY <1>13, <1>16, <2>7, <2>8, <2>10 DEF ResolvedFits
<1>20. EdgesFit'
  <2>1. \A m \in DOMAIN builds : \A p \in DOMAIN builds[m].children :
            /\ builds[m].children[p] \in DOMAIN builds
            /\ builds[m].children[p] # k
    BY <1>1, <1>13 DEF ChildrenFit, Finished
  <2>2. ASSUME NEW m \in DOMAIN builds, NEW l \in DOMAIN builds,
               NEW p \in DOMAIN builds'[m].children, NEW q \in DOMAIN builds'[l].children,
               builds'[m].children[p] = builds'[l].children[q], ~(m = l /\ p = q)
        PROVE  builds'[builds'[m].children[p]].dependency.useCache
    <3>1. \A n \in DOMAIN builds : \A j \in DOMAIN builds'[n].children :
              \/ n = caller /\ j = i /\ builds'[n].children[j] = k
              \/ j \in DOMAIN builds[n].children /\ builds'[n].children[j] = builds[n].children[j]
      BY <1>12
    <3>2. /\ p \in DOMAIN builds[m].children /\ builds'[m].children[p] = builds[m].children[p]
          /\ q \in DOMAIN builds[l].children /\ builds'[l].children[q] = builds[l].children[q]
      BY <2>1, <2>2, <3>1
    <3>3. builds[builds[m].children[p]].dependency.useCache
      BY <1>1, <2>2, <3>2 DEF EdgesFit
    <3>. QED
      BY <1>12, <2>1, <3>2, <3>3
  <2>. QED
    BY <1>12, <2>2 DEF EdgesFit
<1>21. NoneIsCyclic'
  <2>1. \A m \in Finished \cup {k} : builds'[m].dependency = builds[m].dependency
    BY <1>2, <1>12 DEF Finished
  <2>2. \A f \in Function : dependency.func = <<f>> => f \notin Needs(f)
    BY <1>1, <1>2, CompleteIsAcyclic DEF dependency
  <2>3. \A m \in (Finished \cup {k}) \ {1} : \A f \in Function :
            builds'[m].dependency.func = <<f>> => f \notin Needs(f)
    BY <1>1, <2>1, <2>2 DEF NoneIsCyclic, dependency
  <2>. QED
    BY <1>1, <1>13, <2>3, SameSignatures DEF NoneIsCyclic
<1>. QED
  BY <1>14, <1>15, <1>17, <1>18, <1>19, <1>20, <1>21 DEF BuildInv

\* ... and the first call returns, which finishes the tree.
LEMMA FinishKeeps ==
    ASSUME GraphTypes, BuildInv, active # << >>, Finish
    PROVE  GraphTypes' /\ BuildInv'
<1>1. /\ CallsNest /\ ResolvingFits /\ ChildrenFit /\ ResolvedFits /\ EdgesFit /\ NoneIsCyclic
      /\ sig' = sig /\ active' = << >> /\ builds' = builds /\ resolved' = resolved
      /\ resolving' = resolving /\ Len(active) = 1 /\ Left(Current) = {}
  BY DEF Finish, BuildInv
<1>2. active[1] = 1 /\ Current = 1 /\ Open = {1}
  <2>1. DOMAIN active = {1} /\ Current = active[1]
    BY <1>1, ActiveIs
  <2>2. active[1] = 1
    BY <1>1 DEF CallsNest
  <2>. QED
    BY <2>1, <2>2 DEF Open
<1>3. Open' = {} /\ Finished' = DOMAIN builds /\ Finished = DOMAIN builds \ {1}
  <2>1. DOMAIN active' = {}
    BY <1>1
  <2>2. Open' = {}
    BY <2>1 DEF Open
  <2>. QED
    BY <1>1, <1>2, <2>2 DEF Finished
<1>4. \A m : Left(m)' = Left(m)
  BY <1>1 DEF Left
<1>5. GraphTypes'
  <2>1. \A m \in DOMAIN builds' :
            builds'[m].dependencies = Dependencies(builds'[m].dependency.func, m)
    BY <1>1 DEF GraphTypes
  <2>2. << >> \in Seq(DOMAIN builds)
    OBVIOUS
  <2>. QED
    BY <1>1, <2>1, <2>2, PrimedExtraction DEF GraphTypes
<1>6. CallsNest'
  BY <1>1 DEF CallsNest
<1>7. 2 .. Len(active) = {} /\ 2 .. Len(active') = {}
  BY <1>1
<1>8. ResolvingFits'
  BY <1>1, <1>7 DEF ResolvingFits
<1>9. ChildrenFit'
  <2>1. \A m \in Finished' : Left(m) = {}
    BY <1>1, <1>2, <1>3 DEF ChildrenFit
  <2>. QED
    BY <1>1, <1>3, <1>4, <2>1 DEF ChildrenFit
<1>10. ResolvedFits'
  <2>1. Finished' \ {1} = Finished \ {1}
    BY <1>3
  <2>. QED
    BY <1>1, <1>7, <2>1 DEF ResolvedFits
<1>11. EdgesFit'
  BY <1>1 DEF EdgesFit
<1>12. NoneIsCyclic'
  BY <1>1, <1>3, SameSignatures DEF NoneIsCyclic
<1>. QED
  BY <1>5, <1>6, <1>8, <1>9, <1>10, <1>11, <1>12 DEF BuildInv

\* An exception ends the build where it is.
LEMMA RaisingKeeps ==
    ASSUME GraphTypes, NEW error, BuildRaises(error)
    PROVE  GraphTypes'
<1>1. \A m \in DOMAIN builds' :
          builds'[m].dependencies = Dependencies(builds'[m].dependency.func, m)
  BY DEF GraphTypes, BuildRaises
<1>2. << >> \in Seq(DOMAIN builds)
  OBVIOUS
<1>. QED
  BY <1>1, <1>2, PrimedExtraction DEF GraphTypes, BuildRaises

\* A call that waits is one of a function of the application.
LEMMA WhoWaits ==
    ASSUME SignaturesAssumption, GraphTypes, NEW k \in DOMAIN builds, NEW i \in Left(k)
    PROVE  \E f \in Function :
              /\ builds[k].dependency.func = <<f>>
              /\ \/ builds[k].dependencies[i].func = <<k, i>>
                 \/ \E g \in Uses(f) :
                      g \in Function /\ builds[k].dependencies[i].func = <<g>>
<1>. DEFINE deps == Dependencies(builds[k].dependency.func, k)
<1>1. builds[k] \in Build /\ k \in Nat /\ builds[k].dependencies = deps
  <2>1. builds \in Seq(Build)
    BY DEF GraphTypes
  <2>2. builds[k].dependencies = Dependencies(builds[k].dependency.func, k)
    BY DEF GraphTypes
  <2>. QED
    BY <2>1, <2>2
<1>2. builds[k].dependency.func \in Func /\ sig \in Signatures
  BY <1>1 DEF Build, Dependency, GraphTypes
<1>3. /\ \A j \in DOMAIN deps :
            \/ deps[j].func = <<k, j>>
            \/ \E f, g \in Function :
                builds[k].dependency.func = <<f>> /\ deps[j].func = <<g>> /\ g \in Uses(f)
      /\ (\A f \in Function : builds[k].dependency.func # <<f>>) => DOMAIN deps = {}
  BY <1>1, <1>2, DependenciesAre
<1>. HIDE DEF deps
<1>4. i \in DOMAIN deps
  BY <1>1 DEF Left
<1>5. PICK f \in Function : builds[k].dependency.func = <<f>>
  BY <1>3, <1>4
<1>6. \A h \in Function : builds[k].dependency.func = <<h>> => h = f
  BY <1>5
<1>. QED
  BY <1>1, <1>3, <1>4, <1>5, <1>6

\* The functions on the way to the innermost call, each used by the one before.
LEMMA TheWayHere ==
    ASSUME SignaturesAssumption, GraphTypes, CallsNest, active # << >>,
           NEW i \in Left(Current)
    PROVE  LET last == Len(active)
               f(m) == builds[active[m]].dependency.func[1]
           IN  /\ f(1) = Handler
               /\ \A m \in 1 .. last :
                    f(m) \in Function /\ builds[active[m]].dependency.func = <<f(m)>>
               /\ \A m \in 1 .. last - 1 : f(m + 1) \in Uses(f(m))
<1>. DEFINE last == Len(active)
            f(m) == builds[active[m]].dependency.func[1]
<1>1. /\ last \in Nat /\ last >= 1 /\ DOMAIN active = 1 .. last /\ Current = active[last]
      /\ \A m \in 1 .. last : active[m] \in DOMAIN builds
  BY ActiveIs
<1>2. \A m \in 1 .. last - 1 : m + 1 \in 1 .. last /\ m \in 1 .. last /\ \E j \in Left(active[m]) :
          builds[active[m + 1]].dependency = builds[active[m]].dependencies[j]
  <2>1. \A m \in 1 .. last - 1 : \E j \in Left(active[m]) :
            builds[active[m + 1]].dependency = builds[active[m]].dependencies[j]
    BY DEF CallsNest
  <2>. HIDE DEF last
  <2>2. \A m \in 1 .. last - 1 : m + 1 \in 1 .. last /\ m \in 1 .. last
    BY <1>1
  <2>. QED
    BY <2>1, <2>2
<1>3. \A m \in 1 .. last : \E j : j \in Left(active[m])
  <2>1. i \in Left(active[last])
    BY <1>1
  <2>. HIDE DEF last
  <2>2. \A m \in 1 .. last : m = last \/ m \in 1 .. last - 1
    BY <1>1
  <2>. QED
    BY <1>2, <2>1, <2>2
<1>4. ASSUME NEW m \in 1 .. last
      PROVE  f(m) \in Function /\ builds[active[m]].dependency.func = <<f(m)>>
  <2>1. PICK j : j \in Left(active[m])
    BY <1>3
  <2>2. PICK h \in Function : builds[active[m]].dependency.func = <<h>>
    BY <1>1, <2>1, WhoWaits
  <2>. QED
    BY <2>2
<1>5. ASSUME NEW m \in 1 .. last - 1
      PROVE  f(m + 1) \in Uses(f(m))
  <2>1. PICK j \in Left(active[m]) :
            builds[active[m + 1]].dependency = builds[active[m]].dependencies[j]
    BY <1>2
  <2>2. m \in 1 .. last /\ m + 1 \in 1 .. last
    BY <1>2
  <2>3. PICK h \in Function :
            /\ builds[active[m]].dependency.func = <<h>>
            /\ \/ builds[active[m]].dependencies[j].func = <<active[m], j>>
               \/ \E g \in Uses(h) :
                    g \in Function /\ builds[active[m]].dependencies[j].func = <<g>>
    BY <1>1, <2>1, <2>2, WhoWaits
  <2>4. builds[active[m + 1]].dependency.func = <<f(m + 1)>>
    BY <1>4, <2>2
  <2>5. <<f(m + 1)>> # <<active[m], j>>
    OBVIOUS
  <2>6. PICK g \in Uses(h) : <<f(m + 1)>> = <<g>>
    BY <2>1, <2>3, <2>4, <2>5
  <2>7. f(m) = h /\ f(m + 1) = g
    BY <2>3, <2>6
  <2>. QED
    BY <2>6, <2>7
<1>6. f(1) = Handler
  <2>1. active[1] = 1
    BY DEF CallsNest
  <2>2. builds[1].dependency.func = <<Handler>>
    BY DEF GraphTypes
  <2>. QED
    BY <2>1, <2>2
<1>. HIDE DEF f, last
<1>. QED
  BY <1>4, <1>5, <1>6 DEF f, last

\* What is used along a chain is in every set that has what its start uses.
LEMMA ChainReaches ==
    ASSUME NEW last \in Nat, NEW chain, NEW first \in 1 .. last, NEW S,
           \A m \in 1 .. last - 1 : chain[m + 1] \in Uses(chain[m]),
           Uses(chain[first]) \subseteq S, ClosedUnderUse(S)
    PROVE  \A m \in first + 1 .. last : chain[m] \in S
<1>. DEFINE Bad == {m \in first + 1 .. last : chain[m] \notin S}
<1>1. SUFFICES ASSUME Bad # {} PROVE FALSE
  OBVIOUS
<1>2. Bad \in SUBSET Nat
  OBVIOUS
<1>3. PICK m \in Bad : \A n \in Bad : m <= n
  BY <1>1, <1>2, LeastNumber
<1>4. m - 1 \in 1 .. last - 1 /\ (m - 1) + 1 = m
  BY <1>3
<1>5. chain[m] \in Uses(chain[m - 1])
  BY <1>4
<1>6. CASE m - 1 = first
  BY <1>3, <1>5, <1>6
<1>7. CASE m - 1 # first
  <2>1. m - 1 \in first + 1 .. last /\ ~(m <= m - 1)
    BY <1>3, <1>7
  <2>2. chain[m - 1] \in S
    BY <1>3, <2>1
  <2>. QED
    BY <1>3, <1>5, <2>2 DEF ClosedUnderUse
<1>. QED
  BY <1>6, <1>7

\* A function met again on the way to itself needs itself, and the handler needs it.
LEMMA RefusedIsCyclic ==
    ASSUME SignaturesAssumption, GraphTypes, CallsNest, ResolvingFits, active # << >>,
           NEW i \in Left(Current), builds[Current].dependencies[i].func \in resolving
    PROVE  Cyclic
<1>. DEFINE last == Len(active)
            chain == [m \in 1 .. last |-> builds[active[m]].dependency.func[1]]
            dependency == builds[Current].dependencies[i]
<1>1. /\ last \in Nat /\ last >= 1 /\ Current = active[last]
      /\ \A m \in 1 .. last : active[m] \in DOMAIN builds
      /\ \A m, n \in 1 .. last : active[m] = active[n] => m = n
  BY ActiveIs
<1>2. /\ chain[1] = Handler
      /\ \A m \in 1 .. last :
            chain[m] \in Function /\ builds[active[m]].dependency.func = <<chain[m]>>
      /\ \A m \in 1 .. last - 1 : chain[m + 1] \in Uses(chain[m])
  <2>1. \A m \in 1 .. last - 1 : m \in 1 .. last /\ m + 1 \in 1 .. last
    <3>. HIDE DEF last
    <3>. QED
      BY <1>1
  <2>2. 1 \in 1 .. last
    BY <1>1
  <2>. QED
    BY <2>1, <2>2, TheWayHere
<1>3. PICK j \in 2 .. last : dependency.func = builds[active[j]].dependency.func
  BY DEF ResolvingFits
<1>. HIDE DEF chain, last
<1>4. j \in 1 .. last /\ last \in 1 .. last /\ j - 1 \in 1 .. last
  BY <1>1, <1>3
<1>5. dependency.func = <<chain[j]>>
  BY <1>2, <1>3, <1>4
<1>6. chain[j] \in Uses(chain[last])
  <2>1. PICK f \in Function :
            /\ builds[active[last]].dependency.func = <<f>>
            /\ \/ dependency.func = <<active[last], i>>
               \/ \E g \in Uses(f) : g \in Function /\ dependency.func = <<g>>
    BY <1>1, <1>4, WhoWaits
  <2>2. f = chain[last]
    BY <1>2, <1>4, <2>1
  <2>3. <<chain[j]>> # <<active[last], i>>
    OBVIOUS
  <2>. QED
    BY <1>5, <2>1, <2>2, <2>3
<1>7. chain[j] \in Needs(Handler)
  <2>1. ASSUME NEW S \in SUBSET Function, Uses(Handler) \subseteq S, ClosedUnderUse(S)
        PROVE  chain[j] \in S
    <3>1. 1 \in 1 .. last /\ j \in 1 + 1 .. last
      BY <1>1, <1>3
    <3>. QED
      BY <1>1, <1>2, <2>1, <3>1, ChainReaches
  <2>. QED
    BY <1>2, <1>4, <2>1 DEF Needs
<1>8. chain[j] \in Needs(chain[j])
  <2>1. ASSUME NEW S \in SUBSET Function, Uses(chain[j]) \subseteq S, ClosedUnderUse(S)
        PROVE  chain[j] \in S
    <3>1. CASE j = last
      BY <1>6, <2>1, <3>1
    <3>2. CASE j # last
      <4>1. last \in j + 1 .. last
        BY <1>1, <1>4, <3>2
      <4>2. chain[last] \in S
        BY <1>1, <1>2, <1>4, <2>1, <4>1, ChainReaches
      <4>. QED
        BY <1>6, <2>1, <4>2 DEF ClosedUnderUse
    <3>. QED
      BY <3>1, <3>2
  <2>. QED
    BY <1>2, <1>4, <2>1 DEF Needs
<1>. QED
  BY <1>7, <1>8 DEF Cyclic

\* What was built to the end, as the only call left has nothing left to come to.
LEMMA NothingUnderWay ==
    ASSUME GraphTypes, CallsNest, ChildrenFit, Len(active) = 1, Left(Current) = {}
    PROVE  /\ Current = 1 /\ Finished = DOMAIN builds \ {1}
           /\ \A k \in DOMAIN builds : Left(k) = {}
<1>1. DOMAIN active = {1} /\ Current = active[1] /\ active # << >>
  <2>1. active # << >>
    OBVIOUS
  <2>. QED
    BY <2>1, ActiveIs
<1>2. active[1] = 1
  BY <1>1 DEF CallsNest
<1>3. Finished = DOMAIN builds \ {1}
  BY <1>1, <1>2 DEF Finished, Open
<1>. QED
  BY <1>1, <1>2, <1>3 DEF ChildrenFit

\* A tree that was built to the end has no function that needs itself.
LEMMA FinishedIsAcyclic ==
    ASSUME SignaturesAssumption, GraphTypes, CallsNest, ChildrenFit, NoneIsCyclic,
           Len(active) = 1, Left(Current) = {}
    PROVE  ~Cyclic
<1>1. 1 \in DOMAIN builds /\ builds[1].dependency.func = <<Handler>> /\ Left(1) = {}
  BY NothingUnderWay DEF GraphTypes
<1>2. Handler \in Function
  BY SignaturesAssumption
<1>3. Handler \notin Needs(Handler)
  BY <1>1, <1>2, CompleteIsAcyclic
<1>4. ASSUME NEW f \in Needs(Handler) PROVE f \notin Needs(f)
  <2>1. PICK m \in Finished \ {1} : builds[m].dependency.func = <<f>>
    BY <1>1, <1>2, NeedsAreFinished
  <2>2. f \in Function
    BY DEF Needs
  <2>. QED
    BY <2>1, <2>2 DEF NoneIsCyclic
<1>. QED
  BY <1>3, <1>4 DEF Cyclic

\* Its nodes are shared as use_cache says: `resolved` has the one node of a function with
\* use_cache, and any other node has one parameter.
LEMMA FinishedIsShared ==
    ASSUME GraphTypes, CallsNest, ChildrenFit, ResolvedFits, EdgesFit,
           Len(active) = 1, Left(Current) = {}
    PROVE  SharedAsAsked
<1>1. \A k \in DOMAIN builds : Left(k) = {}
  BY NothingUnderWay
<1>2. ASSUME NEW k \in DOMAIN builds, NEW i \in DOMAIN builds[k].children,
             NEW m \in DOMAIN builds, NEW j \in DOMAIN builds[m].children,
             <<k, i>> # <<m, j>>
      PROVE  builds[m].children[j] = builds[k].children[i] <=>
                /\ builds[k].dependencies[i] = builds[m].dependencies[j]
                /\ builds[k].dependencies[i].useCache
  <2>1. /\ builds[k].children[i] \in Finished \ {1}
        /\ builds[builds[k].children[i]].dependency = builds[k].dependencies[i]
        /\ builds[m].children[j] \in Finished \ {1}
        /\ builds[builds[m].children[j]].dependency = builds[m].dependencies[j]
    BY DEF ChildrenFit
  <2>2. ASSUME builds[m].children[j] = builds[k].children[i]
        PROVE  builds[k].dependencies[i].useCache
    BY <1>2, <2>1, <2>2 DEF EdgesFit
  <2>3. ASSUME builds[k].dependencies[i] = builds[m].dependencies[j],
               builds[k].dependencies[i].useCache
        PROVE  builds[m].children[j] = builds[k].children[i]
    BY <2>1, <2>3 DEF ResolvedFits
  <2>. QED
    BY <2>1, <2>2, <2>3
<1>. QED
  BY <1>1, <1>2 DEF SharedAsAsked, ChildrenFit

\* A sequence of one element.
LEMMA OneElement ==
    ASSUME NEW S, NEW e \in S
    PROVE  <<e>> \in Seq(S) /\ DOMAIN <<e>> = {1} /\ Len(<<e>>) = 1 /\ <<e>>[1] = e
OBVIOUS

\* get_dependency_tree makes the first call with nothing resolved.
LEMMA GraphInvInit ==
    ASSUME SignaturesAssumption, GraphInit
    PROVE  GraphInv
<1>. DEFINE asked == [func |-> <<Handler>>, useCache |-> FALSE]
            called == Called(asked, 1)
<1>1. asked \in Dependency /\ sig \in Signatures
  BY SignaturesAssumption DEF GraphInit, Dependency, Func
<1>2. /\ called \in Build /\ called.dependency = asked
      /\ called.dependencies = Dependencies(asked.func, 1) /\ DOMAIN called.children = {}
  BY <1>1, CalledIs
<1>. HIDE DEF called
<1>3. /\ builds = <<called>> /\ active = <<1>> /\ resolved = << >> /\ resolving = {} /\ raised = ""
  BY DEF GraphInit, called
<1>4. /\ builds \in Seq(Build) /\ DOMAIN builds = {1} /\ builds[1] = called
      /\ active \in Seq(DOMAIN builds) /\ Len(active) = 1 /\ DOMAIN active = {1} /\ active[1] = 1
      /\ 2 .. Len(active) = {} /\ 1 .. Len(active) - 1 = {} /\ DOMAIN resolved = {}
  <2>0. builds = <<called>> /\ called \in Build /\ active = <<1>> /\ resolved = << >>
    BY <1>2, <1>3
  <2>1. builds \in Seq(Build) /\ DOMAIN builds = {1} /\ builds[1] = called
    BY <2>0, OneElement
  <2>2. /\ active \in Seq(DOMAIN builds) /\ Len(active) = 1
        /\ DOMAIN active = {1} /\ active[1] = 1
    BY <2>0, <2>1, OneElement
  <2>3. 2 .. Len(active) = {} /\ 1 .. Len(active) - 1 = {}
    BY <2>2
  <2>4. DOMAIN resolved = {}
    BY <2>0
  <2>. QED
    BY <2>1, <2>2, <2>3, <2>4
<1>5. Open = {1} /\ Finished = {}
  BY <1>4 DEF Open, Finished
<1>6. GraphTypes
  BY <1>1, <1>2, <1>4 DEF GraphTypes
<1>7. CallsNest
  BY <1>4 DEF CallsNest
<1>8. ResolvingFits
  BY <1>3, <1>4 DEF ResolvingFits
<1>9. ChildrenFit
  BY <1>2, <1>4, <1>5 DEF ChildrenFit
<1>10. ResolvedFits
  BY <1>4, <1>5 DEF ResolvedFits
<1>11. EdgesFit
  BY <1>2, <1>4 DEF EdgesFit
<1>12. NoneIsCyclic
  BY <1>5 DEF NoneIsCyclic
<1>. QED
  BY <1>3, <1>6, <1>7, <1>8, <1>9, <1>10, <1>11, <1>12 DEF GraphInv, BuildInv

\* Every step keeps the invariant; what raised is not looked at any more.
LEMMA GraphInvStep ==
    ASSUME SignaturesAssumption, GraphInv, [GraphNext]_graphVars
    PROVE  GraphInv'
<1>1. CASE UNCHANGED graphVars
  <2>1. GraphTypes'
    BY <1>1, PrimedExtraction DEF GraphInv, GraphTypes, graphVars
  <2>2. ASSUME BuildInv PROVE BuildInv'
    <3>1. Open' = Open /\ Finished' = Finished
      BY <1>1 DEF Open, Finished, graphVars
    <3>2. CallsNest' /\ ResolvingFits' /\ EdgesFit'
      BY <1>1, <2>2 DEF BuildInv, CallsNest, ResolvingFits, EdgesFit,
                            Left, ComesTo, NotAfter, Parameters, graphVars
    <3>3. ChildrenFit' /\ ResolvedFits'
      BY <1>1, <2>2, <3>1 DEF BuildInv, ChildrenFit, ResolvedFits, Left, graphVars
    <3>4. NoneIsCyclic'
      BY <1>1, <2>2, <3>1, SameSignatures DEF BuildInv, NoneIsCyclic, graphVars
    <3>. QED
      BY <3>2, <3>3, <3>4 DEF BuildInv
  <2>. QED
    BY <1>1, <2>1, <2>2 DEF GraphInv, graphVars
<1>2. CASE GraphNext
  <2>1. active # << >> /\ raised = "" /\ GraphTypes /\ BuildInv
    BY <1>2 DEF GraphNext, GraphInv
  <2>2. ASSUME NEW error, error # "", BuildRaises(error) PROVE GraphInv'
    <3>1. raised' = error /\ active' = << >>
      BY <2>2 DEF BuildRaises
    <3>. QED
      BY <2>1, <2>2, <3>1, RaisingKeeps DEF GraphInv
  <2>3. ASSUME NEW i \in Left(Current), ComesTo(Current, i), Reuse(i) PROVE GraphInv'
    BY <2>1, <2>3, ReuseKeeps DEF GraphInv, Reuse
  <2>4. ASSUME NEW i \in Left(Current), RefuseCycle(i) PROVE GraphInv'
    BY <2>2, <2>4 DEF RefuseCycle
  <2>5. ASSUME NEW i \in Left(Current), ComesTo(Current, i), Descend(i) PROVE GraphInv'
    BY <2>1, <2>5, DescendKeeps DEF GraphInv, Descend
  <2>6. ASSUME Return PROVE GraphInv'
    BY <2>1, <2>6, ReturnKeeps DEF GraphInv, Return
  <2>7. ASSUME Finish PROVE GraphInv'
    BY <2>1, <2>7, FinishKeeps DEF GraphInv, Finish
  <2>. QED
    BY <1>2, <2>2, <2>3, <2>4, <2>5, <2>6, <2>7 DEF GraphNext
<1>. QED
  BY <1>1, <1>2

\* How a build ends.
LEMMA EndsAs ==
    ASSUME SignaturesAssumption, GraphInv, GraphNext, BuildEnds, raised' # "TypeError"
    PROVE  /\ CallsNest /\ ResolvingFits /\ ChildrenFit /\ ResolvedFits /\ EdgesFit /\ NoneIsCyclic
           /\ GraphTypes /\ active # << >>
           /\ \/ raised' = "" /\ Finish
              \/ raised' # "" /\ \E i \in Left(Current) : RefuseCycle(i)
<1>1. /\ CallsNest /\ ResolvingFits /\ ChildrenFit /\ ResolvedFits /\ EdgesFit /\ NoneIsCyclic
      /\ GraphTypes /\ active # << >> /\ raised = ""
  BY DEF GraphNext, GraphInv, BuildInv
<1>2. active' = << >>
  BY DEF BuildEnds
<1>3. /\ Len(active) \in Nat /\ active \in Seq(DOMAIN builds)
  <2>1. active \in Seq(DOMAIN builds)
    BY <1>1 DEF GraphTypes
  <2>. QED
    BY <2>1
<1>4. ASSUME NEW i \in Left(Current), Reuse(i) PROVE FALSE
  BY <1>1, <1>2, <1>4 DEF Reuse
<1>5. ASSUME NEW i \in Left(Current), Descend(i) PROVE FALSE
  <2>1. active' = Append(active, Len(builds) + 1)
    BY <1>5 DEF Descend
  <2>2. Len(active') = Len(active) + 1
    BY <1>3, <2>1
  <2>. QED
    BY <1>2, <1>3, <2>2
<1>6. ASSUME Return PROVE FALSE
  <2>. DEFINE last == Len(active)
  <2>1. active' = SubSeq(active, 1, last - 1) /\ last > 1 /\ last \in Nat
    BY <1>3, <1>6 DEF Return, Front
  <2>2. \A n \in 1 .. last - 1 : active[n] \in DOMAIN builds
    BY <1>3
  <2>. HIDE DEF last
  <2>3. SubSeq(active, 1, last - 1) # << >>
    <3>. DEFINE front == SubSeq(active, 1, last - 1)
    <3>1. 1 \in Int /\ last - 1 \in Int /\ 1 <= last - 1
      BY <2>1
    <3>2. Len(front) = IF 1 <= last - 1 THEN (last - 1) - 1 + 1 ELSE 0
      BY <2>2, <3>1, SubSeqProperties
    <3>. HIDE DEF front
    <3>3. Len(front) > 0
      BY <2>1, <3>1, <3>2
    <3>4. Len(<< >>) = 0
      OBVIOUS
    <3>5. front # << >>
      BY <3>3, <3>4
    <3>. QED
      BY <3>5 DEF front
  <2>. QED
    BY <1>2, <2>1, <2>3
<1>7. ASSUME NEW i \in Left(Current), RefuseCycle(i) PROVE raised' # ""
  BY <1>7 DEF RefuseCycle, BuildRaises
<1>8. ASSUME Finish PROVE raised' = ""
  BY <1>1, <1>8 DEF Finish
<1>9. ASSUME BuildRaises("TypeError") PROVE FALSE
  BY <1>9 DEF BuildRaises
<1>. QED
  BY <1>1, <1>4, <1>5, <1>6, <1>7, <1>8, <1>9 DEF GraphNext

\* A build that gets as far as extracting from every signature raises CyclicDependencyError
\* when, and only when, something the handler needs needs itself, for any functions and
\* signatures: `resolving` holds just the way to the call, and what was finished before is
\* known to need nothing of itself (builder.py:40-45).
THEOREM RefusesExactlyCycles == GraphSpec => CyclesAreRefused
<1>1. ASSUME GraphInit PROVE GraphInv
  BY <1>1, SignaturesAssumption, GraphInvInit
<1>2. ASSUME GraphInv, [GraphNext]_graphVars PROVE GraphInv'
  BY <1>2, SignaturesAssumption, GraphInvStep
<1>3. ASSUME GraphInv, [GraphNext]_graphVars
      PROVE  [BuildEnds /\ raised' # "TypeError" => (raised' # "" <=> Cyclic)]_graphVars
  <2>1. ASSUME GraphNext, BuildEnds, raised' # "TypeError" PROVE raised' # "" <=> Cyclic
    <3>1. CASE Finish /\ raised' = ""
      BY <1>3, <2>1, <3>1, SignaturesAssumption, EndsAs, FinishedIsAcyclic DEF Finish
    <3>2. CASE raised' # "" /\ \E i \in Left(Current) : RefuseCycle(i)
      BY <1>3, <2>1, <3>2, SignaturesAssumption, EndsAs, RefusedIsCyclic DEF RefuseCycle
    <3>. QED
      BY <1>3, <2>1, <3>1, <3>2, SignaturesAssumption, EndsAs
  <2>. QED
    BY <1>3, <2>1
<1>. QED
  BY <1>1, <1>2, <1>3, PTL DEF GraphSpec, CyclesAreRefused

\* In a tree that was built every dependency has a node made for what was asked for, and
\* two parameters have the same node exactly when both ask for the same function with
\* use_cache, whatever the paths on which they were met (builder.py:36-50).
THEOREM SharesAsAsked == GraphSpec => NodesAreShared
<1>1. ASSUME GraphInit PROVE GraphInv
  BY <1>1, SignaturesAssumption, GraphInvInit
<1>2. ASSUME GraphInv, [GraphNext]_graphVars PROVE GraphInv'
  BY <1>2, SignaturesAssumption, GraphInvStep
<1>3. ASSUME GraphInv, [GraphNext]_graphVars
      PROVE  [BuildEnds /\ raised' = "" => SharedAsAsked']_graphVars
  <2>1. ASSUME GraphNext, BuildEnds, raised' = "" PROVE SharedAsAsked'
    <3>1. SharedAsAsked /\ builds' = builds
      BY <1>3, <2>1, SignaturesAssumption, EndsAs, FinishedIsShared DEF Finish
    <3>. QED
      BY <3>1 DEF SharedAsAsked, Left
  <2>. QED
    BY <1>3, <2>1
<1>. QED
  BY <1>1, <1>2, <1>3, PTL DEF GraphSpec, NodesAreShared
================================================================================
