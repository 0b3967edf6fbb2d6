-------------------------- MODULE RabbitConsumerProofs -------------------------
(***************************************************************************)
(* No message is lost inside and a stopped consumer takes none, for every  *)
(* set of queues and messages and any number of starts and stops.          *)
(***************************************************************************)
EXTENDS RabbitConsumer, TLAPS

\* What is no longer with the broker is not there any more: a message cannot be taken
\* twice.
TakenInv == ready \cap (yielded \cup ToSet(buffer)) = {}

\* As long as no start() overlapped a stop(): a stop() under way waits for all tasks that
\* live, and those of a running consumer are on its list.
QuietInv == ~overlapped =>
    /\ \A tasks \in gathering : ~isRunning /\ live \subseteq tasks
    /\ isRunning => live \subseteq consumerTasks
    /\ ~isRunning /\ gathering = {} => live = {}

IInv == RabbitTypeOK /\ NothingIsLost /\ TakenInv /\ QuietInv

-----------------------------------------------------------------------------
(* Sequences as queues without duplicates.                                 *)

Distinct(s) == \A i, j \in 1 .. Len(s) : i # j /\ s[i] = s[j] => s[i] = EndMarker

\* An element that is new, or the marker, joins at the end.
LEMMA Joins ==
  ASSUME NEW S, NEW s \in Seq(S), NEW x \in S
  PROVE  /\ Append(s, x) \in Seq(S)
         /\ ToSet(Append(s, x)) = ToSet(s) \cup {x}
         /\ Distinct(s) /\ (x \notin ToSet(s) \/ x = EndMarker) => Distinct(Append(s, x))
<1> DEFINE t == Append(s, x)
<1>1. /\ t \in Seq(S) /\ Len(s) \in Nat /\ Len(t) = Len(s) + 1 /\ t[Len(s) + 1] = x
      /\ \A i \in 1 .. Len(s) : t[i] = s[i]
      /\ DOMAIN s = 1 .. Len(s) /\ DOMAIN t = 1 .. Len(s) + 1
  OBVIOUS
<1>2. ToSet(t) = ToSet(s) \cup {x}
  <2>1. ASSUME NEW y \in ToSet(t) PROVE y \in ToSet(s) \cup {x}
    <3>1. PICK i \in 1 .. Len(s) + 1 : t[i] = y
      BY <1>1 DEF ToSet
    <3>2. CASE i = Len(s) + 1
      BY <1>1, <3>1, <3>2
    <3>3. CASE i # Len(s) + 1
      <4>1. i \in 1 .. Len(s)
        BY <1>1, <3>3
      <4> QED
        BY <1>1, <3>1, <4>1 DEF ToSet
    <3> QED
      BY <3>2, <3>3
  <2>2. ASSUME NEW y \in ToSet(s) PROVE y \in ToSet(t)
    <3>1. PICK i \in 1 .. Len(s) : s[i] = y
      BY <1>1 DEF ToSet
    <3>2. i \in 1 .. Len(s) + 1 /\ t[i] = y
      BY <1>1, <3>1
    <3> QED
      BY <1>1, <3>2 DEF ToSet
  <2>3. x \in ToSet(t)
    <3>1. Len(s) + 1 \in 1 .. Len(s) + 1
      BY <1>1
    <3> QED
      BY <1>1, <3>1 DEF ToSet
  <2> QED
    BY <2>1, <2>2, <2>3
<1>3. ASSUME Distinct(s), x \notin ToSet(s) \/ x = EndMarker,
             NEW i \in 1 .. Len(t), NEW j \in 1 .. Len(t), i # j, t[i] = t[j]
      PROVE  t[i] = EndMarker
  <2>1. \A n \in 1 .. Len(s) : s[n] = x => x = EndMarker
    BY <1>1, <1>3 DEF ToSet
  <2>2. CASE i = Len(s) + 1
    <3>1. j \in 1 .. Len(s)
      BY <1>1, <1>3, <2>2
    <3> QED
      BY <1>1, <1>3, <2>1, <2>2, <3>1
  <2>3. CASE j = Len(s) + 1
    <3>1. i \in 1 .. Len(s)
      BY <1>1, <1>3, <2>3
    <3> QED
      BY <1>1, <1>3, <2>1, <2>3, <3>1
  <2>4. CASE i # Len(s) + 1 /\ j # Len(s) + 1
    <3>1. i \in 1 .. Len(s) /\ j \in 1 .. Len(s)
      BY <1>1, <2>4
    <3> QED
      BY <1>1, <1>3, <3>1 DEF Distinct
  <2> QED
    BY <2>2, <2>3, <2>4
<1> QED
  BY <1>1, <1>2, <1>3 DEF Distinct

\* The first element leaves.
LEMMA Leaves ==
  ASSUME NEW S, NEW s \in Seq(S), s # << >>
  PROVE  /\ Head(s) \in S /\ Tail(s) \in Seq(S)
         /\ ToSet(s) = {Head(s)} \cup ToSet(Tail(s))
         /\ Distinct(s) => /\ Distinct(Tail(s))
                           /\ Head(s) # EndMarker => Head(s) \notin ToSet(Tail(s))
<1> DEFINE t == Tail(s)
<1>1. /\ t \in Seq(S) /\ Len(t) \in Nat /\ Len(s) = Len(t) + 1
      /\ Head(s) = s[1] /\ Head(s) \in S
      /\ \A i \in 1 .. Len(t) : t[i] = s[i + 1]
      /\ DOMAIN t = 1 .. Len(t) /\ DOMAIN s = 1 .. Len(t) + 1
  OBVIOUS
<1>2. ToSet(s) = {Head(s)} \cup ToSet(t)
  <2>1. ASSUME NEW y \in ToSet(s) PROVE y \in {Head(s)} \cup ToSet(t)
    <3>1. PICK i \in 1 .. Len(t) + 1 : s[i] = y
      BY <1>1 DEF ToSet
    <3>2. CASE i = 1
      BY <1>1, <3>1, <3>2
    <3>3. CASE i # 1
      <4>1. i - 1 \in 1 .. Len(t) /\ t[i - 1] = y
        BY <1>1, <3>1, <3>3
      <4> QED
        BY <1>1, <4>1 DEF ToSet
    <3> QED
      BY <3>2, <3>3
  <2>2. ASSUME NEW y \in ToSet(t) PROVE y \in ToSet(s)
    <3>1. PICK i \in 1 .. Len(t) : t[i] = y
      BY <1>1 DEF ToSet
    <3>2. i + 1 \in 1 .. Len(t) + 1 /\ s[i + 1] = y
      BY <1>1, <3>1
    <3> QED
      BY <1>1, <3>2 DEF ToSet
  <2>3. Head(s) \in ToSet(s)
    <3>1. 1 \in 1 .. Len(t) + 1
      BY <1>1
    <3> QED
      BY <1>1, <3>1 DEF ToSet
  <2> QED
    BY <2>1, <2>2, <2>3
<1>3. ASSUME Distinct(s), NEW i \in 1 .. Len(t), NEW j \in 1 .. Len(t), i # j, t[i] = t[j]
      PROVE  t[i] = EndMarker
  <2>1. i + 1 \in 1 .. Len(s) /\ j + 1 \in 1 .. Len(s) /\ i + 1 # j + 1
    BY <1>1, <1>3
  <2> QED
    BY <1>1, <1>3, <2>1 DEF Distinct
<1>4. ASSUME Distinct(s), Head(s) \in ToSet(t) PROVE Head(s) = EndMarker
  <2>1. PICK i \in 1 .. Len(t) : t[i] = s[1]
    BY <1>1, <1>4 DEF ToSet
  <2>2. 1 \in 1 .. Len(s) /\ i + 1 \in 1 .. Len(s) /\ 1 # i + 1 /\ s[1] = s[i + 1]
    BY <1>1, <2>1
  <2> QED
    BY <1>1, <1>4, <2>2 DEF Distinct
<1> QED
  BY <1>1, <1>2, <1>3, <1>4 DEF Distinct

\* The invariant in the terms of these lemmas.
LEMMA Rephrased ==
  NothingIsLost <=> /\ waitingForAck = yielded \cup (ToSet(buffer) \ {EndMarker})
                    /\ Distinct(buffer)
                    /\ yielded \cap ToSet(buffer) = {}
BY DEF NothingIsLost, Distinct

-----------------------------------------------------------------------------
(* Steps.                                                                  *)

LEMMA StartPreserves == IInv /\ Start => IInv'
<1> SUFFICES ASSUME IInv, Start PROVE IInv'
  OBVIOUS
<1>1. consumerTasks' \subseteq Task
  BY BoundAssumption DEF Start, Task, IInv, RabbitTypeOK
<1>2. RabbitTypeOK'
  BY <1>1, BoundAssumption DEF Start, IInv, RabbitTypeOK, messageVars
<1>3. QuietInv'
  BY DEF Start, IInv, QuietInv
<1>4. NothingIsLost' /\ TakenInv'
  BY DEF Start, messageVars, IInv, NothingIsLost, TakenInv
<1> QED
  BY <1>2, <1>3, <1>4 DEF IInv

\* The end marker changes nothing of what is said of messages.
LEMMA MarkerPreserves ==
  ASSUME IInv, buffer' \in {buffer, WithMarker}, UNCHANGED messageVars
  PROVE  NothingIsLost' /\ TakenInv' /\ buffer' \in Seq(Delivery \cup {EndMarker})
<1>1. CASE buffer' = buffer
  BY <1>1 DEF messageVars, IInv, NothingIsLost, TakenInv, RabbitTypeOK
<1>2. CASE buffer' = WithMarker
  <2>1. /\ buffer' \in Seq(Delivery \cup {EndMarker})
        /\ ToSet(buffer') = ToSet(buffer) \cup {EndMarker}
        /\ Distinct(buffer) => Distinct(buffer')
    <3>1. buffer \in Seq(Delivery \cup {EndMarker})
      BY DEF IInv, RabbitTypeOK
    <3> QED
      BY <1>2, <3>1, Joins DEF WithMarker
  <2>2. EndMarker \notin yielded /\ EndMarker \notin ready
    BY DeliveriesAssumption DEF IInv, RabbitTypeOK
  <2>3. NothingIsLost'
    <3>1. waitingForAck' = yielded' \cup (ToSet(buffer') \ {EndMarker})
      BY <2>1 DEF messageVars, IInv, NothingIsLost
    <3>2. Distinct(buffer')
      BY <2>1, Rephrased DEF IInv
    <3>3. yielded' \cap ToSet(buffer') = {}
      BY <2>1, <2>2 DEF messageVars, IInv, NothingIsLost
    <3> QED
      BY <3>1, <3>2, <3>3 DEF NothingIsLost, Distinct
  <2> QED
    BY <2>1, <2>2, <2>3 DEF messageVars, IInv, TakenInv
<1> QED
  BY <1>1, <1>2

LEMMA StopPreserves == IInv /\ Stop => IInv'
<1> SUFFICES ASSUME IInv, Stop PROVE IInv'
  OBVIOUS
<1>1. NothingIsLost' /\ TakenInv' /\ buffer' \in Seq(Delivery \cup {EndMarker})
  BY MarkerPreserves DEF Stop
<1>2. cancelled' \subseteq live' /\ gathering' \subseteq SUBSET Task
  BY DEF Stop, IInv, RabbitTypeOK
<1>3. RabbitTypeOK'
  BY <1>1, <1>2 DEF Stop, messageVars, IInv, RabbitTypeOK
<1>4. QuietInv'
  BY DEF Stop, IInv, QuietInv
<1> QED
  BY <1>1, <1>3, <1>4 DEF IInv

LEMMA StopReturnsPreserves == ASSUME IInv, NEW tasks \in gathering, StopReturns(tasks) PROVE IInv'
<1>1. NothingIsLost' /\ TakenInv' /\ buffer' \in Seq(Delivery \cup {EndMarker})
  BY MarkerPreserves DEF StopReturns
<1>2. RabbitTypeOK'
  BY <1>1 DEF StopReturns, messageVars, IInv, RabbitTypeOK
<1>3. QuietInv'
  BY DEF StopReturns, GatherReturns, IInv, QuietInv
<1> QED
  BY <1>1, <1>2, <1>3 DEF IInv

LEMMA TaskEndsPreserves == ASSUME IInv, NEW t \in live, TaskEnds(t) PROVE IInv'
<1>1. RabbitTypeOK'
  BY DEF TaskEnds, messageVars, IInv, RabbitTypeOK
<1>2. QuietInv'
  BY DEF TaskEnds, IInv, QuietInv
<1>3. NothingIsLost' /\ TakenInv'
  BY DEF TaskEnds, messageVars, IInv, NothingIsLost, TakenInv
<1> QED
  BY <1>1, <1>2, <1>3 DEF IInv

LEMMA ConsumePreserves == ASSUME IInv, NEW t \in live, NEW m \in ready, Consume(t, m) PROVE IInv'
<1>1. /\ m \in Delivery /\ m # EndMarker /\ m \notin ToSet(buffer) /\ m \notin yielded
      /\ buffer' = Append(buffer, m) /\ buffer \in Seq(Delivery \cup {EndMarker})
  BY DeliveriesAssumption DEF Consume, IInv, RabbitTypeOK, TakenInv
<1>2. /\ buffer' \in Seq(Delivery \cup {EndMarker})
      /\ ToSet(buffer') = ToSet(buffer) \cup {m}
      /\ Distinct(buffer) => Distinct(buffer')
  BY <1>1, Joins
<1>3. RabbitTypeOK'
  BY <1>1, <1>2 DEF Consume, taskVars, IInv, RabbitTypeOK
<1>4. NothingIsLost'
  <2>1. waitingForAck' = yielded' \cup (ToSet(buffer') \ {EndMarker})
    BY <1>1, <1>2 DEF Consume, IInv, NothingIsLost
  <2>2. Distinct(buffer')
    BY <1>2, Rephrased DEF IInv
  <2>3. yielded' \cap ToSet(buffer') = {}
    BY <1>1, <1>2 DEF Consume, IInv, NothingIsLost
  <2> QED
    BY <2>1, <2>2, <2>3 DEF NothingIsLost, Distinct
<1>5. TakenInv'
  BY <1>1, <1>2 DEF Consume, IInv, TakenInv
<1>6. QuietInv'
  BY DEF Consume, taskVars, IInv, QuietInv
<1> QED
  BY <1>3, <1>4, <1>5, <1>6 DEF IInv

LEMMA ListenGetPreserves == IInv /\ ListenGet => IInv'
<1> SUFFICES ASSUME IInv, ListenGet PROVE IInv'
  OBVIOUS
<1> DEFINE m == Head(buffer)
<1>1. /\ m \in Delivery \cup {EndMarker} /\ buffer' = Tail(buffer)
      /\ buffer' \in Seq(Delivery \cup {EndMarker})
      /\ ToSet(buffer) = {m} \cup ToSet(buffer')
      /\ Distinct(buffer')
      /\ m # EndMarker => m \notin ToSet(buffer')
  <2>1. buffer \in Seq(Delivery \cup {EndMarker}) /\ buffer # << >> /\ Distinct(buffer)
    BY Rephrased DEF ListenGet, IInv, RabbitTypeOK
  <2>2. buffer' = Tail(buffer)
    BY DEF ListenGet
  <2> QED
    BY <2>1, <2>2, Leaves
<1>2. \/ m = EndMarker /\ yielded' = yielded /\ listening' = "ended"
      \/ m # EndMarker /\ yielded' = yielded \cup {m} /\ listening' = "yield"
  BY DEF ListenGet, Yielded
<1>3. UNCHANGED <<ready, waitingForAck, isRunning, starts, taskVars, overlapped>>
  BY DEF ListenGet
<1>4. RabbitTypeOK'
  <2>1. yielded' \subseteq Delivery /\ listening' \in {"wait", "yield", "ended"}
    BY <1>1, <1>2 DEF IInv, RabbitTypeOK
  <2> QED
    BY <1>1, <1>3, <2>1 DEF taskVars, IInv, RabbitTypeOK
<1>5. NothingIsLost'
  <2>1. waitingForAck' = yielded' \cup (ToSet(buffer') \ {EndMarker})
    BY <1>1, <1>2, <1>3 DEF IInv, NothingIsLost
  <2>2. yielded' \cap ToSet(buffer') = {}
    BY <1>1, <1>2 DEF IInv, NothingIsLost
  <2> QED
    BY <1>1, <2>1, <2>2 DEF NothingIsLost, Distinct
<1>6. TakenInv'
  BY <1>1, <1>2, <1>3 DEF IInv, TakenInv
<1>7. QuietInv'
  BY <1>3 DEF taskVars, IInv, QuietInv
<1> QED
  BY <1>4, <1>5, <1>6, <1>7 DEF IInv

LEMMA AckPreserves == ASSUME IInv, NEW m \in yielded, Ack(m) PROVE IInv'
<1>1. RabbitTypeOK'
  BY DEF Ack, taskVars, IInv, RabbitTypeOK
<1>2. NothingIsLost'
  BY DEF Ack, IInv, NothingIsLost
<1>3. TakenInv' /\ QuietInv'
  BY DEF Ack, taskVars, IInv, TakenInv, QuietInv
<1> QED
  BY <1>1, <1>2, <1>3 DEF IInv

\* The dispatcher going on, and steps of others, touch nothing of this.
LEMMA ListenPreserves == IInv /\ (Listen \/ ListenResume \/ UNCHANGED rabbitVars) => IInv'
<1> SUFFICES ASSUME IInv, Listen \/ ListenResume \/ UNCHANGED rabbitVars PROVE IInv'
  OBVIOUS
<1>1. UNCHANGED <<ready, waitingForAck, yielded, buffer, isRunning, starts, live, cancelled,
                  consumerTasks, gathering, overlapped>>
  BY DEF Listen, ListenResume, rabbitVars, messageVars, taskVars
<1>2. listening' \in {"wait", "yield", "ended"}
  BY DEF Listen, ListenResume, rabbitVars, IInv, RabbitTypeOK
<1> QED
  BY <1>1, <1>2 DEF IInv, RabbitTypeOK, NothingIsLost, TakenInv, QuietInv

-----------------------------------------------------------------------------
(* The invariant and what follows from it.                                 *)

\* Every message is in one place, and the tasks are where stop() looks for them.
THEOREM Invariant == RabbitSpec => []IInv
<1>1. RabbitInit => IInv
  <2> SUFFICES ASSUME RabbitInit PROVE IInv
    OBVIOUS
  <2>1. buffer = << >> /\ << >> \in Seq(Delivery \cup {EndMarker}) /\ ToSet(<< >>) = {}
    BY DEF RabbitInit, ToSet
  <2>2. RabbitTypeOK
    <3>1. buffer \in Seq(Delivery \cup {EndMarker})
      BY <2>1
    <3>2. starts \in 0 .. MaxStarts
      BY BoundAssumption DEF RabbitInit
    <3> QED
      BY <3>1, <3>2 DEF RabbitInit, RabbitTypeOK
  <2>3. NothingIsLost
    <3>1. Len(buffer) = 0
      BY <2>1
    <3> QED
      BY <2>1, <3>1 DEF RabbitInit, NothingIsLost
  <2>4. TakenInv /\ QuietInv
    BY <2>1 DEF RabbitInit, TakenInv, QuietInv
  <2> QED
    BY <2>2, <2>3, <2>4 DEF IInv
<1>2. IInv /\ [RabbitNext]_rabbitVars => IInv'
  BY StartPreserves, StopPreserves, StopReturnsPreserves, TaskEndsPreserves, ConsumePreserves,
     ListenGetPreserves, ListenPreserves, AckPreserves DEF RabbitNext
<1> QED
  BY <1>1, <1>2, PTL DEF RabbitSpec

\* The variables keep their types; a task that was cancelled has not ended yet.
THEOREM TypeCorrect == RabbitSpec => []RabbitTypeOK
<1>1. IInv => RabbitTypeOK
  BY DEF IInv
<1> QED
  BY <1>1, Invariant, PTL

\* No message is lost or doubled between the broker and the dispatcher, and ack() finds
\* what it pops.
THEOREM NoMessageLost == RabbitSpec => []NothingIsLost
<1>1. IInv => NothingIsLost
  BY DEF IInv
<1> QED
  BY <1>1, Invariant, PTL

\* A consumer whose stop() returned takes no messages.
THEOREM StopStops == RabbitSpec => []StoppedIsQuiet
<1>1. IInv => StoppedIsQuiet
  BY DEF IInv, QuietInv, StoppedIsQuiet
<1> QED
  BY <1>1, Invariant, PTL
================================================================================
