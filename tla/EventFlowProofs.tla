---------------------------- MODULE EventFlowProofs ----------------------------
(***************************************************************************)
(* From emit() to a handler, for every set of events, routes, patterns,    *)
(* registrations and callbacks, any number of calls, and whatever Redis    *)
(* delivers and the dispatcher does meanwhile: what a caller of emit() may *)
(* conclude, what a lookup finds, and whom a handled event reaches.        *)
(*                                                                         *)
(* Routing is proved in three steps: what Get returns for any trie with    *)
(* known nodes (LookupCounts, LookupFollows), that the tries of the        *)
(* dispatcher hold what was registered (RoutingInv), and what the text of  *)
(* a route becomes on its way to the arguments (ReachesItsHandler).        *)
(***************************************************************************)
EXTENDS EventFlow, FiniteSetTheorems, FunctionTheorems, SequenceTheorems,
        WellFoundedInduction, TLAPS

-----------------------------------------------------------------------------
(***************************************************************************)
(* What emit() tells its caller.                                           *)
(***************************************************************************)
Function == Reporter \cup {Log}

CallState ==
    [pc: {"new", "raised"}] \cup
    [pc: {"sending", "reporting", "returned", "raised"}, backend: Backend, event: Event,
     callback: Function]

CallTypes ==
    /\ calls \in [Call -> CallState]
    /\ onTimeout \in [Backend -> Function]
    /\ reported \subseteq Call \X Function
    /\ published \in Seq(ToSet(published))

HasArrived(c) == \E m \in ToSet(published) : m.call = c

\* A callback ends its emit(), so a call reports once and never after its end; what
\* returned without a report has seen its message arrive.
Settled ==
    /\ \A r \in reported : calls[r[1]].pc = "returned"
    /\ \A r, s \in reported : r[1] = s[1] => r = s
    /\ \A c \in Call : calls[c].pc = "returned" =>
            (\E r \in reported : r[1] = c) \/ HasArrived(c)

EInv == CallTypes /\ Settled

-----------------------------------------------------------------------------
\* What was published stays published.
LEMMA PublishKeeps ==
    ASSUME published \in Seq(ToSet(published)), NEW x, published' = Append(published, x)
    PROVE  /\ published' \in Seq(ToSet(published'))
           /\ ToSet(published) \subseteq ToSet(published')
<1>. DEFINE S == ToSet(published) \cup {x}
<1>1. published \in Seq(S) /\ x \in S
  BY SeqMonotonic
<1>2. /\ published' \in Seq(S) /\ Len(published') = Len(published) + 1
      /\ \A i \in 1 .. Len(published) : published'[i] = published[i]
      /\ published'[Len(published) + 1] = x
  BY <1>1, AppendProperties
<1>3. /\ Len(published) \in Nat
      /\ DOMAIN published = 1 .. Len(published)
      /\ DOMAIN published' = 1 .. Len(published')
  BY <1>1, <1>2, LenProperties
<1>4. ToSet(published') = S
  BY <1>2, <1>3 DEF ToSet
<1>. QED
  BY <1>2, <1>4

\* One call ends its emit() with a report, or without one.
LEMMA EndsPreserve ==
    ASSUME EInv, NEW c \in Call, NEW pc \in {"returned", "raised"},
           calls[c].pc \in {"new", "sending", "reporting"},
           calls' = [calls EXCEPT ![c].pc = pc],
           calls[c].pc = "new" => pc = "raised",
           NEW callback \in Function,
           \/ reported' = reported /\ (pc = "returned" => HasArrived(c))
           \/ reported' = reported \cup {<<c, callback>>} /\ pc = "returned",
           UNCHANGED <<onTimeout, published>>
    PROVE  EInv'
<1>1. /\ calls \in [Call -> CallState] /\ calls[c] \in CallState
      /\ onTimeout \in [Backend -> Function]
      /\ reported \subseteq Call \X Function
  BY DEF EInv, CallTypes
<1>2. /\ \A d \in Call : d # c => calls'[d] = calls[d]
      /\ calls'[c].pc = pc
      /\ calls' \in [Call -> CallState]
  <2>1. [calls[c] EXCEPT !.pc = pc] \in CallState /\ [calls[c] EXCEPT !.pc = pc].pc = pc
    <3>1. CASE calls[c] \in [pc: {"new", "raised"}]
      BY <3>1 DEF CallState
    <3>2. CASE calls[c] \notin [pc: {"new", "raised"}]
      BY <1>1, <3>2 DEF CallState
    <3>. QED
      BY <3>1, <3>2
  <2>. QED
    BY <1>1, <2>1
<1>3. CallTypes'
  BY <1>1, <1>2 DEF EInv, CallTypes, ToSet
<1>4. \A r \in reported : r[1] \in Call /\ r[1] # c
  BY <1>1 DEF EInv, Settled
<1>5. (\A r \in reported : calls[r[1]].pc = "returned")'
  BY <1>2, <1>4 DEF EInv, Settled
<1>6. (\A r, s \in reported : r[1] = s[1] => r = s)'
  BY <1>4 DEF EInv, Settled
<1>7. ASSUME NEW d \in Call, calls'[d].pc = "returned"
      PROVE  (\E r \in reported' : r[1] = d) \/ HasArrived(d)'
  <2>1. HasArrived(d)' = HasArrived(d)
    BY DEF HasArrived, ToSet
  <2>2. CASE d = c
    <3>1. CASE reported' = reported \cup {<<c, callback>>}
      <4>1. <<c, callback>> \in reported' /\ <<c, callback>>[1] = d
        BY <2>2, <3>1
      <4>. QED
        BY <4>1
    <3>2. CASE reported' # reported \cup {<<c, callback>>}
      BY <1>2, <1>7, <2>1, <2>2, <3>2
    <3>. QED
      BY <3>1, <3>2
  <2>3. CASE d # c
    BY <1>2, <1>7, <2>1, <2>3 DEF EInv, Settled
  <2>. QED
    BY <2>2, <2>3
<1>. QED
  BY <1>3, <1>5, <1>6, <1>7 DEF EInv, Settled

\* A step that reports nothing and moves no call to its end.
LEMMA OthersPreserve ==
    ASSUME EInv, calls' \in [Call -> CallState], onTimeout' \in [Backend -> Function],
           \A c \in Call :
              \/ calls'[c] = calls[c]
              \/ calls[c].pc # "returned" /\ calls'[c].pc # "returned",
           UNCHANGED reported,
           published' \in Seq(ToSet(published')),
           ToSet(published) \subseteq ToSet(published')
    PROVE  EInv'
<1>1. CallTypes'
  BY DEF EInv, CallTypes
<1>2. \A r \in reported : r[1] \in Call
  BY DEF EInv, CallTypes
<1>3. \A c \in Call : HasArrived(c) => HasArrived(c)'
  BY DEF HasArrived
<1>4. Settled'
  BY <1>2, <1>3 DEF EInv, Settled
<1>. QED
  BY <1>1, <1>4 DEF EInv

\* What happens to an awaited callback, or to one that is not.
LEMMA CallbackPreserves ==
    ASSUME EInv, NEW c \in Call, calls[c].pc \in {"sending", "reporting"},
           NEW callback \in Function, CallbackEnds(c, callback),
           UNCHANGED <<onTimeout, published>>
    PROVE  EInv'
<1>1. CASE reported' = reported \cup {<<c, callback>>} /\ Ends(c, "returned")
  BY <1>1, EndsPreserve DEF Ends
<1>2. CASE Ends(c, "raised") /\ UNCHANGED reported
  BY <1>2, EndsPreserve DEF Ends
<1>. QED
  BY <1>1, <1>2 DEF CallbackEnds

LEMMA EmitPreserves ==
    ASSUME EInv, NEW c \in Call, NEW b \in Backend, NEW event \in Event,
           EmitRefused(c, b, event) \/ EmitSends(c, b, event)
    PROVE  EInv'
<1>1. calls[c].pc = "new" /\ calls \in [Call -> CallState]
  BY DEF EmitRefused, EmitSends, NotCalled, EInv, CallTypes
<1>2. CASE EmitRefused(c, b, event)
  <2>1. Log \in Function
    BY DEF Function
  <2>. QED
    BY <1>1, <1>2, <2>1, EndsPreserve DEF EmitRefused
<1>3. CASE EmitSends(c, b, event)
  <2>. DEFINE sent == [pc |-> "sending", backend |-> b, event |-> event, callback |-> Log]
  <2>1. sent \in CallState /\ sent.pc = "sending"
    BY DEF CallState, Function
  <2>2. calls' = [calls EXCEPT ![c] = sent] /\ UNCHANGED <<onTimeout, published, reported>>
    BY <1>3 DEF EmitSends
  <2>3. calls' \in [Call -> CallState]
    BY <1>1, <2>1, <2>2
  <2>4. \A d \in Call : calls'[d] = calls[d] \/ (calls[d].pc # "returned" /\ calls'[d].pc # "returned")
    BY <1>1, <2>1, <2>2
  <2>. QED
    BY <2>2, <2>3, <2>4, OthersPreserve DEF EInv, CallTypes
<1>. QED
  BY <1>2, <1>3

LEMMA SendPreserves ==
    ASSUME EInv, NEW c \in Call,
           \/ Arrives(c) \/ SendReturns(c) \/ SendRaises(c) \/ SendTimesOut(c)
           \/ AwaitedCallbackEnds(c)
    PROVE  EInv'
<1>1. /\ calls \in [Call -> CallState] /\ calls[c] \in CallState
      /\ onTimeout \in [Backend -> Function]
      /\ Log \in Function
      /\ published \in Seq(ToSet(published))
  BY DEF EInv, CallTypes, Function
<1>2. CASE Arrives(c)
  <2>1. published' \in Seq(ToSet(published')) /\ ToSet(published) \subseteq ToSet(published')
    BY <1>1, <1>2, PublishKeeps DEF Arrives
  <2>. QED
    BY <1>1, <1>2, <2>1, OthersPreserve DEF Arrives
<1>3. CASE SendReturns(c)
  BY <1>1, <1>3, EndsPreserve DEF SendReturns, Ends, HasArrived
<1>4. CASE SendRaises(c)
  BY <1>1, <1>4, EndsPreserve DEF SendRaises, Ends
<1>5. CASE SendTimesOut(c)
  <2>1. PICK callback \in Function : callback = onTimeout[calls[c].backend]
    BY <1>1, <1>5 DEF SendTimesOut, Backend
  <2>2. calls[c].pc = "sending" /\ Report(c, callback) /\ UNCHANGED <<onTimeout, published>>
    BY <1>5, <2>1 DEF SendTimesOut
  <2>3. CASE CallbackEnds(c, callback)
    BY <2>2, <2>3, CallbackPreserves
  <2>4. CASE /\ calls' = [calls EXCEPT ![c].pc = "reporting", ![c].callback = callback]
             /\ UNCHANGED reported
    <3>1. calls[c] \in [pc: {"sending", "reporting", "returned", "raised"}, backend: Backend,
                        event: Event, callback: Function]
      BY <1>1, <2>2 DEF CallState
    <3>2. /\ [calls[c] EXCEPT !.pc = "reporting", !.callback = callback] \in CallState
          /\ [calls[c] EXCEPT !.pc = "reporting", !.callback = callback].pc = "reporting"
      BY <3>1 DEF CallState
    <3>3. /\ calls' \in [Call -> CallState] /\ calls'[c].pc = "reporting"
          /\ \A d \in Call : d # c => calls'[d] = calls[d]
      BY <1>1, <2>4, <3>2
    <3>. QED
      BY <1>1, <2>2, <2>4, <3>3, OthersPreserve
  <2>. QED
    BY <2>2, <2>3, <2>4 DEF Report
<1>6. CASE AwaitedCallbackEnds(c)
  <2>1. calls[c].pc = "reporting" /\ calls[c].callback \in Function
    BY <1>1, <1>6 DEF AwaitedCallbackEnds, CallState
  <2>. QED
    BY <1>6, <2>1, CallbackPreserves DEF AwaitedCallbackEnds
<1>. QED
  BY <1>2, <1>3, <1>4, <1>5, <1>6

LEMMA EInvInit == Init => EInv
<1>. SUFFICES ASSUME Init PROVE EInv
  OBVIOUS
<1>1. CallTypes
  BY EmptySeq DEF Init, EmissionInit, CallTypes, NotCalled, CallState, Function
<1>2. Settled
  BY DEF Init, EmissionInit, Settled, NotCalled
<1>. QED
  BY <1>1, <1>2 DEF EInv

LEMMA EInvStep == EInv /\ [Next]_vars => EInv'
<1>. SUFFICES ASSUME EInv, [Next]_vars PROVE EInv'
  OBVIOUS
<1>1. CASE UNCHANGED emissionVars
  BY <1>1, OthersPreserve DEF emissionVars, EInv, CallTypes
<1>2. CASE EmissionStep
  <2>1. ASSUME NEW b \in Backend, NEW callback \in Reporter, OnTimeout(b, callback)
        PROVE  EInv'
    <3>1. onTimeout' \in [Backend -> Function]
      BY <2>1 DEF OnTimeout, EInv, CallTypes, Function
    <3>. QED
      BY <2>1, <3>1, OthersPreserve DEF OnTimeout, EInv, CallTypes
  <2>. QED
    BY <1>2, <2>1, EmitPreserves, SendPreserves DEF EmissionStep
<1>3. ASSUME NEW c \in Call, RedisDelivers(c) PROVE EInv'
  BY <1>3, SendPreserves DEF RedisDelivers
<1>4. CASE Configure \/ RedisConfirms \/ ListenSkips \/ HandleMessage
  BY <1>1, <1>4 DEF Configure, RedisConfirms, ListenSkips, HandleMessage
<1>. QED
  BY <1>1, <1>2, <1>3, <1>4 DEF Next, vars

\* An emit() that returned is accounted for by an arrived message or by exactly one
\* callback that ran to its end; one that raised never is reported as timed out.
THEOREM OutcomesAreKnown == Spec => []SettledIsKnown
<1>1. ASSUME EInv, NEW c \in Call
      PROVE  LET reports == {r \in reported : r[1] = c}
             IN  /\ Cardinality(reports) <= 1
                 /\ reports # {} => calls[c].pc = "returned"
                 /\ calls[c].pc = "returned" =>
                       reports # {} \/ \E m \in ToSet(published) : m.call = c
  <2>. DEFINE reports == {r \in reported : r[1] = c}
  <2>1. Cardinality(reports) <= 1
    <3>1. CASE reports = {}
      BY <3>1, FS_EmptySet
    <3>2. CASE reports # {}
      <4>1. PICK r : reports = {r}
        BY <1>1, <3>2 DEF EInv, Settled
      <4>. QED
        BY <4>1, FS_Singleton
    <3>. QED
      BY <3>1, <3>2
  <2>. QED
    BY <1>1, <2>1 DEF EInv, Settled, HasArrived
<1>2. EInv => SettledIsKnown
  BY <1>1 DEF SettledIsKnown
<1>. QED
  BY <1>2, EInvInit, EInvStep, PTL DEF Spec

-----------------------------------------------------------------------------
(***************************************************************************)
(* Sequences and numbers.                                                  *)
(***************************************************************************)
\* The minimum of a set of numbers is its least element.
LEMMA HasMin ==
    ASSUME NEW S \in SUBSET Nat, S # {}
    PROVE  Min(S) \in S /\ \A j \in S : Min(S) <= j
<1>1. PICK m \in S : \A k \in S : ~ (<<k, m>> \in OpToRel(<, Nat))
  BY NatLessThanWellFounded, WFMin
<1>2. \A k \in S : ~ (k < m)
  BY <1>1 DEF OpToRel
<1>3. \A k \in S : m <= k
  BY <1>2
<1>. QED
  BY <1>3 DEF Min

\* Counting in a sequence.
LEMMA CountIsNatural ==
    ASSUME NEW S, NEW s \in Seq(S), NEW x
    PROVE  IsFiniteSet({i \in DOMAIN s : s[i] = x}) /\ Count(s, x) \in Nat
<1>1. DOMAIN s = 1 .. Len(s) /\ Len(s) \in Int /\ 1 \in Int
  BY LenProperties
<1>2. IsFiniteSet(DOMAIN s)
  BY <1>1, FS_Interval
<1>3. {i \in DOMAIN s : s[i] = x} \in SUBSET DOMAIN s
  OBVIOUS
<1>4. IsFiniteSet({i \in DOMAIN s : s[i] = x})
  BY <1>2, <1>3, FS_Subset
<1>. QED
  BY <1>4, FS_CardinalityType DEF Count

LEMMA CountEmpty ==
    ASSUME NEW x
    PROVE  Count(<< >>, x) = 0
<1>1. {i \in DOMAIN << >> : << >>[i] = x} = {}
  OBVIOUS
<1>. QED
  BY <1>1, FS_EmptySet DEF Count

LEMMA CountConcat ==
    ASSUME NEW S, NEW s \in Seq(S), NEW t \in Seq(S), NEW x
    PROVE  Count(s \o t, x) = Count(s, x) + Count(t, x)
<1>. DEFINE A == {i \in DOMAIN s : s[i] = x}
            B == {i \in DOMAIN t : t[i] = x}
            C == {i \in DOMAIN (s \o t) : (s \o t)[i] = x}
            m == Len(s)
            n == Len(t)
            D == {i \in m + 1 .. m + n : (s \o t)[i] = x}
<1>1. /\ m \in Nat /\ n \in Nat /\ DOMAIN s = 1 .. m /\ DOMAIN t = 1 .. n
      /\ s \o t \in Seq(S) /\ DOMAIN (s \o t) = 1 .. m + n
      /\ \A i \in 1 .. m + n : (s \o t)[i] = IF i <= m THEN s[i] ELSE t[i - m]
  <2>1. m \in Nat /\ n \in Nat /\ DOMAIN s = 1 .. m /\ DOMAIN t = 1 .. n
    BY LenProperties
  <2>2. /\ s \o t \in Seq(S) /\ Len(s \o t) = m + n
        /\ \A i \in 1 .. m + n : (s \o t)[i] = IF i <= m THEN s[i] ELSE t[i - m]
    BY ConcatProperties
  <2>3. DOMAIN (s \o t) = 1 .. m + n
    BY <2>2, LenProperties
  <2>. QED
    BY <2>1, <2>2, <2>3
<1>. HIDE DEF m, n
<1>2. IsFiniteSet(A) /\ IsFiniteSet(B) /\ Cardinality(A) \in Nat /\ Cardinality(B) \in Nat
  BY CountIsNatural, FS_CardinalityType
<1>3. C = A \cup D /\ A \cap D = {}
  BY <1>1
<1>4. IsFiniteSet(D) /\ Cardinality(D) = Cardinality(B)
  <2>. DEFINE f == [i \in B |-> m + i]
  <2>1. f \in [B -> D]
    BY <1>1
  <2>2. \A i, j \in B : f[i] = f[j] => i = j
    BY <1>1
  <2>3. \A d \in D : \E i \in B : f[i] = d
    <3>. TAKE d \in D
    <3>1. d - m \in B /\ f[d - m] = d
      BY <1>1
    <3>. QED
      BY <3>1
  <2>. HIDE DEF f
  <2>4. f \in Surjection(B, D)
    BY <2>1, <2>3 DEF Surjection
  <2>5. f \in Bijection(B, D)
    BY <2>1, <2>2, <2>4, Fun_IsBij
  <2>6. ExistsBijection(B, D)
    BY <2>5, Fun_ExistsBij
  <2>. QED
    BY <1>2, <2>6, FS_Bijection
<1>5. Cardinality(C) = Cardinality(A) + Cardinality(B)
  <2>1. Cardinality(A \cup D) = Cardinality(A) + Cardinality(D) - Cardinality(A \cap D)
    BY <1>2, <1>4, FS_Union
  <2>2. Cardinality(A \cap D) = 0
    BY <1>3, FS_EmptySet
  <2>3. Cardinality(C) = Cardinality(A \cup D)
    BY <1>3
  <2>. HIDE DEF A, B, C, D
  <2>. QED
    BY <1>2, <1>4, <2>1, <2>2, <2>3
<1>. QED
  BY <1>5 DEF Count

LEMMA CountAppend ==
    ASSUME NEW S, NEW s \in Seq(S), NEW y \in S, NEW x
    PROVE  Count(Append(s, y), x) = Count(s, x) + (IF x = y THEN 1 ELSE 0)
<1>1. <<y>> \in Seq(S) /\ Append(s, y) = s \o <<y>>
  BY AppendIsConcat
<1>2. Count(<<y>>, x) = IF x = y THEN 1 ELSE 0
  <2>1. DOMAIN <<y>> = {1} /\ <<y>>[1] = y
    OBVIOUS
  <2>2. CASE x = y
    <3>1. {i \in DOMAIN <<y>> : <<y>>[i] = x} = {1}
      BY <2>1, <2>2
    <3>. QED
      BY <2>2, <3>1, FS_Singleton DEF Count
  <2>3. CASE x # y
    <3>1. {i \in DOMAIN <<y>> : <<y>>[i] = x} = {}
      BY <2>1, <2>3
    <3>. QED
      BY <2>3, <3>1, FS_EmptySet DEF Count
  <2>. QED
    BY <2>2, <2>3
<1>3. Count(s \o <<y>>, x) = Count(s, x) + Count(<<y>>, x)
  BY <1>1, CountConcat
<1>. QED
  BY <1>1, <1>2, <1>3

\* What is in a sequence is counted.
LEMMA CountsElements ==
    ASSUME NEW S, NEW s \in Seq(S), NEW x
    PROVE  x \in ToSet(s) <=> Count(s, x) # 0
<1>. DEFINE A == {i \in DOMAIN s : s[i] = x}
<1>1. IsFiniteSet(A)
  BY CountIsNatural
<1>2. A = {} <=> Cardinality(A) = 0
  BY <1>1, FS_EmptySet
<1>3. x \in ToSet(s) <=> A # {}
  BY DEF ToSet
<1>. QED
  BY <1>2, <1>3 DEF Count
-----------------------------------------------------------------------------
(***************************************************************************)
(* Tries.                                                                  *)
(***************************************************************************)
\* A path is as long as its key.
LEMMA PathOfKey ==
    ASSUME NEW key \in Seq(Text)
    PROVE  /\ Path(key) \in Seq(Text) /\ Len(Path(key)) = Len(key)
           /\ \A i \in 1 .. Len(key) :
                Path(key)[i] = IF IsPlaceholder(key[i]) THEN <<Star>> ELSE key[i]
<1>1. DOMAIN key = 1 .. Len(key) /\ Len(key) \in Nat /\ \A i \in 1 .. Len(key) : key[i] \in Text
  BY LenProperties, ElementOfSeq
<1>2. <<Star>> \in Text
  BY StarAssumption DEF Text
<1>. DEFINE e(i) == IF IsPlaceholder(key[i]) THEN <<Star>> ELSE key[i]
<1>3. Path(key) = [i \in 1 .. Len(key) |-> e(i)]
  BY <1>1 DEF Path
<1>4. \A i \in 1 .. Len(key) : e(i) \in Text
  BY <1>1, <1>2
<1>. HIDE DEF e
<1>5. [i \in 1 .. Len(key) |-> e(i)] \in Seq(Text) /\ Len([i \in 1 .. Len(key) |-> e(i)]) = Len(key)
  BY <1>1, <1>4, SeqDef
<1>. QED
  BY <1>3, <1>5 DEF e

\* The prefixes of a path are the paths that agree with it up to their length.
LEMMA PrefixesOf ==
    ASSUME NEW q \in Seq(Text), NEW p
    PROVE  p \in Prefixes(q) <=>
                /\ p \in Seq(Text) /\ Len(p) <= Len(q)
                /\ \A i \in 1 .. Len(p) : p[i] = q[i]
<1>1. Len(q) \in Nat /\ \A i \in 1 .. Len(q) : q[i] \in Text
  BY LenProperties, ElementOfSeq
<1>2. ASSUME NEW l \in 0 .. Len(q)
      PROVE  /\ SubSeq(q, 1, l) \in Seq(Text) /\ Len(SubSeq(q, 1, l)) = l
             /\ \A i \in 1 .. l : SubSeq(q, 1, l)[i] = q[i]
  <2>1. \A i \in 1 .. l : q[i] \in Text
    BY <1>1
  <2>2. l \in Int /\ 1 \in Int
    OBVIOUS
  <2>3. /\ SubSeq(q, 1, l) \in Seq(Text)
        /\ Len(SubSeq(q, 1, l)) = IF 1 <= l THEN l - 1 + 1 ELSE 0
        /\ \A i \in 1 .. l - 1 + 1 : SubSeq(q, 1, l)[i] = q[1 + i - 1]
    BY <2>1, <2>2, SubSeqProperties
  <2>4. \A i \in 1 .. l : i \in 1 .. l - 1 + 1 /\ 1 + i - 1 = i
    OBVIOUS
  <2>. QED
    BY <2>3, <2>4
<1>3. ASSUME p \in Prefixes(q)
      PROVE  p \in Seq(Text) /\ Len(p) <= Len(q) /\ \A i \in 1 .. Len(p) : p[i] = q[i]
  <2>1. PICK l \in 0 .. Len(q) : p = SubSeq(q, 1, l)
    BY <1>3 DEF Prefixes
  <2>. QED
    BY <1>1, <1>2, <2>1
<1>4. ASSUME p \in Seq(Text), Len(p) <= Len(q), \A i \in 1 .. Len(p) : p[i] = q[i]
      PROVE  p \in Prefixes(q)
  <2>1. Len(p) \in 0 .. Len(q)
    BY <1>1, <1>4, LenProperties
  <2>2. p = SubSeq(q, 1, Len(p))
    BY <1>2, <1>4, <2>1, SeqEqual
  <2>. QED
    BY <2>1, <2>2 DEF Prefixes
<1>. QED
  BY <1>3, <1>4

\* The nodes are those on the ways to the paths in P.
IsTrie(t, V, P) ==
    /\ P \subseteq Seq(Text)
    /\ DOMAIN t = {<< >>} \cup UNION {Prefixes(p) : p \in P}
    /\ \A p \in DOMAIN t : t[p] \in Seq(V)

\* The nodes are the paths to the paths in P.
LEMMA TrieNodes ==
    ASSUME NEW t, NEW V, NEW P, IsTrie(t, V, P)
    PROVE  /\ DOMAIN t \subseteq Seq(Text) /\ << >> \in DOMAIN t
           /\ \A p : ValuesAt(t, p) \in Seq(V)
           /\ \A p \in P : p \in DOMAIN t
           /\ \A p \in P, q \in Seq(Text) :
                Len(q) <= Len(p) /\ (\A i \in 1 .. Len(q) : q[i] = p[i]) => q \in DOMAIN t
           /\ \A q \in DOMAIN t : q # << >> =>
                \E p \in P : Len(q) <= Len(p) /\ \A i \in 1 .. Len(q) : q[i] = p[i]
<1>1. << >> \in Seq(Text) /\ << >> \in Seq(V)
  BY EmptySeq
<1>2. \A p : ValuesAt(t, p) \in Seq(V)
  BY <1>1 DEF ValuesAt, IsTrie
<1>3. P \subseteq Seq(Text) /\ DOMAIN t = {<< >>} \cup UNION {Prefixes(p) : p \in P}
  BY DEF IsTrie
<1>4. \A p \in P : Len(p) \in Nat
  BY <1>3, LenProperties
<1>5. DOMAIN t \subseteq Seq(Text) /\ << >> \in DOMAIN t
  BY <1>1, <1>3, PrefixesOf
<1>6. ASSUME NEW p \in P, NEW q \in Seq(Text), Len(q) <= Len(p), \A i \in 1 .. Len(q) : q[i] = p[i]
      PROVE  q \in DOMAIN t
  <2>1. q \in Prefixes(p)
    BY <1>3, <1>6, PrefixesOf
  <2>. QED
    BY <1>3, <2>1
<1>7. \A p \in P : p \in DOMAIN t
  BY <1>3, <1>4, <1>6
<1>8. ASSUME NEW q \in DOMAIN t, q # << >>
      PROVE  \E p \in P : Len(q) <= Len(p) /\ \A i \in 1 .. Len(q) : q[i] = p[i]
  <2>1. PICK p \in P : q \in Prefixes(p)
    BY <1>3, <1>8
  <2>2. Len(q) <= Len(p) /\ \A i \in 1 .. Len(q) : q[i] = p[i]
    BY <1>3, <2>1, PrefixesOf
  <2>. QED
    BY <2>2
<1>. QED
  BY <1>2, <1>5, <1>6, <1>7, <1>8

\* Inserting makes the way to one more path and appends there.
LEMMA InsertGrows ==
    ASSUME NEW t, NEW V, NEW P, IsTrie(t, V, P), NEW key \in Seq(Text), NEW value \in V
    PROVE  /\ IsTrie(Insert(t, key, value), V, P \cup {Path(key)})
           /\ \A p \in DOMAIN Insert(t, key, value) :
                Insert(t, key, value)[p] =
                    IF p = Path(key) THEN Append(ValuesAt(t, p), value) ELSE ValuesAt(t, p)
<1>. DEFINE u == Insert(t, key, value)
<1>1. Path(key) \in Seq(Text)
  BY PathOfKey
<1>2. /\ DOMAIN u = DOMAIN t \cup Prefixes(Path(key))
      /\ \A p \in DOMAIN u :
            u[p] = IF p = Path(key) THEN Append(ValuesAt(t, p), value) ELSE ValuesAt(t, p)
  BY DEF Insert
<1>3. \A p : ValuesAt(t, p) \in Seq(V) /\ Append(ValuesAt(t, p), value) \in Seq(V)
  BY TrieNodes, AppendProperties
<1>4. DOMAIN u = {<< >>} \cup UNION {Prefixes(p) : p \in P \cup {Path(key)}}
  BY <1>2 DEF IsTrie
<1>. QED
  BY <1>1, <1>2, <1>3, <1>4 DEF IsTrie

LEMMA EmptyIsTrie ==
    ASSUME NEW V
    PROVE  IsTrie(EmptyTrie, V, {}) /\ \A p \in DOMAIN EmptyTrie : EmptyTrie[p] = << >>
BY EmptySeq DEF IsTrie, EmptyTrie

-----------------------------------------------------------------------------
(***************************************************************************)
(* Lookup.                                                                 *)
(***************************************************************************)
Nodes(t, key) == {path \in DOMAIN t : Len(path) <= Len(key)}

\* What is found from a node on, given what is found below it.
Found(t, key, override, below, path) ==
    IF Len(path) = Len(key) THEN t[path]
    ELSE LET segment  == key[Len(path) + 1]
             exact    == Append(path, segment)
             wildcard == Append(path, <<Star>>)
         IN  (IF exact \in Nodes(t, key) THEN below[exact] ELSE << >>) \o
             (IF /\ TakesWildcard(t, exact, override)
                 /\ segment # <<Star>> /\ wildcard \in Nodes(t, key)
              THEN below[wildcard] ELSE << >>)

\* Get is defined by recursion on the paths; a least depth at which there is no such
\* function cannot exist.
LEMMA LookupExists ==
    ASSUME NEW t, DOMAIN t \subseteq Seq(Text), NEW key \in Seq(Text), NEW override
    PROVE  \E f : f = [path \in Nodes(t, key) |-> Found(t, key, override, f, path)]
<1>. DEFINE n == Len(key)
            Deep(d) == {path \in Nodes(t, key) : Len(path) >= n - d}
            Solves(f, d) == f = [path \in Deep(d) |-> Found(t, key, override, f, path)]
            Bad == {d \in 0 .. n : ~ \E f : Solves(f, d)}
<1>1. n \in Nat /\ \A path \in Nodes(t, key) : path \in Seq(Text) /\ Len(path) \in Nat /\ Len(path) <= n
  BY LenProperties DEF Nodes
<1>2. \A i \in 1 .. n : key[i] \in Text
  BY <1>1, ElementOfSeq
<1>3. <<Star>> \in Text
  BY StarAssumption DEF Text
<1>4. n \in 0 .. n /\ Deep(n) = Nodes(t, key)
  BY <1>1
<1>5. SUFFICES ASSUME n \in Bad PROVE FALSE
  BY <1>4
<1>. HIDE DEF n
<1>6. PICK m \in Bad : \A k \in Bad : m <= k
  <2>1. Bad \in SUBSET Nat
    BY <1>1
  <2>2. Min(Bad) \in Bad /\ \A k \in Bad : Min(Bad) <= k
    BY <1>5, <2>1, HasMin
  <2>. QED
    BY <2>2
<1>7. m \in Nat /\ m <= n
  BY <1>1
<1>8. CASE m = 0
  <2>. DEFINE f == [path \in Deep(0) |-> t[path]]
  <2>1. \A path \in Deep(0) : Len(path) = Len(key)
    BY <1>1 DEF n
  <2>2. \A path \in Deep(0) : Found(t, key, override, f, path) = t[path]
    BY <2>1 DEF Found
  <2>3. Solves(f, 0)
    BY <2>2
  <2>. QED
    BY <1>8, <2>3
<1>9. CASE m # 0
  <2>. HIDE DEF Bad
  <2>0. m - 1 \in 0 .. n /\ ~ (m <= m - 1)
    BY <1>1, <1>7, <1>9
  <2>1. m - 1 \in 0 .. n /\ m - 1 \notin Bad
    BY <1>6, <2>0
  <2>. USE DEF Bad
  <2>2. PICK g : Solves(g, m - 1)
    BY <2>1
  <2>. DEFINE f == [path \in Deep(m) |-> Found(t, key, override, g, path)]
  <2>3. \A path \in Deep(m - 1) : path \in Deep(m) /\ f[path] = g[path]
    <3>1. \A path \in Deep(m - 1) : path \in Deep(m)
      BY <1>1, <1>7
    <3>2. \A path \in Deep(m - 1) : g[path] = Found(t, key, override, g, path)
      BY <2>2
    <3>. QED
      BY <3>1, <3>2
  <2>4. ASSUME NEW path \in Deep(m)
        PROVE  Found(t, key, override, f, path) = Found(t, key, override, g, path)
    <3>1. CASE Len(path) = Len(key)
      BY <3>1 DEF Found
    <3>2. CASE Len(path) # Len(key)
      <4>1. /\ path \in Seq(Text) /\ Len(path) \in Nat /\ Len(path) < n
            /\ Len(path) + 1 \in 1 .. n /\ Len(path) >= n - m
        BY <1>1, <3>2 DEF n
      <4>2. ASSUME NEW segment \in Text, Append(path, segment) \in Nodes(t, key)
            PROVE  f[Append(path, segment)] = g[Append(path, segment)]
        <5>1. Len(Append(path, segment)) = Len(path) + 1
          BY <4>1, AppendProperties
        <5>2. Append(path, segment) \in Deep(m - 1)
          BY <1>1, <1>7, <4>1, <4>2, <5>1
        <5>. QED
          BY <2>3, <5>2
      <4>3. key[Len(path) + 1] \in Text
        BY <1>2, <4>1
      <4>. HIDE DEF f
      <4>. QED
        BY <1>3, <4>2, <4>3 DEF Found
    <3>. QED
      BY <3>1, <3>2
  <2>5. Solves(f, m)
    BY <2>4
  <2>. QED
    BY <2>5
<1>. QED
  BY <1>8, <1>9

\* What is found from each node on, and from the root.
IsWalk(f, t, key, override) ==
    /\ DOMAIN f = Nodes(t, key)
    /\ \A path \in Nodes(t, key) : f[path] = Found(t, key, override, f, path)
    /\ Get(t, key, override) = f[<< >>]

\* Get starts a walk at the root.
LEMMA GetWalks ==
    ASSUME NEW t, DOMAIN t \subseteq Seq(Text), NEW key \in Seq(Text), NEW override
    PROVE  \E f : IsWalk(f, t, key, override)
<1>. DEFINE f == CHOOSE f : f = [path \in Nodes(t, key) |-> Found(t, key, override, f, path)]
<1>1. f = [path \in Nodes(t, key) |-> Found(t, key, override, f, path)]
  BY LookupExists
<1>2. Get(t, key, override) = f[<< >>]
  BY DEF Get, Found, Nodes
<1>. HIDE DEF f
<1>3. DOMAIN f = Nodes(t, key)
  BY <1>1
<1>4. \A path \in Nodes(t, key) : f[path] = Found(t, key, override, f, path)
  BY <1>1
<1>. QED
  BY <1>2, <1>3, <1>4 DEF IsWalk

\* Every prefix of a node is a node.
LEMMA TrieIsPrefixClosed ==
    ASSUME NEW t, NEW V, NEW P, IsTrie(t, V, P), NEW q \in DOMAIN t, NEW p \in Seq(Text),
           Len(p) <= Len(q), \A i \in 1 .. Len(p) : p[i] = q[i]
    PROVE  p \in DOMAIN t
<1>1. p \in Seq(Text) /\ q \in Seq(Text) /\ Len(p) \in Nat /\ Len(q) \in Nat
  BY TrieNodes, LenProperties
<1>2. CASE q = << >>
  <2>1. p = << >>
    BY <1>1, <1>2, EmptySeq
  <2>. QED
    BY <2>1, TrieNodes
<1>3. CASE q # << >>
  <2>1. PICK r \in P : Len(q) <= Len(r) /\ \A i \in 1 .. Len(q) : q[i] = r[i]
    BY <1>3, TrieNodes
  <2>2. Len(r) \in Nat
    BY LenProperties DEF IsTrie
  <2>3. Len(p) <= Len(r) /\ \A i \in 1 .. Len(p) : p[i] = r[i]
    BY <1>1, <2>1, <2>2
  <2>. QED
    BY <2>3, TrieNodes
<1>. QED
  BY <1>2, <1>3

\* A property of nodes holds of all of them when it holds of each one below which it
\* holds.
LEMMA FromBelow ==
    ASSUME NEW t, DOMAIN t \subseteq Seq(Text), NEW key \in Seq(Text), NEW Good,
           \A path \in Nodes(t, key) :
               (\A below \in Nodes(t, key) : Len(below) = Len(path) + 1 => below \in Good)
               => path \in Good
    PROVE  Nodes(t, key) \subseteq Good
<1>. DEFINE n == Len(key)
            Bad == {d \in 0 .. n : \E path \in Nodes(t, key) : Len(path) = n - d /\ path \notin Good}
<1>1. n \in Nat /\ \A path \in Nodes(t, key) : Len(path) \in Nat /\ Len(path) <= n
  BY LenProperties DEF Nodes
<1>. HIDE DEF n
<1>2. SUFFICES ASSUME NEW path \in Nodes(t, key), path \notin Good PROVE FALSE
  OBVIOUS
<1>3. n - Len(path) \in Bad
  <2>1. n - Len(path) \in 0 .. n /\ Len(path) = n - (n - Len(path))
    BY <1>1
  <2>. QED
    BY <1>2, <2>1
<1>4. Bad \in SUBSET Nat /\ Bad # {}
  <2>1. 0 .. n \subseteq Nat
    BY <1>1
  <2>2. Bad \subseteq 0 .. n
    OBVIOUS
  <2>. QED
    BY <1>3, <2>1, <2>2
<1>5. PICK m \in Bad : \A k \in Bad : m <= k
  BY <1>4, HasMin
<1>6. PICK least \in Nodes(t, key) : Len(least) = n - m /\ least \notin Good
  BY <1>5
<1>7. PICK below \in Nodes(t, key) : Len(below) = Len(least) + 1 /\ below \notin Good
  BY <1>6
<1>8. m \in Nat /\ Len(below) \in Nat /\ Len(below) <= n /\ Len(least) \in Nat
  BY <1>1, <1>4
<1>9. m - 1 \in 0 .. n /\ Len(below) = n - (m - 1) /\ ~ (m <= m - 1)
  BY <1>1, <1>6, <1>7, <1>8
<1>10. m - 1 \in Bad
  BY <1>7, <1>9
<1>. HIDE DEF Bad
<1>. QED
  BY <1>5, <1>9, <1>10

\* Is h at the node q, k times, and nowhere else?
OnlyAt(t, h, q, k) == \A path \in DOMAIN t : Count(t[path], h) = IF path = q THEN k ELSE 0

\* Does the key lead to q, by exact segments and wildcards?
Reaches(key, q) ==
    /\ Len(q) = Len(key)
    /\ \A i \in 1 .. Len(key) : q[i] = key[i] \/ q[i] = <<Star>>

\* Lookup in the trie of handlers: h is under the path q, k times, and nowhere else.
LEMMA LookupCounts ==
    ASSUME NEW t, NEW V, NEW P, IsTrie(t, V, P), NEW key \in Seq(Text),
           NEW h, NEW q \in Seq(Text), NEW k \in Nat,
           OnlyAt(t, h, q, k), k # 0 => q \in P
    PROVE  /\ Get(t, key, FALSE) \in Seq(V)
           /\ Count(Get(t, key, FALSE), h) = IF Reaches(key, q) THEN k ELSE 0
<1>. DEFINE n == Len(key)
            Below(path) == /\ Len(q) = n
                           /\ \A i \in 1 .. Len(path) : q[i] = path[i]
                           /\ \A i \in Len(path) + 1 .. n : q[i] = key[i] \/ q[i] = <<Star>>
<1>1. DOMAIN t \subseteq Seq(Text) /\ << >> \in DOMAIN t
  BY TrieNodes
<1>2. PICK f : /\ DOMAIN f = Nodes(t, key)
               /\ \A path \in Nodes(t, key) : f[path] = Found(t, key, FALSE, f, path)
               /\ Get(t, key, FALSE) = f[<< >>]
  <2>1. PICK f : IsWalk(f, t, key, FALSE)
    BY <1>1, GetWalks
  <2>. QED
    BY <2>1 DEF IsWalk
<1>. DEFINE Good == {path \in Nodes(t, key) :
                        /\ f[path] \in Seq(V)
                        /\ Count(f[path], h) = IF Below(path) THEN k ELSE 0}
<1>3. n \in Nat /\ Len(q) \in Nat
  BY LenProperties
<1>4. \A i \in 1 .. n : key[i] \in Text
  BY <1>3, ElementOfSeq
<1>5. <<Star>> \in Text
  BY StarAssumption DEF Text
<1>6. << >> \in Nodes(t, key) /\ Len(<< >>) = 0
  BY <1>1, <1>3 DEF Nodes
<1>7. << >> \in Seq(V) /\ Count(<< >>, h) = 0
  BY EmptySeq, CountEmpty
<1>8. ASSUME NEW path \in Nodes(t, key),
             \A below \in Nodes(t, key) : Len(below) = Len(path) + 1 => below \in Good
      PROVE  path \in Good
  <2>. DEFINE l == Len(path)
  <2>1. path \in Seq(Text) /\ path \in DOMAIN t /\ l \in Nat /\ l <= n
    BY <1>1, LenProperties DEF Nodes
  <2>. HIDE DEF l, n
  <2>2. CASE l = n
    <3>1. f[path] = t[path] /\ t[path] \in Seq(V)
      BY <1>2, <2>1, <2>2 DEF Found, IsTrie, l, n
    <3>2. Below(path) <=> path = q
      BY <1>3, <2>1, <2>2, SeqEqual DEF l, n
    <3>3. Count(f[path], h) = IF Below(path) THEN k ELSE 0
      BY <2>1, <3>1, <3>2 DEF OnlyAt
    <3>. QED
      BY <3>1, <3>3
  <2>3. CASE l # n
    <3>1. l + 1 \in 1 .. n /\ key[l + 1] \in Text
      BY <1>3, <1>4, <2>1, <2>3
    <3>. DEFINE From(x) == IF Append(path, x) \in Nodes(t, key) THEN f[Append(path, x)] ELSE << >>
    <3>2. ASSUME NEW x \in Text, x = key[l + 1] \/ x = <<Star>>
          PROVE  From(x) \in Seq(V) /\ Count(From(x), h) = IF Below(path) /\ q[l + 1] = x THEN k ELSE 0
      <4>. DEFINE p == Append(path, x)
      <4>1. /\ p \in Seq(Text) /\ Len(p) = l + 1 /\ p[l + 1] = x
            /\ \A i \in 1 .. l : p[i] = path[i]
        BY <2>1, AppendProperties DEF l
      <4>2. (\A i \in 1 .. Len(p) : q[i] = p[i]) <=> (\A i \in 1 .. l : q[i] = path[i]) /\ q[l + 1] = x
        <5>1. \A i \in 1 .. l + 1 : i \in 1 .. l \/ i = l + 1
          BY <2>1
        <5>2. (\A i \in 1 .. l : i \in 1 .. l + 1) /\ l + 1 \in 1 .. l + 1
          BY <2>1
        <5>. HIDE DEF p
        <5>. QED
          BY <4>1, <5>1, <5>2
      <4>3. q[l + 1] = x =>
              ((\A i \in l + 1 .. n : q[i] = key[i] \/ q[i] = <<Star>>)
               <=> \A i \in l + 1 + 1 .. n : q[i] = key[i] \/ q[i] = <<Star>>)
        <5>1. \A i \in l + 1 .. n : i = l + 1 \/ i \in l + 1 + 1 .. n
          BY <1>3, <2>1
        <5>2. \A i \in l + 1 + 1 .. n : i \in l + 1 .. n
          BY <1>3, <2>1
        <5>. QED
          BY <3>2, <5>1, <5>2
      <4>. HIDE DEF p
      <4>4. Below(p) <=> Below(path) /\ q[l + 1] = x
        BY <4>1, <4>2, <4>3 DEF l
      <4>5. CASE p \in Nodes(t, key)
        <5>1. p \in Good
          BY <1>8, <4>1, <4>5 DEF l
        <5>. QED
          BY <4>4, <4>5, <5>1 DEF p
      <4>6. CASE p \notin Nodes(t, key)
        <5>1. ASSUME Below(path), q[l + 1] = x, k # 0 PROVE FALSE
          <6>1. Len(q) = n /\ \A i \in 1 .. Len(p) : q[i] = p[i]
            BY <4>2, <5>1 DEF l
          <6>2. Len(p) <= n
            BY <1>3, <3>1, <4>1
          <6>3. p \in DOMAIN t
            BY <4>1, <5>1, <6>1, <6>2, TrieNodes
          <6>. QED
            BY <4>6, <6>2, <6>3 DEF Nodes, n
        <5>. QED
          BY <1>7, <4>6, <5>1 DEF p
      <4>. QED
        BY <4>5, <4>6
    <3>. DEFINE segment == key[l + 1]
                A == From(segment)
                B == IF segment # <<Star>> THEN From(<<Star>>) ELSE << >>
    <3>3. f[path] = A \o B
      BY <1>2, <2>3 DEF Found, TakesWildcard, l, n
    <3>. HIDE DEF From
    <3>4. A \in Seq(V) /\ Count(A, h) = IF Below(path) /\ q[l + 1] = segment THEN k ELSE 0
      BY <3>1, <3>2
    <3>5. /\ B \in Seq(V)
          /\ Count(B, h) = IF segment # <<Star>> /\ Below(path) /\ q[l + 1] = <<Star>> THEN k ELSE 0
      BY <1>5, <1>7, <3>2
    <3>6. f[path] \in Seq(V) /\ Count(f[path], h) = Count(A, h) + Count(B, h)
      <4>1. A \in Seq(V) /\ B \in Seq(V)
        BY <3>4, <3>5
      <4>. HIDE DEF A, B
      <4>. QED
        BY <3>3, <4>1, CountConcat, ConcatProperties
    <3>7. Below(path) => q[l + 1] = segment \/ q[l + 1] = <<Star>>
      <4>1. l + 1 \in l + 1 .. n
        BY <1>3, <3>1
      <4>. QED
        BY <4>1 DEF l
    <3>. HIDE DEF A, B, Below, segment
    <3>8. Count(f[path], h) = IF Below(path) THEN k ELSE 0
      <4>1. CASE ~ Below(path)
        BY <3>4, <3>5, <3>6, <4>1
      <4>2. CASE Below(path) /\ q[l + 1] = segment
        <5>1. Count(A, h) = k /\ Count(B, h) = 0
          BY <3>4, <3>5, <4>2
        <5>. QED
          BY <3>6, <4>2, <5>1
      <4>3. CASE Below(path) /\ q[l + 1] # segment
        <5>1. Count(A, h) = 0 /\ Count(B, h) = k
          BY <3>4, <3>5, <3>7, <4>3
        <5>. QED
          BY <3>6, <4>3, <5>1
      <4>. QED
        BY <4>1, <4>2, <4>3
    <3>. QED
      BY <3>6, <3>8
  <2>. QED
    BY <2>2, <2>3
<1>9. Nodes(t, key) \subseteq Good
  <2>. HIDE DEF Good
  <2>. QED
    BY <1>1, <1>8, FromBelow
<1>10. << >> \in Good
  BY <1>6, <1>9
<1>11. Below(<< >>) <=> Reaches(key, q)
  BY <1>6 DEF Reaches
<1>. QED
  BY <1>2, <1>10, <1>11

\* Lookup in the trie of policies: what is found is at the one node q to which exact
\* segments lead wherever there is a node for them.
Leads(t, key, q, l) ==
    \A i \in l + 1 .. Len(key) :
        \/ q[i] = key[i]
        \/ /\ q[i] = <<Star>>
           /\ ~ \E e \in DOMAIN t : /\ Len(e) = i /\ e[i] = key[i]
                                    /\ \A j \in 1 .. i - 1 : e[j] = q[j]

Follows(t, key, q) == Len(q) = Len(key) /\ Leads(t, key, q, 0)

LEMMA LookupFollows ==
    ASSUME NEW t, NEW V, NEW P, IsTrie(t, V, P), NEW key \in Seq(Text)
    PROVE  /\ \A q \in DOMAIN t : Follows(t, key, q) => Get(t, key, TRUE) = t[q]
           /\ (\A q \in DOMAIN t : ~ Follows(t, key, q)) => Get(t, key, TRUE) = << >>
<1>. DEFINE n == Len(key)
            Below(path, q) == /\ Len(q) = n
                              /\ \A i \in 1 .. Len(path) : q[i] = path[i]
                              /\ Leads(t, key, q, Len(path))
<1>1. DOMAIN t \subseteq Seq(Text) /\ << >> \in DOMAIN t
  BY TrieNodes
<1>2. PICK f : /\ DOMAIN f = Nodes(t, key)
               /\ \A path \in Nodes(t, key) : f[path] = Found(t, key, TRUE, f, path)
               /\ Get(t, key, TRUE) = f[<< >>]
  <2>1. PICK f : IsWalk(f, t, key, TRUE)
    BY <1>1, GetWalks
  <2>. QED
    BY <2>1 DEF IsWalk
<1>. DEFINE Good == {path \in Nodes(t, key) :
                        /\ f[path] \in Seq(V)
                        /\ \A q \in DOMAIN t : Below(path, q) => f[path] = t[q]
                        /\ (\A q \in DOMAIN t : ~ Below(path, q)) => f[path] = << >>}
<1>3. n \in Nat /\ \A q \in DOMAIN t : Len(q) \in Nat /\ q \in Seq(Text)
  BY <1>1, LenProperties
<1>4. \A i \in 1 .. n : key[i] \in Text
  BY <1>3, ElementOfSeq
<1>5. <<Star>> \in Text
  BY StarAssumption DEF Text
<1>6. << >> \in Nodes(t, key) /\ Len(<< >>) = 0
  BY <1>1, <1>3 DEF Nodes
<1>8. ASSUME NEW path \in Nodes(t, key),
             \A below \in Nodes(t, key) : Len(below) = Len(path) + 1 => below \in Good
      PROVE  path \in Good
  <2>. DEFINE l == Len(path)
  <2>1. path \in Seq(Text) /\ path \in DOMAIN t /\ l \in Nat /\ l <= n
    BY <1>1, LenProperties DEF Nodes
  <2>. HIDE DEF l, n
  <2>2. CASE l = n
    <3>1. f[path] = t[path]
      BY <1>2, <2>1, <2>2 DEF Found, l, n
    <3>2. \A q \in DOMAIN t : Below(path, q) => path = q
      BY <1>3, <2>1, <2>2, SeqEqual DEF l, n
    <3>3. Below(path, path)
      <4>1. l + 1 .. n = {}
        BY <1>3, <2>2
      <4>. QED
        BY <2>1, <2>2, <4>1 DEF Leads, l, n
    <3>4. f[path] \in Seq(V)
      BY <2>1, <3>1 DEF IsTrie
    <3>. QED
      BY <2>1, <3>1, <3>2, <3>3, <3>4
  <2>3. CASE l # n
    <3>. DEFINE segment == key[l + 1]
                exact == Append(path, segment)
                wildcard == Append(path, <<Star>>)
    <3>1. l + 1 \in 1 .. n /\ segment \in Text
      BY <1>3, <1>4, <2>1, <2>3
    <3>. HIDE DEF segment
    <3>2. ASSUME NEW x \in Text
          PROVE  /\ Append(path, x) \in Seq(Text) /\ Len(Append(path, x)) = l + 1
                 /\ Append(path, x)[l + 1] = x
                 /\ \A i \in 1 .. l : Append(path, x)[i] = path[i]
                 /\ Append(path, x) \in Nodes(t, key) <=> Append(path, x) \in DOMAIN t
      <4>1. /\ Append(path, x) \in Seq(Text) /\ Len(Append(path, x)) = l + 1
            /\ Append(path, x)[l + 1] = x
            /\ \A i \in 1 .. l : Append(path, x)[i] = path[i]
        BY <2>1, AppendProperties DEF l
      <4>2. l + 1 <= n
        BY <1>3, <3>1
      <4>. QED
        BY <4>1, <4>2 DEF Nodes, n
    <3>3. ASSUME NEW q \in DOMAIN t, NEW x \in Text
          PROVE  /\ Below(path, q) /\ q[l + 1] = x <=>
                        Below(Append(path, x), q) /\ Leads(t, key, q, l)
                 /\ Below(path, q) /\ q[l + 1] = x => Append(path, x) \in DOMAIN t
      <4>. DEFINE p == Append(path, x)
      <4>1. /\ p \in Seq(Text) /\ Len(p) = l + 1 /\ p[l + 1] = x
            /\ \A i \in 1 .. l : p[i] = path[i]
        BY <3>2
      <4>. HIDE DEF p
      <4>2. (\A i \in 1 .. Len(p) : q[i] = p[i]) <=> (\A i \in 1 .. l : q[i] = path[i]) /\ q[l + 1] = x
        <5>1. \A i \in 1 .. l + 1 : i \in 1 .. l \/ i = l + 1
          BY <2>1
        <5>2. (\A i \in 1 .. l : i \in 1 .. l + 1) /\ l + 1 \in 1 .. l + 1
          BY <2>1
        <5>. QED
          BY <4>1, <5>1, <5>2
      <4>3. Leads(t, key, q, l) => Leads(t, key, q, Len(p))
        <5>1. \A i \in l + 1 + 1 .. n : i \in l + 1 .. n
          BY <1>3, <2>1
        <5>. QED
          BY <4>1, <5>1 DEF Leads, n
      <4>4. Below(path, q) /\ q[l + 1] = x <=> Below(p, q) /\ Leads(t, key, q, l)
        BY <4>2, <4>3 DEF l
      <4>5. ASSUME Below(path, q), q[l + 1] = x PROVE p \in DOMAIN t
        <5>1. Len(q) = n /\ \A i \in 1 .. Len(p) : p[i] = q[i]
          BY <4>2, <4>5 DEF l
        <5>2. Len(p) <= Len(q)
          BY <1>3, <3>1, <4>1, <5>1
        <5>. QED
          BY <4>1, <5>1, <5>2, TrieIsPrefixClosed
      <4>. QED
        BY <4>4, <4>5 DEF p
    <3>4. ASSUME NEW q \in DOMAIN t
          PROVE  (l + 1 \in l + 1 .. n) /\ (Leads(t, key, q, l) <=>
                    /\ Leads(t, key, q, l + 1)
                    /\ \/ q[l + 1] = segment
                       \/ /\ q[l + 1] = <<Star>>
                          /\ ~ \E e \in DOMAIN t : /\ Len(e) = l + 1 /\ e[l + 1] = segment
                                                   /\ \A j \in 1 .. l : e[j] = q[j])
      <4>1. l + 1 - 1 = l /\ l + 1 \in l + 1 .. n
        BY <2>1, <3>1
      <4>2. \A i \in l + 1 .. n : i = l + 1 \/ i \in l + 1 + 1 .. n
        BY <1>3, <2>1
      <4>3. \A i \in l + 1 + 1 .. n : i \in l + 1 .. n
        BY <1>3, <2>1
      <4>. DEFINE Step(i) ==
              \/ q[i] = key[i]
              \/ /\ q[i] = <<Star>>
                 /\ ~ \E e \in DOMAIN t : /\ Len(e) = i /\ e[i] = key[i]
                                          /\ \A j \in 1 .. i - 1 : e[j] = q[j]
      <4>4. Leads(t, key, q, l) <=> \A i \in l + 1 .. n : Step(i)
        BY DEF Leads, n
      <4>5. Leads(t, key, q, l + 1) <=> \A i \in l + 1 + 1 .. n : Step(i)
        BY DEF Leads, n
      <4>6. Step(l + 1) <=>
              \/ q[l + 1] = segment
              \/ /\ q[l + 1] = <<Star>>
                 /\ ~ \E e \in DOMAIN t : /\ Len(e) = l + 1 /\ e[l + 1] = segment
                                          /\ \A j \in 1 .. l : e[j] = q[j]
        <5>1. PICK i \in Int : i = l + 1
          BY <3>1
        <5>2. 1 .. i - 1 = 1 .. l
          BY <2>1, <5>1
        <5>3. Step(i) <=>
                \/ q[i] = key[i]
                \/ /\ q[i] = <<Star>>
                   /\ ~ \E e \in DOMAIN t : /\ Len(e) = i /\ e[i] = key[i]
                                            /\ \A j \in 1 .. l : e[j] = q[j]
          BY <5>2, Zenon
        <5>. QED
          BY <5>1, <5>3, Zenon DEF segment
      <4>. HIDE DEF Step
      <4>7. Leads(t, key, q, l) <=> Leads(t, key, q, l + 1) /\ Step(l + 1)
        BY <4>1, <4>2, <4>3, <4>4, <4>5
      <4>. QED
        BY <4>1, <4>6, <4>7
    <3>5. exact \in Seq(Text) /\ wildcard \in Seq(Text) /\ Len(exact) = l + 1 /\ Len(wildcard) = l + 1
      BY <1>5, <3>1, <3>2
    <3>. DEFINE Same(p) == \A q \in DOMAIN t : Below(path, q) <=> Below(p, q)
    <3>6. ASSUME NEW p \in Nodes(t, key), Len(p) = l + 1, f[path] = f[p], Same(p)
          PROVE  path \in Good
      <4>1. p \in Good
        BY <1>8, <3>6 DEF l
      <4>2. f[p] \in Seq(V)
        BY <4>1
      <4>. HIDE DEF Below
      <4>. QED
        BY <3>6, <4>1, <4>2
    <3>0. \A p \in Nodes(t, key) : Len(p) = l + 1 => f[p] \in Seq(V)
      BY <1>8 DEF l
    <3>7. CASE exact \in DOMAIN t
      <4>1. exact \in Nodes(t, key)
        BY <3>1, <3>2, <3>7
      <4>2. f[path] = f[exact] \o << >>
        BY <1>2, <2>3, <3>7, <4>1 DEF Found, TakesWildcard, l, n, segment
      <4>3. f[path] = f[exact]
        <5>1. f[exact] \in Seq(V)
          BY <3>0, <3>5, <4>1
        <5>. QED
          BY <4>2, <5>1, ConcatEmptySeq
      <4>4. ASSUME NEW q \in DOMAIN t PROVE Below(path, q) <=> Below(exact, q)
        <5>1. ASSUME Below(path, q) PROVE q[l + 1] = segment
          <6>1. /\ exact[l + 1] = segment /\ \A j \in 1 .. l : exact[j] = q[j]
            BY <3>1, <3>2, <5>1 DEF l
          <6>2. Leads(t, key, q, l)
            BY <5>1 DEF l
          <6>. HIDE DEF exact
          <6>. QED
            BY <3>4, <3>5, <3>7, <6>1, <6>2
        <5>2. ASSUME Below(exact, q) PROVE Leads(t, key, q, l)
          <6>1. q[l + 1] = segment
            <7>1. l + 1 \in 1 .. Len(exact)
              BY <2>1, <3>5
            <7>. QED
              BY <3>1, <3>2, <5>2, <7>1
          <6>2. Leads(t, key, q, l + 1)
            BY <3>5, <5>2
          <6>. QED
            BY <3>4, <6>1, <6>2
        <5>. QED
          BY <3>1, <3>3, <5>1, <5>2
      <4>. HIDE DEF Below
      <4>. QED
        BY <3>5, <3>6, <4>1, <4>3, <4>4
    <3>8. CASE exact \notin DOMAIN t
      <4>1. exact \notin Nodes(t, key)
        BY <3>8 DEF Nodes
      <4>2. ASSUME NEW q \in DOMAIN t, Below(path, q)
            PROVE  segment # <<Star>> /\ q[l + 1] = <<Star>> /\ wildcard \in DOMAIN t
        <5>1. q[l + 1] # segment
          BY <3>1, <3>3, <3>8, <4>2
        <5>2. q[l + 1] = <<Star>>
          BY <3>4, <4>2, <5>1 DEF l
        <5>. QED
          BY <1>5, <3>3, <4>2, <5>1, <5>2
      <4>3. CASE segment # <<Star>> /\ wildcard \in DOMAIN t
        <5>1. wildcard \in Nodes(t, key)
          BY <1>5, <3>2, <4>3
        <5>2. f[path] = << >> \o f[wildcard]
          BY <1>2, <2>3, <3>8, <4>1, <4>3, <5>1 DEF Found, TakesWildcard, l, n, segment
        <5>3. f[path] = f[wildcard]
          <6>1. f[wildcard] \in Seq(V)
            BY <3>0, <3>5, <5>1
          <6>. QED
            BY <5>2, <6>1, ConcatEmptySeq
        <5>4. ASSUME NEW q \in DOMAIN t PROVE Below(path, q) <=> Below(wildcard, q)
          <6>1. ASSUME Below(wildcard, q) PROVE Leads(t, key, q, l)
            <7>1. q[l + 1] = <<Star>> /\ \A j \in 1 .. l : q[j] = path[j]
              <8>1. l + 1 \in 1 .. Len(wildcard) /\ \A j \in 1 .. l : j \in 1 .. Len(wildcard)
                BY <2>1, <3>5
              <8>. QED
                BY <1>5, <3>2, <6>1, <8>1
            <7>2. Leads(t, key, q, l + 1)
              BY <3>5, <6>1
            <7>3. ASSUME NEW e \in DOMAIN t, Len(e) = l + 1, e[l + 1] = segment,
                         \A j \in 1 .. l : e[j] = q[j]
                  PROVE  FALSE
              <8>1. e \in Seq(Text) /\ \A j \in 1 .. l + 1 : j \in 1 .. l \/ j = l + 1
                BY <1>3, <2>1
              <8>2. /\ exact[l + 1] = segment /\ \A j \in 1 .. l : exact[j] = path[j]
                BY <3>1, <3>2
              <8>3. \A j \in 1 .. l + 1 : e[j] = exact[j]
                BY <7>1, <7>3, <8>1, <8>2
              <8>. HIDE DEF exact
              <8>4. e = exact
                BY <3>5, <7>3, <8>1, <8>3, SeqEqual
              <8>. QED
                BY <3>8, <8>4
            <7>. QED
              BY <3>4, <7>1, <7>2, <7>3
          <6>. QED
            BY <1>5, <3>3, <4>2, <6>1
        <5>. HIDE DEF Below
        <5>. QED
          BY <3>5, <3>6, <5>1, <5>3, <5>4
      <4>4. CASE ~ (segment # <<Star>> /\ wildcard \in DOMAIN t)
        <5>1. ~ (segment # <<Star>> /\ wildcard \in Nodes(t, key))
          BY <4>4 DEF Nodes
        <5>2. f[path] = << >> \o << >>
          BY <1>2, <2>3, <4>1, <5>1 DEF Found, l, n, segment
        <5>3. f[path] = << >> /\ << >> \in Seq(V)
          BY <5>2, EmptySeq, ConcatEmptySeq
        <5>4. \A q \in DOMAIN t : ~ Below(path, q)
          BY <4>2, <4>4
        <5>. QED
          BY <5>3, <5>4
      <4>. QED
        BY <4>3, <4>4
    <3>. QED
      BY <3>7, <3>8
  <2>. QED
    BY <2>2, <2>3
<1>9. Nodes(t, key) \subseteq Good
  <2>. HIDE DEF Good
  <2>. QED
    BY <1>1, <1>8, FromBelow
<1>10. << >> \in Good
  BY <1>6, <1>9
<1>11. \A q \in DOMAIN t : Below(<< >>, q) <=> Follows(t, key, q)
  BY <1>6 DEF Follows
<1>. HIDE DEF Below
<1>. QED
  BY <1>2, <1>10, <1>11

-----------------------------------------------------------------------------
(***************************************************************************)
(* Registration.                                                           *)
(***************************************************************************)
HandlerData == [func: Callback, pattern: Seq(Text)]
PolicyData  == [pattern: Seq(Text), policy: Policy]

\* The loops of FlattenSeq and InsertAll.
FlattenStep(seqs, f, i) == IF i = 1 THEN seqs[i] ELSE f[i - 1] \o seqs[i]
InsertStep(trie, added, f, i) ==
    IF i = 0 THEN trie ELSE Insert(f[i - 1], added[i].pattern, added[i])

LEMMA FlattenLoopExists ==
    ASSUME NEW seqs, NEW n \in Nat
    PROVE  \E f : f = [i \in 1 .. n |-> FlattenStep(seqs, f, i)]
<1>. DEFINE Solves(f, d) == f = [i \in 1 .. d |-> FlattenStep(seqs, f, i)]
            Bad == {d \in 0 .. n : ~ \E f : Solves(f, d)}
<1>1. n \in 0 .. n
  OBVIOUS
<1>2. SUFFICES ASSUME n \in Bad PROVE FALSE
  BY <1>1
<1>3. PICK m \in Bad : \A k \in Bad : m <= k
  <2>1. Bad \in SUBSET Nat
    OBVIOUS
  <2>. QED
    BY <1>2, <2>1, HasMin
<1>4. m \in Nat /\ m <= n
  OBVIOUS
<1>5. CASE m = 0
  <2>. DEFINE f == [i \in 1 .. 0 |-> 0]
  <2>1. 1 .. 0 = {}
    OBVIOUS
  <2>2. Solves(f, 0)
    BY <2>1
  <2>. QED
    BY <1>5, <2>2
<1>6. CASE m # 0
  <2>1. m - 1 \in 0 .. n /\ ~ (m <= m - 1)
    BY <1>4, <1>6
  <2>. HIDE DEF Bad
  <2>2. m - 1 \notin Bad
    BY <1>3, <2>1
  <2>. USE DEF Bad
  <2>3. PICK g : Solves(g, m - 1)
    BY <2>1, <2>2
  <2>. DEFINE f == [i \in 1 .. m |-> FlattenStep(seqs, g, i)]
  <2>4. \A i \in 1 .. m - 1 : i \in 1 .. m /\ f[i] = g[i]
    <3>1. \A i \in 1 .. m - 1 : i \in 1 .. m
      BY <1>4
    <3>2. \A i \in 1 .. m - 1 : g[i] = FlattenStep(seqs, g, i)
      BY <2>3
    <3>. QED
      BY <3>1, <3>2
  <2>. HIDE DEF f
  <2>5. ASSUME NEW i \in 1 .. m PROVE FlattenStep(seqs, f, i) = FlattenStep(seqs, g, i)
    <3>1. i = 1 \/ i - 1 \in 1 .. m - 1
      BY <1>4
    <3>. QED
      BY <2>4, <3>1 DEF FlattenStep
  <2>6. Solves(f, m)
    BY <2>5 DEF f
  <2>. QED
    BY <2>6
<1>. QED
  BY <1>5, <1>6

LEMMA InsertLoopExists ==
    ASSUME NEW trie, NEW added, NEW n \in Nat
    PROVE  \E f : f = [i \in 0 .. n |-> InsertStep(trie, added, f, i)]
<1>. DEFINE Solves(f, d) == f = [i \in 0 .. d |-> InsertStep(trie, added, f, i)]
            Bad == {d \in 0 .. n : ~ \E f : Solves(f, d)}
<1>1. n \in 0 .. n
  OBVIOUS
<1>2. SUFFICES ASSUME n \in Bad PROVE FALSE
  BY <1>1
<1>3. PICK m \in Bad : \A k \in Bad : m <= k
  <2>1. Bad \in SUBSET Nat
    OBVIOUS
  <2>. QED
    BY <1>2, <2>1, HasMin
<1>4. m \in Nat /\ m <= n
  OBVIOUS
<1>5. CASE m = 0
  <2>. DEFINE f == [i \in 0 .. 0 |-> trie]
  <2>1. \A i \in 0 .. 0 : i = 0
    OBVIOUS
  <2>2. \A i \in 0 .. 0 : InsertStep(trie, added, f, i) = trie
    BY <2>1 DEF InsertStep
  <2>3. Solves(f, 0)
    BY <2>2
  <2>. QED
    BY <1>5, <2>3
<1>6. CASE m # 0
  <2>1. m - 1 \in 0 .. n /\ ~ (m <= m - 1)
    BY <1>4, <1>6
  <2>. HIDE DEF Bad
  <2>2. m - 1 \notin Bad
    BY <1>3, <2>1
  <2>. USE DEF Bad
  <2>3. PICK g : Solves(g, m - 1)
    BY <2>1, <2>2
  <2>. DEFINE f == [i \in 0 .. m |-> InsertStep(trie, added, g, i)]
  <2>4. \A i \in 0 .. m - 1 : i \in 0 .. m /\ f[i] = g[i]
    <3>1. \A i \in 0 .. m - 1 : i \in 0 .. m
      BY <1>4
    <3>2. \A i \in 0 .. m - 1 : g[i] = InsertStep(trie, added, g, i)
      BY <2>3
    <3>. QED
      BY <3>1, <3>2
  <2>. HIDE DEF f
  <2>5. ASSUME NEW i \in 0 .. m PROVE InsertStep(trie, added, f, i) = InsertStep(trie, added, g, i)
    <3>1. i = 0 \/ i - 1 \in 0 .. m - 1
      BY <1>4
    <3>. QED
      BY <2>4, <3>1 DEF InsertStep
  <2>6. Solves(f, m)
    BY <2>5 DEF f
  <2>. QED
    BY <2>6
<1>. QED
  BY <1>5, <1>6

\* Joining sequences; singletons join to the sequence of their elements.
LEMMA FlattenJoins ==
    ASSUME NEW S, NEW seqs \in Seq(Seq(S))
    PROVE  /\ FlattenSeq(seqs) \in Seq(S)
           /\ Len(seqs) = 1 => FlattenSeq(seqs) = seqs[1]
           /\ (\A j \in DOMAIN seqs : Len(seqs[j]) = 1) =>
                /\ Len(FlattenSeq(seqs)) = Len(seqs)
                /\ \A j \in DOMAIN seqs : FlattenSeq(seqs)[j] = seqs[j][1]
<1>. DEFINE n == Len(seqs)
<1>1. /\ n \in Nat /\ DOMAIN seqs = 1 .. n
      /\ \A i \in 1 .. n : seqs[i] \in Seq(S) /\ Len(seqs[i]) \in Nat
  BY LenProperties, ElementOfSeq
<1>2. CASE n = 0
  <2>1. seqs = << >> /\ FlattenSeq(seqs) = << >> /\ 1 .. n = {}
    BY <1>1, <1>2, EmptySeq DEF FlattenSeq
  <2>2. ~ (n = 1)
    BY <1>2
  <2>. HIDE DEF n
  <2>. QED
    BY <1>1, <1>2, <2>1, <2>2, EmptySeq DEF n
<1>3. CASE n # 0
  <2>. DEFINE f == CHOOSE f : f = [i \in 1 .. n |-> FlattenStep(seqs, f, i)]
  <2>1. f = [i \in 1 .. n |-> FlattenStep(seqs, f, i)]
    BY <1>1, FlattenLoopExists
  <2>2. FlattenSeq(seqs) = f[n]
    BY <1>3 DEF FlattenSeq, FlattenStep
  <2>. HIDE DEF f, n
  <2>3. \A i \in 1 .. n : f[i] = FlattenStep(seqs, f, i)
    BY <2>1
  <2>. DEFINE Good(i) ==
          /\ f[i] \in Seq(S)
          /\ (\A j \in 1 .. i : Len(seqs[j]) = 1) =>
                Len(f[i]) = i /\ \A j \in 1 .. i : f[i][j] = seqs[j][1]
              Bad == {i \in 1 .. n : ~ Good(i)}
  <2>4. Good(1)
    <3>1. f[1] = seqs[1] /\ \A j \in 1 .. 1 : j = 1
      BY <1>1, <1>3, <2>3 DEF FlattenStep
    <3>. QED
      BY <1>1, <1>3, <3>1
  <2>5. ASSUME NEW m \in 1 .. n, m # 1, Good(m - 1) PROVE Good(m)
    <3>1. f[m] = f[m - 1] \o seqs[m] /\ seqs[m] \in Seq(S) /\ m \in Nat /\ m - 1 \in Nat
      <4>1. m \in Nat /\ m - 1 \in Nat
        BY <1>1
      <4>2. f[m] = FlattenStep(seqs, f, m) /\ seqs[m] \in Seq(S)
        BY <1>1, <2>3
      <4>3. FlattenStep(seqs, f, m) = f[m - 1] \o seqs[m]
        BY <2>5 DEF FlattenStep
      <4>. QED
        BY <4>1, <4>2, <4>3
    <3>2. f[m] \in Seq(S)
      BY <2>5, <3>1, ConcatProperties
    <3>3. ASSUME \A j \in 1 .. m : Len(seqs[j]) = 1
          PROVE  Len(f[m]) = m /\ \A j \in 1 .. m : f[m][j] = seqs[j][1]
      <4>1. \A j \in 1 .. m - 1 : j \in 1 .. m
        BY <3>1
      <4>2. Len(f[m - 1]) = m - 1 /\ \A j \in 1 .. m - 1 : f[m - 1][j] = seqs[j][1]
        BY <2>5, <3>3, <4>1
      <4>3. Len(seqs[m]) = 1
        BY <3>1, <3>3
      <4>4. /\ Len(f[m]) = m - 1 + 1
            /\ \A j \in 1 .. m - 1 + 1 :
                 f[m][j] = IF j <= m - 1 THEN f[m - 1][j] ELSE seqs[m][j - (m - 1)]
        <5>1. f[m - 1] \in Seq(S)
          BY <2>5
        <5>2. /\ Len(f[m - 1] \o seqs[m]) = Len(f[m - 1]) + Len(seqs[m])
              /\ \A j \in 1 .. Len(f[m - 1]) + Len(seqs[m]) :
                   (f[m - 1] \o seqs[m])[j] =
                      IF j <= Len(f[m - 1]) THEN f[m - 1][j] ELSE seqs[m][j - Len(f[m - 1])]
          BY <3>1, <5>1, ConcatProperties
        <5>. HIDE DEF Good
        <5>. QED
          BY <3>1, <4>2, <4>3, <5>2
      <4>5. ASSUME NEW j \in 1 .. m PROVE f[m][j] = seqs[j][1]
        <5>1. CASE j = m
          <6>1. j \in 1 .. m - 1 + 1 /\ ~ (j <= m - 1) /\ j - (m - 1) = 1
            BY <3>1, <5>1
          <6>. QED
            BY <4>4, <5>1, <6>1
        <5>2. CASE j # m
          <6>1. j \in 1 .. m - 1 + 1 /\ j <= m - 1 /\ j \in 1 .. m - 1
            BY <3>1, <5>2
          <6>. QED
            BY <4>2, <4>4, <6>1
        <5>. QED
          BY <5>1, <5>2
      <4>6. m - 1 + 1 = m
        BY <3>1
      <4>. QED
        BY <4>4, <4>5, <4>6
    <3>. QED
      BY <3>2, <3>3
  <2>6. Bad = {}
    <3>1. SUFFICES ASSUME Bad # {} PROVE FALSE
      OBVIOUS
    <3>2. Bad \in SUBSET Nat
      <4>1. 1 .. n \subseteq Nat
        BY <1>1
      <4>. HIDE DEF Good
      <4>. QED
        BY <4>1
    <3>3. PICK m \in Bad : \A k \in Bad : m <= k
      <4>. HIDE DEF Bad
      <4>1. Min(Bad) \in Bad /\ \A k \in Bad : Min(Bad) <= k
        BY <3>1, <3>2, HasMin
      <4>. QED
        BY <4>1
    <3>4. m \in 1 .. n /\ m # 1
      BY <2>4, <3>3
    <3>5. m - 1 \in 1 .. n /\ ~ (m <= m - 1)
      BY <1>1, <3>4
    <3>. HIDE DEF Good
    <3>6. Good(m - 1)
      BY <3>3, <3>5
    <3>. QED
      BY <2>5, <3>3, <3>4, <3>6
  <2>7. n \in 1 .. n
    BY <1>1, <1>3
  <2>8. Good(n)
    <3>. HIDE DEF Good
    <3>. QED
      BY <2>6, <2>7
  <2>9. n = 1 => f[n] = seqs[1]
    BY <2>3, <2>7 DEF FlattenStep
  <2>. QED
    BY <1>1, <2>2, <2>8, <2>9 DEF n
<1>. QED
  BY <1>2, <1>3

\* The segments of a subscription or a route are texts.
LEMMA SegmentsOf ==
    ASSUME NEW values \in Seq(Text)
    PROVE  Segments(values) \in Seq(Text)
<1>1. CASE delimited
  <2>. DEFINE parts == FlattenSeq(values)
  <2>1. parts \in Seq(Part)
    BY FlattenJoins DEF Text
  <2>. HIDE DEF parts
  <2>2. Len(parts) \in Nat /\ DOMAIN parts = 1 .. Len(parts) /\ \A i \in 1 .. Len(parts) : parts[i] \in Part
    BY <2>1, LenProperties, ElementOfSeq
  <2>3. \A i \in 1 .. Len(parts) : <<parts[i]>> \in Text
    BY <2>2 DEF Text
  <2>4. [i \in 1 .. Len(parts) |-> <<parts[i]>>] \in Seq(Text)
    BY <2>2, <2>3, SeqDef
  <2>. QED
    BY <1>1, <2>2, <2>4 DEF Segments, parts
<1>2. CASE ~ delimited
  BY <1>2 DEF Segments
<1>. QED
  BY <1>1, <1>2

-----------------------------------------------------------------------------
\* The trie t holds what was registered, in order.
Holds(t, added) ==
    /\ added \in Seq(HandlerData)
    /\ IsTrie(t, HandlerData, {Path(h.pattern) : h \in ToSet(added)})
    /\ \A p \in DOMAIN t, h \in HandlerData :
            Count(t[p], h) = IF p = Path(h.pattern) THEN Count(added, h) ELSE 0

\* A policy is found at its path when it was the first one set there.
HoldsPolicies(t, set) ==
    /\ set \in Seq(PolicyData)
    /\ IsTrie(t, Policy, {Path(s.pattern) : s \in ToSet(set)})
    /\ \A p \in DOMAIN t :
            /\ (\A i \in DOMAIN set : Path(set[i].pattern) # p) => t[p] = << >>
            /\ \A i \in DOMAIN set :
                 /\ Path(set[i].pattern) = p
                 /\ \A j \in DOMAIN set : Path(set[j].pattern) = p => i <= j
                 => t[p] # << >> /\ Head(t[p]) = set[i].policy

\* What a sequence holds after one more element.
LEMMA ToSetAppend ==
    ASSUME NEW S, NEW s \in Seq(S), NEW x \in S
    PROVE  ToSet(Append(s, x)) = ToSet(s) \cup {x}
<1>1. /\ Len(s) \in Nat /\ DOMAIN s = 1 .. Len(s) /\ DOMAIN Append(s, x) = 1 .. Len(s) + 1
      /\ \A i \in 1 .. Len(s) : Append(s, x)[i] = s[i]
      /\ Append(s, x)[Len(s) + 1] = x
  BY AppendProperties, LenProperties
<1>2. 1 .. Len(s) + 1 = (1 .. Len(s)) \cup {Len(s) + 1}
  BY <1>1
<1>. QED
  BY <1>1, <1>2 DEF ToSet

\* Inserting a handler adds it to what a trie holds.
LEMMA InsertHolds ==
    ASSUME NEW t, NEW added, Holds(t, added), NEW x \in HandlerData
    PROVE  Holds(Insert(t, x.pattern, x), Append(added, x))
<1>. DEFINE u == Insert(t, x.pattern, x)
            P == {Path(h.pattern) : h \in ToSet(added)}
<1>1. x.pattern \in Seq(Text) /\ added \in Seq(HandlerData) /\ IsTrie(t, HandlerData, P)
  BY DEF HandlerData, Holds
<1>2. /\ IsTrie(u, HandlerData, P \cup {Path(x.pattern)})
      /\ \A p \in DOMAIN u :
            u[p] = IF p = Path(x.pattern) THEN Append(ValuesAt(t, p), x) ELSE ValuesAt(t, p)
  <2>. HIDE DEF P, u
  <2>1. PICK key \in Seq(Text) : key = x.pattern
    BY <1>1
  <2>2. u = Insert(t, key, x)
    BY <2>1 DEF u
  <2>3. /\ IsTrie(u, HandlerData, P \cup {Path(key)})
        /\ \A p \in DOMAIN u :
            u[p] = IF p = Path(key) THEN Append(ValuesAt(t, p), x) ELSE ValuesAt(t, p)
    <3>1. IsTrie(u, HandlerData, P \cup {Path(key)})
      BY <1>1, <2>2, InsertGrows
    <3>2. ASSUME NEW p \in DOMAIN u
          PROVE  u[p] = IF p = Path(key) THEN Append(ValuesAt(t, p), x) ELSE ValuesAt(t, p)
      BY <1>1, <2>2, InsertGrows, Zenon
    <3>. QED
      BY <3>1, <3>2
  <2>. QED
    BY <2>1, <2>3
<1>3. Append(added, x) \in Seq(HandlerData) /\ ToSet(Append(added, x)) = ToSet(added) \cup {x}
  BY <1>1, ToSetAppend, AppendProperties
<1>4. {Path(h.pattern) : h \in ToSet(Append(added, x))} = P \cup {Path(x.pattern)}
  BY <1>3
<1>5. ASSUME NEW p, NEW h \in HandlerData
      PROVE  /\ ValuesAt(t, p) \in Seq(HandlerData)
             /\ Count(ValuesAt(t, p), h) = IF p = Path(h.pattern) THEN Count(added, h) ELSE 0
  <2>1. ValuesAt(t, p) \in Seq(HandlerData)
    <3>. HIDE DEF P
    <3>. QED
      BY <1>1, TrieNodes
  <2>2. CASE p \in DOMAIN t
    BY <2>1, <2>2 DEF ValuesAt, Holds
  <2>3. CASE p \notin DOMAIN t
    <3>1. p = Path(h.pattern) => h \notin ToSet(added)
      <4>1. \A r \in P : r \in DOMAIN t
        <5>. HIDE DEF P
        <5>. QED
          BY <1>1, TrieNodes
      <4>. QED
        BY <2>3, <4>1
    <3>2. p = Path(h.pattern) => Count(added, h) = 0
      BY <1>1, <3>1, CountsElements
    <3>. QED
      BY <2>1, <2>3, <3>2, CountEmpty DEF ValuesAt
  <2>. QED
    BY <2>2, <2>3, <2>1
<1>6. ASSUME NEW p \in DOMAIN u, NEW h \in HandlerData
      PROVE  Count(u[p], h) = IF p = Path(h.pattern) THEN Count(Append(added, x), h) ELSE 0
  <2>1. Count(Append(added, x), h) = Count(added, h) + (IF h = x THEN 1 ELSE 0)
    BY <1>1, CountAppend
  <2>2. Count(Append(ValuesAt(t, p), x), h) = Count(ValuesAt(t, p), h) + (IF h = x THEN 1 ELSE 0)
    BY <1>5, CountAppend
  <2>3. Count(added, h) \in Nat
    BY <1>1, CountIsNatural
  <2>. HIDE DEF u
  <2>4. CASE p = Path(x.pattern)
    <3>1. u[p] = Append(ValuesAt(t, p), x)
      BY <1>2, <2>4
    <3>2. Count(u[p], h) = Count(ValuesAt(t, p), h) + (IF h = x THEN 1 ELSE 0)
      BY <2>2, <3>1
    <3>3. CASE p = Path(h.pattern)
      BY <1>5, <2>1, <3>2, <3>3
    <3>4. CASE p # Path(h.pattern)
      <4>1. h # x /\ Count(ValuesAt(t, p), h) = 0
        BY <1>5, <2>4, <3>4
      <4>. QED
        BY <3>2, <3>4, <4>1
    <3>. QED
      BY <3>3, <3>4
  <2>5. CASE p # Path(x.pattern)
    <3>1. p = Path(h.pattern) => h # x
      BY <2>5
    <3>. QED
      BY <1>2, <1>5, <2>1, <2>3, <2>5, <3>1
  <2>. QED
    BY <2>4, <2>5
<1>. HIDE DEF u, P
<1>. QED
  BY <1>2, <1>3, <1>4, <1>6 DEF Holds, u

\* Register() inserts handler after handler.
LEMMA InsertAllHolds ==
    ASSUME NEW t, NEW before, Holds(t, before), NEW added \in Seq(HandlerData)
    PROVE  Holds(InsertAll(t, added), before \o added)
<1>. DEFINE n == Len(added)
            f == CHOOSE f : f = [i \in 0 .. n |-> InsertStep(t, added, f, i)]
<1>1. n \in Nat /\ before \in Seq(HandlerData) /\ \A i \in 1 .. n : added[i] \in HandlerData
  BY LenProperties, ElementOfSeq DEF Holds
<1>2. f = [i \in 0 .. n |-> InsertStep(t, added, f, i)]
  BY <1>1, InsertLoopExists
<1>3. InsertAll(t, added) = f[n]
  BY DEF InsertAll, InsertStep
<1>. HIDE DEF f, n
<1>4. \A i \in 0 .. n : f[i] = InsertStep(t, added, f, i)
  BY <1>2
<1>. DEFINE Upto(i) == SubSeq(added, 1, i)
            Good(i) == Holds(f[i], before \o Upto(i))
            Bad == {i \in 0 .. n : ~ Good(i)}
<1>5. ASSUME NEW i \in 0 .. n
      PROVE  /\ Upto(i) \in Seq(HandlerData) /\ Len(Upto(i)) = i
             /\ \A j \in 1 .. i : Upto(i)[j] = added[j]
  <2>1. \A j \in 1 .. i : added[j] \in HandlerData
    BY <1>1
  <2>2. i \in Int /\ 1 \in Int
    OBVIOUS
  <2>3. /\ Upto(i) \in Seq(HandlerData)
        /\ Len(Upto(i)) = IF 1 <= i THEN i - 1 + 1 ELSE 0
        /\ \A j \in 1 .. i - 1 + 1 : Upto(i)[j] = added[1 + j - 1]
    BY <2>1, <2>2, SubSeqProperties
  <2>4. \A j \in 1 .. i : j \in 1 .. i - 1 + 1 /\ 1 + j - 1 = j
    OBVIOUS
  <2>. HIDE DEF Upto
  <2>. QED
    BY <2>3, <2>4
<1>. HIDE DEF Upto
<1>6. Good(0)
  <2>1. 0 \in 0 .. n
    BY <1>1
  <2>2. Upto(0) = << >> /\ f[0] = t
    BY <1>4, <1>5, <2>1, EmptySeq DEF InsertStep
  <2>3. before \o << >> = before
    BY <1>1, ConcatEmptySeq
  <2>. QED
    BY <2>2, <2>3
<1>7. ASSUME NEW m \in 0 .. n, m # 0, Good(m - 1) PROVE Good(m)
  <2>1. /\ m - 1 \in 0 .. n /\ m \in 1 .. n /\ m \in Nat
        /\ f[m] = Insert(f[m - 1], added[m].pattern, added[m])
    BY <1>1, <1>4, <1>7 DEF InsertStep
  <2>2. added[m] \in HandlerData
    BY <1>1, <2>1
  <2>3. Holds(f[m], Append(before \o Upto(m - 1), added[m]))
    BY <1>7, <2>1, <2>2, InsertHolds
  <2>4. Upto(m) = Append(Upto(m - 1), added[m])
    <3>. DEFINE a == Append(Upto(m - 1), added[m])
    <3>1. /\ a \in Seq(HandlerData) /\ Len(a) = m - 1 + 1
          /\ \A j \in 1 .. m - 1 : a[j] = added[j]
          /\ a[m - 1 + 1] = added[m]
      BY <1>5, <2>1, <2>2, AppendProperties
    <3>. HIDE DEF a
    <3>2. Len(a) = m /\ \A j \in 1 .. m : a[j] = added[j]
      <4>1. m - 1 + 1 = m /\ \A j \in 1 .. m : j = m \/ j \in 1 .. m - 1
        BY <2>1
      <4>. QED
        BY <3>1, <4>1
    <3>3. Upto(m) = a
      BY <1>5, <3>1, <3>2, SeqEqual
    <3>. QED
      BY <3>3 DEF a
  <2>5. before \o Append(Upto(m - 1), added[m]) = Append(before \o Upto(m - 1), added[m])
    <3>1. Upto(m - 1) \in Seq(HandlerData) /\ <<added[m]>> \in Seq(HandlerData)
      BY <1>5, <2>1, <2>2
    <3>2. before \o Upto(m - 1) \in Seq(HandlerData)
      BY <1>1, <3>1, ConcatProperties
    <3>. QED
      BY <1>1, <2>2, <3>1, <3>2, AppendIsConcat, ConcatAssociative
  <2>. QED
    BY <2>3, <2>4, <2>5
<1>. HIDE DEF Good
<1>8. Bad = {}
  <2>1. SUFFICES ASSUME Bad # {} PROVE FALSE
    OBVIOUS
  <2>2. Bad \in SUBSET Nat
    BY <1>1
  <2>3. PICK m \in Bad : \A k \in Bad : m <= k
    BY <2>1, <2>2, HasMin
  <2>4. m \in 0 .. n /\ m # 0
    BY <1>6, <2>3
  <2>5. m - 1 \in 0 .. n /\ ~ (m <= m - 1)
    BY <1>1, <2>4
  <2>6. Good(m - 1)
    BY <2>3, <2>5
  <2>. QED
    BY <1>7, <2>3, <2>4, <2>6
<1>9. n \in 0 .. n
  BY <1>1
<1>10. Good(n)
  BY <1>8, <1>9
<1>11. Upto(n) = added
  BY <1>5, <1>9, SeqEqual DEF n
<1>. QED
  BY <1>3, <1>10, <1>11 DEF Good

\* Setting a policy for a pattern that has one does not replace it.
LEMMA InsertHoldsPolicies ==
    ASSUME NEW t, NEW set, HoldsPolicies(t, set), NEW x \in PolicyData
    PROVE  HoldsPolicies(Insert(t, x.pattern, x.policy), Append(set, x))
<1>. DEFINE u == Insert(t, x.pattern, x.policy)
            P == {Path(s.pattern) : s \in ToSet(set)}
            both == Append(set, x)
            l == Len(set)
<1>1. /\ x.pattern \in Seq(Text) /\ x.policy \in Policy
      /\ set \in Seq(PolicyData) /\ IsTrie(t, Policy, P)
  BY DEF PolicyData, HoldsPolicies
<1>2. /\ IsTrie(u, Policy, P \cup {Path(x.pattern)})
      /\ \A p \in DOMAIN u :
            u[p] = IF p = Path(x.pattern) THEN Append(ValuesAt(t, p), x.policy) ELSE ValuesAt(t, p)
  <2>. HIDE DEF P, u
  <2>1. PICK key \in Seq(Text), value \in Policy : key = x.pattern /\ value = x.policy
    BY <1>1
  <2>2. u = Insert(t, key, value)
    BY <2>1 DEF u
  <2>3. IsTrie(u, Policy, P \cup {Path(key)})
    BY <1>1, <2>2, InsertGrows
  <2>4. ASSUME NEW p \in DOMAIN u
        PROVE  u[p] = IF p = Path(key) THEN Append(ValuesAt(t, p), value) ELSE ValuesAt(t, p)
    BY <1>1, <2>2, InsertGrows, Zenon
  <2>. QED
    BY <2>1, <2>3, <2>4
<1>3. both \in Seq(PolicyData) /\ ToSet(both) = ToSet(set) \cup {x}
  BY <1>1, ToSetAppend, AppendProperties
<1>4. {Path(s.pattern) : s \in ToSet(both)} = P \cup {Path(x.pattern)}
  BY <1>3
<1>5. /\ l \in Nat /\ DOMAIN set = 1 .. l /\ DOMAIN both = 1 .. l + 1
      /\ (\A i \in 1 .. l : both[i] = set[i]) /\ both[l + 1] = x
  BY <1>1, AppendProperties, LenProperties
<1>6. \A p : ValuesAt(t, p) \in Seq(Policy)
  <2>. HIDE DEF P
  <2>. QED
    BY <1>1, TrieNodes
<1>7. ASSUME NEW p
      PROVE  /\ (\A i \in DOMAIN set : Path(set[i].pattern) # p) => ValuesAt(t, p) = << >>
             /\ \A i \in DOMAIN set :
                  /\ Path(set[i].pattern) = p
                  /\ \A j \in DOMAIN set : Path(set[j].pattern) = p => i <= j
                  => ValuesAt(t, p) # << >> /\ Head(ValuesAt(t, p)) = set[i].policy
  <2>1. CASE p \in DOMAIN t
    BY <2>1 DEF HoldsPolicies, ValuesAt
  <2>2. CASE p \notin DOMAIN t
    <3>1. \A i \in DOMAIN set : Path(set[i].pattern) # p
      <4>1. \A r \in P : r \in DOMAIN t
        <5>. HIDE DEF P
        <5>. QED
          BY <1>1, TrieNodes
      <4>2. \A i \in DOMAIN set : Path(set[i].pattern) \in P
        BY DEF ToSet
      <4>. QED
        BY <2>2, <4>1, <4>2
    <3>. QED
      BY <2>2, <3>1 DEF ValuesAt
  <2>. QED
    BY <2>1, <2>2
<1>. HIDE DEF u, P, both, l
<1>8. ASSUME NEW p \in DOMAIN u, \A i \in DOMAIN both : Path(both[i].pattern) # p
      PROVE  u[p] = << >>
  <2>1. l + 1 \in DOMAIN both /\ \A i \in DOMAIN set : i \in DOMAIN both /\ both[i] = set[i]
    BY <1>5
  <2>2. p # Path(x.pattern) /\ \A i \in DOMAIN set : Path(set[i].pattern) # p
    BY <1>5, <1>8, <2>1
  <2>. QED
    BY <1>2, <1>7, <2>2
<1>9. ASSUME NEW p \in DOMAIN u, NEW i \in DOMAIN both, Path(both[i].pattern) = p,
             \A j \in DOMAIN both : Path(both[j].pattern) = p => i <= j
      PROVE  u[p] # << >> /\ Head(u[p]) = both[i].policy
  <2>1. \A j \in DOMAIN set : j \in DOMAIN both /\ both[j] = set[j] /\ j <= l
    BY <1>5
  <2>2. CASE i \in DOMAIN set
    <3>1. both[i] = set[i] /\ \A j \in DOMAIN set : Path(set[j].pattern) = p => i <= j
      BY <1>9, <2>1, <2>2
    <3>2. ValuesAt(t, p) # << >> /\ Head(ValuesAt(t, p)) = set[i].policy
      BY <1>7, <1>9, <2>2, <3>1
    <3>3. Append(ValuesAt(t, p), x.policy) # << >> /\ Head(Append(ValuesAt(t, p), x.policy)) = Head(ValuesAt(t, p))
      BY <1>1, <1>6, <3>2, AppendProperties, EmptySeq
    <3>. QED
      BY <1>2, <3>1, <3>2, <3>3
  <2>3. CASE i \notin DOMAIN set
    <3>1. i = l + 1
      BY <1>5, <2>3
    <3>2. \A j \in DOMAIN set : Path(set[j].pattern) # p
      BY <1>5, <1>9, <2>1, <3>1
    <3>3. ValuesAt(t, p) = << >> /\ both[i] = x
      BY <1>5, <1>7, <3>1, <3>2
    <3>4. p = Path(x.pattern)
      BY <1>9, <3>3
    <3>5. u[p] = Append(<< >>, x.policy) /\ both[i].policy = x.policy
      BY <1>2, <3>3, <3>4
    <3>6. u[p] # << >> /\ Head(u[p]) = x.policy
      BY <3>5
    <3>. QED
      BY <3>5, <3>6
  <2>. QED
    BY <2>2, <2>3
<1>10. HoldsPolicies(u, both)
  BY <1>2, <1>3, <1>4, <1>8, <1>9 DEF HoldsPolicies
<1>. QED
  BY <1>10 DEF u, both

-----------------------------------------------------------------------------
\* A segment is kept, or is a wildcard.
LEMMA WildcardsArePaths ==
    ASSUME NEW key \in Seq(Text), NEW i \in 1 .. Len(key)
    PROVE  /\ Path(key)[i] = <<Star>> <=> IsWildcard(key[i])
           /\ ~ IsWildcard(key[i]) => Path(key)[i] = key[i]
BY PathOfKey DEF IsWildcard

\* A pattern matches when the walk may reach its path.
LEMMA MatchesIsAWay ==
    ASSUME NEW pattern \in Seq(Text), NEW route \in Seq(Text)
    PROVE  Matches(pattern, route) <=> Reaches(route, Path(pattern))
<1>1. /\ Len(Path(pattern)) = Len(pattern) /\ DOMAIN route = 1 .. Len(route)
      /\ \A i \in 1 .. Len(pattern) :
            Path(pattern)[i] = IF IsPlaceholder(pattern[i]) THEN <<Star>> ELSE pattern[i]
  BY PathOfKey, LenProperties
<1>2. CASE Len(pattern) # Len(route)
  BY <1>1, <1>2 DEF Matches, Reaches
<1>3. CASE Len(pattern) = Len(route)
  <2>1. \A i \in 1 .. Len(route) :
            (IsWildcard(pattern[i]) \/ pattern[i] = route[i])
            <=> (Path(pattern)[i] = route[i] \/ Path(pattern)[i] = <<Star>>)
    BY <1>1, <1>3 DEF IsWildcard
  <2>. QED
    BY <1>1, <1>3, <2>1 DEF Matches, Reaches
<1>. QED
  BY <1>2, <1>3

\* What is not in any node is found 0 times.
LEMMA LookupTyped ==
    ASSUME NEW t, NEW V, NEW P, IsTrie(t, V, P), NEW key \in Seq(Text)
    PROVE  Get(t, key, FALSE) \in Seq(V)
<1>1. PICK h : h \notin V
  BY NoSetContainsEverything
<1>2. ASSUME NEW path \in DOMAIN t PROVE Count(t[path], h) = 0
  <2>1. t[path] \in Seq(V)
    BY DEF IsTrie
  <2>2. h \notin ToSet(t[path])
    BY <1>1, <2>1, LenProperties, ElementOfSeq DEF ToSet
  <2>. QED
    BY <2>1, <2>2, CountsElements
<1>3. OnlyAt(t, h, << >>, 0)
  BY <1>2 DEF OnlyAt
<1>4. << >> \in Seq(Text)
  BY EmptySeq
<1>. QED
  BY <1>3, <1>4, LookupCounts

\* A route finds the handlers whose patterns match it, as often as they were registered.
LEMMA HandlersAreFound ==
    ASSUME Holds(handlers, registered), NEW route \in Seq(Text)
    PROVE  FindsAll(route)
<1>. DEFINE P == {Path(h.pattern) : h \in ToSet(registered)}
<1>1. registered \in Seq(HandlerData) /\ IsTrie(handlers, HandlerData, P)
  BY DEF Holds
<1>2. \A h \in HandlerData : h \in ToSet(registered) => Path(h.pattern) \in P
  OBVIOUS
<1>. HIDE DEF P
<1>3. ASSUME NEW h \in HandlerData
      PROVE  Count(HandlersOf(route), h) = IF Matches(h.pattern, route) THEN Count(registered, h) ELSE 0
  <2>. DEFINE q == Path(h.pattern)
              k == Count(registered, h)
  <2>1. h.pattern \in Seq(Text)
    BY DEF HandlerData
  <2>2. q \in Seq(Text)
    BY <2>1, PathOfKey
  <2>3. k \in Nat /\ (k # 0 => q \in P)
    BY <1>1, <1>2, CountIsNatural, CountsElements
  <2>4. OnlyAt(handlers, h, q, k)
    BY DEF Holds, OnlyAt
  <2>5. Matches(h.pattern, route) <=> Reaches(route, q)
    BY <2>1, MatchesIsAWay
  <2>. HIDE DEF q, k
  <2>6. /\ Get(handlers, route, FALSE) \in Seq(HandlerData)
        /\ Count(Get(handlers, route, FALSE), h) = IF Reaches(route, q) THEN k ELSE 0
    BY <1>1, <2>2, <2>3, <2>4, LookupCounts
  <2>. QED
    BY <2>5, <2>6 DEF HandlersOf, k
<1>4. ToSet(registered) \subseteq HandlerData
  BY <1>1, LenProperties, ElementOfSeq DEF ToSet
<1>5. ASSUME NEW h \in ToSet(registered)
      PROVE  Count(HandlersOf(route), h) =
                  IF Matches(h.pattern, route) THEN Count(registered, h) ELSE 0
  BY <1>3, <1>4
<1>6. ToSet(HandlersOf(route)) \subseteq HandlerData
  <2>1. HandlersOf(route) \in Seq(HandlerData)
    BY <1>1, LookupTyped DEF HandlersOf
  <2>. QED
    BY <2>1, LenProperties, ElementOfSeq DEF ToSet
<1>. QED
  BY <1>3, <1>4, <1>6 DEF FindsAll

\* A place at which a pattern is hidden, said of segments and of paths.
HiddenAt(pattern, other, route, i) ==
    /\ IsWildcard(pattern[i]) /\ ~IsWildcard(other[i]) /\ other[i] = route[i]
    /\ \A j \in 1 .. i - 1 : Agree(pattern[j], other[j])

OvertakenAt(q, r, route, i) ==
    /\ q[i] = <<Star>> /\ r[i] = route[i] /\ route[i] # <<Star>>
    /\ \A j \in 1 .. i - 1 : r[j] = q[j]

LEMMA HiddenOnTheWay ==
    ASSUME NEW pattern \in Seq(Text), NEW other \in Seq(Text), NEW route \in Seq(Text),
           NEW i \in 1 .. Len(route), i <= Len(pattern), i <= Len(other)
    PROVE  HiddenAt(pattern, other, route, i)
           <=> OvertakenAt(Path(pattern), Path(other), route, i)
<1>1. Len(route) \in Nat /\ Len(pattern) \in Nat /\ Len(other) \in Nat
  BY LenProperties
<1>2. i \in 1 .. Len(pattern) /\ i \in 1 .. Len(other)
  BY <1>1
<1>3. \A j \in 1 .. i - 1 : j \in 1 .. Len(pattern) /\ j \in 1 .. Len(other)
  BY <1>1
<1>4. /\ Path(pattern)[i] = <<Star>> <=> IsWildcard(pattern[i])
      /\ Path(other)[i] = <<Star>> <=> IsWildcard(other[i])
      /\ ~ IsWildcard(other[i]) => Path(other)[i] = other[i]
  BY <1>2, WildcardsArePaths
<1>5. ASSUME NEW j \in 1 .. i - 1
      PROVE  Agree(pattern[j], other[j]) <=> Path(other)[j] = Path(pattern)[j]
  <2>1. /\ Path(pattern)[j] = <<Star>> <=> IsWildcard(pattern[j])
        /\ ~ IsWildcard(pattern[j]) => Path(pattern)[j] = pattern[j]
        /\ Path(other)[j] = <<Star>> <=> IsWildcard(other[j])
        /\ ~ IsWildcard(other[j]) => Path(other)[j] = other[j]
    BY <1>3, WildcardsArePaths
  <2>2. pattern[j] = other[j] => (IsWildcard(pattern[j]) <=> IsWildcard(other[j]))
    BY DEF IsWildcard
  <2>. QED
    BY <2>1, <2>2 DEF Agree
<1>. QED
  BY <1>4, <1>5 DEF HiddenAt, OvertakenAt

\* A pattern is unhidden when lookup follows its path.
LEMMA UnhiddenIsFollowed ==
    ASSUME NEW t, NEW set, HoldsPolicies(t, set), NEW route \in Seq(Text), NEW pattern \in Seq(Text)
    PROVE  (Matches(pattern, route) /\ \A s \in ToSet(set) : ~HiddenBy(pattern, s.pattern, route))
           <=> Follows(t, route, Path(pattern))
<1>. DEFINE q == Path(pattern)
            P == {Path(s.pattern) : s \in ToSet(set)}
<1>1. /\ set \in Seq(PolicyData) /\ IsTrie(t, Policy, P)
      /\ \A s \in ToSet(set) : s.pattern \in Seq(Text)
  <2>1. set \in Seq(PolicyData)
    BY DEF HoldsPolicies
  <2>2. ToSet(set) \subseteq PolicyData
    BY <2>1, LenProperties, ElementOfSeq DEF ToSet
  <2>. QED
    BY <2>1, <2>2 DEF HoldsPolicies, PolicyData
<1>2. /\ Matches(pattern, route) <=> Reaches(route, q)
      /\ q \in Seq(Text) /\ Len(q) = Len(pattern) /\ Len(pattern) \in Nat
      /\ Len(route) \in Nat /\ DOMAIN route = 1 .. Len(route)
  BY MatchesIsAWay, PathOfKey, LenProperties
<1>. HIDE DEF q, P
<1>3. ASSUME Matches(pattern, route), \A s \in ToSet(set) : ~HiddenBy(pattern, s.pattern, route)
      PROVE  Follows(t, route, q)
  <2>1. Len(q) = Len(route) /\ \A i \in 1 .. Len(route) : q[i] = route[i] \/ q[i] = <<Star>>
    BY <1>2, <1>3 DEF Reaches
  <2>2. SUFFICES ASSUME NEW i \in 1 .. Len(route), q[i] # route[i],
                        NEW e \in DOMAIN t, Len(e) = i, e[i] = route[i],
                        \A j \in 1 .. i - 1 : e[j] = q[j]
                 PROVE  FALSE
    BY <2>1 DEF Follows, Leads
  <2>3. q[i] = <<Star>> /\ route[i] # <<Star>>
    BY <2>1, <2>2
  <2>4. e # << >>
    BY <2>2, EmptySeq
  <2>5. PICK r \in P : Len(e) <= Len(r) /\ \A j \in 1 .. Len(e) : e[j] = r[j]
    BY <1>1, <2>4, TrieNodes
  <2>6. PICK s \in ToSet(set) : r = Path(s.pattern)
    BY DEF P
  <2>7. s.pattern \in Seq(Text) /\ Len(r) = Len(s.pattern)
    BY <1>1, <2>6, PathOfKey
  <2>8. i \in 1 .. Len(e) /\ \A j \in 1 .. i - 1 : j \in 1 .. Len(e)
    BY <1>2, <2>2
  <2>9. r[i] = route[i] /\ \A j \in 1 .. i - 1 : r[j] = q[j]
    BY <2>2, <2>5, <2>8
  <2>10. i <= Len(pattern) /\ i <= Len(s.pattern)
    BY <1>2, <2>1, <2>2, <2>5, <2>7
  <2>11. HiddenAt(pattern, s.pattern, route, i)
    <3>1. OvertakenAt(q, r, route, i)
      BY <2>3, <2>9 DEF OvertakenAt
    <3>. QED
      BY <2>6, <2>7, <2>10, <3>1, HiddenOnTheWay DEF q
  <2>12. HiddenBy(pattern, s.pattern, route)
    BY <1>2, <2>10, <2>11 DEF HiddenBy, HiddenAt
  <2>. QED
    BY <1>3, <2>12
<1>4. ASSUME Follows(t, route, q)
      PROVE  Matches(pattern, route)
  <2>1. Reaches(route, q)
    BY <1>2, <1>4 DEF Follows, Leads, Reaches
  <2>. QED
    BY <1>2, <2>1
<1>5. ASSUME Follows(t, route, q), NEW s \in ToSet(set), HiddenBy(pattern, s.pattern, route)
      PROVE  FALSE
  <2>. DEFINE r == Path(s.pattern)
  <2>1. PICK i \in 1 .. Len(route) :
            i <= Len(pattern) /\ i <= Len(s.pattern) /\ HiddenAt(pattern, s.pattern, route, i)
    BY <1>2, <1>5 DEF HiddenBy, HiddenAt
  <2>2. /\ q[i] = <<Star>> /\ r[i] = route[i] /\ route[i] # <<Star>>
        /\ \A j \in 1 .. i - 1 : r[j] = q[j]
    <3>1. OvertakenAt(q, r, route, i)
      BY <1>1, <2>1, HiddenOnTheWay DEF q
    <3>. QED
      BY <3>1 DEF OvertakenAt
  <2>3. r \in P /\ r \in Seq(Text) /\ Len(r) = Len(s.pattern) /\ Len(r) \in Nat
    BY <1>1, PathOfKey, LenProperties DEF P
  <2>. HIDE DEF r
  <2>. DEFINE e == SubSeq(r, 1, i)
  <2>4. i \in Nat /\ i >= 1 /\ i <= Len(r) /\ \A j \in 1 .. i : r[j] \in Text
    <3>1. i \in Nat /\ i >= 1 /\ i <= Len(r) /\ \A j \in 1 .. i : j \in 1 .. Len(r)
      BY <1>2, <2>1, <2>3
    <3>. QED
      BY <2>3, <3>1, ElementOfSeq
  <2>5. e \in Seq(Text) /\ Len(e) = i /\ \A j \in 1 .. i : e[j] = r[j]
    <3>1. /\ e \in Seq(Text)
          /\ Len(e) = IF 1 <= i THEN i - 1 + 1 ELSE 0
          /\ \A j \in 1 .. i - 1 + 1 : e[j] = r[1 + j - 1]
      BY <2>4, SubSeqProperties
    <3>2. \A j \in 1 .. i : j \in 1 .. i - 1 + 1 /\ 1 + j - 1 = j
      BY <2>4
    <3>. HIDE DEF e
    <3>. QED
      BY <2>4, <3>1, <3>2
  <2>. HIDE DEF e
  <2>6. e \in DOMAIN t
    BY <1>1, <2>3, <2>4, <2>5, TrieNodes
  <2>7. e[i] = route[i] /\ \A j \in 1 .. i - 1 : e[j] = q[j]
    <3>1. i \in 1 .. i /\ \A j \in 1 .. i - 1 : j \in 1 .. i
      BY <2>4
    <3>. QED
      BY <2>2, <2>5, <3>1
  <2>8. i \in 0 + 1 .. Len(route)
    OBVIOUS
  <2>. QED
    BY <1>5, <2>2, <2>5, <2>6, <2>7, <2>8 DEF Follows, Leads
<1>. QED
  BY <1>3, <1>4, <1>5 DEF q

\* A route finds the policy that was set first for the one pattern nothing hides.
LEMMA PoliciesAreFound ==
    ASSUME HoldsPolicies(policies, policiesSet), NEW route \in Seq(Text)
    PROVE  FindsUnhidden(route)
<1>. DEFINE unhidden == {i \in DOMAIN policiesSet :
                /\ Matches(policiesSet[i].pattern, route)
                /\ \A s \in ToSet(policiesSet) : ~HiddenBy(policiesSet[i].pattern, s.pattern, route)}
            P == {Path(s.pattern) : s \in ToSet(policiesSet)}
            found == Get(policies, route, TRUE)
<1>1. /\ policiesSet \in Seq(PolicyData) /\ IsTrie(policies, Policy, P)
      /\ DOMAIN policiesSet \subseteq Nat
  BY LenProperties DEF HoldsPolicies
<1>2. ASSUME NEW i \in DOMAIN policiesSet
      PROVE  /\ policiesSet[i].pattern \in Seq(Text)
             /\ Path(policiesSet[i].pattern) \in DOMAIN policies
  <2>1. policiesSet[i] \in PolicyData
    BY <1>1, LenProperties, ElementOfSeq
  <2>2. Path(policiesSet[i].pattern) \in P
    BY DEF ToSet
  <2>. HIDE DEF P
  <2>. QED
    BY <1>1, <2>1, <2>2, TrieNodes DEF PolicyData
<1>3. \A i \in DOMAIN policiesSet :
          i \in unhidden <=> Follows(policies, route, Path(policiesSet[i].pattern))
  BY <1>2, UnhiddenIsFollowed
<1>4. /\ \A q \in DOMAIN policies : Follows(policies, route, q) => found = policies[q]
      /\ (\A q \in DOMAIN policies : ~ Follows(policies, route, q)) => found = << >>
  <2>. HIDE DEF P
  <2>. QED
    BY <1>1, LookupFollows
<1>. HIDE DEF unhidden, P, found
<1>5. CASE unhidden = {}
  <2>1. ASSUME NEW q \in DOMAIN policies, Follows(policies, route, q) PROVE policies[q] = << >>
    <3>1. \A i \in DOMAIN policiesSet : Path(policiesSet[i].pattern) # q
      BY <1>3, <1>5, <2>1
    <3>. QED
      BY <3>1 DEF HoldsPolicies
  <2>2. found = << >>
    BY <1>4, <2>1
  <2>. QED
    BY <1>5, <2>2 DEF FindsUnhidden, PolicyOf, unhidden, found
<1>6. CASE unhidden # {}
  <2>1. unhidden \subseteq DOMAIN policiesSet
    BY DEF unhidden
  <2>2. PICK m : m = Min(unhidden) /\ m \in unhidden /\ \A j \in unhidden : m <= j
    BY <1>1, <1>6, <2>1, HasMin
  <2>. DEFINE q == Path(policiesSet[m].pattern)
  <2>3. q \in DOMAIN policies /\ Follows(policies, route, q)
    BY <1>2, <1>3, <2>1, <2>2
  <2>4. \A j \in DOMAIN policiesSet : Path(policiesSet[j].pattern) = q => m <= j
    BY <1>3, <2>2, <2>3
  <2>5. policies[q] # << >> /\ Head(policies[q]) = policiesSet[m].policy
    BY <2>1, <2>2, <2>3, <2>4 DEF HoldsPolicies
  <2>6. found = policies[q]
    BY <1>4, <2>3
  <2>. HIDE DEF q
  <2>. QED
    BY <1>6, <2>2, <2>5, <2>6 DEF FindsUnhidden, PolicyOf, unhidden, found
<1>. QED
  BY <1>5, <1>6

-----------------------------------------------------------------------------
(***************************************************************************)
(* The routers and tries of a dispatcher at any time.                      *)
(***************************************************************************)
RouterTable == Seq([subscription: Subscription, funcs: Seq(Callback)])

RoutingInv ==
    /\ delimited \in BOOLEAN
    /\ routers \in [Router -> RouterTable]
    /\ Holds(handlers, registered)
    /\ HoldsPolicies(policies, policiesSet)

LEMMA AppendedIsATable ==
    ASSUME NEW table \in RouterTable, NEW s \in Subscription, NEW f \in Callback
    PROVE  AppendedAt(table, s, f) \in RouterTable
<1>. DEFINE Entry == [subscription: Subscription, funcs: Seq(Callback)]
            new == [i \in DOMAIN table |->
                IF table[i].subscription = s THEN [table[i] EXCEPT !.funcs = Append(@, f)]
                                             ELSE table[i]]
<1>1. /\ table \in Seq(Entry) /\ Len(table) \in Nat /\ DOMAIN table = 1 .. Len(table)
      /\ \A i \in 1 .. Len(table) : table[i] \in Entry
  BY LenProperties, ElementOfSeq DEF RouterTable
<1>2. [subscription |-> s, funcs |-> <<f>>] \in Entry
  OBVIOUS
<1>3. Append(table, [subscription |-> s, funcs |-> <<f>>]) \in Seq(Entry)
  <2>. HIDE DEF Entry
  <2>. QED
    BY <1>1, <1>2, AppendProperties
<1>4. new \in Seq(Entry)
  <2>1. ASSUME NEW i \in 1 .. Len(table)
        PROVE  (IF table[i].subscription = s THEN [table[i] EXCEPT !.funcs = Append(@, f)]
                                             ELSE table[i]) \in Entry
    <3>1. table[i] \in Entry /\ Append(table[i].funcs, f) \in Seq(Callback)
      BY <1>1, AppendProperties
    <3>. QED
      BY <3>1
  <2>. HIDE DEF Entry
  <2>2. \A i \in 1 .. Len(table) : new[i] \in Entry
    BY <1>1, <2>1
  <2>3. DOMAIN new = 1 .. Len(table) /\ new = [i \in 1 .. Len(table) |-> new[i]]
    BY <1>1
  <2>. HIDE DEF new
  <2>. QED
    BY <1>1, <2>2, <2>3, SeqDef
<1>. QED
  BY <1>3, <1>4 DEF AppendedAt, RouterTable

\* What add_router() copies is a sequence of handlers.
LEMMA CollectedIsRegistrable ==
    ASSUME NEW table \in RouterTable
    PROVE  Collected(table) \in Seq(HandlerData)
<1>1. /\ Len(table) \in Nat /\ DOMAIN table = 1 .. Len(table)
      /\ \A i \in 1 .. Len(table) : table[i] \in [subscription: Subscription, funcs: Seq(Callback)]
  BY LenProperties, ElementOfSeq DEF RouterTable
<1>. DEFINE row(i) == [j \in DOMAIN table[i].funcs |->
                          HandlerFor(table[i].subscription, table[i].funcs[j])]
<1>2. ASSUME NEW i \in 1 .. Len(table) PROVE row(i) \in Seq(HandlerData)
  <2>. DEFINE funcs == table[i].funcs
  <2>1. funcs \in Seq(Callback) /\ table[i].subscription \in Seq(Text)
    BY <1>1, TextsAssumption
  <2>2. Segments(table[i].subscription) \in Seq(Text)
    BY <2>1, SegmentsOf
  <2>. HIDE DEF funcs
  <2>3. /\ Len(funcs) \in Nat /\ DOMAIN funcs = 1 .. Len(funcs)
        /\ \A j \in 1 .. Len(funcs) : funcs[j] \in Callback
    BY <2>1, LenProperties, ElementOfSeq
  <2>4. \A j \in 1 .. Len(funcs) : HandlerFor(table[i].subscription, funcs[j]) \in HandlerData
    BY <2>2, <2>3 DEF HandlerFor, HandlerData
  <2>5. [j \in 1 .. Len(funcs) |-> HandlerFor(table[i].subscription, funcs[j])] \in Seq(HandlerData)
    BY <2>3, <2>4, SeqDef
  <2>. QED
    BY <2>3, <2>5 DEF funcs
<1>. HIDE DEF row
<1>3. [i \in 1 .. Len(table) |-> row(i)] \in Seq(Seq(HandlerData))
  BY <1>1, <1>2, SeqDef
<1>4. Collected(table) = FlattenSeq([i \in 1 .. Len(table) |-> row(i)])
  BY <1>1 DEF Collected, row
<1>. QED
  BY <1>3, <1>4, FlattenJoins

LEMMA RegisterHolds ==
    ASSUME Holds(handlers, registered), NEW added \in Seq(HandlerData), Register(added)
    PROVE  Holds(handlers', registered')
BY InsertAllHolds DEF Register

LEMMA RoutingInvInit == RoutingInit => RoutingInv
<1>. SUFFICES ASSUME RoutingInit PROVE RoutingInv
  OBVIOUS
<1>1. << >> \in Seq(HandlerData) /\ << >> \in Seq(PolicyData) /\ << >> \in RouterTable
  BY EmptySeq DEF RouterTable
<1>2. \A S, p : p \notin ToSet(<< >>)
  BY DEF ToSet
<1>3. /\ registered = << >> /\ policiesSet = << >> /\ handlers = EmptyTrie /\ policies = EmptyTrie
  BY DEF RoutingInit
<1>4. /\ {Path(h.pattern) : h \in ToSet(<< >>)} = {}
  BY <1>2
<1>5. Holds(handlers, registered)
  BY <1>1, <1>3, <1>4, EmptyIsTrie, CountEmpty DEF Holds
<1>6. HoldsPolicies(policies, policiesSet)
  <2>1. DOMAIN << >> = {}
    OBVIOUS
  <2>. QED
    BY <1>1, <1>3, <1>4, <2>1, EmptyIsTrie DEF HoldsPolicies
<1>. QED
  BY <1>1, <1>5, <1>6 DEF RoutingInit, RoutingInv

LEMMA RoutingInvStep ==
    ASSUME RoutingInv,
           \/ \E r \in Router, s \in Subscription, f \in Callback : Decorate(r, s, f)
           \/ \E r \in Router : AddRouter(r)
           \/ \E s \in Subscription, f \in Callback : Handler(s, f)
           \/ \E s \in Subscription, p \in Policy : SetAckPolicy(s, p)
    PROVE  RoutingInv'
<1>1. \A s \in Subscription : Segments(s) \in Seq(Text)
  BY TextsAssumption, SegmentsOf
<1>2. ASSUME NEW r \in Router, NEW s \in Subscription, NEW f \in Callback, Decorate(r, s, f)
      PROVE  RoutingInv'
  <2>1. AppendedAt(routers[r], s, f) \in RouterTable
    BY AppendedIsATable DEF RoutingInv
  <2>2. routers' \in [Router -> RouterTable]
    BY <1>2, <2>1 DEF RoutingInv, Decorate
  <2>. QED
    BY <1>2, <2>2 DEF RoutingInv, Decorate
<1>3. ASSUME NEW r \in Router, AddRouter(r)
      PROVE  RoutingInv'
  <2>1. Collected(routers[r]) \in Seq(HandlerData)
    BY CollectedIsRegistrable DEF RoutingInv
  <2>2. Holds(handlers', registered')
    BY <1>3, <2>1, RegisterHolds DEF RoutingInv, AddRouter
  <2>. QED
    BY <1>3, <2>2 DEF RoutingInv, AddRouter
<1>4. ASSUME NEW s \in Subscription, NEW f \in Callback, Handler(s, f)
      PROVE  RoutingInv'
  <2>1. HandlerFor(s, f) \in HandlerData
    BY <1>1 DEF HandlerFor, HandlerData
  <2>2. <<HandlerFor(s, f)>> \in Seq(HandlerData)
    BY <2>1
  <2>3. Holds(handlers', registered')
    BY <1>4, <2>2, RegisterHolds DEF RoutingInv, Handler
  <2>. QED
    BY <1>4, <2>3 DEF RoutingInv, Handler
<1>5. ASSUME NEW s \in Subscription, NEW p \in Policy, SetAckPolicy(s, p)
      PROVE  RoutingInv'
  <2>. DEFINE x == [pattern |-> Segments(s), policy |-> p]
  <2>1. x \in PolicyData /\ x.pattern = Segments(s) /\ x.policy = p
    BY <1>1 DEF PolicyData
  <2>. HIDE DEF x
  <2>2. HoldsPolicies(Insert(policies, x.pattern, x.policy), Append(policiesSet, x))
    BY <2>1, InsertHoldsPolicies DEF RoutingInv
  <2>3. HoldsPolicies(policies', policiesSet')
    BY <1>5, <2>1, <2>2 DEF SetAckPolicy, x
  <2>. QED
    BY <1>5, <2>3 DEF RoutingInv, SetAckPolicy
<1>. QED
  BY <1>2, <1>3, <1>4, <1>5

-----------------------------------------------------------------------------
(***************************************************************************)
(* From the text of a route to the arguments of a handler.                 *)
(***************************************************************************)
Filled(text, fields) ==
    [i \in DOMAIN text |->
        IF text[i] \in Braced THEN fields[BracedName[text[i]]] ELSE <<text[i]>>]

\* Formatting fills every hole with the text of a field.
LEMMA FormatsToText ==
    ASSUME NEW event \in Event, NEW text \in Text, CanFormat(text, event.fields)
    PROVE  /\ Filled(text, event.fields) \in Seq(Text)
           /\ Len(Filled(text, event.fields)) = Len(text)
           /\ Format(text, event.fields) = FlattenSeq(Filled(text, event.fields))
           /\ Format(text, event.fields) \in Text
<1>. DEFINE fill(i) == IF text[i] \in Braced THEN event.fields[BracedName[text[i]]] ELSE <<text[i]>>
<1>1. /\ Len(text) \in Nat /\ DOMAIN text = 1 .. Len(text)
      /\ \A i \in 1 .. Len(text) : text[i] \in Part
  BY LenProperties, ElementOfSeq DEF Text
<1>2. ASSUME NEW i \in 1 .. Len(text) PROVE fill(i) \in Text
  <2>1. CASE text[i] \in Braced
    <3>1. BracedName[text[i]] \in DOMAIN event.fields
      BY <1>1, <2>1 DEF CanFormat, ToSet
    <3>. QED
      BY <2>1, <3>1, EventAssumption
  <2>2. CASE text[i] \notin Braced
    BY <1>1, <2>2 DEF Text
  <2>. QED
    BY <2>1, <2>2
<1>3. Filled(text, event.fields) = [i \in 1 .. Len(text) |-> fill(i)]
  BY <1>1 DEF Filled
<1>. HIDE DEF fill
<1>4. /\ Filled(text, event.fields) \in Seq(Text)
      /\ Len(Filled(text, event.fields)) = Len(text)
  BY <1>1, <1>2, <1>3, SeqDef
<1>5. FlattenSeq(Filled(text, event.fields)) \in Text
  BY <1>4, FlattenJoins DEF Text
<1>. QED
  BY <1>4, <1>5 DEF Format, Filled

\* The channel of an event that Redis accepted.
LEMMA FirstChannel ==
    ASSUME NEW event \in Event, Sendable("redis", event)
    PROVE  /\ event.route.texts = <<event.route.texts[1]>> /\ event.route.texts[1] \in Text
           /\ CanFormat(event.route.texts[1], event.fields)
           /\ To(event)[1] = Format(event.route.texts[1], event.fields)
           /\ To(event)[1] \in Text
<1>. DEFINE texts == event.route.texts
            more == event.config.texts
<1>1. texts \in Seq(Text) /\ more \in Seq(Text) /\ Len(texts) = 1
  BY EventAssumption DEF Sendable, RedisAccepts
<1>2. texts = <<texts[1]>> /\ texts[1] \in Text /\ DOMAIN texts = {1}
  BY <1>1, LenProperties, ElementOfSeq
<1>3. texts[1] \in ToSet(texts \o more)
  <2>1. Len(more) \in Nat
    BY <1>1, LenProperties
  <2>2. 1 \in 1 .. Len(texts) + Len(more) /\ 1 <= Len(texts)
    BY <1>1, <2>1
  <2>. HIDE DEF texts, more
  <2>3. texts \o more \in Seq(Text) /\ (texts \o more)[1] = texts[1] /\ Len(texts \o more) = Len(texts) + Len(more)
    BY <1>1, <2>2, ConcatProperties
  <2>4. 1 \in DOMAIN (texts \o more)
    BY <2>2, <2>3, LenProperties
  <2>. QED
    BY <2>3, <2>4 DEF ToSet
<1>4. CanFormat(texts[1], event.fields)
  BY <1>3 DEF Sendable, CanFormatDynamic
<1>5. To(event)[1] = Format(texts[1], event.fields)
  BY <1>2 DEF To, FormatDynamic
<1>. QED
  BY <1>2, <1>4, <1>5, FormatsToText

\* The place to which a parameter is bound holds its name.
BindsAt(route, pattern, n, k) ==
    /\ k \in 1 .. Len(pattern) /\ Bind(route, pattern, n) = route[k]
    /\ \E p \in Braced : pattern[k] = <<p>> /\ BracedName[p] = n

LEMMA BindsToAHole ==
    ASSUME NEW pattern \in Seq(Text), NEW f \in Callback, NEW n \in Wants[f], CanBind(pattern, n), NEW route
    PROVE  \E k : BindsAt(route, pattern, n, k)
<1>. DEFINE hole == CHOOSE p \in Braced : BracedName[p] = n
            I == {i \in 1 .. Len(pattern) : pattern[i] = HoleOf(n)}
<1>1. hole \in Braced /\ BracedName[hole] = n /\ HoleOf(n) = <<hole>>
  BY WantsAssumption DEF HoleOf
<1>2. I # {} /\ I \in SUBSET Nat
  BY DEF CanBind, Contains
<1>3. Bind(route, pattern, n) = route[Min(I)]
  BY <1>2 DEF Bind, SelectInSeq
<1>4. Min(I) \in I
  BY <1>2, HasMin
<1>. HIDE DEF hole
<1>. QED
  BY <1>1, <1>3, <1>4 DEF BindsAt

\* The channel of an event matches the pattern it is filled in from, and holds the fields
\* where the pattern has its holes.
LEMMA ReachesItsHandler ==
    ASSUME NEW event \in Event, Sendable("redis", event), NEW h \in HandlerData,
           SameRoute(event, h), Whole(h.pattern), Unsplit(event),
           \A n \in Wants[h.func] : CanBind(h.pattern, n)
    PROVE  /\ Matches(h.pattern, Segments(<<To(event)[1]>>))
           /\ \A n \in Wants[h.func] :
                Bind(Segments(<<To(event)[1]>>), h.pattern, n) = event.fields[n]
<1>. DEFINE text == event.route.texts[1]
            channel == To(event)[1]
            filled == Filled(text, event.fields)
            route == Segments(<<channel>>)
            pattern == h.pattern
<1>1. /\ text \in Text /\ channel \in Text /\ event.route.texts = <<text>>
      /\ filled \in Seq(Text) /\ Len(filled) = Len(text)
      /\ channel = FlattenSeq(filled)
      /\ CanFormat(text, event.fields)
  BY FirstChannel, FormatsToText
<1>2. pattern \in Seq(Text) /\ h.func \in Callback /\ pattern = Segments(<<text>>)
  BY <1>1 DEF HandlerData, SameRoute
<1>3. /\ Len(text) \in Nat /\ DOMAIN text = 1 .. Len(text)
      /\ DOMAIN filled = 1 .. Len(text)
      /\ \A i \in 1 .. Len(text) : text[i] \in Part
  BY <1>1, LenProperties, ElementOfSeq DEF Text
<1>4. /\ \A i \in 1 .. Len(text) : text[i] \in Braced =>
            /\ BracedName[text[i]] \in DOMAIN event.fields
            /\ filled[i] = event.fields[BracedName[text[i]]]
      /\ \A i \in 1 .. Len(text) : text[i] \notin Braced => filled[i] = <<text[i]>>
  BY <1>1, <1>3 DEF CanFormat, ToSet, Filled
<1>5. \A n \in DOMAIN event.fields : event.fields[n] \in Text
  BY EventAssumption
<1>6. \A p \in Braced : IsPlaceholder(<<p>>)
  BY DEF IsPlaceholder, Last
<1>7. \A x \in Text : Len(x) = 1 => x = <<x[1]>>
  BY DEF Text
<1>8. \A x \in Text : FlattenSeq(<<x>>) = x
  <2>. TAKE x \in Text
  <2>1. <<x>> \in Seq(Seq(Part)) /\ Len(<<x>>) = 1 /\ <<x>>[1] = x
    BY DEF Text
  <2>. QED
    BY <2>1, FlattenJoins
<1>. HIDE DEF text, channel, filled, pattern
<1>9. CASE delimited
  <2>1. \A i \in 1 .. Len(text) : Len(filled[i]) = 1
    <3>1. \A name \in DOMAIN event.fields : Len(event.fields[name]) = 1
      BY <1>9, Zenon DEF Unsplit
    <3>2. ASSUME NEW i \in 1 .. Len(text) PROVE Len(filled[i]) = 1
      <4>1. CASE text[i] \in Braced
        BY <1>4, <3>1, <4>1
      <4>2. CASE text[i] \notin Braced
        <5>1. filled[i] = <<text[i]>>
          BY <1>4, <4>2
        <5>. QED
          BY <5>1
      <4>. QED
        BY <4>1, <4>2
    <3>. QED
      BY <3>2
  <2>2. /\ Len(channel) = Len(text)
        /\ \A i \in 1 .. Len(text) : channel[i] = filled[i][1]
    BY <1>1, <1>3, <2>1, FlattenJoins DEF Text
  <2>3. channel \in Seq(Part) /\ DOMAIN channel = 1 .. Len(text)
    BY <1>1, <2>2, LenProperties DEF Text
  <2>4. /\ pattern = [i \in 1 .. Len(text) |-> <<text[i]>>]
        /\ route = [i \in 1 .. Len(text) |-> <<channel[i]>>]
    BY <1>1, <1>2, <1>3, <1>8, <1>9, <2>3 DEF Segments
  <2>5. Len(pattern) = Len(text) /\ Len(route) = Len(text)
    BY <1>3, <2>4
  <2>. HIDE DEF route
  <2>6. ASSUME NEW i \in 1 .. Len(text)
        PROVE  IsWildcard(pattern[i]) \/ pattern[i] = route[i]
    <3>1. CASE text[i] \in Braced
      BY <1>6, <2>4, <3>1 DEF IsWildcard
    <3>2. CASE text[i] \notin Braced
      <4>1. channel[i] = text[i]
        BY <1>4, <2>2, <3>2
      <4>. QED
        BY <2>4, <4>1
    <3>. QED
      BY <3>1, <3>2
  <2>7. Matches(pattern, route)
    BY <2>4, <2>5, <2>6 DEF Matches
  <2>8. ASSUME NEW n \in Wants[h.func]
        PROVE  Bind(route, pattern, n) = event.fields[n]
    <3>1. CanBind(pattern, n)
      BY DEF pattern
    <3>2. PICK k \in 1 .. Len(pattern), p \in Braced :
              Bind(route, pattern, n) = route[k] /\ pattern[k] = <<p>> /\ BracedName[p] = n
      <4>1. PICK k : BindsAt(route, pattern, n, k)
        BY <1>2, <3>1, BindsToAHole
      <4>. QED
        BY <4>1 DEF BindsAt
    <3>3. k \in 1 .. Len(text) /\ text[k] = p
      BY <2>4, <2>5, <3>2
    <3>4. n \in DOMAIN event.fields /\ filled[k] = event.fields[n]
      BY <1>4, <3>2, <3>3
    <3>5. route[k] = <<event.fields[n][1]>>
      BY <2>2, <2>4, <3>3, <3>4
    <3>. QED
      BY <1>5, <1>7, <2>1, <3>2, <3>3, <3>4, <3>5
  <2>. QED
    BY <2>7, <2>8 DEF pattern, route, channel
<1>10. CASE ~ delimited
  <2>1. pattern = <<text>> /\ route = <<channel>>
    BY <1>2, <1>10 DEF Segments
  <2>2. Len(pattern) = 1 /\ Len(route) = 1 /\ DOMAIN route = {1} /\ DOMAIN pattern = {1}
        /\ pattern[1] = text /\ route[1] = channel
    BY <2>1
  <2>. HIDE DEF route
  <2>3. ASSUME NEW i \in 1 .. Len(text), text[i] \in Braced
        PROVE  i = 1 /\ text = <<text[1]>> /\ channel = event.fields[BracedName[text[1]]]
    <3>1. text \in ToSet(pattern) /\ text[i] \in ToSet(text)
      BY <1>3, <2>2 DEF ToSet
    <3>2. Len(text) = 1
      BY <2>3, <3>1 DEF Whole, pattern
    <3>3. i = 1 /\ text = <<text[1]>>
      BY <1>1, <1>7, <3>2
    <3>4. channel = filled[1]
      BY <1>1, <3>2, FlattenJoins DEF Text
    <3>. QED
      BY <1>4, <2>3, <3>3, <3>4
  <2>4. Matches(pattern, route)
    <3>1. CASE \E i \in 1 .. Len(text) : text[i] \in Braced
      <4>1. text[1] \in Braced /\ text = <<text[1]>>
        BY <2>3, <3>1
      <4>2. IsWildcard(pattern[1])
        BY <1>6, <2>2, <4>1 DEF IsWildcard
      <4>. QED
        BY <2>2, <4>2 DEF Matches
    <3>2. CASE \A i \in 1 .. Len(text) : text[i] \notin Braced
      <4>1. \A i \in 1 .. Len(text) : filled[i] = <<text[i]>>
        BY <1>4, <3>2
      <4>2. /\ Len(channel) = Len(text)
            /\ \A i \in 1 .. Len(text) : channel[i] = text[i]
        <5>1. ASSUME NEW i \in 1 .. Len(text) PROVE Len(filled[i]) = 1 /\ filled[i][1] = text[i]
          <6>1. filled[i] = <<text[i]>>
            BY <4>1
          <6>. QED
            BY <6>1
        <5>. QED
          BY <1>1, <1>3, <5>1, FlattenJoins DEF Text
      <4>3. channel = text
        BY <1>1, <4>2, SeqEqual DEF Text
      <4>. QED
        BY <2>2, <4>3 DEF Matches
    <3>. QED
      BY <3>1, <3>2
  <2>5. ASSUME NEW n \in Wants[h.func]
        PROVE  Bind(route, pattern, n) = event.fields[n]
    <3>1. CanBind(pattern, n)
      BY DEF pattern
    <3>2. PICK k \in 1 .. Len(pattern), p \in Braced :
              Bind(route, pattern, n) = route[k] /\ pattern[k] = <<p>> /\ BracedName[p] = n
      <4>1. PICK k : BindsAt(route, pattern, n, k)
        BY <1>2, <3>1, BindsToAHole
      <4>. QED
        BY <4>1 DEF BindsAt
    <3>3. k = 1 /\ text = <<p>>
      BY <2>2, <3>2
    <3>4. 1 \in 1 .. Len(text) /\ text[1] = p
      BY <3>3
    <3>. QED
      BY <2>2, <2>3, <3>2, <3>3, <3>4
  <2>. QED
    BY <2>4, <2>5 DEF pattern, route, channel
<1>. QED
  BY <1>9, <1>10

-----------------------------------------------------------------------------
(***************************************************************************)
(* From the calls of emit() to the handlers.                               *)
(***************************************************************************)
Sent ==
    [pc: {"sending", "reporting", "returned", "raised"}, backend: Backend, event: Event,
     callback: Function]

Entry ==
    [type: {"subscribe"}] \cup
    [type: {"message", "pmessage"}, call: Call, channel: Text]

\* What the client library holds was sent, and so was what Redis delivered.
OnItsWay(c) == calls[c] \in Sent /\ Sendable(calls[c].backend, calls[c].event)

Delivered(entry) ==
    /\ calls[entry.call] \in Sent /\ Sendable("redis", calls[entry.call].event)
    /\ entry.channel = To(calls[entry.call].event)[1]

FlowTypes ==
    /\ feed \in Seq(Entry)
    /\ inTransit \subseteq Call /\ handled \subseteq Call

Tracked ==
    /\ \A c \in inTransit : OnItsWay(c)
    /\ \A entry \in ToSet(feed) : entry.type # "subscribe" => Delivered(entry)
    /\ \A c \in handled : calls[c] \in Sent

FlowInv == FlowTypes /\ Tracked /\ EventsReachTheirHandlers

LEMMA ToSetConcat ==
    ASSUME NEW S, NEW s \in Seq(S), NEW t \in Seq(S)
    PROVE  ToSet(s \o t) \subseteq ToSet(s) \cup ToSet(t)
<1>1. /\ Len(s) \in Nat /\ Len(t) \in Nat /\ DOMAIN s = 1 .. Len(s) /\ DOMAIN t = 1 .. Len(t)
      /\ DOMAIN (s \o t) = 1 .. Len(s) + Len(t)
      /\ \A i \in 1 .. Len(s) + Len(t) : (s \o t)[i] = IF i <= Len(s) THEN s[i] ELSE t[i - Len(s)]
  BY ConcatProperties, LenProperties
<1>2. ASSUME NEW i \in DOMAIN (s \o t) PROVE (s \o t)[i] \in ToSet(s) \cup ToSet(t)
  <2>1. CASE i <= Len(s)
    <3>1. i \in DOMAIN s /\ (s \o t)[i] = s[i]
      BY <1>1, <2>1
    <3>. QED
      BY <3>1 DEF ToSet
  <2>2. CASE ~ (i <= Len(s))
    <3>1. i - Len(s) \in DOMAIN t /\ (s \o t)[i] = t[i - Len(s)]
      BY <1>1, <2>2
    <3>. QED
      BY <3>1 DEF ToSet
  <2>. QED
    BY <2>1, <2>2
<1>. QED
  BY <1>2 DEF ToSet

LEMMA ToSetTail ==
    ASSUME NEW S, NEW s \in Seq(S), s # << >>
    PROVE  Tail(s) \in Seq(S) /\ ToSet(Tail(s)) \subseteq ToSet(s) /\ Head(s) \in ToSet(s)
<1>1. /\ Len(s) \in Nat /\ Len(s) # 0 /\ DOMAIN s = 1 .. Len(s) /\ Head(s) = s[1]
      /\ Tail(s) \in Seq(S) /\ Len(Tail(s)) = Len(s) - 1 /\ DOMAIN Tail(s) = 1 .. Len(Tail(s))
      /\ \A i \in 1 .. Len(Tail(s)) : Tail(s)[i] = s[i + 1]
  BY HeadTailProperties, LenProperties, EmptySeq
<1>2. 1 \in DOMAIN s /\ \A i \in DOMAIN Tail(s) : i + 1 \in DOMAIN s
  BY <1>1
<1>. QED
  BY <1>1, <1>2 DEF ToSet

\* A call that was sent stays sent, with its event and its backend.
LEMMA OneCallMoves ==
    ASSUME calls \in [Call -> CallState], NEW c \in Call, calls[c] \in Sent, NEW d \in Call,
           \/ calls[d] = NotCalled /\ \E x : calls' = [calls EXCEPT ![d] = x]
           \/ \E pc \in {"returned", "raised"} : calls' = [calls EXCEPT ![d].pc = pc]
           \/ \E callback \in Function :
                calls' = [calls EXCEPT ![d].pc = "reporting", ![d].callback = callback]
    PROVE  /\ calls'[c] \in Sent /\ calls'[c].event = calls[c].event
           /\ calls'[c].backend = calls[c].backend
<1>1. calls[c] # NotCalled
  BY DEF Sent, NotCalled
<1>2. CASE calls[d] = NotCalled /\ \E x : calls' = [calls EXCEPT ![d] = x]
  BY <1>1, <1>2
<1>3. ASSUME NEW pc \in {"returned", "raised"}, calls' = [calls EXCEPT ![d].pc = pc]
      PROVE  /\ calls'[c] \in Sent /\ calls'[c].event = calls[c].event
             /\ calls'[c].backend = calls[c].backend
  BY <1>3 DEF Sent
<1>4. ASSUME NEW callback \in Function,
             calls' = [calls EXCEPT ![d].pc = "reporting", ![d].callback = callback]
      PROVE  /\ calls'[c] \in Sent /\ calls'[c].event = calls[c].event
             /\ calls'[c].backend = calls[c].backend
  BY <1>4 DEF Sent
<1>. QED
  BY <1>2, <1>3, <1>4

LEMMA SentStays ==
    ASSUME EInv, [Next]_vars, NEW c \in Call, calls[c] \in Sent
    PROVE  /\ calls'[c] \in Sent /\ calls'[c].event = calls[c].event
           /\ calls'[c].backend = calls[c].backend
<1>1. calls \in [Call -> CallState] /\ onTimeout \in [Backend -> Function]
  BY DEF EInv, CallTypes
<1>2. CASE UNCHANGED calls
  BY <1>2
<1>3. ASSUME NEW d \in Call, NEW b \in Backend, NEW event \in Event,
             EmitRefused(d, b, event) \/ EmitSends(d, b, event)
      PROVE  /\ calls'[c] \in Sent /\ calls'[c].event = calls[c].event
             /\ calls'[c].backend = calls[c].backend
  <2>1. calls[d] = NotCalled /\ \E x : calls' = [calls EXCEPT ![d] = x]
    BY <1>3 DEF EmitRefused, EmitSends
  <2>. QED
    BY <1>1, <2>1, OneCallMoves
<1>4. ASSUME NEW d \in Call, NEW callback, CallbackEnds(d, callback)
      PROVE  /\ calls'[c] \in Sent /\ calls'[c].event = calls[c].event
             /\ calls'[c].backend = calls[c].backend
  <2>1. \E pc \in {"returned", "raised"} : calls' = [calls EXCEPT ![d].pc = pc]
    BY <1>4 DEF CallbackEnds, Ends
  <2>. QED
    BY <1>1, <2>1, OneCallMoves
<1>5. ASSUME NEW d \in Call, SendReturns(d) \/ SendRaises(d)
      PROVE  /\ calls'[c] \in Sent /\ calls'[c].event = calls[c].event
             /\ calls'[c].backend = calls[c].backend
  <2>1. \E pc \in {"returned", "raised"} : calls' = [calls EXCEPT ![d].pc = pc]
    BY <1>5 DEF SendReturns, SendRaises, Ends
  <2>. QED
    BY <1>1, <2>1, OneCallMoves
<1>6. ASSUME NEW d \in Call, SendTimesOut(d)
      PROVE  /\ calls'[c] \in Sent /\ calls'[c].event = calls[c].event
             /\ calls'[c].backend = calls[c].backend
  <2>1. PICK callback \in Function : callback = onTimeout[calls[d].backend]
    BY <1>1, <1>6 DEF SendTimesOut, Backend
  <2>2. Report(d, callback)
    BY <1>6, <2>1 DEF SendTimesOut
  <2>3. CASE calls' = [calls EXCEPT ![d].pc = "reporting", ![d].callback = callback]
    BY <1>1, <2>3, OneCallMoves
  <2>. QED
    BY <1>4, <2>2, <2>3 DEF Report
<1>7. ASSUME NEW d \in Call, AwaitedCallbackEnds(d)
      PROVE  /\ calls'[c] \in Sent /\ calls'[c].event = calls[c].event
             /\ calls'[c].backend = calls[c].backend
  BY <1>4, <1>7 DEF AwaitedCallbackEnds
<1>8. CASE EmissionStep
  <2>1. (\E d \in Call : Arrives(d)) \/ (\E b \in Backend, callback \in Reporter : OnTimeout(b, callback))
        => UNCHANGED calls
    BY DEF Arrives, OnTimeout
  <2>. QED
    BY <1>2, <1>3, <1>5, <1>6, <1>7, <1>8, <2>1 DEF EmissionStep
<1>9. ASSUME NEW d \in Call, RedisDelivers(d) PROVE UNCHANGED calls
  BY <1>9 DEF RedisDelivers, Arrives
<1>10. CASE Configure \/ RedisConfirms \/ ListenSkips \/ HandleMessage \/ UNCHANGED vars
  BY <1>2, <1>10 DEF Configure, RedisConfirms, ListenSkips, HandleMessage, vars, emissionVars
<1>. QED
  BY <1>2, <1>8, <1>9, <1>10 DEF Next

-----------------------------------------------------------------------------
LEMMA RoutingInvNext ==
    ASSUME RoutingInv, [Next]_vars
    PROVE  RoutingInv'
<1>1. CASE UNCHANGED routingVars
  BY <1>1 DEF routingVars, RoutingInv, Holds, HoldsPolicies
<1>2. CASE Configure
  BY <1>2, RoutingInvStep DEF Configure
<1>3. CASE EmissionStep \/ (\E c \in Call : RedisDelivers(c)) \/ RedisConfirms \/ ListenSkips
           \/ HandleMessage \/ UNCHANGED vars
  BY <1>1, <1>3 DEF EmissionStep, RedisDelivers, RedisConfirms, ListenSkips, HandleMessage, vars
<1>. QED
  BY <1>2, <1>3 DEF Next

LEMMA RoutingInvHolds == Spec => []RoutingInv
<1>1. Init => RoutingInv
  BY RoutingInvInit DEF Init
<1>2. RoutingInv /\ [Next]_vars => RoutingInv'
  BY RoutingInvNext
<1>. QED
  BY <1>1, <1>2, PTL DEF Spec

\* Whatever is registered, in whatever order, a route finds exactly the handlers whose
\* patterns match it, each as often as it was registered (trie.py:38-53).
THEOREM RoutesFindTheirHandlers == Spec => []LookupIsMatching
<1>1. RoutingInv => LookupIsMatching
  BY HandlersAreFound, TextsAssumption DEF RoutingInv, LookupIsMatching
<1>. QED
  BY <1>1, RoutingInvHolds, PTL

\* Whatever policies are set, in whatever order, a route finds the first one set for the
\* pattern that no pattern with an earlier exact segment hides (trie.py:44-51).
THEOREM RoutesFindTheirPolicy == Spec => []PolicyIsUnhidden
<1>1. RoutingInv => PolicyIsUnhidden
  BY PoliciesAreFound, TextsAssumption DEF RoutingInv, PolicyIsUnhidden
<1>. QED
  BY <1>1, RoutingInvHolds, PTL

\* A policy that was set for a route is hidden from it by a pattern that does not match.
HiddenFromOutside(route) ==
    \E i \in DOMAIN policiesSet, s \in ToSet(policiesSet) :
        /\ Matches(policiesSet[i].pattern, route)
        /\ ~Matches(s.pattern, route)
        /\ HiddenBy(policiesSet[i].pattern, s.pattern, route)

\* Nothing else keeps lookup from its promise (trie.py:20): where no pattern that does not
\* match hides one that does, the most exact match is found, for all policies and routes.
THEOREM MostExactUnlessHidden ==
    Spec => [](\A route \in Route : ~HiddenFromOutside(route) => FindsMostExact(route))
<1>1. ASSUME PolicyIsUnhidden
      PROVE  \A route \in Route : ~HiddenFromOutside(route) => FindsMostExact(route)
  <2> SUFFICES ASSUME NEW route \in Route, ~HiddenFromOutside(route)
               PROVE  FindsMostExact(route)
    OBVIOUS
  <2> DEFINE unhidden == {i \in DOMAIN policiesSet :
            /\ Matches(policiesSet[i].pattern, route)
            /\ \A s \in ToSet(policiesSet) : ~HiddenBy(policiesSet[i].pattern, s.pattern, route)}
  <2>1. PolicyOf(route) =
            IF unhidden = {} THEN DefaultPolicy ELSE policiesSet[Min(unhidden)].policy
    BY <1>1 DEF PolicyIsUnhidden, FindsUnhidden
  <2>2. unhidden = MostExact(route)
    BY DEF HiddenFromOutside, MostExact, MatchingPolicies
  <2>. QED
    BY <2>1, <2>2 DEF FindsMostExact
<1>. QED
  BY <1>1, RoutesFindTheirPolicy, PTL

-----------------------------------------------------------------------------
\* No step breaks the types.
LEMMA FlowTypesStep ==
    ASSUME EInv, FlowInv, [Next]_vars
    PROVE  FlowTypes'
<1>1. /\ feed \in Seq(Entry) /\ inTransit \subseteq Call /\ handled \subseteq Call
  BY DEF FlowInv, FlowTypes
<1>2. CASE UNCHANGED flowVars /\ (inTransit' \subseteq inTransit \cup Call)
  BY <1>1, <1>2 DEF flowVars, FlowTypes
<1>3. ASSUME NEW c \in Call, RedisDelivers(c) PROVE FlowTypes'
  <2>1. OnItsWay(c) /\ calls[c].backend = "redis"
    BY <1>3 DEF RedisDelivers, Arrives, FlowInv, Tracked
  <2>2. To(calls[c].event)[1] \in Text
    BY <2>1, FirstChannel DEF OnItsWay, Sent
  <2>3. PICK types \in Deliveries :
          feed' = feed \o [i \in DOMAIN types |->
                    [type |-> types[i], call |-> c, channel |-> To(calls[c].event)[1]]]
    BY <1>3 DEF RedisDelivers
  <2>. DEFINE new == [i \in DOMAIN types |->
                    [type |-> types[i], call |-> c, channel |-> To(calls[c].event)[1]]]
  <2>4. types \in Seq({"message", "pmessage"})
    <3>1. << >> \in Seq({"message", "pmessage"})
      BY EmptySeq
    <3>2. <<"message">> \in Seq({"message", "pmessage"}) /\ <<"pmessage">> \in Seq({"message", "pmessage"})
      OBVIOUS
    <3>3. <<"message", "pmessage">> \in Seq({"message", "pmessage"})
      OBVIOUS
    <3>. QED
      BY <3>1, <3>2, <3>3 DEF Deliveries
  <2>5. /\ Len(types) \in Nat /\ DOMAIN types = 1 .. Len(types)
        /\ \A i \in 1 .. Len(types) : types[i] \in {"message", "pmessage"}
    BY <2>4, LenProperties, ElementOfSeq
  <2>6. \A i \in 1 .. Len(types) :
          [type |-> types[i], call |-> c, channel |-> To(calls[c].event)[1]] \in Entry
    BY <2>2, <2>5 DEF Entry
  <2>7. new \in Seq(Entry)
    BY <2>5, <2>6, SeqDef
  <2>. HIDE DEF new
  <2>8. feed' \in Seq(Entry)
    BY <1>1, <2>3, <2>7, ConcatProperties DEF new
  <2>. QED
    BY <1>1, <1>3, <2>8 DEF RedisDelivers, Arrives, FlowTypes
<1>4. CASE RedisConfirms
  <2>1. [type |-> "subscribe"] \in Entry
    BY DEF Entry
  <2>2. feed' \in Seq(Entry)
    BY <1>1, <1>4, <2>1, AppendProperties DEF RedisConfirms
  <2>. QED
    BY <1>1, <1>4, <2>2 DEF RedisConfirms, emissionVars, FlowTypes
<1>5. CASE ListenSkips
  <2>1. feed' \in Seq(Entry)
    BY <1>1, <1>5, ToSetTail DEF ListenSkips
  <2>. QED
    BY <1>1, <1>5, <2>1 DEF ListenSkips, emissionVars, FlowTypes
<1>6. CASE HandleMessage
  <2>1. feed' \in Seq(Entry)
    BY <1>1, <1>6, ToSetTail DEF HandleMessage
  <2>2. Head(feed) \in Entry
    BY <1>1, <1>6, HeadTailProperties DEF HandleMessage
  <2>3. Head(feed).call \in Call
    BY <1>6, <2>2 DEF HandleMessage, Entry
  <2>. QED
    BY <1>1, <1>6, <2>1, <2>3 DEF HandleMessage, emissionVars, FlowTypes
<1>7. CASE EmissionStep
  <2>1. inTransit' \subseteq inTransit \cup Call
    BY <1>7 DEF EmissionStep, EmitRefused, EmitSends, Arrives, SendReturns, SendRaises,
                SendTimesOut, AwaitedCallbackEnds, OnTimeout
  <2>. QED
    BY <1>2, <1>7, <2>1 DEF EmissionStep
<1>8. CASE Configure \/ UNCHANGED vars
  BY <1>2, <1>8 DEF Configure, vars, emissionVars
<1>. QED
  BY <1>3, <1>4, <1>5, <1>6, <1>7, <1>8 DEF Next

\* Whatever is on its way belongs to a call that was sent.
LEMMA TrackedStep ==
    ASSUME EInv, FlowInv, [Next]_vars
    PROVE  Tracked'
<1>1. /\ feed \in Seq(Entry) /\ inTransit \subseteq Call /\ handled \subseteq Call
      /\ \A entry \in ToSet(feed) : entry.type # "subscribe" => entry.call \in Call
  <2>1. ToSet(feed) \subseteq Entry
    BY LenProperties, ElementOfSeq DEF FlowInv, FlowTypes, ToSet
  <2>. QED
    BY <2>1 DEF FlowInv, FlowTypes, Entry
<1>2. ASSUME NEW c \in Call, OnItsWay(c) PROVE OnItsWay(c)'
  <2>1. calls'[c] \in Sent /\ calls'[c].event = calls[c].event /\ calls'[c].backend = calls[c].backend
    BY <1>2, SentStays DEF OnItsWay
  <2>. QED
    BY <1>2, <2>1 DEF OnItsWay
<1>3. ASSUME NEW entry, entry.call \in Call, Delivered(entry) PROVE Delivered(entry)'
  <2>1. calls'[entry.call] \in Sent /\ calls'[entry.call].event = calls[entry.call].event
    BY <1>3, SentStays DEF Delivered
  <2>. QED
    BY <1>3, <2>1 DEF Delivered
<1>4. \A entry \in ToSet(feed) : entry.type # "subscribe" => Delivered(entry)'
  BY <1>1, <1>3 DEF FlowInv, Tracked
<1>5. \A c \in inTransit : OnItsWay(c)'
  BY <1>1, <1>2 DEF FlowInv, Tracked
<1>6. \A c \in handled : calls'[c] \in Sent
  BY <1>1, SentStays DEF FlowInv, Tracked
<1>7. CASE UNCHANGED flowVars /\ inTransit' \subseteq inTransit
  BY <1>4, <1>5, <1>6, <1>7 DEF flowVars, Tracked
<1>8. ASSUME NEW c \in Call, RedisDelivers(c) PROVE Tracked'
  <2>1. OnItsWay(c) /\ calls[c].backend = "redis" /\ UNCHANGED calls
    BY <1>8 DEF RedisDelivers, Arrives, FlowInv, Tracked
  <2>2. PICK types \in Deliveries :
          feed' = feed \o [i \in DOMAIN types |->
                    [type |-> types[i], call |-> c, channel |-> To(calls[c].event)[1]]]
    BY <1>8 DEF RedisDelivers
  <2>. DEFINE new == [i \in DOMAIN types |->
                    [type |-> types[i], call |-> c, channel |-> To(calls[c].event)[1]]]
  <2>3. \A entry \in ToSet(new) : entry.call = c /\ entry.channel = To(calls[c].event)[1]
    BY DEF ToSet
  <2>4. \A entry \in ToSet(new) : Delivered(entry)'
    BY <2>1, <2>3 DEF OnItsWay, Delivered
  <2>5. new \in Seq(ToSet(new))
    <3>1. Len(types) \in Nat /\ DOMAIN types = 1 .. Len(types)
      BY DEF Deliveries
    <3>2. \A i \in 1 .. Len(types) : new[i] \in ToSet(new)
      BY <3>1 DEF ToSet
    <3>3. DOMAIN new = 1 .. Len(types) /\ new = [i \in 1 .. Len(types) |-> new[i]]
      BY <3>1
    <3>. HIDE DEF new
    <3>. QED
      BY <3>1, <3>2, <3>3, SeqDef
  <2>. HIDE DEF new
  <2>6. ToSet(feed') \subseteq ToSet(feed) \cup ToSet(new)
    <3>. DEFINE S == Entry \cup ToSet(new)
    <3>1. feed \in Seq(S) /\ new \in Seq(S)
      BY <1>1, <2>5, SeqMonotonic
    <3>. HIDE DEF S
    <3>. QED
      BY <2>2, <3>1, ToSetConcat DEF new
  <2>. QED
    BY <1>4, <1>5, <1>6, <1>8, <2>4, <2>6 DEF RedisDelivers, Arrives, Tracked
<1>9. CASE RedisConfirms
  <2>1. [type |-> "subscribe"] \in Entry
    BY DEF Entry
  <2>2. ToSet(feed') = ToSet(feed) \cup {[type |-> "subscribe"]}
    BY <1>1, <1>9, <2>1, ToSetAppend DEF RedisConfirms
  <2>. QED
    BY <1>4, <1>5, <1>6, <1>9, <2>2 DEF RedisConfirms, emissionVars, Tracked
<1>10. CASE ListenSkips
  <2>1. ToSet(feed') \subseteq ToSet(feed)
    BY <1>1, <1>10, ToSetTail DEF ListenSkips
  <2>. QED
    BY <1>4, <1>5, <1>6, <1>10, <2>1 DEF ListenSkips, emissionVars, Tracked
<1>11. CASE HandleMessage
  <2>1. ToSet(feed') \subseteq ToSet(feed) /\ Head(feed) \in ToSet(feed)
    BY <1>1, <1>11, ToSetTail DEF HandleMessage
  <2>2. calls'[Head(feed).call] \in Sent
    BY <1>4, <1>11, <2>1 DEF HandleMessage, Delivered
  <2>. QED
    BY <1>4, <1>5, <1>6, <1>11, <2>1, <2>2 DEF HandleMessage, emissionVars, Tracked
<1>12. CASE EmissionStep
  <2>1. ASSUME NEW c \in Call, NEW b \in Backend, NEW event \in Event, EmitSends(c, b, event)
        PROVE  Tracked'
    <3>1. calls'[c] = [pc |-> "sending", backend |-> b, event |-> event, callback |-> Log]
      BY <2>1 DEF EmitSends, EInv, CallTypes
    <3>2. OnItsWay(c)'
      BY <2>1, <3>1 DEF EmitSends, OnItsWay, Sent, Function
    <3>. QED
      BY <1>4, <1>5, <1>6, <1>12, <2>1, <3>2 DEF EmissionStep, EmitSends, flowVars, Tracked
  <2>2. CASE inTransit' \subseteq inTransit
    BY <1>7, <1>12, <2>2 DEF EmissionStep
  <2>. QED
    BY <1>12, <2>1, <2>2 DEF EmissionStep, EmitRefused, Arrives, SendReturns, SendRaises,
                SendTimesOut, AwaitedCallbackEnds, OnTimeout
<1>13. CASE Configure \/ UNCHANGED vars
  BY <1>7, <1>13 DEF Configure, vars, emissionVars
<1>. QED
  BY <1>8, <1>9, <1>10, <1>11, <1>12, <1>13 DEF Next

-----------------------------------------------------------------------------
\* Has the handled event of c reached h, if it should?
Reached(c, h) ==
    LET event == calls[c].event
    IN  /\ SameRoute(event, h) /\ Whole(h.pattern) /\ Unsplit(event)
        /\ \A n \in Wants[h.func] : CanBind(h.pattern, n)
        => [call |-> c, handler |-> h, args |-> [n \in Wants[h.func] |-> event.fields[n]]]
                \in invoked

\* What has reached a handler has reached it for good.
LEMMA ReachedStays ==
    ASSUME NEW c, NEW h, Reached(c, h), calls'[c].event = calls[c].event,
           UNCHANGED delimited, invoked \subseteq invoked'
    PROVE  Reached(c, h)'
BY DEF Reached, SameRoute, Segments, Unsplit

\* The message at the head of the feed reaches its handlers.
LEMMA HandleReaches ==
    ASSUME RoutingInv, FlowInv, HandleMessage, NEW h \in ToSet(registered),
           NEW c, c = Head(feed).call
    PROVE  Reached(c, h)'
<1>. DEFINE event == calls[c].event
            route == Segments(SubscriptionOf(Head(feed)))
<1>1. feed # << >> /\ Head(feed).type # "subscribe" /\ feed \in Seq(Entry)
  BY DEF HandleMessage, FlowInv, FlowTypes
<1>2. Delivered(Head(feed))
  BY <1>1, ToSetTail DEF FlowInv, Tracked
<1>3. /\ event \in Event /\ Sendable("redis", event)
      /\ route = Segments(<<To(event)[1]>>) /\ To(event)[1] \in Text
  BY <1>2, FirstChannel DEF Delivered, Sent, SubscriptionOf
<1>4. registered \in Seq(HandlerData) /\ h \in HandlerData
  BY LenProperties, ElementOfSeq DEF RoutingInv, Holds, ToSet
<1>5. UNCHANGED <<calls, delimited>>
  BY DEF HandleMessage, routingVars, emissionVars
<1>. HIDE DEF event, route
<1>6. SUFFICES ASSUME SameRoute(event, h), Whole(h.pattern), Unsplit(event),
                      \A n \in Wants[h.func] : CanBind(h.pattern, n)
               PROVE  [call |-> c, handler |-> h,
                       args |-> [n \in Wants[h.func] |-> event.fields[n]]] \in invoked'
  <2>1. calls'[c].event = event /\ delimited' = delimited
    BY <1>5 DEF event
  <2>. QED
    BY <2>1 DEF Reached, SameRoute, Segments, Unsplit
<1>7. Matches(h.pattern, route) /\ \A n \in Wants[h.func] : Bind(route, h.pattern, n) = event.fields[n]
  BY <1>3, <1>4, <1>6, ReachesItsHandler
<1>8. h \in ToSet(HandlersOf(route))
  <2>1. route \in Seq(Text)
    <3>1. <<To(event)[1]>> \in Seq(Text)
      BY <1>3
    <3>. QED
      BY <1>3, <3>1, SegmentsOf
  <2>2. Count(HandlersOf(route), h) = Count(registered, h)
    BY <1>7, <2>1, HandlersAreFound DEF RoutingInv, FindsAll
  <2>3. HandlersOf(route) \in Seq(HandlerData)
    BY <2>1, LookupTyped DEF HandlersOf, RoutingInv, Holds
  <2>. QED
    BY <1>4, <2>2, <2>3, CountsElements
<1>9. Invocation(c, route, h) \in invoked'
  BY <1>6, <1>8 DEF HandleMessage, route
<1>. QED
  BY <1>7, <1>9 DEF Invocation

\* No step leaves a handled event unseen by one of its handlers.
LEMMA ReachStep ==
    ASSUME EInv, RoutingInv, FlowInv, [Next]_vars
    PROVE  EventsReachTheirHandlers'
<1>1. \A c \in handled, h \in ToSet(registered) : Reached(c, h)
  BY DEF FlowInv, EventsReachTheirHandlers, Reached
<1>2. \A c \in handled : c \in Call /\ calls[c] \in Sent /\ calls'[c].event = calls[c].event
  BY SentStays DEF FlowInv, FlowTypes, Tracked
<1>3. SUFFICES ASSUME NEW c \in handled', NEW h \in ToSet(registered')
               PROVE  Reached(c, h)'
  BY DEF EventsReachTheirHandlers, Reached
<1>4. CASE UNCHANGED <<registered, delimited, handled, invoked>>
  BY <1>1, <1>2, <1>4, ReachedStays
<1>5. CASE Configure
  <2>1. \A d \in Call : calls[d] \notin Sent
    BY <1>5 DEF Configure, NotCalled, Sent
  <2>2. handled' = {}
    BY <1>2, <1>5, <2>1 DEF Configure, flowVars
  <2>. QED
    BY <2>2
<1>6. CASE HandleMessage
  <2>1. /\ UNCHANGED <<registered, delimited>> /\ invoked \subseteq invoked'
        /\ handled' = handled \cup {Head(feed).call}
    BY <1>6 DEF HandleMessage, routingVars
  <2>2. CASE c \in handled
    BY <1>1, <1>2, <2>1, <2>2, ReachedStays
  <2>3. CASE c = Head(feed).call
    BY <1>6, <2>1, <2>3, HandleReaches
  <2>. QED
    BY <2>1, <2>2, <2>3
<1>7. CASE EmissionStep \/ (\E d \in Call : RedisDelivers(d)) \/ RedisConfirms \/ ListenSkips
           \/ UNCHANGED vars
  BY <1>4, <1>7 DEF EmissionStep, RedisDelivers, RedisConfirms, ListenSkips, vars, flowVars, routingVars
<1>. QED
  BY <1>5, <1>6, <1>7 DEF Next

LEMMA FlowInvInit == Init => FlowInv
<1>. SUFFICES ASSUME Init PROVE FlowInv
  OBVIOUS
<1>1. feed = << >> /\ handled = {} /\ inTransit = {}
  BY DEF Init, EmissionInit
<1>2. ToSet(<< >>) = {} /\ << >> \in Seq(Entry)
  BY EmptySeq DEF ToSet
<1>. QED
  BY <1>1, <1>2 DEF FlowInv, FlowTypes, Tracked, EventsReachTheirHandlers

\* A handled event reaches every handler whose subscription is written like its route,
\* with the fields of the event as the values of its parameters, whatever the other
\* registrations and the other events are.
THEOREM HandlersAreReached == Spec => []EventsReachTheirHandlers
<1>1. Init => EInv /\ RoutingInv /\ FlowInv
  BY EInvInit, RoutingInvInit, FlowInvInit DEF Init
<1>2. EInv /\ RoutingInv /\ FlowInv /\ [Next]_vars => (EInv /\ RoutingInv /\ FlowInv)'
  BY EInvStep, RoutingInvNext, FlowTypesStep, TrackedStep, ReachStep DEF FlowInv
<1>3. FlowInv => EventsReachTheirHandlers
  BY DEF FlowInv
<1>. QED
  BY <1>1, <1>2, <1>3, PTL DEF Spec
================================================================================
