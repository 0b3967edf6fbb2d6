---------------------------- MODULE PipelineProofs -----------------------------
(***************************************************************************)
(* The lock on its own: mutual exclusion per key and the sharing of the    *)
(* entries, for every set of calls and keys and every limit.               *)
(*                                                                         *)
(* The lock in a pipeline: wherever it stands, what the pipeline does with *)
(* it is what AsyncLock allows, and a handler runs only inside of it: for  *)
(* every pipeline with one lock, every number of events, keys and limits,  *)
(* and any retries and cancellations.                                      *)
(*                                                                         *)
(* The retries in a pipeline: how often a handler is run, for any number   *)
(* of them, one inside another.                                            *)
(***************************************************************************)
EXTENDS Pipeline, FiniteSetTheorems, WellFoundedInduction, TLAPS

-----------------------------------------------------------------------------
(***************************************************************************)
(* The lock.                                                               *)
(***************************************************************************)
Users(k)   == {c \in Call : Registered(c) /\ KeyOf[c] = k}
Holding(c) == pc[c] \in {"woken", "wokenCancelled", "inside"}
Holders(k) == {c \in Call : Holding(c) /\ KeyOf[c] = k}

\* All users of a key have the semaphore of its entry, made by a call with that key.
EntryInv ==
    /\ \A c \in Call : Registered(c) => sem[c] = entry[KeyOf[c]] /\ entry[KeyOf[c]] # None
    /\ \A k \in Key : entry[k] # None => KeyOf[entry[k]] = k /\ pc[entry[k]] # "new"

\* ref_count counts the users, and the entry is there as long as it is not zero.
CountInv ==
    \A k \in Key :
        /\ refCount[k] = Cardinality(Users(k))
        /\ entry[k] = None <=> refCount[k] = 0

\* A permit of the semaphore is free, or with a call that was woken or is inside.
PermitInv ==
    /\ \A c \in Call : pc[c] = "new" => value[c] = Limit
    /\ \A k \in Key : entry[k] # None => value[entry[k]] + Cardinality(Holders(k)) = Limit

IInv == TypeOK /\ EntryInv /\ CountInv /\ PermitInv

-----------------------------------------------------------------------------
(* Semaphores that hand out permits: Resume, Leave and Unwind.             *)

\* The sets counted are finite.
LEMMA Finite ==
  ASSUME NEW k
  PROVE  /\ IsFiniteSet(Users(k)) /\ Cardinality(Users(k)) \in Nat
         /\ IsFiniteSet(Holders(k)) /\ Cardinality(Holders(k)) \in Nat
<1>1. IsFiniteSet(Users(k)) /\ IsFiniteSet(Holders(k))
  BY CallsAssumption, FS_Subset DEF Users, Holders
<1> QED
  BY <1>1, FS_CardinalityType

\* The calls woken wait for the semaphore of c, so that they have its key, and they are
\* no more than the permits handed out.
LEMMA WokenHaveTheKey ==
  ASSUME IInv, NEW c \in Call, Registered(c), NEW n \in Nat, NEW W \in FirstWaiting(sem[c], n)
  PROVE  /\ W \subseteq Call /\ IsFiniteSet(W) /\ Cardinality(W) \in Nat
         /\ Cardinality(W) <= n
         /\ \A d \in W : pc[d] = "waiting" /\ KeyOf[d] = KeyOf[c]
<1>1. W \subseteq Waiting(sem[c])
  BY DEF FirstWaiting
<1>2. W \subseteq Call /\ IsFiniteSet(Waiting(sem[c])) /\ IsFiniteSet(W)
  <2>1. Waiting(sem[c]) \subseteq Call
    BY DEF Waiting
  <2> QED
    BY <1>1, <2>1, CallsAssumption, FS_Subset
<1>3. Cardinality(W) \in Nat /\ Cardinality(Waiting(sem[c])) \in Nat
  BY <1>2, FS_CardinalityType
<1>4. Cardinality(W) <= n
  BY <1>3 DEF FirstWaiting
<1>5. ASSUME NEW d \in W PROVE pc[d] = "waiting" /\ KeyOf[d] = KeyOf[c]
  <2>1. d \in Call /\ sem[d] = sem[c] /\ pc[d] = "waiting"
    BY <1>1 DEF Waiting
  <2>2. Registered(d)
    BY <2>1 DEF Registered
  <2>3. sem[d] = entry[KeyOf[d]] /\ sem[c] = entry[KeyOf[c]] /\ sem[c] # None
    BY <2>1, <2>2 DEF IInv, EntryInv
  <2>4. KeyOf[d] \in Key /\ KeyOf[c] \in Key
    BY <2>1, KeysAssumption
  <2>5. KeyOf[sem[d]] = KeyOf[d] /\ KeyOf[sem[c]] = KeyOf[c]
    BY <2>1, <2>3, <2>4 DEF IInv, EntryInv
  <2> QED
    BY <2>1, <2>5
<1> QED
  BY <1>2, <1>3, <1>4, <1>5

\* The semaphore of a registered call exists.
LEMMA UserHasSemaphore ==
  ASSUME IInv, NEW c \in Call, Registered(c)
  PROVE  sem[c] \in Call /\ value[sem[c]] \in Nat
<1>1. sem[c] = entry[KeyOf[c]] /\ entry[KeyOf[c]] # None /\ KeyOf[c] \in Key
  BY KeysAssumption DEF IInv, EntryInv
<1>2. sem[c] \in Call
  BY <1>1 DEF IInv, TypeOK
<1> QED
  BY <1>2 DEF IInv, TypeOK

\* A semaphore that hands permits out, while one call goes on, keeps the invariant.
LEMMA HandOutPreserves ==
  ASSUME IInv, NEW c \in Call, Registered(c), pc[c] # "waiting",
         NEW v \in Nat, NEW n \in Nat, n <= v, NEW p \in {"inside", "over"},
         HandOut(sem[c], v, n, c, p),
         Holding(c) /\ p = "over" => v = value[sem[c]] + 1,
         ~Holding(c) \/ p = "inside" => v = value[sem[c]],
         p = "inside" => Holding(c) /\ UNCHANGED <<entry, refCount, sem>>,
         p = "over" => Unregister(c),
         UNCHANGED arrivals
  PROVE  IInv'
<1> DEFINE k == KeyOf[c]
           s == sem[c]
<1>1. /\ k \in Key /\ s = entry[k] /\ s # None /\ s \in Call /\ KeyOf[s] = k /\ pc[s] # "new"
  BY KeysAssumption DEF IInv, EntryInv, TypeOK
<1>2. PICK W \in FirstWaiting(s, n) :
        /\ value' = [value EXCEPT ![s] = v - Cardinality(W)]
        /\ pc' = [d \in Call |-> IF d = c THEN p ELSE IF d \in W THEN "woken" ELSE pc[d]]
  BY DEF HandOut
<1>3. /\ W \subseteq Call /\ IsFiniteSet(W) /\ Cardinality(W) \in Nat /\ Cardinality(W) <= n
      /\ \A d \in W : pc[d] = "waiting" /\ KeyOf[d] = k
  BY <1>2, WokenHaveTheKey
<1>4. /\ \A d \in Call : d # c => (Registered(d)' <=> Registered(d))
      /\ Registered(c)' <=> p = "inside"
  BY <1>2, <1>3 DEF Registered
<1>5. /\ \A d \in Call : d # c => (Holding(d)' <=> Holding(d) \/ d \in W)
      /\ Holding(c)' <=> p = "inside"
      /\ c \notin W
  BY <1>2, <1>3 DEF Holding
<1>6. sem' = sem /\ \A j \in Key : j # k => entry'[j] = entry[j] /\ refCount'[j] = refCount[j]
  BY <1>1 DEF Unregister, IInv, TypeOK
<1>7. /\ \A j \in Key : j # k => Users(j)' = Users(j)
      /\ p = "inside" => Users(k)' = Users(k)
      /\ p = "over" => Users(k)' = Users(k) \ {c}
      /\ c \in Users(k)
  BY <1>4 DEF Users
<1>8. /\ \A j \in Key : j # k => Holders(j)' = Holders(j)
      /\ p = "inside" => Holders(k)' = Holders(k) \cup W
      /\ p = "over" => Holders(k)' = (Holders(k) \ {c}) \cup W
      /\ Holders(k) \cap W = {}
      /\ c \in Holders(k) <=> Holding(c)
  BY <1>3, <1>5 DEF Holders, Holding
<1>9. CountInv'
  <2>1. ASSUME NEW j \in Key, j # k
        PROVE  refCount'[j] = Cardinality(Users(j)') /\ (entry'[j] = None <=> refCount'[j] = 0)
    BY <1>6, <1>7, <2>1 DEF IInv, CountInv
  <2>2. refCount[k] = Cardinality(Users(k)) /\ entry[k] # None /\ refCount[k] \in Nat \ {0}
    BY <1>1 DEF IInv, CountInv, TypeOK
  <2>3. CASE p = "inside"
    BY <1>1, <1>7, <2>1, <2>2, <2>3 DEF CountInv
  <2>4. CASE p = "over"
    <3>1. Cardinality(Users(k)') = refCount[k] - 1
      BY <1>7, <2>2, <2>4, Finite, FS_RemoveElement
    <3>2. refCount'[k] = refCount[k] - 1
      BY <1>1, <2>4 DEF Unregister, IInv, TypeOK
    <3>3. entry'[k] = None <=> refCount[k] = 1
      BY <1>1, <2>2, <2>4 DEF Unregister, IInv, TypeOK
    <3> QED
      BY <2>1, <2>2, <3>1, <3>2, <3>3 DEF CountInv
  <2> QED
    BY <2>3, <2>4
<1>10. TypeOK'
  <2>1. value' \in [Call -> Nat] /\ pc' \in [Call -> PC]
    <3>1. v - Cardinality(W) \in Nat
      BY <1>3
    <3> QED
      BY <1>2, <3>1 DEF IInv, TypeOK, PC
  <2>2. entry' \in [Key -> Call \cup {None}]
    BY DEF Unregister, IInv, TypeOK
  <2>3. refCount' \in [Key -> Nat]
    <3>1. refCount[k] - 1 \in Nat
      BY <1>1 DEF IInv, CountInv, TypeOK
    <3> QED
      BY <3>1 DEF Unregister, IInv, TypeOK
  <2> QED
    BY <1>6, <2>1, <2>2, <2>3 DEF IInv, TypeOK
<1>11. EntryInv'
  <2>1. entry'[k] = entry[k] \/ (entry'[k] = None /\ Users(k)' = {})
    <3>1. CASE p = "inside"
      BY <3>1
    <3>2. CASE p = "over" /\ refCount[k] # 1
      BY <1>1, <3>2 DEF Unregister
    <3>3. CASE p = "over" /\ refCount[k] = 1
      <4>1. entry'[k] = None
        BY <1>1, <3>3 DEF Unregister, IInv, TypeOK
      <4>2. Cardinality(Users(k)) = 1
        BY <1>1, <3>3 DEF IInv, CountInv
      <4>3. IsFiniteSet(Users(k)') /\ Cardinality(Users(k)') = 0
        BY <1>7, <3>3, <4>2, Finite, FS_RemoveElement
      <4> QED
        BY <4>1, <4>3, FS_EmptySet
    <3> QED
      BY <3>1, <3>2, <3>3
  <2>2. ASSUME NEW d \in Call, Registered(d)'
        PROVE  sem'[d] = entry'[KeyOf[d]] /\ entry'[KeyOf[d]] # None
    <3>1. Registered(d)
      BY <1>4, <2>2
    <3>2. sem[d] = entry[KeyOf[d]] /\ entry[KeyOf[d]] # None /\ KeyOf[d] \in Key
      BY <3>1, KeysAssumption DEF IInv, EntryInv
    <3>3. KeyOf[d] = k => Users(k)' # {}
      BY <2>2 DEF Users
    <3> QED
      BY <1>6, <2>1, <3>2, <3>3
  <2>3. ASSUME NEW j \in Key, entry'[j] # None
        PROVE  KeyOf[entry'[j]] = j /\ pc'[entry'[j]] # "new"
    <3>1. entry'[j] = entry[j]
      BY <1>6, <2>1, <2>3
    <3>2. KeyOf[entry[j]] = j /\ pc[entry[j]] # "new" /\ entry[j] \in Call
      BY <2>3, <3>1 DEF IInv, EntryInv, TypeOK
    <3> QED
      BY <1>2, <3>1, <3>2
  <2> QED
    BY <2>2, <2>3 DEF EntryInv
<1>12. PermitInv'
  <2>1. ASSUME NEW d \in Call, pc'[d] = "new" PROVE value'[d] = Limit
    <3>1. pc[d] = "new" /\ d # s
      BY <1>1, <1>2, <2>1
    <3> QED
      BY <1>2, <3>1 DEF IInv, TypeOK, PermitInv
  <2>2. ASSUME NEW j \in Key, entry'[j] # None, j # k
        PROVE  value'[entry'[j]] + Cardinality(Holders(j)') = Limit
    <3>1. entry'[j] = entry[j] /\ entry[j] \in Call /\ entry[j] # s
      BY <1>1, <1>6, <2>2 DEF IInv, EntryInv, TypeOK
    <3>2. value'[entry[j]] = value[entry[j]]
      BY <1>2, <3>1 DEF IInv, TypeOK
    <3> QED
      BY <1>8, <2>2, <3>1, <3>2 DEF IInv, PermitInv
  <2>3. value'[s] + Cardinality(Holders(k)') = Limit
    <3>1. value[s] + Cardinality(Holders(k)) = Limit
      BY <1>1 DEF IInv, PermitInv
    <3>2. value'[s] = v - Cardinality(W) /\ value[s] \in Nat
      BY <1>1, <1>2 DEF IInv, TypeOK
    <3>3. CASE p = "inside"
      <4>1. Cardinality(Holders(k)') = Cardinality(Holders(k)) + Cardinality(W)
        <5>1. Holders(k)' = Holders(k) \cup W /\ Cardinality(Holders(k) \cap W) = 0
          BY <1>8, <3>3, FS_EmptySet
        <5>2. Cardinality(Holders(k) \cup W)
                = Cardinality(Holders(k)) + Cardinality(W) - Cardinality(Holders(k) \cap W)
          BY <1>3, Finite, FS_Union
        <5> QED
          BY <1>3, <5>1, <5>2, Finite
      <4> QED
        BY <1>3, <3>1, <3>2, <3>3, <4>1, Finite, LimitAssumption
    <3>4. CASE p = "over"
      <4>1. /\ IsFiniteSet(Holders(k) \ {c})
            /\ Cardinality(Holders(k) \ {c}) =
                 IF Holding(c) THEN Cardinality(Holders(k)) - 1 ELSE Cardinality(Holders(k))
        BY <1>8, Finite, FS_RemoveElement
      <4>2. (Holders(k) \ {c}) \cap W = {}
        BY <1>8
      <4>3. Cardinality(Holders(k)') = Cardinality(Holders(k) \ {c}) + Cardinality(W)
        <5>1. Cardinality(Holders(k) \ {c}) \in Nat
          BY <4>1, FS_CardinalityType
        <5>2. /\ Holders(k)' = (Holders(k) \ {c}) \cup W
              /\ Cardinality((Holders(k) \ {c}) \cap W) = 0
          BY <1>8, <3>4, <4>2, FS_EmptySet
        <5>3. Cardinality((Holders(k) \ {c}) \cup W)
                = Cardinality(Holders(k) \ {c}) + Cardinality(W)
                    - Cardinality((Holders(k) \ {c}) \cap W)
          BY <1>3, <4>1, FS_Union
        <5> QED
          BY <1>3, <5>1, <5>2, <5>3
      <4>4. v = IF Holding(c) THEN value[s] + 1 ELSE value[s]
        BY <3>4
      <4> QED
        BY <1>3, <3>1, <3>2, <4>1, <4>3, <4>4, Finite, LimitAssumption
    <3> QED
      BY <3>3, <3>4
  <2>4. entry'[k] # None => entry'[k] = s
    BY <1>1 DEF Unregister, IInv, TypeOK
  <2> QED
    BY <2>1, <2>2, <2>3, <2>4 DEF PermitInv
<1> QED
  BY <1>9, <1>10, <1>11, <1>12 DEF IInv

-----------------------------------------------------------------------------
(* Calls that come, and cancellations.                                     *)

\* A call that finds or makes the entry keeps the invariant.
LEMMA EnterPreserves ==
  ASSUME IInv, NEW c \in Call, Enter(c) \/ EnterAndWait(c)
  PROVE  IInv'
<1> DEFINE k == KeyOf[c]
<1>1. PICK s \in Call : s = EntryOf(c)
  BY KeysAssumption DEF EntryOf, IInv, TypeOK
<1>2. /\ k \in Key /\ pc[c] = "new" /\ arrivals' \in Seq(Call)
      /\ entry' = [entry EXCEPT ![k] = s]
      /\ refCount' = [refCount EXCEPT ![k] = refCount[k] + 1]
      /\ sem' = [sem EXCEPT ![c] = s]
  <2>1. arrivals' \in Seq(Call)
    <3>1. arrivals \in Seq(Call)
      BY DEF IInv, TypeOK
    <3>2. Append(arrivals, c) \in Seq(Call)
      BY <3>1
    <3>3. arrivals' \in {arrivals, Append(arrivals, c)}
      BY DEF Enter, EnterAndWait
    <3> QED
      BY <3>1, <3>2, <3>3
  <2>2. Register(c) /\ pc[c] = "new"
    BY DEF Enter, EnterAndWait
  <2> QED
    BY <1>1, <2>1, <2>2, KeysAssumption DEF Register
<1>3. /\ entry[k] # None => s = entry[k] /\ pc[s] # "new"
      /\ entry[k] = None => s = c
      /\ KeyOf[s] = k
  BY <1>1, <1>2 DEF EntryOf, IInv, EntryInv
<1>4. PICK p \in {"inside", "waiting"} :
        /\ pc' = [pc EXCEPT ![c] = p]
        /\ p = "inside" => value[s] # 0 /\ value' = [value EXCEPT ![s] = value[s] - 1]
        /\ p = "waiting" => value' = value
  <2>1. CASE Enter(c)
    <3>1. value[s] # 0 /\ value' = [value EXCEPT ![s] = value[s] - 1]
      BY <1>1, <2>1 DEF Enter, Locked
    <3> QED
      BY <2>1, <3>1 DEF Enter
  <2>2. CASE EnterAndWait(c)
    BY <2>2 DEF EnterAndWait
  <2> QED
    BY <2>1, <2>2
<1>5. /\ \A d \in Call : d # c => (Registered(d)' <=> Registered(d))
      /\ Registered(c)' /\ ~Registered(c)
  BY <1>2, <1>4 DEF Registered, IInv, TypeOK
<1>6. /\ \A d \in Call : d # c => (Holding(d)' <=> Holding(d))
      /\ (Holding(c)' <=> p = "inside") /\ ~Holding(c)
  BY <1>2, <1>4 DEF Holding, IInv, TypeOK
<1>7. /\ \A j \in Key : j # k => Users(j)' = Users(j)
      /\ Users(k)' = Users(k) \cup {c} /\ c \notin Users(k)
  BY <1>5 DEF Users
<1>8. /\ \A j \in Key : j # k => Holders(j)' = Holders(j)
      /\ p = "waiting" => Holders(k)' = Holders(k)
      /\ p = "inside" => Holders(k)' = Holders(k) \cup {c} /\ c \notin Holders(k)
  BY <1>6 DEF Holders
<1>9. /\ \A j \in Key : j # k => entry'[j] = entry[j] /\ refCount'[j] = refCount[j]
      /\ entry'[k] = s /\ refCount'[k] = refCount[k] + 1 /\ refCount[k] \in Nat
  BY <1>2 DEF IInv, TypeOK
<1>10. TypeOK'
  <2>1. value' \in [Call -> Nat]
    <3>1. value[s] \in Nat
      BY DEF IInv, TypeOK
    <3> QED
      BY <1>4, <3>1 DEF IInv, TypeOK
  <2>2. entry' \in [Key -> Call \cup {None}] /\ sem' \in [Call -> Call \cup {None}]
    BY <1>2 DEF IInv, TypeOK
  <2>3. refCount' \in [Key -> Nat]
    BY <1>2, <1>9 DEF IInv, TypeOK
  <2>4. pc' \in [Call -> PC]
    BY <1>4 DEF IInv, TypeOK, PC
  <2> QED
    BY <1>2, <2>1, <2>2, <2>3, <2>4 DEF TypeOK
<1>11. CountInv'
  <2>1. Cardinality(Users(k)') = Cardinality(Users(k)) + 1
    BY <1>7, Finite, FS_AddElement
  <2>2. refCount'[k] = Cardinality(Users(k)') /\ refCount'[k] # 0 /\ entry'[k] # None
    BY <1>2, <1>9, <2>1, CallsAssumption DEF IInv, CountInv
  <2> QED
    BY <1>7, <1>9, <2>2 DEF IInv, CountInv
<1>12. EntryInv'
  <2>1. ASSUME NEW d \in Call, Registered(d)'
        PROVE  sem'[d] = entry'[KeyOf[d]] /\ entry'[KeyOf[d]] # None
    <3>1. CASE d = c
      BY <1>2, <1>9, <3>1, CallsAssumption DEF IInv, TypeOK
    <3>2. CASE d # c
      <4>1. sem'[d] = sem[d] /\ KeyOf[d] \in Key
        BY <1>2, <3>2, KeysAssumption DEF IInv, TypeOK
      <4>2. sem[d] = entry[KeyOf[d]] /\ entry[KeyOf[d]] # None
        BY <1>5, <2>1, <3>2 DEF IInv, EntryInv
      <4> QED
        BY <1>3, <1>9, <4>1, <4>2
    <3> QED
      BY <3>1, <3>2
  <2>2. ASSUME NEW j \in Key, entry'[j] # None
        PROVE  KeyOf[entry'[j]] = j /\ pc'[entry'[j]] # "new"
    <3>1. \A d \in Call : pc[d] # "new" \/ d = c => pc'[d] # "new"
      BY <1>4 DEF IInv, TypeOK
    <3>2. CASE j = k
      BY <1>3, <1>9, <3>1, <3>2
    <3>3. CASE j # k
      <4>1. entry'[j] = entry[j] /\ entry[j] \in Call
        BY <1>9, <2>2, <3>3 DEF IInv, TypeOK
      <4> QED
        BY <2>2, <3>1, <4>1 DEF IInv, EntryInv
    <3> QED
      BY <3>2, <3>3
  <2> QED
    BY <2>1, <2>2 DEF EntryInv
<1>13. PermitInv'
  <2>1. ASSUME NEW d \in Call, pc'[d] = "new" PROVE value'[d] = Limit
    <3>1. pc[d] = "new" /\ d # c
      BY <1>4, <2>1 DEF IInv, TypeOK
    <3>2. d # s
      BY <1>3, <3>1
    <3>3. value'[d] = value[d]
      BY <1>4, <3>2 DEF IInv, TypeOK
    <3> QED
      BY <3>1, <3>3 DEF IInv, PermitInv
  <2>2. ASSUME NEW j \in Key, entry'[j] # None, j # k
        PROVE  value'[entry'[j]] + Cardinality(Holders(j)') = Limit
    <3>1. entry'[j] = entry[j] /\ entry[j] \in Call /\ entry[j] # s
      BY <1>3, <1>9, <2>2 DEF IInv, EntryInv, TypeOK
    <3>2. value'[entry[j]] = value[entry[j]]
      BY <1>4, <3>1 DEF IInv, TypeOK
    <3> QED
      BY <1>8, <2>2, <3>1, <3>2 DEF IInv, PermitInv
  <2>3. value[s] + Cardinality(Holders(k)) = Limit /\ value[s] \in Nat
    <3>1. CASE entry[k] # None
      BY <1>2, <1>3, <3>1 DEF IInv, PermitInv, TypeOK
    <3>2. CASE entry[k] = None
      <4>1. Users(k) = {}
        BY <1>2, <3>2, Finite, FS_EmptySet DEF IInv, CountInv
      <4>2. Holders(k) = {}
        BY <4>1 DEF Users, Holders, Registered, Holding
      <4>3. value[c] = Limit
        BY <1>2 DEF IInv, PermitInv
      <4> QED
        BY <1>3, <3>2, <4>2, <4>3, FS_EmptySet, LimitAssumption
    <3> QED
      BY <3>1, <3>2
  <2>4. value'[s] + Cardinality(Holders(k)') = Limit
    <3>1. CASE p = "waiting"
      BY <1>4, <1>8, <2>3, <3>1
    <3>2. CASE p = "inside"
      <4>1. Cardinality(Holders(k)') = Cardinality(Holders(k)) + 1
        BY <1>8, <3>2, Finite, FS_AddElement
      <4>2. value'[s] = value[s] - 1
        BY <1>4, <3>2 DEF IInv, TypeOK
      <4> QED
        BY <2>3, <4>1, <4>2, Finite, LimitAssumption
    <3> QED
      BY <3>1, <3>2
  <2> QED
    BY <1>9, <2>1, <2>2, <2>4 DEF PermitInv
<1> QED
  BY <1>10, <1>11, <1>12, <1>13 DEF IInv

\* A cancellation by itself moves no permit.
LEMMA CancelPreserves ==
  ASSUME IInv, NEW c \in Call, Cancel(c)
  PROVE  IInv'
<1>1. /\ \A d \in Call : /\ Registered(d)' <=> Registered(d)
                         /\ Holding(d)' <=> Holding(d)
                         /\ pc'[d] = "new" <=> pc[d] = "new"
      /\ UNCHANGED <<entry, refCount, value, arrivals, sem>> /\ pc' \in [Call -> PC]
  BY DEF Cancel, Registered, Holding, IInv, TypeOK, PC
<1>2. \A k \in Key : Users(k)' = Users(k) /\ Holders(k)' = Holders(k)
  BY <1>1 DEF Users, Holders
<1> QED
  BY <1>1, <1>2 DEF IInv, TypeOK, EntryInv, CountInv, PermitInv

-----------------------------------------------------------------------------
(* The invariant and what follows from it.                                 *)

\* Nobody uses a lock that is new.
LEMMA Initially == Init => IInv
<1> SUFFICES ASSUME Init PROVE IInv
  OBVIOUS
<1>1. TypeOK
  BY LimitAssumption DEF Init, TypeOK, PC
<1>2. \A k \in Key : Users(k) = {} /\ Holders(k) = {}
  BY DEF Init, Users, Holders, Registered, Holding
<1>3. EntryInv /\ PermitInv
  BY DEF Init, EntryInv, PermitInv, Registered
<1>4. CountInv
  BY <1>2, FS_EmptySet DEF Init, CountInv
<1> QED
  BY <1>1, <1>3, <1>4 DEF IInv

\* Every step keeps the invariant.
LEMMA StepPreserves == IInv /\ [Next]_vars => IInv'
<1> SUFFICES ASSUME IInv, [Next]_vars PROVE IInv'
  OBVIOUS
<1>1. CASE UNCHANGED vars
  <2>1. \A k \in Key : Users(k)' = Users(k) /\ Holders(k)' = Holders(k)
    BY <1>1 DEF vars, Users, Holders, Registered, Holding
  <2> QED
    BY <1>1, <2>1 DEF vars, IInv, TypeOK, EntryInv, CountInv, PermitInv, Registered
<1>2. ASSUME NEW c \in Call, Resume(c) PROVE IInv'
  <2>1. value[sem[c]] \in Nat
    BY <1>2, UserHasSemaphore DEF Resume, Registered
  <2> QED
    BY <1>2, <2>1, HandOutPreserves DEF Resume, Registered, Holding
<1>3. ASSUME NEW c \in Call, Leave(c) PROVE IInv'
  <2>1. value[sem[c]] \in Nat
    BY <1>3, UserHasSemaphore DEF Leave, Registered
  <2>2. value[sem[c]] + 1 \in Nat /\ 1 \in Nat /\ 1 <= value[sem[c]] + 1
    BY <2>1
  <2> QED
    BY <1>3, <2>2, HandOutPreserves DEF Leave, Registered, Holding
<1>4. ASSUME NEW c \in Call, Unwind(c) PROVE IInv'
  <2>1. value[sem[c]] \in Nat
    BY <1>4, UserHasSemaphore DEF Unwind, Registered
  <2>2. PICK v \in Nat : v = value[sem[c]] + (IF pc[c] = "wokenCancelled" THEN 1 ELSE 0)
    BY <2>1
  <2>3. /\ HandOut(sem[c], v, v, c, "over") /\ Unregister(c) /\ UNCHANGED arrivals
        /\ pc[c] \in {"cancelled", "wokenCancelled"}
    BY <1>4, <2>2 DEF Unwind
  <2>4. /\ Registered(c) /\ pc[c] # "waiting" /\ v <= v
        /\ Holding(c) => v = value[sem[c]] + 1
        /\ ~Holding(c) => v = value[sem[c]]
    BY <2>1, <2>2, <2>3 DEF Registered, Holding
  <2> QED
    BY <2>3, <2>4, HandOutPreserves
<1> QED
  BY <1>1, <1>2, <1>3, <1>4, EnterPreserves, CancelPreserves DEF Next

\* The entries, their counts and the permits agree in every reachable state.
THEOREM Invariant == Spec => []IInv
BY Initially, StepPreserves, PTL DEF Spec

\* The variables keep their types; no semaphore and no reference count goes below zero.
THEOREM TypeCorrect == Spec => []TypeOK
<1>1. IInv => TypeOK
  BY DEF IInv
<1> QED
  BY <1>1, Invariant, PTL

\* No more calls with one key are inside than the limit allows.
THEOREM LockExcludes == Spec => []MutualExclusion
<1>1. ASSUME IInv, NEW k \in Key PROVE Cardinality(Inside(k)) <= Limit
  <2>1. Inside(k) \subseteq Holders(k)
    BY DEF Inside, Holders, Holding
  <2>2. Cardinality(Inside(k)) <= Cardinality(Holders(k)) /\ Cardinality(Inside(k)) \in Nat
    <3>1. IsFiniteSet(Inside(k))
      BY <2>1, Finite, FS_Subset
    <3> QED
      BY <2>1, <3>1, Finite, FS_Subset, FS_CardinalityType
  <2>3. CASE entry[k] # None
    <3>1. value[entry[k]] \in Nat /\ value[entry[k]] + Cardinality(Holders(k)) = Limit
      BY <1>1, <2>3 DEF IInv, TypeOK, PermitInv
    <3> QED
      BY <2>2, <3>1, Finite, LimitAssumption
  <2>4. CASE entry[k] = None
    <3>1. Users(k) = {}
      BY <1>1, <2>4, Finite, FS_EmptySet DEF IInv, CountInv
    <3>2. Holders(k) = {}
      BY <3>1 DEF Users, Holders, Registered, Holding
    <3> QED
      BY <2>2, <3>2, FS_EmptySet, LimitAssumption
  <2> QED
    BY <2>3, <2>4
<1>2. IInv => MutualExclusion
  BY <1>1 DEF MutualExclusion
<1> QED
  BY <1>2, Invariant, PTL

\* An entry exists exactly while it is used, and its users share it.
THEOREM EntriesMatchUsers == Spec => []EntriesAreShared
<1>1. ASSUME IInv, NEW k \in Key, entry[k] # None
      PROVE  \E c \in Call : Registered(c) /\ KeyOf[c] = k
  <2>1. Cardinality(Users(k)) # 0
    BY <1>1 DEF IInv, CountInv
  <2>2. Users(k) # {}
    BY <2>1, FS_EmptySet
  <2> QED
    BY <2>2 DEF Users
<1>2. IInv => EntriesAreShared
  BY <1>1 DEF IInv, EntryInv, EntriesAreShared
<1> QED
  BY <1>2, Invariant, PTL

-----------------------------------------------------------------------------
(***************************************************************************)
(* The pipeline.                                                           *)
(***************************************************************************)
\* Is the task past the lock of its pipeline?
Past(t) == \E l \in DOMAIN layers : IsLock(l) /\ l < layer[t]

Places ==
    /\ layers \in Pipelines
    /\ doing \in [Task -> {"new", "waiting", "dropped", "running", "asleep", "handling", "over"}]
    /\ layer \in [Task -> 0 .. Handler] /\ passage \in [Task -> Nat]
    /\ \A t \in Task :
        /\ doing[t] = "running" => layer[t] = Handler
        /\ doing[t] \in {"waiting", "dropped", "asleep", "handling"} => layer[t] \in DOMAIN layers

\* A task past the lock is inside with its last passage; one that waits, waits at the
\* lock, and what sleeps is a Retry.
AtLock(t) ==
    /\ Past(t) => Passage(t) \in Call /\ pc[Passage(t)] = "inside"
    /\ doing[t] = "waiting" => IsLock(layer[t]) /\ Passage(t) \in Call
    /\ doing[t] = "asleep" => ~IsLock(layer[t])

PInv == IInv /\ Places /\ \A t \in Task : AtLock(t)

-----------------------------------------------------------------------------
(* Where a task stops.                                                     *)

\* Layers are numbered from 1, and one of them at most is the lock.
LEMMA Layers ==
  ASSUME layers \in Pipelines
  PROVE  /\ Len(layers) \in Nat /\ DOMAIN layers = 1 .. Len(layers) /\ Handler = Len(layers) + 1
         /\ \A l, m : IsLock(l) /\ IsLock(m) => l = m
         /\ \A l : IsLock(l) => l \in 1 .. Len(layers)
<1>1. layers \in Seq(Layer)
  BY PipelinesAssumption
<1>2. \A i, j \in DOMAIN layers : layers[i].is = "lock" /\ layers[j].is = "lock" => i = j
  BY PipelinesAssumption
<1> QED
  BY <1>1, <1>2 DEF Handler, IsLock

LEMMA HasLowest ==
  ASSUME NEW S \in SUBSET Nat, S # {}
  PROVE  Lowest(S) \in S /\ \A j \in S : Lowest(S) <= j
<1>1. PICK m \in S : \A k \in S : ~ (<<k, m>> \in OpToRel(<, Nat))
  BY NatLessThanWellFounded, WFMin
<1>2. \A k \in S : ~ (k < m)
  BY <1>1 DEF OpToRel
<1>3. \A k \in S : m <= k
  BY <1>2
<1> QED
  BY <1>3 DEF Lowest

LEMMA HasHighest ==
  ASSUME NEW n \in Nat, NEW S \in SUBSET (0 .. n), S # {}
  PROVE  Highest(S) \in S /\ \A j \in S : Highest(S) >= j
<1> DEFINE T == {n - j : j \in S}
<1>1. T \in SUBSET Nat /\ T # {}
  <2>1. \A j \in S : j \in 0 .. n /\ n - j \in Nat
    OBVIOUS
  <2> QED
    BY <2>1
<1>2. Lowest(T) \in T /\ \A k \in T : Lowest(T) <= k
  BY <1>1, HasLowest
<1>3. PICK m \in S : Lowest(T) = n - m
  BY <1>2
<1>4. \A j \in S : m >= j
  <2> TAKE j \in S
  <2>1. n - m <= n - j
    BY <1>2, <1>3
  <2> QED
    BY <2>1
<1> QED
  BY <1>4 DEF Highest

\* On the way in: the handler, the lock or a filter, and no lock before.
LEMMA StopsInwards ==
  ASSUME layers \in Pipelines, NEW t, NEW i \in 1 .. Handler
  PROVE  LET s == StopInwards(t, i) IN
         /\ s \in i .. Handler
         /\ s = Handler \/ s \in DOMAIN layers
         /\ \A l \in i .. s : IsLock(l) => l = s
<1> DEFINE S == {j \in i .. Handler : j = Handler \/ IsLock(j) \/ Drops(t, j)}
<1>1. Len(layers) \in Nat /\ DOMAIN layers = 1 .. Len(layers) /\ Handler = Len(layers) + 1
  BY Layers
<1>2. S \in SUBSET Nat /\ Handler \in S
  BY <1>1
<1>3. StopInwards(t, i) \in S /\ \A j \in S : StopInwards(t, i) <= j
  BY <1>2, HasLowest DEF StopInwards
<1>4. StopInwards(t, i) = Handler \/ StopInwards(t, i) \in DOMAIN layers
  BY <1>1, <1>3
<1>5. ASSUME NEW l \in i .. StopInwards(t, i), IsLock(l) PROVE l = StopInwards(t, i)
  <2>1. l \in S
    BY <1>1, <1>3, <1>5
  <2> QED
    BY <1>1, <1>3, <2>1
<1> QED
  BY <1>3, <1>4, <1>5

\* On the way out: the end, or a Retry or an interceptor.
LEMMA StopsOutwards ==
  ASSUME layers \in Pipelines, NEW t, NEW i \in 0 .. Len(layers), NEW r
  PROVE  LET s == StopOutwards(t, i, r) IN
         /\ s \in 0 .. i
         /\ s = 0 \/ s \in DOMAIN layers
         /\ ~IsLock(s)
<1> DEFINE S == {0} \cup {j \in 1 .. i : Catches(t, j, r)}
<1>1. Len(layers) \in Nat /\ DOMAIN layers = 1 .. Len(layers)
  BY Layers
<1>2. i \in Nat /\ S \in SUBSET (0 .. i) /\ S # {}
  BY <1>1
<1>3. StopOutwards(t, i, r) \in S
  BY <1>2, HasHighest DEF StopOutwards
<1>4. \A j \in S : ~IsLock(j)
  BY <1>1 DEF Catches, ShouldRetry, Intercepts, IsLock
<1> QED
  BY <1>1, <1>2, <1>3, <1>4

-----------------------------------------------------------------------------
(* The lock under a step of one task.                                      *)

LockStep(c) == Enter(c) \/ EnterAndWait(c) \/ Resume(c) \/ Leave(c) \/ Cancel(c) \/ Unwind(c)

\* Whoever is inside stays there while another call does something.
LEMMA InsideStays ==
  ASSUME TypeOK, NEW c \in Call, LockStep(c), NEW d \in Call, d # c, pc[d] = "inside"
  PROVE  pc'[d] = "inside"
<1>1. ASSUME NEW s, NEW v, NEW n, NEW p, HandOut(s, v, n, c, p) PROVE pc'[d] = "inside"
  BY <1>1 DEF HandOut, FirstWaiting, Waiting
<1>2. CASE Resume(c) \/ Leave(c) \/ Unwind(c)
  BY <1>1, <1>2 DEF Resume, Leave, Unwind
<1>3. CASE Enter(c) \/ EnterAndWait(c) \/ Cancel(c)
  BY <1>3 DEF Enter, EnterAndWait, Cancel, TypeOK
<1> QED
  BY <1>2, <1>3 DEF LockStep

\* A step of a task takes no other task from its place at the lock.
LEMMA OthersStay ==
  ASSUME PInv, NEW t \in Task, layers' = layers,
         \/ UNCHANGED vars
         \/ \E c \in Call : LockStep(c) /\ c[1] = t,
         NEW u \in Task, u # t,
         doing'[u] = doing[u], layer'[u] = layer[u], passage'[u] = passage[u]
  PROVE  AtLock(u)'
<1>1. Passage(u)' = Passage(u) /\ Passage(u)[1] = u
  BY DEF Passage
<1>2. Past(u)' <=> Past(u)
  BY DEF Past, IsLock
<1>3. AtLock(u)
  BY DEF PInv
<1>4. Passage(u) \in Call /\ pc[Passage(u)] = "inside" => pc'[Passage(u)] = "inside"
  BY <1>1, InsideStays DEF PInv, IInv, vars
<1>5. IsLock(layer[u])' <=> IsLock(layer[u])
  BY DEF IsLock
<1> QED
  BY <1>1, <1>2, <1>3, <1>4, <1>5 DEF AtLock

\* Inwards from layer i a task passes the lock, waits for it or does not meet it.
LEMMA GoInPreserves ==
  ASSUME PInv, NEW t \in Task, NEW i \in 1 .. Handler, GoIn(t, i),
         \A l \in DOMAIN layers : IsLock(l) /\ l < i =>
                Passage(t) \in Call /\ pc[Passage(t)] = "inside"
  PROVE  Places' /\ AtLock(t)' /\ layers' = layers
         /\ (\A u \in Task \ {t} : doing'[u] = doing[u] /\ layer'[u] = layer[u]
                                    /\ passage'[u] = passage[u])
         /\ (UNCHANGED vars \/ \E c \in Call : LockStep(c) /\ c[1] = t)
<1> DEFINE stop == StopInwards(t, i)
           c    == <<t, passage[t] + 1>>
<1>1. /\ Len(layers) \in Nat /\ DOMAIN layers = 1 .. Len(layers) /\ Handler = Len(layers) + 1
      /\ \A l, m : IsLock(l) /\ IsLock(m) => l = m
      /\ \A l : IsLock(l) => l \in 1 .. Len(layers)
  BY Layers DEF PInv, Places
<1>2. /\ stop \in i .. Handler
      /\ stop = Handler \/ stop \in DOMAIN layers
      /\ \A l \in i .. stop : IsLock(l) => l = stop
  BY StopsInwards DEF PInv, Places
<1>3. layers' = layers /\ Handler' = Handler /\ \A l : IsLock(l)' <=> IsLock(l)
  BY DEF GoIn, Handler, IsLock
<1>4. /\ doing \in [Task -> {"new", "waiting", "dropped", "running", "asleep", "handling", "over"}]
      /\ layer \in [Task -> 0 .. Handler] /\ passage \in [Task -> Nat]
  BY DEF PInv, Places
<1>5. ASSUME NEW s \in 1 .. Handler, s = Handler \/ s \in DOMAIN layers, Reaches(t, s),
             passage' \in [Task -> Nat],
             \A u \in Task \ {t} : passage'[u] = passage[u]
      PROVE  /\ Places' /\ layer'[t] = s /\ doing'[t] \in {"running", "dropped"}
             /\ \A u \in Task \ {t} : doing'[u] = doing[u] /\ layer'[u] = layer[u]
                                       /\ passage'[u] = passage[u]
  <2>1. /\ layer' = [layer EXCEPT ![t] = s]
        /\ doing' = [doing EXCEPT ![t] = IF s = Handler THEN "running" ELSE "dropped"]
    BY <1>5 DEF Reaches
  <2>2. /\ layer' \in [Task -> 0 .. Handler]
        /\ doing' \in [Task -> {"new", "waiting", "dropped", "running", "asleep", "handling", "over"}]
    BY <1>1, <1>4, <2>1
  <2>3. ASSUME NEW u \in Task
        PROVE  /\ doing'[u] = "running" => layer'[u] = Handler
               /\ doing'[u] \in {"waiting", "dropped", "asleep", "handling"} =>
                        layer'[u] \in DOMAIN layers
    <3>1. CASE u = t
      BY <1>4, <1>5, <2>1, <3>1
    <3>2. CASE u # t
      <4>1. doing'[u] = doing[u] /\ layer'[u] = layer[u]
        BY <1>4, <2>1, <3>2
      <4> QED
        BY <4>1 DEF PInv, Places
    <3> QED
      BY <3>1, <3>2
  <2>4. layers' \in Pipelines
    BY <1>3 DEF PInv, Places
  <2> QED
    BY <1>3, <1>4, <1>5, <2>1, <2>2, <2>3, <2>4 DEF Places
<1>6. CASE ~IsLock(stop)
  <2>1. Reaches(t, stop) /\ UNCHANGED vars /\ passage' = passage
    BY <1>6 DEF GoIn
  <2>2. stop \in 1 .. Handler
    BY <1>1, <1>2
  <2>3. /\ Places' /\ layer'[t] = stop /\ doing'[t] \in {"running", "dropped"}
        /\ \A u \in Task \ {t} : doing'[u] = doing[u] /\ layer'[u] = layer[u]
                                  /\ passage'[u] = passage[u]
    BY <1>2, <1>4, <1>5, <2>1, <2>2
  <2>4. \A l \in DOMAIN layers : IsLock(l) /\ l < stop => l < i
    BY <1>1, <1>2
  <2>5. Passage(t)' = Passage(t) /\ pc' = pc
    BY <2>1 DEF Passage, vars
  <2>6. AtLock(t)'
    BY <1>3, <2>3, <2>4, <2>5 DEF AtLock, Past
  <2> QED
    BY <1>3, <2>1, <2>3, <2>6
<1>7. CASE IsLock(stop)
  <2>1. /\ c \in Call /\ passage' = [passage EXCEPT ![t] = passage[t] + 1]
        /\ \/ Enter(c) /\ Reaches(t, StopInwards(t, stop + 1))
           \/ /\ EnterAndWait(c) /\ layer' = [layer EXCEPT ![t] = stop]
              /\ doing' = [doing EXCEPT ![t] = "waiting"]
    BY <1>7 DEF GoIn
  <2>2. Passage(t)' = c
    BY <1>4, <2>1 DEF Passage
  <2>3. /\ passage' \in [Task -> Nat]
        /\ \A u \in Task \ {t} : passage'[u] = passage[u]
    BY <1>4, <2>1
  <2>4. CASE Enter(c) /\ Reaches(t, StopInwards(t, stop + 1))
    <3> DEFINE next == StopInwards(t, stop + 1)
    <3>1. stop + 1 \in 1 .. Handler
      BY <1>1, <1>7
    <3>2. next \in stop + 1 .. Handler /\ (next = Handler \/ next \in DOMAIN layers)
      BY <3>1, StopsInwards DEF PInv, Places
    <3>3. next \in 1 .. Handler
      BY <1>1, <3>1, <3>2
    <3>4. /\ Places' /\ layer'[t] = next /\ doing'[t] \in {"running", "dropped"}
          /\ \A u \in Task \ {t} : doing'[u] = doing[u] /\ layer'[u] = layer[u]
                                    /\ passage'[u] = passage[u]
      BY <1>5, <2>3, <2>4, <3>2, <3>3
    <3>5. pc'[c] = "inside"
      BY <2>1, <2>4 DEF Enter, PInv, IInv, TypeOK
    <3>6. AtLock(t)'
      BY <2>1, <2>2, <3>4, <3>5 DEF AtLock
    <3>7. LockStep(c) /\ c[1] = t
      BY <2>4 DEF LockStep
    <3> QED
      BY <1>3, <2>1, <3>4, <3>6, <3>7
  <2>5. CASE EnterAndWait(c) /\ layer' = [layer EXCEPT ![t] = stop]
                             /\ doing' = [doing EXCEPT ![t] = "waiting"]
    <3>1. \A u \in Task \ {t} : doing'[u] = doing[u] /\ layer'[u] = layer[u]
                                 /\ passage'[u] = passage[u]
      BY <1>4, <2>3, <2>5
    <3>2. doing'[t] = "waiting" /\ layer'[t] = stop /\ stop \in DOMAIN layers
      BY <1>1, <1>4, <1>7, <2>5
    <3>3. Places'
      <4>1. /\ layer' \in [Task -> 0 .. Handler]
            /\ doing' \in [Task -> {"new", "waiting", "dropped", "running", "asleep", "handling", "over"}]
        BY <1>1, <1>4, <1>7, <2>5
      <4>2. ASSUME NEW u \in Task
            PROVE  /\ doing'[u] = "running" => layer'[u] = Handler
                   /\ doing'[u] \in {"waiting", "dropped", "asleep", "handling"} =>
                            layer'[u] \in DOMAIN layers
        BY <3>1, <3>2 DEF PInv, Places
      <4>3. layers' \in Pipelines
        BY <1>3 DEF PInv, Places
      <4> QED
        BY <1>3, <2>3, <4>1, <4>2, <4>3 DEF Places
    <3>4. ~Past(t)'
      BY <1>1, <1>3, <1>7, <3>2 DEF Past
    <3>5. AtLock(t)'
      BY <1>3, <1>7, <2>1, <2>2, <3>2, <3>4 DEF AtLock, IsLock
    <3>6. LockStep(c) /\ c[1] = t
      BY <2>5 DEF LockStep
    <3> QED
      BY <1>3, <2>1, <3>1, <3>3, <3>5, <3>6
  <2> QED
    BY <2>1, <2>4, <2>5
<1> QED
  BY <1>6, <1>7

\* A task that stops on its way out leaves the others where they are.
LEMMA StopsAtPreserves ==
  ASSUME PInv, NEW t \in Task, NEW stop, stop = 0 \/ stop \in DOMAIN layers, NEW r,
         StopsAt(t, stop, r)
  PROVE  /\ Places' /\ layers' = layers /\ layer'[t] = stop /\ doing'[t] # "waiting"
         /\ passage' = passage
         /\ \A u \in Task \ {t} : doing'[u] = doing[u] /\ layer'[u] = layer[u]
<1>1. Len(layers) \in Nat /\ DOMAIN layers = 1 .. Len(layers) /\ Handler = Len(layers) + 1
  BY Layers DEF PInv, Places
<1>2. layers' = layers /\ passage' = passage /\ Handler' = Handler
  BY DEF StopsAt, Handler
<1>3. /\ doing \in [Task -> {"new", "waiting", "dropped", "running", "asleep", "handling", "over"}]
      /\ layer \in [Task -> 0 .. Handler] /\ passage \in [Task -> Nat]
  BY DEF PInv, Places
<1>4. PICK d \in {"over", "asleep", "handling"} :
        /\ doing' = [doing EXCEPT ![t] = d]
        /\ d # "over" => stop \in DOMAIN layers
  BY DEF StopsAt
<1>5. layer' = [layer EXCEPT ![t] = stop] /\ stop \in 0 .. Handler
  BY <1>1 DEF StopsAt
<1>6. \A u \in Task \ {t} : doing'[u] = doing[u] /\ layer'[u] = layer[u]
  BY <1>3, <1>4, <1>5
<1>7. layer'[t] = stop /\ doing'[t] = d
  BY <1>3, <1>4, <1>5
<1>8. Places'
  <2>1. /\ layer' \in [Task -> 0 .. Handler]
        /\ doing' \in [Task -> {"new", "waiting", "dropped", "running", "asleep", "handling", "over"}]
    BY <1>3, <1>4, <1>5
  <2>2. ASSUME NEW u \in Task
        PROVE  /\ doing'[u] = "running" => layer'[u] = Handler
               /\ doing'[u] \in {"waiting", "dropped", "asleep", "handling"} =>
                        layer'[u] \in DOMAIN layers
    BY <1>4, <1>6, <1>7 DEF PInv, Places
  <2>3. layers' \in Pipelines
    BY <1>2 DEF PInv, Places
  <2> QED
    BY <1>2, <1>3, <2>1, <2>2, <2>3 DEF Places
<1> QED
  BY <1>2, <1>4, <1>6, <1>7, <1>8

\* Outwards from layer i a task leaves the lock when, and only when, it goes by it.
LEMMA GoOutPreserves ==
  ASSUME PInv, NEW t \in Task, NEW i \in 0 .. Len(layers), NEW r, GoOut(t, i, r),
         \A l \in DOMAIN layers : IsLock(l) /\ l <= i =>
                Passage(t) \in Call /\ pc[Passage(t)] = "inside"
  PROVE  Places' /\ AtLock(t)' /\ layers' = layers
         /\ (\A u \in Task \ {t} : doing'[u] = doing[u] /\ layer'[u] = layer[u]
                                    /\ passage'[u] = passage[u])
         /\ (UNCHANGED vars \/ \E c \in Call : LockStep(c) /\ c[1] = t)
<1> DEFINE stop == StopOutwards(t, i, r)
<1>1. /\ Len(layers) \in Nat /\ DOMAIN layers = 1 .. Len(layers)
      /\ \A l, m : IsLock(l) /\ IsLock(m) => l = m
      /\ \A l : IsLock(l) => l \in 1 .. Len(layers)
  BY Layers DEF PInv, Places
<1>2. stop \in 0 .. i /\ (stop = 0 \/ stop \in DOMAIN layers) /\ ~IsLock(stop)
  BY StopsOutwards DEF PInv, Places
<1>3. /\ Places' /\ layers' = layers /\ layer'[t] = stop /\ doing'[t] # "waiting"
      /\ passage' = passage
      /\ \A u \in Task \ {t} : doing'[u] = doing[u] /\ layer'[u] = layer[u]
  BY <1>2, StopsAtPreserves DEF GoOut
<1>4. Passage(t)' = Passage(t) /\ Passage(t)[1] = t /\ \A l : IsLock(l)' <=> IsLock(l)
  BY <1>3 DEF Passage, IsLock
<1>5. CASE LeavesLock(i, stop)
  <2>1. Leave(Passage(t))
    BY <1>5 DEF GoOut
  <2>2. PICK l \in stop + 1 .. i : IsLock(l)
    BY <1>5 DEF LeavesLock
  <2>3. Passage(t) \in Call
    BY <1>1, <2>2
  <2>4. ~Past(t)'
    BY <1>1, <1>2, <1>3, <1>4, <2>2 DEF Past
  <2> QED
    BY <1>2, <1>3, <1>4, <2>1, <2>3, <2>4 DEF AtLock, LockStep
<1>6. CASE ~LeavesLock(i, stop)
  <2>1. UNCHANGED vars
    BY <1>6 DEF GoOut
  <2>2. \A l \in DOMAIN layers : IsLock(l) /\ l < stop => l <= i
    BY <1>1, <1>2
  <2>3. AtLock(t)'
    BY <1>2, <1>3, <1>4, <2>1, <2>2 DEF AtLock, Past, vars
  <2> QED
    BY <1>3, <2>1, <2>3
<1> QED
  BY <1>5, <1>6

-----------------------------------------------------------------------------
(* Steps.                                                                  *)

\* What a step of one task has to show for the invariant and for AsyncLock.
LEMMA TaskStep ==
  ASSUME PInv, NEW t \in Task, Places', AtLock(t)', layers' = layers,
         \A u \in Task \ {t} : doing'[u] = doing[u] /\ layer'[u] = layer[u]
                                /\ passage'[u] = passage[u],
         UNCHANGED vars \/ \E c \in Call : LockStep(c) /\ c[1] = t
  PROVE  PInv' /\ [Next]_vars
<1>1. [Next]_vars
  BY DEF Next, LockStep
<1>2. IInv'
  BY <1>1, StepPreserves DEF PInv
<1>3. \A u \in Task \ {t} : AtLock(u)'
  BY OthersStay
<1> QED
  BY <1>1, <1>2, <1>3 DEF PInv

\* A task is cancelled at the lock, or comes out of its acquire().
LEMMA WaitingPreserves ==
  ASSUME PInv, NEW t \in Task, doing[t] = "waiting",
         \/ Acquired(t) \/ NotAcquired(t)
         \/ Cancel(Passage(t)) /\ UNCHANGED taskVars
  PROVE  PInv' /\ [Next]_vars
<1> DEFINE c == Passage(t)
           l == layer[t]
<1>1. /\ Len(layers) \in Nat /\ DOMAIN layers = 1 .. Len(layers) /\ Handler = Len(layers) + 1
      /\ \A k, m : IsLock(k) /\ IsLock(m) => k = m
  BY Layers DEF PInv, Places
<1>2. c \in Call /\ c[1] = t /\ IsLock(l) /\ l \in 1 .. Len(layers)
  BY <1>1 DEF PInv, AtLock, Places, Passage
<1>3. CASE Acquired(t)
  <2> DEFINE s == StopInwards(t, l + 1)
  <2>1. Resume(c) /\ Reaches(t, s) /\ layers' = layers /\ passage' = passage
    BY <1>3 DEF Acquired
  <2>2. l + 1 \in 1 .. Handler
    BY <1>1, <1>2
  <2>3. s \in l + 1 .. Handler /\ (s = Handler \/ s \in DOMAIN layers)
    BY <2>2, StopsInwards DEF PInv, Places
  <2>4. /\ doing \in [Task -> {"new", "waiting", "dropped", "running", "asleep", "handling", "over"}]
        /\ layer \in [Task -> 0 .. Handler] /\ passage \in [Task -> Nat]
    BY DEF PInv, Places
  <2>5. /\ layer' = [layer EXCEPT ![t] = s]
        /\ doing' = [doing EXCEPT ![t] = IF s = Handler THEN "running" ELSE "dropped"]
    BY <2>1 DEF Reaches
  <2>6. s \in 0 .. Handler
    BY <1>1, <2>2, <2>3
  <2>7. \A u \in Task \ {t} : doing'[u] = doing[u] /\ layer'[u] = layer[u]
                               /\ passage'[u] = passage[u]
    BY <2>1, <2>4, <2>5
  <2>8. /\ layer'[t] = s /\ doing'[t] \in {"running", "dropped"}
        /\ doing'[t] = "running" <=> s = Handler
    BY <2>4, <2>5
  <2>9. Places'
    <3>1. /\ layer' \in [Task -> 0 .. Handler]
          /\ doing' \in [Task -> {"new", "waiting", "dropped", "running", "asleep", "handling", "over"}]
      BY <2>4, <2>5, <2>6
    <3>2. ASSUME NEW u \in Task
          PROVE  /\ doing'[u] = "running" => layer'[u] = Handler
                 /\ doing'[u] \in {"waiting", "dropped", "asleep", "handling"} =>
                          layer'[u] \in DOMAIN layers
      BY <2>3, <2>7, <2>8 DEF PInv, Places
    <3>3. layers' \in Pipelines /\ Handler' = Handler
      BY <2>1 DEF PInv, Places, Handler
    <3> QED
      BY <2>1, <2>4, <3>1, <3>2, <3>3 DEF Places
  <2>10. Passage(t)' = c /\ pc'[c] = "inside"
    BY <1>2, <2>1 DEF Passage, Resume, HandOut
  <2>11. AtLock(t)'
    BY <1>2, <2>8, <2>10 DEF AtLock
  <2> QED
    BY <1>2, <2>1, <2>7, <2>9, <2>11, TaskStep DEF LockStep
<1>4. CASE NotAcquired(t)
  <2> DEFINE s == StopOutwards(t, l - 1, "cancelled")
  <2>1. Unwind(c) /\ StopsAt(t, s, "cancelled")
    BY <1>4 DEF NotAcquired
  <2>2. l - 1 \in 0 .. Len(layers)
    BY <1>1, <1>2
  <2>3. s \in 0 .. l - 1 /\ (s = 0 \/ s \in DOMAIN layers) /\ ~IsLock(s)
    BY <2>2, StopsOutwards DEF PInv, Places
  <2>4. /\ Places' /\ layers' = layers /\ layer'[t] = s /\ doing'[t] # "waiting"
        /\ passage' = passage
        /\ \A u \in Task \ {t} : doing'[u] = doing[u] /\ layer'[u] = layer[u]
    BY <2>1, <2>3, StopsAtPreserves
  <2>5. ~(l < s)
    BY <1>1, <1>2, <2>3
  <2>6. ~Past(t)'
    BY <1>1, <1>2, <2>4, <2>5 DEF Past, IsLock
  <2>7. AtLock(t)'
    BY <2>3, <2>4, <2>6 DEF AtLock, IsLock
  <2> QED
    BY <1>2, <2>1, <2>4, <2>7, TaskStep DEF LockStep
<1>5. CASE Cancel(c) /\ UNCHANGED taskVars
  <2>1. /\ Places' /\ layers' = layers
        /\ \A u \in Task : doing'[u] = doing[u] /\ layer'[u] = layer[u]
                            /\ passage'[u] = passage[u]
    BY <1>5 DEF taskVars, PInv, Places, Handler
  <2>2. ~Past(t)'
    BY <1>1, <1>2, <1>5 DEF Past, IsLock, taskVars
  <2>3. AtLock(t)'
    BY <1>2, <1>5, <2>2 DEF AtLock, Passage, IsLock, taskVars
  <2> QED
    BY <1>2, <1>5, <2>1, <2>3, TaskStep DEF LockStep
<1> QED
  BY <1>3, <1>4, <1>5

\* A task that is somewhere behind the lock, or before it, moves on.
LEMMA MovingPreserves ==
  ASSUME PInv, NEW t \in Task,
         \/ Execute(t) \/ FilterReturns(t) \/ HandlerEnds(t) \/ InterceptorEnds(t) \/ RetryWakes(t)
         \/ doing[t] \in {"running", "handling", "asleep"} /\ GoOut(t, layer[t] - 1, "cancelled")
  PROVE  PInv' /\ [Next]_vars
<1>1. /\ Len(layers) \in Nat /\ DOMAIN layers = 1 .. Len(layers) /\ Handler = Len(layers) + 1
      /\ \A l : IsLock(l) => l \in 1 .. Len(layers)
  BY Layers DEF PInv, Places
<1>2. /\ doing[t] = "running" => layer[t] = Handler
      /\ doing[t] \in {"dropped", "asleep", "handling"} => layer[t] \in 1 .. Len(layers)
      /\ layer[t] \in 0 .. Handler
  BY <1>1 DEF PInv, Places
<1>3. \A l \in DOMAIN layers : IsLock(l) /\ l < layer[t] =>
            Passage(t) \in Call /\ pc[Passage(t)] = "inside"
  BY DEF PInv, AtLock, Past
<1>4. CASE Execute(t)
  <2>1. GoIn(t, 1) /\ 1 \in 1 .. Handler /\ \A l \in DOMAIN layers : ~(l < 1)
    BY <1>1, <1>4 DEF Execute
  <2> QED
    BY <2>1, GoInPreserves, TaskStep
<1>5. CASE RetryWakes(t)
  <2> DEFINE i == layer[t] + 1
  <2>1. GoIn(t, i) /\ layer[t] \in 1 .. Len(layers) /\ doing[t] = "asleep"
    BY <1>2, <1>5 DEF RetryWakes
  <2>2. i \in 1 .. Handler
    BY <1>1, <2>1
  <2>3. \A l \in DOMAIN layers : IsLock(l) /\ l < i => l < layer[t]
    BY <1>1, <2>1 DEF PInv, AtLock
  <2> QED
    BY <1>3, <2>1, <2>2, <2>3, GoInPreserves, TaskStep
<1>6. CASE HandlerEnds(t)
  <2>1. PICK r \in Outcome : GoOut(t, Len(layers), r)
    BY <1>6 DEF HandlerEnds
  <2>2. layer[t] = Handler
    BY <1>2, <1>6 DEF HandlerEnds
  <2> QED
    BY <1>1, <1>3, <2>1, <2>2, GoOutPreserves, TaskStep
<1>7. ASSUME NEW r, GoOut(t, layer[t] - 1, r), layer[t] \in 1 .. Handler
      PROVE  PInv' /\ [Next]_vars
  <2>1. layer[t] - 1 \in 0 .. Len(layers)
    BY <1>1, <1>7
  <2>2. \A l \in DOMAIN layers : IsLock(l) /\ l <= layer[t] - 1 => l < layer[t]
    BY <1>1, <1>7
  <2> QED
    BY <1>3, <1>7, <2>1, <2>2, GoOutPreserves, TaskStep
<1>8. CASE FilterReturns(t)
  BY <1>1, <1>2, <1>7, <1>8 DEF FilterReturns
<1>9. CASE InterceptorEnds(t)
  BY <1>1, <1>2, <1>7, <1>9 DEF InterceptorEnds
<1>10. CASE doing[t] \in {"running", "handling", "asleep"} /\ GoOut(t, layer[t] - 1, "cancelled")
  BY <1>1, <1>2, <1>7, <1>10
<1> QED
  BY <1>4, <1>5, <1>6, <1>8, <1>9, <1>10

-----------------------------------------------------------------------------
(* The invariant and what follows from it.                                 *)

LEMMA PipelineInitially == PipelineInit => PInv
<1> SUFFICES ASSUME PipelineInit PROVE PInv
  OBVIOUS
<1>1. layers \in Pipelines /\ IInv
  BY Initially DEF PipelineInit
<1>2. Len(layers) \in Nat /\ DOMAIN layers = 1 .. Len(layers) /\ Handler = Len(layers) + 1
  BY <1>1, Layers
<1>3. \A t \in Task : doing[t] = "new" /\ layer[t] = 0 /\ passage[t] = 0
  BY DEF PipelineInit
<1>4. Places
  BY <1>1, <1>2 DEF PipelineInit, Places
<1>5. \A t \in Task : AtLock(t)
  BY <1>2, <1>3 DEF AtLock, Past
<1> QED
  BY <1>1, <1>4, <1>5 DEF PInv

LEMMA PipelineStep ==
  PInv /\ [PipelineNext]_<<vars, taskVars>> => PInv' /\ [Next]_vars
<1> SUFFICES ASSUME PInv, [PipelineNext]_<<vars, taskVars>> PROVE PInv' /\ [Next]_vars
  OBVIOUS
<1>1. CASE UNCHANGED <<vars, taskVars>>
  <2>1. IInv'
    BY <1>1, StepPreserves DEF PInv
  <2>2. Places'
    BY <1>1 DEF PInv, Places, taskVars, Handler
  <2>3. ASSUME NEW t \in Task PROVE AtLock(t)'
    <3>1. AtLock(t)
      BY DEF PInv
    <3> QED
      BY <1>1, <3>1 DEF AtLock, Past, Passage, IsLock, vars, taskVars
  <2> QED
    BY <1>1, <2>1, <2>2, <2>3 DEF PInv
<1>2. ASSUME NEW t \in Task, Execute(t) \/ Runs(t) \/ CancelTask(t)
      PROVE  PInv' /\ [Next]_vars
  <2>1. CASE \/ Execute(t) \/ FilterReturns(t) \/ HandlerEnds(t) \/ InterceptorEnds(t)
             \/ RetryWakes(t)
             \/ doing[t] \in {"running", "handling", "asleep"} /\ GoOut(t, layer[t] - 1, "cancelled")
    BY <2>1, MovingPreserves
  <2>2. CASE \/ Acquired(t) \/ NotAcquired(t)
             \/ doing[t] = "waiting" /\ Cancel(Passage(t)) /\ UNCHANGED taskVars
    <3>1. doing[t] = "waiting"
      BY <2>2 DEF Acquired, NotAcquired
    <3> QED
      BY <2>2, <3>1, WaitingPreserves
  <2> QED
    BY <1>2, <2>1, <2>2 DEF Runs, CancelTask
<1> QED
  BY <1>1, <1>2 DEF PipelineNext

\* A pipeline uses its lock as AsyncLock lets it be used: every step, through however many
\* layers, with retries and cancellations, is one step of one call of the lock or none
\* (async_lock.py:27-40 under the other middlewares), so that all that is proved of
\* AsyncLock holds in a pipeline.
THEOREM PipelineUsesLock == PipelineSpec => Spec
<1>1. PipelineInit => Init
  BY DEF PipelineInit
<1> QED
  BY <1>1, PipelineInitially, PipelineStep, PTL DEF PipelineSpec, Spec

\* Behind a lock no more handlers with one key run at a time than it allows, whatever
\* stands before and behind the lock and however often the handler is retried
\* (async_lock.py:33-35).
THEOREM HandlersAreExclusive == PipelineSpec => []HandlersExclude
<1>1. ASSUME PInv, MutualExclusion, HasLock, NEW k \in Key
      PROVE  Cardinality(RunningWith(k)) <= Limit
  <2> DEFINE f == [t \in RunningWith(k) |-> Passage(t)]
  <2>1. PICK l \in 1 .. Len(layers) : IsLock(l)
    BY <1>1, Layers DEF HasLock, PInv, Places
  <2>2. l \in DOMAIN layers /\ l < Handler
    BY <1>1, <2>1, Layers DEF PInv, Places
  <2>3. ASSUME NEW t \in RunningWith(k) PROVE Passage(t) \in Inside(k) /\ Passage(t)[1] = t
    <3>1. t \in Task /\ doing[t] = "running" /\ KeyOf[Passage(t)] = k
      BY DEF RunningWith
    <3>2. layer[t] = Handler
      BY <1>1, <3>1 DEF PInv, Places
    <3>3. Past(t)
      BY <2>1, <2>2, <3>2 DEF Past
    <3> QED
      BY <1>1, <3>1, <3>3 DEF PInv, AtLock, Inside, Passage
  <2>4. f \in Injection(RunningWith(k), Inside(k))
    <3>1. \A t \in RunningWith(k) : f[t] = Passage(t)
      OBVIOUS
    <3>2. f \in [RunningWith(k) -> Inside(k)]
      BY <2>3
    <3>3. \A t, u \in RunningWith(k) : f[t] = f[u] => t = u
      BY <2>3, <3>1
    <3> HIDE DEF f
    <3> QED
      BY <3>2, <3>3 DEF Injection, IsInjective
  <2>5. IsFiniteSet(Inside(k))
    BY CallsAssumption, FS_Subset DEF Inside
  <2>6. IsFiniteSet(RunningWith(k)) /\ Cardinality(RunningWith(k)) <= Cardinality(Inside(k))
    <3> HIDE DEF f
    <3> QED
      BY <2>4, <2>5, FS_Injection
  <2>7. Cardinality(Inside(k)) <= Limit
    BY <1>1 DEF MutualExclusion
  <2> QED
    BY <2>5, <2>6, <2>7, FS_CardinalityType, LimitAssumption
<1>2. PInv /\ MutualExclusion => HandlersExclude
  BY <1>1 DEF HandlersExclude
<1> QED
  BY <1>2, PipelineInitially, PipelineStep, PipelineUsesLock, LockExcludes, PTL DEF PipelineSpec

-----------------------------------------------------------------------------
(***************************************************************************)
(* Counting the runs.  The attempts of the retries around a handler, from  *)
(* the outermost on, are the digits of a number, each layer with the tries *)
(* it has as its base: a run that fails is followed by that of the next    *)
(* number.                                                                 *)
(***************************************************************************)

\* The values of the leading digits of a, after b.
Solves(h, w, a, b, n) ==
    /\ h \in [0 .. n -> Nat] /\ h[0] = b
    /\ \A i \in 1 .. n : h[i] = h[i - 1] * w[i] + a[i]

Number(w, a, n) == (CHOOSE h : Solves(h, w, a, 0, n))[n]

\* The digits up to l, and behind them the greatest ones, or zeros.
Full(w, a, l)  == [i \in DOMAIN a |-> IF i > l THEN w[i] - 1 ELSE a[i]]
Cleared(a, l)  == [i \in DOMAIN a |-> IF i > l THEN 0 ELSE a[i]]

LEMMA Times ==
    ASSUME NEW x \in Nat, NEW y \in Nat
    PROVE  x * y \in Nat /\ x * y \in Int /\ (x + 1) * y = x * y + y
OBVIOUS

LEMMA NextValue ==
    ASSUME NEW x \in Nat, NEW y \in Nat, NEW z \in Nat
    PROVE  x * y + z \in Nat
OBVIOUS

LEMMA SolutionExists ==
    ASSUME NEW n \in Nat, NEW w \in [1 .. n -> Nat], NEW a \in [1 .. n -> Nat], NEW b \in Nat
    PROVE  \E h : Solves(h, w, a, b, n)
<1>. DEFINE Bad == {m \in 0 .. n : ~ \E h : Solves(h, w, a, b, m)}
<1>0. n \in 0 .. n
  OBVIOUS
<1>1. SUFFICES ASSUME n \in Bad PROVE FALSE
  BY <1>0
<1>2. PICK m \in Bad : \A k \in Bad : m <= k
  <2>1. Bad \in SUBSET Nat
    OBVIOUS
  <2>. QED
    BY <1>1, <2>1, HasLowest
<1>3. m \in Nat /\ m <= n
  OBVIOUS
<1>4. CASE m = 0
  <2>. DEFINE h == [i \in 0 .. 0 |-> b]
  <2>1. h \in [0 .. 0 -> Nat] /\ h[0] = b /\ \A i \in 1 .. 0 : FALSE
    OBVIOUS
  <2>2. Solves(h, w, a, b, 0)
    <3>. HIDE DEF h
    <3>. QED
      BY <2>1 DEF Solves
  <2>. QED
    BY <1>4, <2>2
<1>5. CASE m # 0
  <2>1. m - 1 \in 0 .. n /\ m - 1 \notin Bad
    BY <1>2, <1>3, <1>5
  <2>2. PICK g : Solves(g, w, a, b, m - 1)
    BY <2>1
  <2>. DEFINE h == [i \in 0 .. m |-> IF i = m THEN g[m - 1] * w[m] + a[m] ELSE g[i]]
  <2>3. /\ g \in [0 .. m - 1 -> Nat] /\ g[0] = b
        /\ \A i \in 1 .. m - 1 : g[i] = g[i - 1] * w[i] + a[i]
    BY <2>2 DEF Solves
  <2>4. g[m - 1] \in Nat /\ w[m] \in Nat /\ a[m] \in Nat
    BY <1>3, <1>5, <2>3
  <2>5. g[m - 1] * w[m] + a[m] \in Nat
    BY <2>4, NextValue
  <2>6. h \in [0 .. m -> Nat] /\ h[0] = b
    BY <1>3, <1>5, <2>3, <2>5
  <2>7. ASSUME NEW i \in 1 .. m PROVE h[i] = h[i - 1] * w[i] + a[i]
    <3>1. CASE i = m
      <4>1. h[m] = g[m - 1] * w[m] + a[m] /\ h[m - 1] = g[m - 1]
        BY <1>3, <1>5
      <4>. QED
        BY <3>1, <4>1
    <3>2. CASE i # m
      <4>1. i \in 1 .. m - 1 /\ i \in 0 .. m /\ i - 1 \in 0 .. m /\ i - 1 # m
        BY <1>3, <3>2
      <4>2. h[i] = g[i] /\ h[i - 1] = g[i - 1]
        BY <3>2, <4>1
      <4>. QED
        BY <2>3, <4>1, <4>2
    <3>. QED
      BY <3>1, <3>2
  <2>8. Solves(h, w, a, b, m)
    <3>. HIDE DEF h
    <3>. QED
      BY <2>6, <2>7 DEF Solves
  <2>. QED
    BY <2>8
<1>. QED
  BY <1>4, <1>5

LEMMA NumberSolves ==
    ASSUME NEW n \in Nat, NEW w \in [1 .. n -> Nat], NEW a \in [1 .. n -> Nat]
    PROVE  \E h : Solves(h, w, a, 0, n) /\ Number(w, a, n) = h[n]
BY SolutionExists DEF Number

LEMMA ProductSolves ==
    ASSUME NEW w, NEW n \in Nat, Len(w) = n, w \in [1 .. n -> Nat]
    PROVE  \E h : Solves(h, w, [i \in 1 .. n |-> 0], 1, n) /\ Product(w) = h[n]
<1>. DEFINE zeros == [i \in 1 .. n |-> 0]
            upTo == CHOOSE f : f = [i \in 0 .. n |-> IF i = 0 THEN 1 ELSE f[i - 1] * w[i]]
<1>1. PICK h : Solves(h, w, zeros, 1, n)
  BY SolutionExists
<1>2. h = [i \in 0 .. n |-> IF i = 0 THEN 1 ELSE h[i - 1] * w[i]]
  <2>1. /\ h \in [0 .. n -> Nat] /\ h[0] = 1
        /\ \A i \in 1 .. n : h[i] = h[i - 1] * w[i] + 0
    BY <1>1 DEF Solves
  <2>2. \A i \in 1 .. n : h[i] = h[i - 1] * w[i]
    BY <2>1
  <2>. QED
    BY <2>1, <2>2
<1>3. upTo = [i \in 0 .. n |-> IF i = 0 THEN 1 ELSE upTo[i - 1] * w[i]]
  BY <1>2
<1>4. \A i \in 0 .. n : upTo[i] = IF i = 0 THEN 1 ELSE upTo[i - 1] * w[i]
  BY <1>3
<1>. HIDE DEF upTo
<1>5. \A i \in 0 .. n : upTo[i] = h[i]
  <2>. DEFINE Bad == {i \in 0 .. n : upTo[i] # h[i]}
  <2>1. SUFFICES ASSUME Bad # {} PROVE FALSE
    OBVIOUS
  <2>2. PICK m \in Bad : \A k \in Bad : m <= k
    <3>1. Bad \in SUBSET Nat
      OBVIOUS
    <3>. QED
      BY <2>1, <3>1, HasLowest
  <2>3. \A i \in 0 .. n : h[i] = IF i = 0 THEN 1 ELSE h[i - 1] * w[i]
    BY <1>2
  <2>4. m \in Nat /\ m <= n
    OBVIOUS
  <2>5. CASE m = 0
    BY <1>4, <2>3, <2>5
  <2>6. CASE m # 0
    <3>1. m - 1 \in 0 .. n /\ m - 1 \notin Bad
      BY <2>2, <2>4, <2>6
    <3>2. upTo[m - 1] = h[m - 1]
      BY <3>1
    <3>3. upTo[m] = h[m - 1] * w[m] /\ h[m] = h[m - 1] * w[m]
      BY <1>4, <2>3, <2>6, <3>2
    <3>. QED
      BY <3>3
  <2>. QED
    BY <2>5, <2>6
<1>6. Product(w) = upTo[n]
  BY DEF Product, upTo
<1>. QED
  BY <1>1, <1>5, <1>6

\* Numbers grow with their digits.
LEMMA NumbersGrow ==
    ASSUME NEW n \in Nat, NEW w \in [1 .. n -> Nat],
           NEW a \in [1 .. n -> Nat], NEW d \in [1 .. n -> Nat],
           \A i \in 1 .. n : a[i] <= d[i]
    PROVE  /\ Number(w, a, n) \in Nat /\ Number(w, d, n) \in Nat
           /\ Number(w, a, n) <= Number(w, d, n)
<1>1. PICK g : Solves(g, w, a, 0, n) /\ Number(w, a, n) = g[n]
  BY NumberSolves
<1>2. PICK h : Solves(h, w, d, 0, n) /\ Number(w, d, n) = h[n]
  BY NumberSolves
<1>3. /\ g \in [0 .. n -> Nat] /\ g[0] = 0 /\ h \in [0 .. n -> Nat] /\ h[0] = 0
      /\ \A i \in 1 .. n : g[i] = g[i - 1] * w[i] + a[i] /\ h[i] = h[i - 1] * w[i] + d[i]
  BY <1>1, <1>2 DEF Solves
<1>. DEFINE Bad == {i \in 0 .. n : ~(g[i] <= h[i])}
<1>4. CASE Bad # {}
  <2>1. PICK m \in Bad : \A k \in Bad : m <= k
    <3>1. Bad \in SUBSET Nat
      OBVIOUS
    <3>. QED
      BY <1>4, <3>1, HasLowest
  <2>2. m \in 1 .. n /\ m - 1 \in 0 .. n
    BY <1>3
  <2>3. g[m - 1] <= h[m - 1] /\ g[m - 1] \in Nat /\ h[m - 1] \in Nat
    <3>1. m - 1 \notin Bad
      BY <2>1, <2>2
    <3>. QED
      BY <1>3, <2>2, <3>1
  <2>4. ASSUME NEW x \in Nat, NEW y \in Nat, NEW z \in Nat, x <= y PROVE x * z <= y * z
    <3>1. (y - x) * z >= 0
      BY <2>4
    <3>2. (y - x) * z = y * z - x * z
      OBVIOUS
    <3>. QED
      BY <3>1, <3>2
  <2>5. g[m - 1] * w[m] <= h[m - 1] * w[m] /\ w[m] \in Nat
    BY <2>2, <2>3, <2>4
  <2>6. g[m - 1] * w[m] \in Nat /\ h[m - 1] * w[m] \in Nat
    <3>1. g[m - 1] \in Nat /\ h[m - 1] \in Nat /\ w[m] \in Nat
      BY <2>3, <2>5
    <3>. QED
      BY <3>1, Times
  <2>7. a[m] <= d[m] /\ a[m] \in Nat /\ d[m] \in Nat
    BY <2>2
  <2>8. g[m] = g[m - 1] * w[m] + a[m] /\ h[m] = h[m - 1] * w[m] + d[m]
    BY <1>3, <2>2
  <2>. QED
    BY <2>1, <2>5, <2>6, <2>7, <2>8
<1>5. CASE Bad = {}
  <2>1. n \in 0 .. n /\ n \notin Bad
    BY <1>5
  <2>. QED
    BY <1>1, <1>2, <1>3, <2>1
<1>. QED
  BY <1>4, <1>5

\* One digit more, zeros behind it instead of the greatest digits: the next number.
LEMMA NextNumber ==
    ASSUME NEW n \in Nat, NEW w \in [1 .. n -> Nat],
           NEW a \in [1 .. n -> Nat], NEW d \in [1 .. n -> Nat], NEW s \in 1 .. n,
           \A i \in 1 .. n : i < s => d[i] = a[i],
           d[s] = a[s] + 1,
           \A i \in 1 .. n : i > s => d[i] = 0 /\ a[i] + 1 = w[i]
    PROVE  Number(w, d, n) = Number(w, a, n) + 1
<1>1. PICK g : Solves(g, w, a, 0, n) /\ Number(w, a, n) = g[n]
  BY NumberSolves
<1>2. PICK h : Solves(h, w, d, 0, n) /\ Number(w, d, n) = h[n]
  BY NumberSolves
<1>3. /\ g \in [0 .. n -> Nat] /\ g[0] = 0 /\ h \in [0 .. n -> Nat] /\ h[0] = 0
      /\ \A i \in 1 .. n : g[i] = g[i - 1] * w[i] + a[i] /\ h[i] = h[i - 1] * w[i] + d[i]
  BY <1>1, <1>2 DEF Solves
<1>. DEFINE Bad == {i \in 0 .. n : h[i] # IF i < s THEN g[i] ELSE g[i] + 1}
<1>4. CASE Bad # {}
  <2>1. PICK m \in Bad : \A k \in Bad : m <= k
    <3>1. Bad \in SUBSET Nat
      OBVIOUS
    <3>. QED
      BY <1>4, <3>1, HasLowest
  <2>2. m \in 1 .. n /\ m - 1 \in 0 .. n
    BY <1>3
  <2>3. m - 1 \notin Bad
    BY <2>1, <2>2
  <2>4. /\ g[m] = g[m - 1] * w[m] + a[m] /\ h[m] = h[m - 1] * w[m] + d[m]
        /\ g[m - 1] \in Nat /\ w[m] \in Nat /\ a[m] \in Nat
    BY <1>3, <2>2
  <2>5. CASE m <= s
    <3>1. h[m - 1] = g[m - 1]
      BY <2>2, <2>3, <2>5
    <3>2. h[m] = g[m - 1] * w[m] + d[m] /\ (g[m - 1] * w[m]) + 0 \in Nat
      BY <2>4, <3>1, NextValue
    <3>3. d[m] = IF m < s THEN a[m] ELSE a[m] + 1
      BY <2>2, <2>5
    <3>. DEFINE x == g[m - 1] * w[m]
    <3>4. x \in Nat /\ g[m] = x + a[m] /\ h[m] = x + d[m]
      BY <2>4, <3>2
    <3>. HIDE DEF x
    <3>5. h[m] = IF m < s THEN g[m] ELSE g[m] + 1
      BY <2>4, <3>3, <3>4
    <3>. QED
      BY <2>1, <3>5
  <2>6. CASE m > s
    <3>1. h[m - 1] = g[m - 1] + 1
      BY <2>2, <2>3, <2>6
    <3>2. d[m] = 0 /\ a[m] + 1 = w[m]
      BY <2>2, <2>6
    <3>3. h[m] = (g[m - 1] + 1) * w[m] + 0
      BY <2>4, <3>1, <3>2
    <3>4. (g[m - 1] + 1) * w[m] = g[m - 1] * w[m] + w[m] /\ g[m - 1] * w[m] \in Int
      BY <2>4, Times
    <3>. DEFINE x == g[m - 1] * w[m]
    <3>5. g[m] = x + a[m] /\ h[m] = (x + w[m]) + 0
      BY <2>4, <3>3, <3>4
    <3>6. x \in Int
      BY <3>4
    <3>. HIDE DEF x
    <3>7. a[m] \in Nat /\ w[m] = a[m] + 1
      BY <2>4, <3>2
    <3>8. h[m] = g[m] + 1
      <4>1. ASSUME NEW y \in Int, NEW b \in Nat PROVE (y + (b + 1)) + 0 = (y + b) + 1
        OBVIOUS
      <4>. QED
        BY <3>5, <3>6, <3>7, <4>1
    <3>9. ~(m < s)
      BY <2>2, <2>6
    <3>. QED
      BY <2>1, <3>8, <3>9
  <2>. QED
    BY <2>2, <2>5, <2>6
<1>5. CASE Bad = {}
  <2>1. n \in 0 .. n /\ ~(n < s)
    OBVIOUS
  <2>2. n \notin Bad
    BY <1>5
  <2>. QED
    BY <1>1, <1>2, <2>1, <2>2
<1>. QED
  BY <1>4, <1>5

\* The greatest digits give the number before the product.
LEMMA GreatestNumber ==
    ASSUME NEW n \in Nat, NEW w \in [1 .. n -> Nat], Len(w) = n,
           NEW a \in [1 .. n -> Nat], \A i \in 1 .. n : a[i] + 1 = w[i]
    PROVE  Number(w, a, n) + 1 = Product(w)
<1>1. PICK g : Solves(g, w, a, 0, n) /\ Number(w, a, n) = g[n]
  BY NumberSolves
<1>2. PICK h : Solves(h, w, [i \in 1 .. n |-> 0], 1, n) /\ Product(w) = h[n]
  BY ProductSolves
<1>3. /\ g \in [0 .. n -> Nat] /\ g[0] = 0 /\ h \in [0 .. n -> Nat] /\ h[0] = 1
      /\ \A i \in 1 .. n : g[i] = g[i - 1] * w[i] + a[i] /\ h[i] = h[i - 1] * w[i] + 0
  BY <1>1, <1>2 DEF Solves
<1>. DEFINE Bad == {i \in 0 .. n : h[i] # g[i] + 1}
<1>4. CASE Bad # {}
  <2>1. PICK m \in Bad : \A k \in Bad : m <= k
    <3>1. Bad \in SUBSET Nat
      OBVIOUS
    <3>. QED
      BY <1>4, <3>1, HasLowest
  <2>2. m \in 1 .. n /\ m - 1 \in 0 .. n
    BY <1>3
  <2>3. h[m - 1] = g[m - 1] + 1
    <3>1. m - 1 \notin Bad
      BY <2>1, <2>2
    <3>. QED
      BY <2>2, <3>1
  <2>4. /\ g[m] = g[m - 1] * w[m] + a[m] /\ h[m] = (g[m - 1] + 1) * w[m] + 0
        /\ g[m - 1] \in Nat /\ w[m] \in Nat /\ a[m] \in Nat /\ a[m] + 1 = w[m]
    BY <1>3, <2>2, <2>3
  <2>5. (g[m - 1] + 1) * w[m] = g[m - 1] * w[m] + w[m] /\ g[m - 1] * w[m] \in Nat
    BY <2>4, Times
  <2>. DEFINE x == g[m - 1] * w[m]
  <2>6. x \in Nat
    BY <2>5
  <2>7. g[m] = x + a[m] /\ h[m] = (x + w[m]) + 0
    BY <2>4, <2>5
  <2>. HIDE DEF x
  <2>8. h[m] = g[m] + 1
    BY <2>4, <2>6, <2>7
  <2>. QED
    BY <2>1, <2>8
<1>5. CASE Bad = {}
  <2>1. n \in 0 .. n /\ n \notin Bad
    BY <1>5
  <2>. QED
    BY <1>1, <1>2, <2>1
<1>. QED
  BY <1>4, <1>5

LEMMA LeastNumber ==
    ASSUME NEW n \in Nat, NEW w \in [1 .. n -> Nat], NEW a \in [1 .. n -> Nat],
           \A i \in 1 .. n : a[i] = 0
    PROVE  Number(w, a, n) = 0
<1>1. PICK g : Solves(g, w, a, 0, n) /\ Number(w, a, n) = g[n]
  BY NumberSolves
<1>2. /\ g \in [0 .. n -> Nat] /\ g[0] = 0
      /\ \A i \in 1 .. n : g[i] = g[i - 1] * w[i] + a[i]
  BY <1>1 DEF Solves
<1>. DEFINE Bad == {i \in 0 .. n : g[i] # 0}
<1>3. CASE Bad # {}
  <2>1. PICK m \in Bad : \A k \in Bad : m <= k
    <3>1. Bad \in SUBSET Nat
      OBVIOUS
    <3>. QED
      BY <1>3, <3>1, HasLowest
  <2>2. m \in 1 .. n /\ m - 1 \in 0 .. n
    BY <1>2
  <2>3. g[m - 1] = 0
    BY <2>1, <2>2
  <2>. QED
    BY <1>2, <2>2, <2>3
<1>4. CASE Bad = {}
  BY <1>1, <1>4
<1>. QED
  BY <1>3, <1>4

\* The attempts of a task are digits: none is as great as the tries of its layer.
IsDigits(w, a, n) == a \in [1 .. n -> Nat] /\ \A i \in 1 .. n : a[i] < w[i]

LEMMA FullNumbers ==
    ASSUME NEW n \in Nat, NEW w \in [1 .. n -> Nat], Len(w) = n, NEW a, IsDigits(w, a, n)
    PROVE  /\ Number(w, a, n) \in Nat /\ Full(w, a, n) = a /\ Cleared(a, n) = a
           /\ Number(w, a, n) + 1 <= Product(w)
           /\ \A l \in 0 .. n : /\ Number(w, Full(w, a, l), n) \in Nat
                                /\ IsDigits(w, Cleared(a, l), n)
           /\ \A l, m \in 0 .. n :
                m <= l => Number(w, Full(w, a, l), n) <= Number(w, Full(w, a, m), n)
           /\ Number(w, Full(w, a, 0), n) + 1 = Product(w)
           /\ Number(w, Cleared(a, 0), n) = 0
<1>0. n \in 0 .. n /\ 0 \in 0 .. n
  OBVIOUS
<1>1. a \in [1 .. n -> Nat] /\ \A i \in 1 .. n : a[i] < w[i] /\ w[i] \in Nat /\ w[i] - 1 \in Nat
  <2>1. a \in [1 .. n -> Nat] /\ \A i \in 1 .. n : a[i] < w[i] /\ w[i] \in Nat /\ a[i] \in Nat
    BY DEF IsDigits
  <2>. QED
    BY <2>1
<1>2. ASSUME NEW l \in 0 .. n
      PROVE  /\ Full(w, a, l) \in [1 .. n -> Nat]
             /\ \A i \in 1 .. n : Full(w, a, l)[i] = IF i > l THEN w[i] - 1 ELSE a[i]
  BY <1>1 DEF Full
<1>3. ASSUME NEW l \in 0 .. n
      PROVE  /\ Cleared(a, l) \in [1 .. n -> Nat]
             /\ \A i \in 1 .. n : Cleared(a, l)[i] = IF i > l THEN 0 ELSE a[i]
  BY <1>1 DEF Cleared
<1>4. Full(w, a, n) = a /\ Cleared(a, n) = a
  BY <1>1 DEF Full, Cleared
<1>5. ASSUME NEW l \in 0 .. n, NEW m \in 0 .. n, m <= l
      PROVE  /\ Number(w, Full(w, a, l), n) \in Nat
             /\ Number(w, Full(w, a, l), n) <= Number(w, Full(w, a, m), n)
  <2>. DEFINE f == Full(w, a, l)
              g == Full(w, a, m)
  <2>1. /\ f \in [1 .. n -> Nat] /\ \A i \in 1 .. n : f[i] = IF i > l THEN w[i] - 1 ELSE a[i]
        /\ g \in [1 .. n -> Nat] /\ \A i \in 1 .. n : g[i] = IF i > m THEN w[i] - 1 ELSE a[i]
    BY <1>2
  <2>. HIDE DEF f, g
  <2>2. ASSUME NEW i \in 1 .. n PROVE f[i] <= g[i]
    <3>1. a[i] \in Nat /\ w[i] \in Nat /\ a[i] <= w[i] - 1 /\ (i > l => i > m)
      BY <1>1, <1>5
    <3>. QED
      BY <2>1, <3>1
  <2>3. Number(w, f, n) \in Nat /\ Number(w, f, n) <= Number(w, g, n)
    BY <2>1, <2>2, NumbersGrow
  <2>. QED
    BY <2>3 DEF f, g
<1>6. Number(w, Full(w, a, 0), n) + 1 = Product(w)
  <2>1. /\ Full(w, a, 0) \in [1 .. n -> Nat]
        /\ \A i \in 1 .. n : Full(w, a, 0)[i] = w[i] - 1
    BY <1>0, <1>2
  <2>2. \A i \in 1 .. n : Full(w, a, 0)[i] + 1 = w[i]
    BY <1>1, <2>1
  <2>. QED
    BY <2>1, <2>2, GreatestNumber
<1>7. Number(w, Cleared(a, 0), n) = 0
  <2>. DEFINE c == Cleared(a, 0)
  <2>1. c \in [1 .. n -> Nat] /\ \A i \in 1 .. n : c[i] = IF i > 0 THEN 0 ELSE a[i]
    BY <1>0, <1>3
  <2>. HIDE DEF c
  <2>2. \A i \in 1 .. n : c[i] = 0
    BY <2>1
  <2>3. Number(w, c, n) = 0
    BY <2>1, <2>2, LeastNumber
  <2>. QED
    BY <2>3 DEF c
<1>8. ASSUME NEW l \in 0 .. n PROVE IsDigits(w, Cleared(a, l), n)
  <2>. DEFINE c == Cleared(a, l)
  <2>1. c \in [1 .. n -> Nat] /\ \A i \in 1 .. n : c[i] = IF i > l THEN 0 ELSE a[i]
    BY <1>3
  <2>. HIDE DEF c
  <2>2. \A i \in 1 .. n : a[i] \in Nat /\ w[i] \in Nat /\ a[i] < w[i]
    BY <1>1
  <2>3. \A i \in 1 .. n : c[i] < w[i]
    BY <2>1, <2>2
  <2>4. IsDigits(w, c, n)
    BY <2>1, <2>3 DEF IsDigits
  <2>. QED
    BY <2>4 DEF c
<1>9. Number(w, a, n) \in Nat /\ Number(w, a, n) <= Number(w, Full(w, a, 0), n)
  BY <1>0, <1>4, <1>5
<1>10. Number(w, Full(w, a, 0), n) \in Nat
  BY <1>0, <1>5
<1>. QED
  BY <1>4, <1>5, <1>6, <1>7, <1>8, <1>9, <1>10

\* The attempt after a failed one comes to the next number, once what is behind it
\* has been tried out.
LEMMA NextAttemptNumber ==
    ASSUME NEW n \in Nat, NEW w \in [1 .. n -> Nat], NEW a, IsDigits(w, a, n),
           NEW s \in 1 .. n, a[s] + 1 < w[s], NEW d, d = [a EXCEPT ![s] = a[s] + 1]
    PROVE  /\ IsDigits(w, d, n)
           /\ Number(w, Cleared(d, s), n) = Number(w, Full(w, a, s), n) + 1
<1>1. a \in [1 .. n -> Nat] /\ \A i \in 1 .. n : a[i] < w[i] /\ w[i] \in Nat /\ a[i] \in Nat
  BY DEF IsDigits
<1>2. d \in [1 .. n -> Nat] /\ \A i \in 1 .. n : d[i] = IF i = s THEN a[s] + 1 ELSE a[i]
  BY <1>1
<1>3. IsDigits(w, d, n)
  BY <1>1, <1>2 DEF IsDigits
<1>. DEFINE c == Cleared(d, s)
            f == Full(w, a, s)
<1>4. c \in [1 .. n -> Nat] /\ \A i \in 1 .. n : c[i] = IF i > s THEN 0 ELSE d[i]
  BY <1>2 DEF Cleared
<1>5. f \in [1 .. n -> Nat] /\ \A i \in 1 .. n : f[i] = IF i > s THEN w[i] - 1 ELSE a[i]
  <2>1. \A i \in 1 .. n : w[i] - 1 \in Nat
    BY <1>1
  <2>. QED
    BY <1>1, <2>1 DEF Full
<1>. HIDE DEF c, f
<1>6. \A i \in 1 .. n : i < s => c[i] = f[i]
  BY <1>2, <1>4, <1>5
<1>7. c[s] = f[s] + 1
  BY <1>2, <1>4, <1>5
<1>8. \A i \in 1 .. n : i > s => c[i] = 0 /\ f[i] + 1 = w[i]
  BY <1>1, <1>4, <1>5
<1>9. Number(w, c, n) = Number(w, f, n) + 1
  BY <1>4, <1>5, <1>6, <1>7, <1>8, NextNumber
<1>. QED
  BY <1>3, <1>9 DEF c, f

-----------------------------------------------------------------------------
(* The runs of a task.                                                     *)

Bases  == Tries(layers)
Num(a) == Number(Bases, a, Len(layers))

\* So many runs at most, and exactly so many where every error is retried.
RunsAre(t, m) == runs[t] <= m /\ (AlwaysRetried => runs[t] = m)

CountTypes ==
    /\ attempt \in [Task -> [1 .. Len(layers) -> Nat]] /\ runs \in [Task -> Nat]
    /\ result \in [Task -> Error \cup {"returned", "cancelled"}]

\* Before a run there have been as many as the attempts count.  In the delay of a Retry
\* the attempts further in are those of the failed run still, and while an exception is
\* handled nobody knows what was left of them.
Counted(t) ==
    LET a == attempt[t] IN
    /\ IsDigits(Bases, a, Len(layers))
    /\ doing[t] = "new" => layer[t] = 0
    /\ doing[t] \in {"new", "asleep"} => RunsAre(t, Num(Cleared(a, layer[t])))
    /\ doing[t] \in {"waiting", "dropped"} => RunsAre(t, Num(a))
    /\ doing[t] = "running" => RunsAre(t, Num(a) + 1)
    /\ doing[t] = "handling" => ~AlwaysRetried /\ runs[t] <= Num(Full(Bases, a, layer[t])) + 1
    /\ doing[t] = "over" =>
            /\ runs[t] <= MaxRuns
            /\ AlwaysRetried /\ result[t] \in Error => runs[t] = MaxRuns

RunsInv == CountTypes /\ \A t \in Task : Counted(t)

LEMMA BasesFit ==
    ASSUME layers \in Pipelines
    PROVE  /\ Len(layers) \in Nat /\ DOMAIN layers = 1 .. Len(layers)
           /\ Bases \in [1 .. Len(layers) -> Nat] /\ Len(Bases) = Len(layers)
           /\ \A i \in 1 .. Len(layers) :
                /\ layers[i].retries \in Nat
                /\ Bases[i] = IF layers[i].is = "retry" THEN layers[i].retries + 1 ELSE 1
<1>1. layers \in Seq(Layer) /\ Len(layers) \in Nat /\ DOMAIN layers = 1 .. Len(layers)
  BY PipelinesAssumption, Layers
<1>2. \A i \in 1 .. Len(layers) : layers[i] \in Layer
  BY <1>1
<1>3. \A i \in 1 .. Len(layers) : layers[i].retries \in Nat
  BY <1>2 DEF Layer
<1>4. Bases = [i \in 1 .. Len(layers) |->
                IF layers[i].is = "retry" THEN layers[i].retries + 1 ELSE 1]
  BY <1>1 DEF Bases, Tries
<1>5. Bases \in [1 .. Len(layers) -> Nat]
  BY <1>3, <1>4
<1>6. Bases \in Seq(Nat) /\ Len(Bases) = Len(layers)
  BY <1>1, <1>5
<1>. QED
  BY <1>1, <1>3, <1>4, <1>5, <1>6

\* What the task does not change keeps its count.
LEMMA OthersCounted ==
    ASSUME RunsInv, layers' = layers, NEW u \in Task,
           doing'[u] = doing[u], layer'[u] = layer[u], attempt'[u] = attempt[u],
           runs'[u] = runs[u], result'[u] = result[u]
    PROVE  Counted(u)'
<1>1. /\ Bases' = Bases /\ Len(layers)' = Len(layers) /\ AlwaysRetried' = AlwaysRetried
      /\ MaxRuns' = MaxRuns
  BY DEF Bases, AlwaysRetried, MaxRuns
<1>2. Counted(u)
  BY DEF RunsInv
<1>. QED
  BY <1>1, <1>2 DEF Counted, RunsAre, Num

\* A task that comes to the handler, or to a filter that drops the event.
LEMMA ReachesCounts ==
    ASSUME PInv, RunsInv, NEW t \in Task, NEW s, Reaches(t, s), NEW d,
           IsDigits(Bases, d, Len(layers)), RunsAre(t, Num(d)),
           attempt' = [attempt EXCEPT ![t] = d], layers' = layers, result' = result
    PROVE  RunsInv'
<1>1. /\ Bases' = Bases /\ Len(layers)' = Len(layers) /\ AlwaysRetried' = AlwaysRetried
      /\ MaxRuns' = MaxRuns
  BY DEF Bases, AlwaysRetried, MaxRuns
<1>2. /\ doing \in [Task -> {"new", "waiting", "dropped", "running", "asleep", "handling", "over"}]
      /\ layer \in [Task -> 0 .. Handler]
      /\ attempt \in [Task -> [1 .. Len(layers) -> Nat]] /\ runs \in [Task -> Nat]
      /\ result \in [Task -> Error \cup {"returned", "cancelled"}]
  BY DEF PInv, Places, RunsInv, CountTypes
<1>3. /\ layer' = [layer EXCEPT ![t] = s]
      /\ doing' = [doing EXCEPT ![t] = IF s = Handler THEN "running" ELSE "dropped"]
      /\ runs' = [runs EXCEPT ![t] = IF s = Handler THEN runs[t] + 1 ELSE runs[t]]
  BY DEF Reaches
<1>4. Num(d) \in Nat /\ runs[t] \in Nat
  BY <1>2, BasesFit, FullNumbers DEF PInv, Places, Num
<1>5. CountTypes'
  <2>1. d \in [1 .. Len(layers) -> Nat]
    BY DEF IsDigits
  <2>2. attempt' \in [Task -> [1 .. Len(layers) -> Nat]]
    BY <1>2, <2>1
  <2>3. runs' \in [Task -> Nat]
    BY <1>2, <1>3
  <2>. QED
    BY <1>1, <1>2, <2>2, <2>3 DEF CountTypes
<1>6. Counted(t)'
  <2>1. attempt'[t] = d
    BY <1>2
  <2>2. CASE s = Handler
    <3>1. doing'[t] = "running" /\ runs'[t] = runs[t] + 1
      BY <1>2, <1>3, <2>2
    <3>. QED
      BY <1>1, <1>4, <2>1, <3>1 DEF Counted, RunsAre, Num
  <2>3. CASE s # Handler
    <3>1. doing'[t] = "dropped" /\ runs'[t] = runs[t]
      BY <1>2, <1>3, <2>3
    <3>. QED
      BY <1>1, <1>4, <2>1, <3>1 DEF Counted, RunsAre, Num
  <2>. QED
    BY <2>2, <2>3
<1>7. ASSUME NEW u \in Task, u # t PROVE Counted(u)'
  BY <1>2, <1>3, <1>7, OthersCounted
<1>. QED
  BY <1>5, <1>6, <1>7 DEF RunsInv

\* On the way in the retries from layer i on start anew.
LEMMA GoInCounts ==
    ASSUME PInv, RunsInv, NEW t \in Task, NEW i \in 1 .. Handler, GoIn(t, i),
           RunsAre(t, Num(Cleared(attempt[t], i - 1)))
    PROVE  RunsInv'
<1>. DEFINE stop == StopInwards(t, i)
            d == Cleared(attempt[t], i - 1)
<1>1. /\ Bases' = Bases /\ Len(layers)' = Len(layers) /\ AlwaysRetried' = AlwaysRetried
      /\ MaxRuns' = MaxRuns /\ layers' = layers /\ result' = result
  BY DEF Bases, AlwaysRetried, MaxRuns, GoIn
<1>2. /\ doing \in [Task -> {"new", "waiting", "dropped", "running", "asleep", "handling", "over"}]
      /\ layer \in [Task -> 0 .. Handler]
      /\ attempt \in [Task -> [1 .. Len(layers) -> Nat]] /\ runs \in [Task -> Nat]
      /\ result \in [Task -> Error \cup {"returned", "cancelled"}]
  BY DEF PInv, Places, RunsInv, CountTypes
<1>3. Len(layers) \in Nat /\ Handler = Len(layers) + 1 /\ i - 1 \in 0 .. Len(layers)
  BY Layers DEF PInv, Places
<1>4. IsDigits(Bases, attempt[t], Len(layers))
  BY DEF RunsInv, Counted
<1>5. IsDigits(Bases, d, Len(layers))
  BY <1>3, <1>4, BasesFit, FullNumbers DEF PInv, Places
<1>6. attempt' = [attempt EXCEPT ![t] = d]
  <2>1. attempt' = [attempt EXCEPT ![t] =
                        [k \in DOMAIN attempt[t] |-> IF k >= i THEN 0 ELSE attempt[t][k]]]
    BY DEF GoIn, FirstAttempts
  <2>2. DOMAIN attempt[t] = 1 .. Len(layers)
    BY <1>2
  <2>3. \A k \in 1 .. Len(layers) : k >= i <=> k > i - 1
    BY <1>3
  <2>4. d = [k \in DOMAIN attempt[t] |-> IF k >= i THEN 0 ELSE attempt[t][k]]
    BY <2>2, <2>3 DEF Cleared
  <2>. QED
    BY <2>1, <2>4
<1>. HIDE DEF d
<1>7. RunsAre(t, Num(d))
  BY DEF d
<1>8. CASE \E s : Reaches(t, s)
  BY <1>1, <1>5, <1>6, <1>7, <1>8, ReachesCounts
<1>9. CASE /\ layer' = [layer EXCEPT ![t] = stop]
           /\ doing' = [doing EXCEPT ![t] = "waiting"]
           /\ UNCHANGED runs
  <2>1. CountTypes'
    <3>1. d \in [1 .. Len(layers) -> Nat]
      BY <1>5 DEF IsDigits
    <3>2. attempt' \in [Task -> [1 .. Len(layers) -> Nat]]
      BY <1>2, <1>6, <3>1
    <3>. QED
      BY <1>1, <1>2, <1>9, <3>2 DEF CountTypes
  <2>2. Counted(t)'
    <3>1. doing'[t] = "waiting" /\ runs'[t] = runs[t] /\ attempt'[t] = d
      BY <1>2, <1>6, <1>9
    <3>. QED
      BY <1>1, <1>5, <1>7, <3>1 DEF Counted, RunsAre, Num
  <2>3. ASSUME NEW u \in Task, u # t PROVE Counted(u)'
    <3>1. /\ doing'[u] = doing[u] /\ layer'[u] = layer[u] /\ attempt'[u] = attempt[u]
          /\ runs'[u] = runs[u] /\ result'[u] = result[u]
      BY <1>1, <1>2, <1>6, <1>9, <2>3
    <3>. QED
      BY <1>1, <3>1, OthersCounted
  <2>. QED
    BY <2>1, <2>2, <2>3 DEF RunsInv
<1>. QED
  BY <1>8, <1>9 DEF GoIn

\* Where a task stops on its way out, nothing further in has caught what it brings.
LEMMA StopsWhereCaught ==
    ASSUME layers \in Pipelines, NEW t, NEW i \in 0 .. Len(layers), NEW r
    PROVE  LET s == StopOutwards(t, i, r) IN
           /\ s \in 0 .. i
           /\ s # 0 => Catches(t, s, r)
           /\ \A j \in 1 .. i : j > s => ~Catches(t, j, r)
<1>. DEFINE S == {0} \cup {j \in 1 .. i : Catches(t, j, r)}
<1>1. i \in Nat
  BY Layers
<1>2. S \in SUBSET (0 .. i) /\ S # {}
  BY <1>1
<1>3. Highest(S) \in S /\ \A j \in S : Highest(S) >= j
  BY <1>1, <1>2, HasHighest
<1>4. StopOutwards(t, i, r) = Highest(S)
  BY DEF StopOutwards
<1>5. ASSUME NEW j \in 1 .. i, j > Highest(S) PROVE ~Catches(t, j, r)
  BY <1>1, <1>2, <1>3, <1>5
<1>. QED
  BY <1>2, <1>3, <1>4, <1>5

\* On the way out an error counts as one more run, and with it all the runs that the
\* retries it has passed would have had left.
LEMMA StopsAtCounts ==
    ASSUME PInv, RunsInv, NEW t \in Task, NEW i \in 0 .. Len(layers),
           NEW r \in Error \cup {"returned", "cancelled"},
           StopsAt(t, StopOutwards(t, i, r), r),
           r \notin Error => runs[t] <= MaxRuns,
           r \in Error => runs[t] <= Num(Full(Bases, attempt[t], i)) + 1,
           r \in Error /\ AlwaysRetried => i = Len(layers) /\ runs[t] = Num(attempt[t]) + 1
    PROVE  RunsInv'
<1>. DEFINE s == StopOutwards(t, i, r)
            a == attempt[t]
            n == Len(layers)
<1>1. /\ Bases' = Bases /\ Len(layers)' = Len(layers) /\ AlwaysRetried' = AlwaysRetried
      /\ MaxRuns' = MaxRuns /\ layers' = layers /\ runs' = runs
  BY DEF Bases, AlwaysRetried, MaxRuns, StopsAt
<1>2. /\ doing \in [Task -> {"new", "waiting", "dropped", "running", "asleep", "handling", "over"}]
      /\ layer \in [Task -> 0 .. Handler]
      /\ attempt \in [Task -> [1 .. n -> Nat]] /\ runs \in [Task -> Nat]
      /\ result \in [Task -> Error \cup {"returned", "cancelled"}]
  BY DEF PInv, Places, RunsInv, CountTypes
<1>3. /\ n \in Nat /\ DOMAIN layers = 1 .. n /\ i \in Nat /\ i <= n
      /\ Bases \in [1 .. n -> Nat] /\ Len(Bases) = n
      /\ \A j \in 1 .. n : /\ layers[j].retries \in Nat
                           /\ Bases[j] = IF layers[j].is = "retry" THEN layers[j].retries + 1 ELSE 1
  <2>1. layers \in Pipelines
    BY DEF PInv, Places
  <2>2. n \in Nat
    BY <2>1, BasesFit
  <2>3. i \in Nat /\ i <= n
    BY <2>2
  <2>. QED
    BY <2>1, <2>3, BasesFit
<1>4. IsDigits(Bases, a, n) /\ a \in [1 .. n -> Nat] /\ \A j \in 1 .. n : a[j] < Bases[j]
  BY DEF RunsInv, Counted, IsDigits
<1>5. /\ s \in 0 .. i /\ (s # 0 => Catches(t, s, r))
      /\ \A j \in 1 .. i : j > s => ~Catches(t, j, r)
  BY StopsWhereCaught DEF PInv, Places
<1>6. /\ layer' = [layer EXCEPT ![t] = s] /\ result' = [result EXCEPT ![t] = r]
      /\ s = 0 => doing' = [doing EXCEPT ![t] = "over"] /\ attempt' = attempt
      /\ s # 0 /\ layers[s].is = "retry" =>
            doing' = [doing EXCEPT ![t] = "asleep"] /\ attempt' = [attempt EXCEPT ![t][s] = @ + 1]
      /\ s # 0 /\ layers[s].is # "retry" =>
            doing' = [doing EXCEPT ![t] = "handling"] /\ attempt' = attempt
  BY DEF StopsAt, NextAttempt
<1>7. s \in 0 .. n /\ i \in 0 .. n /\ s <= i
  BY <1>3, <1>5
<1>8. /\ Num(Full(Bases, a, i)) <= Num(Full(Bases, a, s))
      /\ Num(Full(Bases, a, i)) \in Nat /\ Num(Full(Bases, a, s)) \in Nat
      /\ Num(Full(Bases, a, 0)) + 1 = MaxRuns
  BY <1>3, <1>4, <1>7, FullNumbers DEF Num, MaxRuns, Bases
<1>9. runs[t] \in Nat
  BY <1>2
<1>10. r \in Error => runs[t] <= Num(Full(Bases, a, s)) + 1
  BY <1>8, <1>9
<1>. HIDE DEF s, n
<1>11. ASSUME r \in Error, AlwaysRetried, layers[s].is = "retry" \/ s = 0
       PROVE  runs[t] = Num(Full(Bases, a, s)) + 1
  <2>1. ASSUME NEW j \in 1 .. n, j > s PROVE a[j] = Bases[j] - 1
    <3>1. ~Catches(t, j, r)
      BY <1>5, <1>11, <2>1 DEF n
    <3>2. CASE layers[j].is = "retry"
      <4>1. layers[j].on = Error
        BY <1>3, <1>11, <3>2 DEF AlwaysRetried
      <4>2. ~(a[j] < layers[j].retries)
        BY <1>11, <3>1, <3>2, <4>1 DEF Catches, ShouldRetry
      <4>3. Bases[j] = layers[j].retries + 1 /\ layers[j].retries \in Nat
        BY <1>3, <2>1, <3>2
      <4>4. a[j] < Bases[j] /\ a[j] \in Nat
        BY <1>4, <2>1
      <4>. HIDE DEF a
      <4>. QED
        BY <4>2, <4>3, <4>4
    <3>3. CASE layers[j].is # "retry"
      BY <1>3, <1>4, <3>3
    <3>. QED
      BY <3>2, <3>3
  <2>2. Full(Bases, a, s) = a
    BY <1>4, <2>1 DEF Full
  <2>. QED
    BY <1>11, <2>2
<1>12. CASE s = 0
  <2>1. doing'[t] = "over" /\ result'[t] = r /\ attempt'[t] = a /\ runs'[t] = runs[t]
    BY <1>1, <1>2, <1>6, <1>12
  <2>2. runs[t] <= MaxRuns /\ (AlwaysRetried /\ r \in Error => runs[t] = MaxRuns)
    BY <1>8, <1>10, <1>11, <1>12
  <2>3. Counted(t)'
    BY <1>1, <1>4, <2>1, <2>2 DEF Counted, n
  <2>4. CountTypes'
    BY <1>1, <1>2, <1>6, <1>12 DEF CountTypes, n
  <2>5. ASSUME NEW u \in Task, u # t PROVE Counted(u)'
    <3>1. /\ doing'[u] = doing[u] /\ layer'[u] = layer[u] /\ attempt'[u] = attempt[u]
          /\ runs'[u] = runs[u] /\ result'[u] = result[u]
      BY <1>1, <1>2, <1>6, <1>12, <2>5
    <3>. QED
      BY <1>1, <3>1, OthersCounted
  <2>. QED
    BY <2>3, <2>4, <2>5 DEF RunsInv
<1>13. CASE s # 0 /\ layers[s].is = "retry"
  <2>. DEFINE d == [a EXCEPT ![s] = a[s] + 1]
  <2>1. s \in 1 .. n /\ r \in Error /\ a[s] + 1 < Bases[s]
    <3>1. s \in 1 .. n
      BY <1>3, <1>7, <1>13
    <3>2. r \in Error /\ a[s] < layers[s].retries
      BY <1>5, <1>13 DEF Catches, ShouldRetry, Intercepts
    <3>. QED
      BY <1>3, <1>4, <1>13, <3>1, <3>2
  <2>2. /\ IsDigits(Bases, d, n)
        /\ Num(Cleared(d, s)) = Num(Full(Bases, a, s)) + 1
    BY <1>3, <1>4, <2>1, NextAttemptNumber DEF Num, n
  <2>3. attempt' = [attempt EXCEPT ![t] = d]
    BY <1>6, <1>13
  <2>. HIDE DEF d
  <2>4. /\ doing'[t] = "asleep" /\ layer'[t] = s /\ attempt'[t] = d /\ runs'[t] = runs[t]
    BY <1>1, <1>2, <1>6, <1>13, <2>3
  <2>5. RunsAre(t, Num(Cleared(d, s)))
    BY <1>10, <1>11, <1>13, <2>1, <2>2 DEF RunsAre
  <2>6. Counted(t)'
    BY <1>1, <2>2, <2>4, <2>5 DEF Counted, RunsAre, Num, n
  <2>7. CountTypes'
    <3>1. d \in [1 .. n -> Nat]
      BY <2>2 DEF IsDigits
    <3>2. attempt' \in [Task -> [1 .. n -> Nat]]
      BY <1>2, <2>3, <3>1
    <3>. QED
      BY <1>1, <1>2, <1>6, <3>2 DEF CountTypes, n
  <2>8. ASSUME NEW u \in Task, u # t PROVE Counted(u)'
    <3>1. /\ doing'[u] = doing[u] /\ layer'[u] = layer[u] /\ attempt'[u] = attempt[u]
          /\ runs'[u] = runs[u] /\ result'[u] = result[u]
      BY <1>1, <1>2, <1>6, <1>13, <2>3, <2>8
    <3>. QED
      BY <1>1, <3>1, OthersCounted
  <2>. QED
    BY <2>6, <2>7, <2>8 DEF RunsInv
<1>14. CASE s # 0 /\ layers[s].is # "retry"
  <2>1. s \in 1 .. n /\ r \in Error /\ ~AlwaysRetried
    <3>1. s \in 1 .. n
      BY <1>3, <1>7, <1>14
    <3>2. r \in Error /\ layers[s].is = "interceptor"
      BY <1>5, <1>14 DEF Catches, ShouldRetry, Intercepts
    <3>. QED
      BY <1>3, <3>1, <3>2 DEF AlwaysRetried
  <2>2. doing'[t] = "handling" /\ layer'[t] = s /\ attempt'[t] = a /\ runs'[t] = runs[t]
    BY <1>1, <1>2, <1>6, <1>14
  <2>3. Counted(t)'
    BY <1>1, <1>4, <1>10, <2>1, <2>2 DEF Counted, Num, n
  <2>4. CountTypes'
    BY <1>1, <1>2, <1>6, <1>14 DEF CountTypes, n
  <2>5. ASSUME NEW u \in Task, u # t PROVE Counted(u)'
    <3>1. /\ doing'[u] = doing[u] /\ layer'[u] = layer[u] /\ attempt'[u] = attempt[u]
          /\ runs'[u] = runs[u] /\ result'[u] = result[u]
      BY <1>1, <1>2, <1>6, <1>14, <2>5
    <3>. QED
      BY <1>1, <3>1, OthersCounted
  <2>. QED
    BY <2>3, <2>4, <2>5 DEF RunsInv
<1>. QED
  BY <1>12, <1>13, <1>14

\* Wherever a task is, it has run the handler at most as often as there are numbers.
LEMMA RunsBounded ==
    ASSUME PInv, RunsInv, NEW t \in Task
    PROVE  runs[t] <= MaxRuns
<1>. DEFINE a == attempt[t]
            n == Len(layers)
<1>1. /\ n \in Nat /\ Handler = n + 1
      /\ Bases \in [1 .. n -> Nat] /\ Len(Bases) = n
  BY BasesFit, Layers DEF PInv, Places
<1>2. /\ doing[t] \in {"waiting", "dropped", "asleep", "handling"} => layer[t] \in 1 .. n
      /\ doing[t] \in {"new", "waiting", "dropped", "running", "asleep", "handling", "over"}
  BY <1>1 DEF PInv, Places
<1>3. /\ IsDigits(Bases, a, n) /\ runs[t] \in Nat
      /\ doing[t] = "new" => layer[t] = 0
      /\ doing[t] \in {"new", "asleep"} => RunsAre(t, Num(Cleared(a, layer[t])))
      /\ doing[t] \in {"waiting", "dropped"} => RunsAre(t, Num(a))
      /\ doing[t] = "running" => RunsAre(t, Num(a) + 1)
      /\ doing[t] = "handling" => runs[t] <= Num(Full(Bases, a, layer[t])) + 1
      /\ doing[t] = "over" => runs[t] <= MaxRuns
  BY DEF RunsInv, Counted, CountTypes
<1>4. /\ Num(a) \in Nat /\ Num(a) + 1 <= MaxRuns
      /\ \A l \in 0 .. n : /\ Num(Full(Bases, a, l)) \in Nat
                           /\ Num(Cleared(a, l)) \in Nat /\ Num(Cleared(a, l)) + 1 <= MaxRuns
      /\ \A l, m \in 0 .. n : m <= l => Num(Full(Bases, a, l)) <= Num(Full(Bases, a, m))
      /\ Num(Full(Bases, a, 0)) + 1 = MaxRuns
  <2>. SUFFICES ASSUME NEW l \in 0 .. n
       PROVE  /\ Num(a) \in Nat /\ Num(a) + 1 <= MaxRuns
              /\ Num(Full(Bases, a, l)) \in Nat
              /\ Num(Cleared(a, l)) \in Nat /\ Num(Cleared(a, l)) + 1 <= MaxRuns
              /\ \A m \in 0 .. n : m <= l => Num(Full(Bases, a, l)) <= Num(Full(Bases, a, m))
              /\ Num(Full(Bases, a, 0)) + 1 = MaxRuns
    <3>1. 0 \in 0 .. n
      BY <1>1
    <3>. QED
      BY <3>1
  <2>. QED
    BY <1>1, <1>3, FullNumbers DEF Num, MaxRuns, Bases
<1>5. MaxRuns \in Nat
  <2>1. 0 \in 0 .. n
    BY <1>1
  <2>. QED
    BY <1>4, <2>1
<1>. HIDE DEF n
<1>6. CASE doing[t] \in {"new", "asleep"}
  <2>1. layer[t] \in 0 .. n
    BY <1>1, <1>2, <1>3, <1>6
  <2>2. Num(Cleared(a, layer[t])) \in Nat /\ Num(Cleared(a, layer[t])) + 1 <= MaxRuns
    BY <1>4, <2>1
  <2>3. runs[t] <= Num(Cleared(a, layer[t]))
    BY <1>3, <1>6 DEF RunsAre
  <2>. QED
    BY <1>3, <1>5, <2>2, <2>3
<1>7. CASE doing[t] \in {"waiting", "dropped"}
  BY <1>3, <1>4, <1>5, <1>7 DEF RunsAre
<1>8. CASE doing[t] = "running"
  BY <1>3, <1>4, <1>5, <1>8 DEF RunsAre
<1>9. CASE doing[t] = "handling"
  <2>1. layer[t] \in 0 .. n /\ 0 \in 0 .. n /\ 0 <= layer[t]
    BY <1>1, <1>2, <1>9
  <2>2. /\ Num(Full(Bases, a, layer[t])) <= Num(Full(Bases, a, 0))
        /\ Num(Full(Bases, a, layer[t])) \in Nat /\ Num(Full(Bases, a, 0)) \in Nat
    BY <1>4, <2>1
  <2>3. runs[t] <= Num(Full(Bases, a, layer[t])) + 1
    BY <1>3, <1>9
  <2>. QED
    BY <1>3, <1>4, <2>2, <2>3
<1>. QED
  BY <1>2, <1>3, <1>6, <1>7, <1>8, <1>9

LEMMA CountStep ==
    ASSUME PInv, RunsInv, [PipelineNext]_<<vars, taskVars>>
    PROVE  RunsInv'
<1>1. /\ Len(layers) \in Nat /\ DOMAIN layers = 1 .. Len(layers) /\ Handler = Len(layers) + 1
      /\ Bases \in [1 .. Len(layers) -> Nat] /\ Len(Bases) = Len(layers)
  BY BasesFit, Layers DEF PInv, Places
<1>2. CASE UNCHANGED <<vars, taskVars>>
  <2>1. CountTypes' /\ layers' = layers
    BY <1>2 DEF RunsInv, CountTypes, taskVars
  <2>2. \A u \in Task : Counted(u)'
    BY <1>2, <2>1, OthersCounted DEF taskVars
  <2>. QED
    BY <2>1, <2>2 DEF RunsInv
<1>3. ASSUME NEW t \in Task, Execute(t) \/ Runs(t) \/ CancelTask(t)
      PROVE  RunsInv'
  <2>. DEFINE a == attempt[t]
              n == Len(layers)
  <2>1. /\ doing[t] = "running" => layer[t] = Handler
        /\ doing[t] \in {"waiting", "dropped", "asleep", "handling"} => layer[t] \in 1 .. n
        /\ layer[t] \in 0 .. Handler
        /\ doing[t] \in {"new", "waiting", "dropped", "running", "asleep", "handling", "over"}
    BY <1>1 DEF PInv, Places
  <2>2. /\ IsDigits(Bases, a, n) /\ runs[t] \in Nat
        /\ doing[t] = "new" => layer[t] = 0
        /\ doing[t] \in {"new", "asleep"} => RunsAre(t, Num(Cleared(a, layer[t])))
        /\ doing[t] \in {"waiting", "dropped"} => RunsAre(t, Num(a))
        /\ doing[t] = "running" => RunsAre(t, Num(a) + 1)
        /\ doing[t] = "handling" =>
                ~AlwaysRetried /\ runs[t] <= Num(Full(Bases, a, layer[t])) + 1
    BY DEF RunsInv, Counted, CountTypes
  <2>3. /\ Num(a) \in Nat /\ Full(Bases, a, n) = a /\ Cleared(a, n) = a
        /\ Num(a) + 1 <= MaxRuns
        /\ \A l \in 0 .. n : Num(Full(Bases, a, l)) \in Nat /\ IsDigits(Bases, Cleared(a, l), n)
        /\ \A l, m \in 0 .. n : m <= l => Num(Full(Bases, a, l)) <= Num(Full(Bases, a, m))
        /\ Num(Full(Bases, a, 0)) + 1 = MaxRuns
    BY <1>1, <2>2, FullNumbers DEF Num, MaxRuns, Bases
  <2>4. runs[t] <= MaxRuns
    BY RunsBounded
  <2>. HIDE DEF n
  <2>6. ASSUME NEW i \in 0 .. Len(layers), NEW r \in {"returned", "cancelled"},
               StopsAt(t, StopOutwards(t, i, r), r),
               doing[t] \in {"waiting", "dropped", "running", "asleep", "handling"}
        PROVE  RunsInv'
    BY <2>4, <2>6, StopsAtCounts, ErrorAssumption
  <2>7. CASE Execute(t)
    <3>1. GoIn(t, 1) /\ doing[t] = "new" /\ layer[t] = 0
      BY <2>2, <2>7 DEF Execute
    <3>2. RunsAre(t, Num(Cleared(a, 1 - 1))) /\ 1 \in 1 .. Handler
      BY <1>1, <2>2, <3>1
    <3>. QED
      BY <3>1, <3>2, GoInCounts
  <2>8. CASE RetryWakes(t)
    <3>. DEFINE i == layer[t] + 1
    <3>1. GoIn(t, i) /\ doing[t] = "asleep"
      BY <2>8 DEF RetryWakes
    <3>2. i \in 1 .. Handler /\ i - 1 = layer[t]
      BY <1>1, <2>1, <3>1 DEF n
    <3>3. RunsAre(t, Num(Cleared(a, i - 1)))
      BY <2>2, <3>1, <3>2
    <3>. QED
      BY <3>1, <3>2, <3>3, GoInCounts
  <2>9. CASE Acquired(t)
    <3>1. /\ doing[t] = "waiting" /\ Reaches(t, StopInwards(t, layer[t] + 1))
          /\ attempt' = attempt /\ layers' = layers /\ result' = result
      BY <2>9 DEF Acquired
    <3>2. attempt' = [attempt EXCEPT ![t] = a] /\ RunsAre(t, Num(a))
      BY <2>2, <3>1 DEF RunsInv, CountTypes
    <3>. QED
      BY <2>2, <3>1, <3>2, ReachesCounts DEF n
  <2>10. CASE NotAcquired(t)
    <3>1. /\ doing[t] = "waiting" /\ layer[t] - 1 \in 0 .. Len(layers)
          /\ StopsAt(t, StopOutwards(t, layer[t] - 1, "cancelled"), "cancelled")
      BY <1>1, <2>1, <2>10 DEF NotAcquired, n
    <3>. QED
      BY <2>6, <3>1
  <2>11. CASE FilterReturns(t)
    <3>1. /\ doing[t] = "dropped" /\ layer[t] - 1 \in 0 .. Len(layers)
          /\ StopsAt(t, StopOutwards(t, layer[t] - 1, "returned"), "returned")
      BY <1>1, <2>1, <2>11 DEF FilterReturns, GoOut, n
    <3>. QED
      BY <2>6, <3>1
  <2>12. CASE HandlerEnds(t)
    <3>1. PICK r \in Outcome : StopsAt(t, StopOutwards(t, Len(layers), r), r)
      BY <2>12 DEF HandlerEnds, GoOut
    <3>2. doing[t] = "running" /\ Len(layers) \in 0 .. Len(layers)
      BY <1>1, <2>12 DEF HandlerEnds
    <3>3. CASE r = "returned"
      BY <2>6, <3>1, <3>2, <3>3
    <3>4. CASE r \in Error
      <4>1. runs[t] <= Num(Full(Bases, a, Len(layers))) + 1
        BY <2>2, <2>3, <3>2 DEF RunsAre, n
      <4>2. AlwaysRetried => runs[t] = Num(a) + 1
        BY <2>2, <3>2 DEF RunsAre
      <4>. QED
        BY <3>1, <3>2, <3>4, <4>1, <4>2, StopsAtCounts
    <3>. QED
      BY <3>3, <3>4 DEF Outcome
  <2>13. CASE InterceptorEnds(t)
    <3>. DEFINE i == layer[t] - 1
    <3>1. PICK r \in Outcome : StopsAt(t, StopOutwards(t, i, r), r)
      BY <2>13 DEF InterceptorEnds, GoOut
    <3>2. doing[t] = "handling"
      BY <2>13 DEF InterceptorEnds
    <3>3. i \in 0 .. Len(layers) /\ layer[t] \in 0 .. Len(layers) /\ i <= layer[t]
      BY <1>1, <2>1, <3>2 DEF n
    <3>4. CASE r = "returned"
      BY <2>6, <3>1, <3>2, <3>3, <3>4
    <3>5. CASE r \in Error
      <4>1. /\ Num(Full(Bases, a, layer[t])) <= Num(Full(Bases, a, i))
            /\ Num(Full(Bases, a, layer[t])) \in Nat /\ Num(Full(Bases, a, i)) \in Nat
        BY <2>3, <3>3 DEF n
      <4>2. runs[t] <= Num(Full(Bases, a, i)) + 1 /\ ~AlwaysRetried
        BY <2>2, <3>2, <4>1
      <4>. QED
        BY <3>1, <3>3, <3>5, <4>2, StopsAtCounts
    <3>. QED
      BY <3>4, <3>5 DEF Outcome
  <2>14. CASE doing[t] \in {"running", "handling", "asleep"} /\ GoOut(t, layer[t] - 1, "cancelled")
    <3>1. /\ layer[t] - 1 \in 0 .. Len(layers)
          /\ StopsAt(t, StopOutwards(t, layer[t] - 1, "cancelled"), "cancelled")
      BY <1>1, <2>1, <2>14 DEF GoOut, n
    <3>. QED
      BY <2>6, <2>14, <3>1
  <2>15. CASE UNCHANGED taskVars
    <3>1. CountTypes' /\ layers' = layers
      BY <2>15 DEF RunsInv, CountTypes, taskVars
    <3>2. \A u \in Task : Counted(u)'
      BY <2>15, <3>1, OthersCounted DEF taskVars
    <3>. QED
      BY <3>1, <3>2 DEF RunsInv
  <2>. QED
    BY <1>3, <2>7, <2>8, <2>9, <2>10, <2>11, <2>12, <2>13, <2>14, <2>15 DEF Runs, CancelTask
<1>. QED
  BY <1>2, <1>3 DEF PipelineNext

LEMMA CountInitially == PipelineInit => RunsInv
<1>. SUFFICES ASSUME PipelineInit PROVE RunsInv
  OBVIOUS
<1>1. /\ Len(layers) \in Nat /\ DOMAIN layers = 1 .. Len(layers)
      /\ Bases \in [1 .. Len(layers) -> Nat] /\ Len(Bases) = Len(layers)
      /\ \A i \in 1 .. Len(layers) :
            /\ layers[i].retries \in Nat
            /\ Bases[i] = IF layers[i].is = "retry" THEN layers[i].retries + 1 ELSE 1
  BY BasesFit DEF PipelineInit
<1>2. /\ attempt = [t \in Task |-> [i \in 1 .. Len(layers) |-> 0]]
      /\ runs = [t \in Task |-> 0] /\ result = [t \in Task |-> "returned"]
      /\ \A t \in Task : doing[t] = "new" /\ layer[t] = 0
  BY <1>1 DEF PipelineInit
<1>3. CountTypes
  BY <1>1, <1>2 DEF CountTypes
<1>4. ASSUME NEW t \in Task PROVE Counted(t)
  <2>1. attempt[t] \in [1 .. Len(layers) -> Nat] /\ \A i \in 1 .. Len(layers) : attempt[t][i] = 0
    BY <1>2
  <2>2. \A i \in 1 .. Len(layers) : 0 < Bases[i]
    BY <1>1
  <2>3. IsDigits(Bases, attempt[t], Len(layers))
    BY <2>1, <2>2 DEF IsDigits
  <2>4. Num(Cleared(attempt[t], 0)) = 0
    BY <1>1, <2>3, FullNumbers DEF Num
  <2>. QED
    BY <1>2, <2>3, <2>4 DEF Counted, RunsAre
<1>. QED
  BY <1>3, <1>4 DEF RunsInv

\* Nested retries multiply, for any number of layers, whatever other middlewares stand
\* between them and whoever is cancelled: a handler is run at most as often as the product
\* of the tries of its retries, and exactly so often where every error is retried and one
\* is left (retry.py:24-33).
THEOREM NestedRetriesMultiply == PipelineSpec => []RetriesMultiply
<1>1. ASSUME PInv, RunsInv, NEW t \in Task
      PROVE  /\ runs[t] <= MaxRuns
             /\ doing[t] = "over" /\ result[t] \in Error /\ AlwaysRetried => runs[t] = MaxRuns
  <2>1. runs[t] <= MaxRuns
    BY <1>1, RunsBounded
  <2>. QED
    BY <1>1, <2>1 DEF RunsInv, Counted
<1>2. PInv /\ RunsInv => RetriesMultiply
  BY <1>1 DEF RetriesMultiply
<1>3. PInv /\ RunsInv /\ [PipelineNext]_<<vars, taskVars>> => (PInv /\ RunsInv)'
  BY PipelineStep, CountStep
<1>4. PipelineInit => PInv /\ RunsInv
  BY PipelineInitially, CountInitially
<1>. QED
  BY <1>2, <1>3, <1>4, PTL DEF PipelineSpec
================================================================================
