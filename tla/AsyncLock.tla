------------------------------- MODULE AsyncLock -------------------------------
(***************************************************************************)
(* middleware/async_lock.py: handlers with the same key share an           *)
(* asyncio.Semaphore that is made by the first of them and dropped by the  *)
(* last.  The semaphore is external: the asyncio of the Python the project *)
(* requires (3.13), with its queue of futures, its handing of a permit to  *)
(* the future it wakes and its reaction to a cancelled acquire().          *)
(*                                                                         *)
(* A call goes through dispatch() once; the semaphore it made, if it made  *)
(* one, is named by the call.                                              *)
(***************************************************************************)
EXTENDS Integers, FiniteSets, Sequences

CONSTANTS
    Call,        \* the calls of dispatch()
    Key,         \* what key_extractor may return
    KeyOf,       \* KeyOf[c]: the key of a call
    Limit,       \* concurrency_limit
    None         \* no entry, no semaphore

ASSUME CallsAssumption == IsFiniteSet(Call) /\ None \notin Call
ASSUME KeysAssumption == KeyOf \in [Call -> Key]
ASSUME LimitAssumption == Limit \in Nat

VARIABLES
    entry,       \* _semaphores[k].semaphore, or None for no entry
    refCount,    \* _semaphores[k].ref_count, 0 for no entry
    value,       \* the value of each semaphore
    arrivals,    \* the calls that had to wait, in the order they came: the queue of a
                 \* semaphore is what of it still waits there
    sem,         \* the semaphore a call entered with
    pc           \* where each call is

vars == <<entry, refCount, value, arrivals, sem, pc>>

\* "woken": the future has its result, the permit is the call's.  "cancelled" and
\* "wokenCancelled": the task was cancelled before or after that and has not yet run.
PC == {"new", "waiting", "cancelled", "woken", "wokenCancelled", "inside", "over"}

TypeOK ==
    /\ entry \in [Key -> Call \cup {None}]
    /\ refCount \in [Key -> Nat]
    /\ value \in [Call -> Nat]
    /\ arrivals \in Seq(Call)
    /\ sem \in [Call -> Call \cup {None}]
    /\ pc \in [Call -> PC]

Init ==
    /\ entry = [k \in Key |-> None] /\ refCount = [k \in Key |-> 0]
    /\ value = [c \in Call |-> Limit]
    /\ arrivals = << >>
    /\ sem = [c \in Call |-> None] /\ pc = [c \in Call |-> "new"]

-----------------------------------------------------------------------------
(* asyncio.Semaphore                                                       *)

Waiting(s) == {c \in Call : sem[c] = s /\ pc[c] = "waiting"}

\* locked(): nothing free, or a future in the queue that is not cancelled.
Locked(s) ==
    \/ value[s] = 0
    \/ \E c \in Call : sem[c] = s /\ pc[c] \in {"waiting", "woken", "wokenCancelled"}

Before(c, d) ==
    \E i, j \in 1 .. Len(arrivals) : i < j /\ arrivals[i] = c /\ arrivals[j] = d

\* The calls that are woken when n permits are handed out: the first ones.
FirstWaiting(s, n) ==
    {W \in SUBSET Waiting(s) :
        /\ Cardinality(W) = IF n < Cardinality(Waiting(s)) THEN n
                                                           ELSE Cardinality(Waiting(s))
        /\ \A c \in W, d \in Waiting(s) \ W : Before(c, d)}

\* Semaphore s has v permits and hands out up to n of them, while c goes on to p.
HandOut(s, v, n, c, p) ==
    \E W \in FirstWaiting(s, n) :
        /\ value' = [value EXCEPT ![s] = v - Cardinality(W)]
        /\ pc' = [d \in Call |-> IF d = c THEN p ELSE IF d \in W THEN "woken" ELSE pc[d]]

-----------------------------------------------------------------------------
(* AsyncLock.dispatch                                                      *)

\* The entry is found or made, and counted, before the first await.
EntryOf(c) == IF entry[KeyOf[c]] = None THEN c ELSE entry[KeyOf[c]]

\* mutant: ref_count = 1 instead of += 1.
RegisterOnce(c) ==
    /\ entry' = [entry EXCEPT ![KeyOf[c]] = EntryOf(c)]
    /\ refCount' = [refCount EXCEPT ![KeyOf[c]] = 1]
    /\ sem' = [sem EXCEPT ![c] = EntryOf(c)]

Register(c) ==
    /\ entry' = [entry EXCEPT ![KeyOf[c]] = EntryOf(c)]
    /\ refCount' = [refCount EXCEPT ![KeyOf[c]] = @ + 1]
    /\ sem' = [sem EXCEPT ![c] = EntryOf(c)]

\* mutant: the entry is dropped by whoever leaves.
UnregisterAll(c) ==
    /\ refCount' = [refCount EXCEPT ![KeyOf[c]] = 0]
    /\ entry' = [entry EXCEPT ![KeyOf[c]] = None]
    /\ UNCHANGED sem

\* The finally: the last user removes the entry.
Unregister(c) ==
    /\ refCount' = [refCount EXCEPT ![KeyOf[c]] = @ - 1]
    /\ entry' = IF refCount[KeyOf[c]] = 1 THEN [entry EXCEPT ![KeyOf[c]] = None]
                                          ELSE entry
    /\ UNCHANGED sem

Enter(c) ==
    /\ pc[c] = "new" /\ ~Locked(EntryOf(c))
    /\ Register(c)
    /\ value' = [value EXCEPT ![EntryOf(c)] = @ - 1]
    /\ pc' = [pc EXCEPT ![c] = "inside"]
    /\ UNCHANGED arrivals

EnterAndWait(c) ==
    /\ pc[c] = "new" /\ Locked(EntryOf(c))
    /\ Register(c)
    /\ arrivals' = Append(arrivals, c)
    /\ pc' = [pc EXCEPT ![c] = "waiting"]
    /\ UNCHANGED value

\* acquire() returns and hands on what was released while others had to queue.
Resume(c) ==
    /\ pc[c] = "woken"
    /\ HandOut(sem[c], value[sem[c]], value[sem[c]], c, "inside")
    /\ UNCHANGED <<entry, refCount, arrivals, sem>>

\* mutant: acquire() and release() instead of async with, and the handler raises.
LeaveUnreleased(c) ==
    /\ pc[c] = "inside"
    /\ pc' = [pc EXCEPT ![c] = "over"]
    /\ Unregister(c)
    /\ UNCHANGED <<value, arrivals>>

\* mutant: the count is given back outside the finally, so not by a cancelled call.
UnwindUncounted(c) ==
    LET v == value[sem[c]] + (IF pc[c] = "wokenCancelled" THEN 1 ELSE 0) IN
    /\ pc[c] \in {"cancelled", "wokenCancelled"}
    /\ HandOut(sem[c], v, v, c, "over")
    /\ UNCHANGED <<entry, refCount, sem, arrivals>>

\* call_next() returns, raises or is cancelled: __aexit__ releases, then the finally.
Leave(c) ==
    /\ pc[c] = "inside"
    /\ HandOut(sem[c], value[sem[c]] + 1, 1, c, "over")
    /\ Unregister(c)
    /\ UNCHANGED arrivals

\* The task is cancelled while it awaits the future.
Cancel(c) ==
    /\ pc[c] \in {"waiting", "woken"}
    /\ pc' = [pc EXCEPT ![c] = IF @ = "waiting" THEN "cancelled" ELSE "wokenCancelled"]
    /\ UNCHANGED <<entry, refCount, value, arrivals, sem>>

\* acquire() raises CancelledError; the permit of a future that was woken is returned.
Unwind(c) ==
    LET v == value[sem[c]] + (IF pc[c] = "wokenCancelled" THEN 1 ELSE 0) IN
    /\ pc[c] \in {"cancelled", "wokenCancelled"}
    /\ HandOut(sem[c], v, v, c, "over")
    /\ Unregister(c)
    /\ UNCHANGED arrivals

Next == \E c \in Call :
    Enter(c) \/ EnterAndWait(c) \/ Resume(c) \/ Leave(c) \/ Cancel(c) \/ Unwind(c)

Spec == Init /\ [][Next]_vars

-----------------------------------------------------------------------------
(* Properties.                                                             *)

Inside(k) == {c \in Call : KeyOf[c] = k /\ pc[c] = "inside"}

Registered(c) == pc[c] \notin {"new", "over"}

\* At no time do more calls with one key run than the lock allows, whether its entry
\* was made once or dropped and made again (async_lock.py:28-34).
MutualExclusion == \A k \in Key : Cardinality(Inside(k)) <= Limit

\* There is an entry exactly while some call uses it, and all of them use this one: a
\* key that is no longer used takes no memory, and nobody waits on a semaphore that
\* newcomers do not see (async_lock.py:36-40).
EntriesAreShared ==
    /\ \A k \in Key : entry[k] # None => \E c \in Call : Registered(c) /\ KeyOf[c] = k
    /\ \A c \in Call : Registered(c) => entry[KeyOf[c]] = sem[c]

================================================================================
