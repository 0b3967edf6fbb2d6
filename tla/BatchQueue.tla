------------------------------ MODULE BatchQueue ------------------------------
(***************************************************************************)
(* What a batch processor promises its callers: every item that is put in  *)
(* is handed over exactly once, in the order it came, in batches of at     *)
(* most Limit items, and no item waits for ever.                           *)
(***************************************************************************)
EXTENDS Naturals, Sequences

CONSTANTS
    Item,        \* what is put in
    Limit        \* items in one batch, at most

VARIABLES
    pending,     \* put in and not handed over
    handed       \* the batches handed over, in order

vars == <<pending, handed>>

Init == pending = << >> /\ handed = << >>

\* Items arrive while the batch has room for one more.
Put(x) ==
    /\ Len(pending) + 1 < Limit
    /\ pending' = Append(pending, x)
    /\ UNCHANGED handed

HandOver(items) ==
    /\ items # << >>
    /\ handed' = Append(handed, items)
    /\ pending' = << >>

\* The item that fills the batch takes it along.
PutLast(x) ==
    /\ Len(pending) + 1 = Limit
    /\ HandOver(Append(pending, x))

Next ==
    \/ \E x \in Item : Put(x) \/ PutLast(x)
    \/ HandOver(pending)

Spec == Init /\ [][Next]_vars /\ WF_vars(HandOver(pending))
=============================================================================
