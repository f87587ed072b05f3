----------------------------- MODULE BoundedFifo -----------------------------
(***************************************************************************)
(* What queue_t promises its callers: a bounded first-in first-out queue   *)
(* that any number of threads use at once and that one of them may close.  *)
(* A closed queue may answer a caller with NULL instead of an item; it     *)
(* still never loses, duplicates or reorders what it holds.                *)
(***************************************************************************)
EXTENDS Integers, Sequences

CONSTANTS
  Capacity,   (* the most items the queue holds                     *)
  Items,      (* what callers push                                  *)
  Takers,     (* the threads that pop                               *)
  NULL        (* what a pop on a closed queue returns               *)

VARIABLES
  items,      (* the queue, oldest item first                       *)
  got,        (* what the last pop of each taker returned           *)
  open        (* FALSE once the queue was closed                    *)

vars == <<items, got, open>>

Init == /\ items = <<>>
        /\ got = [t \in Takers |-> NULL]
        /\ open = TRUE

Put(d) == /\ Len(items) < Capacity
          /\ items' = Append(items, d)
          /\ UNCHANGED <<got, open>>

Take(t) == /\ items # <<>>
           /\ got' = [got EXCEPT ![t] = Head(items)]
           /\ items' = Tail(items)
           /\ UNCHANGED open

Refuse(t) == /\ ~open
             /\ got' = [got EXCEPT ![t] = NULL]
             /\ UNCHANGED <<items, open>>

Close == /\ open
         /\ open' = FALSE
         /\ UNCHANGED <<items, got>>

Next == \/ \E d \in Items : Put(d)
        \/ \E t \in Takers : Take(t) \/ Refuse(t)
        \/ Close

Spec == Init /\ [][Next]_vars
=============================================================================
