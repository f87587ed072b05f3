-------------------------------- MODULE Ring --------------------------------
(***************************************************************************)
(* The circular array inside queue_t (libs/queue.c), without the mutex,    *)
(* the condition variables and the life-cycle flags: what pop(), push()    *)
(* and empty() compute from head, tail and array once they hold the lock.  *)
(* Every module that holds a queue_t keeps one of these records.           *)
(*                                                                         *)
(* The code tells a full ring from an empty one, both with head = tail,    *)
(* by whether array[head] is NULL.  pop() and push() look at that slot;    *)
(* empty() does not.                                                       *)
(***************************************************************************)
EXTENDS Integers, Sequences

CONSTANTS
  Size,   (* queue_t.size, the number of slots              *)
  NULL    (* the null pointer: an unused slot, no item      *)

ASSUME RingAssumption == Size \in Nat \ {0}

Slots == 0 .. Size - 1

(* queue_create: calloc leaves head = tail = 0 and every slot NULL. *)
NewRing == [head |-> 0, tail |-> 0, array |-> [i \in Slots |-> NULL]]

(* Mutant: > for >=, the wrap comes one slot late. *)
AdvanceLate(i) == IF i + 1 > Size THEN 0 ELSE i + 1

(* head++ and tail++ with the wrap that follows them. *)
Advance(i) == IF i + 1 >= Size THEN 0 ELSE i + 1

(* empty() *)
IsEmpty(q) == q.head = q.tail

(* The conditions of the waiting loops of pop() and push(). *)
PopBlocked(q)  == q.head = q.tail /\ q.array[q.head] = NULL
PushBlocked(q) == q.tail = q.head /\ q.array[q.tail] # NULL

(* Mutant: pop() does not clear the slot it empties. *)
AfterPopKeepsSlot(q) == [q EXCEPT !.head = Advance(@)]

(* What pop() returns, and the ring that pop() and push() leave behind. *)
Front(q)        == q.array[q.head]
AfterPop(q)     == [head  |-> Advance(q.head),
                    tail  |-> q.tail,
                    array |-> [q.array EXCEPT ![q.head] = NULL]]
AfterPush(q, d) == [head  |-> q.head,
                    tail  |-> Advance(q.tail),
                    array |-> [q.array EXCEPT ![q.tail] = d]]

-----------------------------------------------------------------------------
(* The abstraction function: the items in the ring, oldest first. *)

Count(q) == IF q.head < q.tail THEN q.tail - q.head
            ELSE IF q.head > q.tail THEN Size - q.head + q.tail
            ELSE IF q.array[q.head] = NULL THEN 0 ELSE Size

(* The slot that holds the k-th oldest item. *)
SlotOf(q, k) == IF q.head + k - 1 >= Size THEN q.head + k - 1 - Size
                                          ELSE q.head + k - 1

Contents(q) == [k \in 1 .. Count(q) |-> q.array[SlotOf(q, k)]]

-----------------------------------------------------------------------------
(* What holds of a ring into which only non-NULL items are pushed. *)

RingType(q, S) == q \in [head : Slots, tail : Slots, array : [Slots -> S \cup {NULL}]]

(* The slots from head up to tail are in use and no other slot is. *)
InUse(q, i) == IF q.head < q.tail THEN q.head <= i /\ i < q.tail
               ELSE IF q.head > q.tail THEN i >= q.head \/ i < q.tail
               ELSE q.array[q.head] # NULL

WellFormed(q) == \A i \in Slots : q.array[i] # NULL <=> InUse(q, i)
=============================================================================
