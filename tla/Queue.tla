-------------------------------- MODULE Queue --------------------------------
(***************************************************************************)
(* queue_t of libs/queue.c: a ring buffer shared by threads, protected by  *)
(* a mutex, with one condition variable for poppers (push_signal) and one  *)
(* for pushers (pop_signal), and a destructor that runs while callers may  *)
(* still be inside.                                                        *)
(*                                                                         *)
(* A call is split where another thread can come in between: the unlocked  *)
(* test of alive, the locked section up to the unlock (pthread_cond_wait   *)
(* releases the mutex as it goes to sleep), the unlock, and the signal,    *)
(* which unlock_signal of libs/lock.h sends after the unlock.              *)
(***************************************************************************)
EXTENDS Ring, FiniteSets

CONSTANTS
  Poppers,    (* threads that call pop()                    *)
  Pushers,    (* threads that call push()                   *)
  Items,      (* the pointers they push                     *)
  NoThread    (* the mutex is free                          *)

Threads == Poppers \cup Pushers

ASSUME QueueAssumption ==
  /\ IsFiniteSet(Threads)
  /\ NoThread \notin Threads
  /\ NULL \notin Items

VARIABLES
  ring,       (* head, tail and array                                        *)
  alive,      (* queue_t.alive                                               *)
  pending,    (* queue_t.pending, callers inside the locked section or       *)
              (* asleep in it                                                *)
  lock,       (* the thread that holds the mutex across steps                *)
  pc,         (* where each thread is                                        *)
  arg,        (* the item each thread is pushing, NULL when it is not        *)
  got,        (* what the last pop() of each thread returned                 *)
  destroyer,  (* where queue_destroy is: "none", "drain", "free"             *)
  freed       (* the queue was freed                                         *)

vars == <<ring, alive, pending, lock, pc, arg, got, destroyer, freed>>

PC == {"idle", "pop_lock", "pop_wait", "pop_woken", "pop_unlock", "pop_signal",
       "push_lock", "push_wait", "push_woken", "push_unlock", "push_signal",
       "quit", "fault"}

(* queue_create *)
Init == /\ ring = NewRing
        /\ alive = TRUE
        /\ pending = 0
        /\ lock = NoThread
        /\ pc = [t \in Threads |-> "idle"]
        /\ arg = [t \in Threads |-> NULL]
        /\ got = [t \in Threads |-> NULL]
        /\ destroyer = "none"
        /\ freed = FALSE

Goto(t, to) == pc' = [pc EXCEPT ![t] = to]

-----------------------------------------------------------------------------
(* pop() *)

(* The first line of pop(), which reads alive without the lock.  Callers    *)
(* do not start a call on a queue that is gone: queue_destroy has set their *)
(* pointer to NULL.                                                         *)
PopCall(t) ==
  /\ pc[t] = "idle" /\ ~freed
  /\ \/ alive /\ Goto(t, "pop_lock") /\ UNCHANGED got
     \/ ~alive /\ got' = [got EXCEPT ![t] = NULL] /\ UNCHANGED pc
  /\ UNCHANGED <<ring, alive, pending, lock, arg, destroyer, freed>>

(* The loop of pop() with n callers inside, this one counted: go to sleep  *)
(* on push_signal, or take the oldest item and stop counting the caller.   *)
TakeOrWait(t, n) ==
  \/ /\ PopBlocked(ring)
     /\ pending' = n
     /\ Goto(t, "pop_wait")
     /\ UNCHANGED <<ring, lock, got>>
  \/ /\ ~PopBlocked(ring)
     /\ got' = [got EXCEPT ![t] = Front(ring)]
     /\ ring' = AfterPop(ring)
     /\ pending' = n - 1
     /\ lock' = t
     /\ Goto(t, "pop_unlock")

PopEnter(t) ==
  /\ pc[t] = "pop_lock" /\ lock = NoThread /\ ~freed
  /\ TakeOrWait(t, pending + 1)
  /\ UNCHANGED <<alive, arg, destroyer, freed>>

(* Mutant: pop() that gives up does not stop counting itself. *)
PopResumeStillPending(t) ==
  /\ pc[t] = "pop_woken" /\ lock = NoThread /\ ~freed
  /\ \/ alive /\ TakeOrWait(t, pending)
     \/ ~alive /\ lock' = t /\ Goto(t, "quit") /\ UNCHANGED <<ring, got, pending>>
  /\ UNCHANGED <<alive, arg, destroyer, freed>>

(* Back from pthread_cond_wait with the mutex held again. *)
PopResume(t) ==
  /\ pc[t] = "pop_woken" /\ lock = NoThread /\ ~freed
  /\ \/ alive /\ TakeOrWait(t, pending)
     \/ /\ ~alive
        /\ got' = [got EXCEPT ![t] = NULL]
        /\ pending' = pending - 1
        /\ lock' = t
        /\ Goto(t, "quit")
        /\ UNCHANGED ring
  /\ UNCHANGED <<alive, arg, destroyer, freed>>

-----------------------------------------------------------------------------
(* push() *)

PushCall(t) ==
  /\ pc[t] = "idle" /\ ~freed /\ alive
  /\ \E d \in Items : arg' = [arg EXCEPT ![t] = d]
  /\ Goto(t, "push_lock")
  /\ UNCHANGED <<ring, alive, pending, lock, got, destroyer, freed>>

(* push() on a queue that is being destroyed returns without a word, so the *)
(* call leaves no trace and needs no action.                                *)

PutOrWait(t, n) ==
  \/ /\ PushBlocked(ring)
     /\ pending' = n
     /\ Goto(t, "push_wait")
     /\ UNCHANGED <<ring, arg, lock>>
  \/ /\ ~PushBlocked(ring)
     /\ ring' = AfterPush(ring, arg[t])
     /\ arg' = [arg EXCEPT ![t] = NULL]
     /\ pending' = n - 1
     /\ lock' = t
     /\ Goto(t, "push_unlock")

PushEnter(t) ==
  /\ pc[t] = "push_lock" /\ lock = NoThread /\ ~freed
  /\ PutOrWait(t, pending + 1)
  /\ UNCHANGED <<alive, got, destroyer, freed>>

PushResume(t) ==
  /\ pc[t] = "push_woken" /\ lock = NoThread /\ ~freed
  /\ \/ alive /\ PutOrWait(t, pending)
     \/ /\ ~alive
        /\ arg' = [arg EXCEPT ![t] = NULL]
        /\ pending' = pending - 1
        /\ lock' = t
        /\ Goto(t, "quit")
        /\ UNCHANGED ring
  /\ UNCHANGED <<alive, got, destroyer, freed>>

-----------------------------------------------------------------------------
(* Unlock, signal and wake-ups. *)

Unlock(t) ==
  /\ lock = t /\ ~freed
  /\ \/ pc[t] = "pop_unlock"  /\ Goto(t, "pop_signal")
     \/ pc[t] = "push_unlock" /\ Goto(t, "push_signal")
     \/ pc[t] = "quit"        /\ Goto(t, "idle")
  /\ lock' = NoThread
  /\ UNCHANGED <<ring, alive, pending, arg, got, destroyer, freed>>

(* The second half of unlock_signal: pthread_cond_signal wakes one sleeper, *)
(* if there is one, and the call returns.                                   *)
SignalOne(t, asleep, woken) ==
  /\ ~freed
  /\ \/ \E w \in Threads : /\ pc[w] = asleep
                           /\ pc' = [pc EXCEPT ![t] = "idle", ![w] = woken]
     \/ (\A w \in Threads : pc[w] # asleep) /\ Goto(t, "idle")
  /\ UNCHANGED <<ring, alive, pending, lock, arg, got, destroyer, freed>>

(* Mutant: push() signals the condition that pushers wait for. *)
PushSignalWrongCondition(t) ==
  pc[t] = "push_signal" /\ SignalOne(t, "push_wait", "push_woken")

PopSignal(t)  == pc[t] = "pop_signal"  /\ SignalOne(t, "push_wait", "push_woken")
PushSignal(t) == pc[t] = "push_signal" /\ SignalOne(t, "pop_wait", "pop_woken")

Awake(p) == CASE p = "pop_wait"  -> "pop_woken"
              [] p = "push_wait" -> "push_woken"
              [] OTHER           -> p

(* POSIX lets pthread_cond_wait return when nobody signalled. *)
SpuriousWakeup(t) ==
  /\ pc[t] \in {"pop_wait", "push_wait"} /\ ~freed
  /\ Goto(t, Awake(pc[t]))
  /\ UNCHANGED <<ring, alive, pending, lock, arg, got, destroyer, freed>>

-----------------------------------------------------------------------------
(* queue_destroy, run by a thread that is not itself inside the queue. *)

DestroyBegin ==
  /\ destroyer = "none"
  /\ alive' = FALSE
  /\ destroyer' = "drain"
  /\ UNCHANGED <<ring, pending, lock, pc, arg, got, freed>>

(* Mutant: only one of the two conditions is broadcast. *)
DestroyDrainPoppers ==
  /\ destroyer = "drain" /\ pending > 0
  /\ pc' = [t \in Threads |-> IF pc[t] = "pop_wait" THEN "pop_woken" ELSE pc[t]]
  /\ UNCHANGED <<ring, alive, pending, lock, arg, got, destroyer, freed>>

(* pending is read without the lock; while it is not 0 both conditions are  *)
(* broadcast, over and over, 100 microseconds apart.                        *)
DestroyDrain ==
  /\ destroyer = "drain" /\ pending > 0
  /\ pc' = [t \in Threads |-> Awake(pc[t])]
  /\ UNCHANGED <<ring, alive, pending, lock, arg, got, destroyer, freed>>

DestroyDrained ==
  /\ destroyer = "drain" /\ pending = 0
  /\ destroyer' = "free"
  /\ UNCHANGED <<ring, alive, pending, lock, pc, arg, got, freed>>

DestroyFree ==
  /\ destroyer = "free" /\ ~freed
  /\ freed' = TRUE
  /\ UNCHANGED <<ring, alive, pending, lock, pc, arg, got, destroyer>>

(* A caller that was past the test of alive, or had yet to unlock or signal, *)
(* now touches freed memory.  What follows is undefined, and the thread is   *)
(* followed no further.                                                      *)
UseAfterFree(t) ==
  /\ freed /\ pc[t] \notin {"idle", "pop_wait", "push_wait", "fault"}
  /\ Goto(t, "fault")
  /\ UNCHANGED <<ring, alive, pending, lock, arg, got, destroyer, freed>>

-----------------------------------------------------------------------------
Pop(t)  == PopCall(t)  \/ PopEnter(t)  \/ PopResume(t)
Push(t) == PushCall(t) \/ PushEnter(t) \/ PushResume(t)

(* What a thread does once inside a call, and so does in the end. *)
Finish(t) == PopEnter(t) \/ PopResume(t) \/ PushEnter(t) \/ PushResume(t)
               \/ Unlock(t) \/ PopSignal(t) \/ PushSignal(t)

Destroy == DestroyBegin \/ DestroyDrain \/ DestroyDrained \/ DestroyFree

Next == \/ \E t \in Poppers : Pop(t)
        \/ \E t \in Pushers : Push(t)
        \/ \E t \in Threads : \/ Unlock(t) \/ PopSignal(t) \/ PushSignal(t)
                              \/ SpuriousWakeup(t) \/ UseAfterFree(t)
        \/ Destroy

Spec == Init /\ [][Next]_vars

(* The scheduler runs every thread that is inside a call, poppers call pop()*)
(* again (thread_entry and the session task are loops around pop) and the   *)
(* loop of queue_destroy turns; nobody is obliged to push or to destroy.    *)
FairSpec == /\ Spec
            /\ \A t \in Threads : WF_vars(Finish(t))
            /\ \A t \in Poppers : WF_vars(PopCall(t))
            /\ WF_vars(DestroyDrain \/ DestroyDrained \/ DestroyFree)

-----------------------------------------------------------------------------
(* Properties *)

(* The values every variable takes. *)
TypeOK ==
  /\ RingType(ring, Items)
  /\ alive \in BOOLEAN
  /\ pending \in Nat
  /\ lock \in Threads \cup {NoThread}
  /\ pc \in [Threads -> PC]
  /\ arg \in [Threads -> Items \cup {NULL}]
  /\ got \in [Threads -> Items \cup {NULL}]
  /\ destroyer \in {"none", "drain", "free"}
  /\ freed \in BOOLEAN

At(S) == {t \in Threads : pc[t] \in S}

(* Inside pthread_cond_wait; awake, or about to wake someone, to take an    *)
(* item; the same for putting one.                                          *)
Asleep     == {"pop_wait", "pop_woken", "push_wait", "push_woken"}
TakersDue  == {"pop_woken", "push_unlock", "push_signal"}
PuttersDue == {"push_woken", "pop_unlock", "pop_signal"}

(* Between calls to pthread_cond_signal that come after the unlock, and     *)
(* poppers that arrive and take an item another was woken for, no wake-up   *)
(* is lost: while somebody sleeps on a condition, each item (each free      *)
(* slot) has a thread that is awake, or about to be woken, to take it.      *)
NoLostWakeup ==
  alive =>
    /\ At({"pop_wait"}) # {} =>
         Count(ring) <= Cardinality(At(TakersDue))
    /\ At({"push_wait"}) # {} =>
         Size - Count(ring) <= Cardinality(At(PuttersDue))

(* queue_destroy decides by pending alone that nobody sleeps in the queue:  *)
(* the counter is the number of callers in pthread_cond_wait, on every path *)
(* out of push() and pop(), those that give up included, until the queue    *)
(* is freed.                                                                *)
PendingIsSleepers ==
  ~freed => pending = Cardinality(At(Asleep))

(* The queue implements the bounded FIFO: whatever the interleaving, and    *)
(* while it is being destroyed, what pop() hands out is what was pushed, in *)
(* order, once, and a pop is refused only after queue_destroy has begun.    *)
Fifo == INSTANCE BoundedFifo WITH
          Capacity <- Size, Takers <- Threads,
          items <- Contents(ring), open <- alive

ImplementsFifo == Fifo!Spec

(* The broadcasts of queue_destroy reach every sleeper, those that went to  *)
(* sleep after it began included, so that the destructor returns.           *)
DestroyReturns == (destroyer = "drain") ~> freed

(* While poppers keep calling, an item does not stay in the queue for ever. *)
ItemsAreTaken == (alive /\ ~PopBlocked(ring)) ~> (~alive \/ At({"pop_unlock"}) # {})
=============================================================================
