--------------------------- MODULE QueueTheorems ---------------------------
(***************************************************************************)
(* Proofs about queue_t for every size, every set of items and every       *)
(* finite set of threads: the type invariant, that no wake-up is lost,     *)
(* that pending counts the sleepers, and that the queue implements the     *)
(* bounded FIFO of BoundedFifo.                                            *)
(***************************************************************************)
EXTENDS Queue, RingTheorems, FiniteSetTheorems

(* A thread on its way into the ring holds the item it is going to push. *)
ArgHeld == \A t \in Threads :
             pc[t] \in {"push_lock", "push_wait", "push_woken"} => arg[t] \in Items

(* alive is cleared first thing by queue_destroy and by nobody else. *)
DestroyerState == /\ alive <=> destroyer = "none"
                  /\ freed => ~alive

(* The inductive invariant.  pending \in Nat (part of TypeOK) holds because *)
(* pending is a number of threads; the waiting conditions say "empty" and   *)
(* "full" because the ring is well formed; and it is well formed because no *)
(* thread pushes NULL.                                                      *)
IInv == /\ TypeOK
        /\ WellFormed(ring)
        /\ ArgHeld
        /\ DestroyerState
        /\ PendingIsSleepers
        /\ NoLostWakeup

-----------------------------------------------------------------------------
(* Counting threads *)

(* Every set of threads is finite. *)
LEMMA AtFinite ==
  ASSUME NEW S
  PROVE  IsFiniteSet(At(S)) /\ Cardinality(At(S)) \in Nat
<1>1. At(S) \in SUBSET Threads
  BY DEF At
<1>. QED BY <1>1, QueueAssumption, FS_Subset, FS_CardinalityType

(* What one thread's move does to the number of threads in a set of places. *)
LEMMA OneMoves ==
  ASSUME NEW S, NEW t \in Threads, NEW p, pc \in [Threads -> PC], Goto(t, p)
  PROVE  Cardinality(At(S)') =
           Cardinality(At(S)) + (IF p \in S THEN 1 ELSE 0) - (IF pc[t] \in S THEN 1 ELSE 0)
<1>1. IsFiniteSet(At(S)) /\ Cardinality(At(S)) \in Nat
  BY AtFinite
<1>2. t \in At(S) <=> pc[t] \in S
  BY DEF At
<1>3. CASE p \in S
  <2>1. At(S)' = At(S) \cup {t}
    BY <1>3 DEF At, Goto
  <2>2. Cardinality(At(S) \cup {t}) =
          IF pc[t] \in S THEN Cardinality(At(S)) ELSE Cardinality(At(S)) + 1
    BY <1>1, <1>2, FS_AddElement
  <2>. QED BY <1>1, <1>3, <2>1, <2>2
<1>4. CASE p \notin S
  <2>1. At(S)' = At(S) \ {t}
    BY <1>4 DEF At, Goto
  <2>2. Cardinality(At(S) \ {t}) =
          IF pc[t] \in S THEN Cardinality(At(S)) - 1 ELSE Cardinality(At(S))
    BY <1>1, <1>2, FS_RemoveElement
  <2>. QED BY <1>1, <1>4, <2>1, <2>2
<1>. QED BY <1>3, <1>4

(* What a signal does: thread t is done and sleeper w is woken. *)
LEMMA TwoMove ==
  ASSUME NEW S, NEW t \in Threads, NEW w \in Threads, NEW p, NEW r, t # w,
         pc \in [Threads -> PC], pc' = [pc EXCEPT ![t] = p, ![w] = r]
  PROVE  Cardinality(At(S)') =
           Cardinality(At(S)) + (IF p \in S THEN 1 ELSE 0) - (IF pc[t] \in S THEN 1 ELSE 0)
             + (IF r \in S THEN 1 ELSE 0) - (IF pc[w] \in S THEN 1 ELSE 0)
<1>. DEFINE A == IF p \in S THEN At(S) \cup {t} ELSE At(S) \ {t}
            B == IF r \in S THEN A \cup {w} ELSE A \ {w}
<1>1. IsFiniteSet(At(S)) /\ Cardinality(At(S)) \in Nat
  BY AtFinite
<1>2. /\ IsFiniteSet(A)
      /\ Cardinality(A) = Cardinality(At(S)) + (IF p \in S THEN 1 ELSE 0) - (IF pc[t] \in S THEN 1 ELSE 0)
  <2>1. t \in At(S) <=> pc[t] \in S
    BY DEF At
  <2>2. /\ IsFiniteSet(At(S) \cup {t})
        /\ Cardinality(At(S) \cup {t}) =
             IF pc[t] \in S THEN Cardinality(At(S)) ELSE Cardinality(At(S)) + 1
    BY <1>1, <2>1, FS_AddElement
  <2>3. /\ IsFiniteSet(At(S) \ {t})
        /\ Cardinality(At(S) \ {t}) =
             IF pc[t] \in S THEN Cardinality(At(S)) - 1 ELSE Cardinality(At(S))
    BY <1>1, <2>1, FS_RemoveElement
  <2>4. CASE p \in S
    BY <2>2, <2>4, <1>1
  <2>5. CASE p \notin S
    BY <2>3, <2>5, <1>1
  <2>. QED BY <2>4, <2>5
<1>3. w \in A <=> pc[w] \in S
  BY DEF At
<1>4. At(S)' = B
  <2>1. pc'[t] = p /\ pc'[w] = r /\ \A u \in Threads : u # t /\ u # w => pc'[u] = pc[u]
    OBVIOUS
  <2>. QED BY <2>1 DEF At
<1>5. Cardinality(B) = Cardinality(A) + (IF r \in S THEN 1 ELSE 0) - (IF pc[w] \in S THEN 1 ELSE 0)
  <2>1. Cardinality(A) \in Nat
    BY <1>2, FS_CardinalityType
  <2>. HIDE DEF A
  <2>2. Cardinality(A \cup {w}) = IF pc[w] \in S THEN Cardinality(A) ELSE Cardinality(A) + 1
    BY <1>2, <1>3, FS_AddElement
  <2>3. Cardinality(A \ {w}) = IF pc[w] \in S THEN Cardinality(A) - 1 ELSE Cardinality(A)
    BY <1>2, <1>3, FS_RemoveElement
  <2>4. CASE r \in S
    BY <2>1, <2>2, <2>4
  <2>5. CASE r \notin S
    BY <2>1, <2>3, <2>5
  <2>. QED BY <2>4, <2>5
<1>6. Cardinality(A) \in Int
  BY <1>2, FS_CardinalityType
<1>. HIDE DEF A, B
<1>. QED BY <1>1, <1>2, <1>4, <1>5, <1>6

(* A set of places nobody is in has no threads, and conversely. *)
LEMMA SomeoneAt ==
  ASSUME NEW S, NEW t \in Threads, pc[t] \in S
  PROVE  Cardinality(At(S)) >= 1
<1>1. t \in At(S)
  BY DEF At
<1>2. Cardinality(At(S)) # 0
  BY <1>1, AtFinite, FS_EmptySet
<1>. QED BY <1>2, AtFinite

(* The same for the three sets of places the invariants count. *)
LEMMA Counts ==
  ASSUME NEW t \in Threads, NEW p, TypeOK, Goto(t, p)
  PROVE  /\ Cardinality(At(Asleep))' = Cardinality(At(Asleep))
              + (IF p \in Asleep THEN 1 ELSE 0) - (IF pc[t] \in Asleep THEN 1 ELSE 0)
         /\ Cardinality(At(TakersDue))' = Cardinality(At(TakersDue))
              + (IF p \in TakersDue THEN 1 ELSE 0) - (IF pc[t] \in TakersDue THEN 1 ELSE 0)
         /\ Cardinality(At(PuttersDue))' = Cardinality(At(PuttersDue))
              + (IF p \in PuttersDue THEN 1 ELSE 0) - (IF pc[t] \in PuttersDue THEN 1 ELSE 0)
         /\ At({"pop_wait"})' # {} => (At({"pop_wait"}) # {} \/ p = "pop_wait")
         /\ At({"push_wait"})' # {} => (At({"push_wait"}) # {} \/ p = "push_wait")
<1>1. pc \in [Threads -> PC]
  BY DEF TypeOK
<1>2. /\ At({"pop_wait"})' # {} => (At({"pop_wait"}) # {} \/ p = "pop_wait")
      /\ At({"push_wait"})' # {} => (At({"push_wait"}) # {} \/ p = "push_wait")
  BY <1>1 DEF At, Goto
<1>3. ASSUME NEW S
      PROVE  Cardinality(At(S)') =
               Cardinality(At(S)) + (IF p \in S THEN 1 ELSE 0) - (IF pc[t] \in S THEN 1 ELSE 0)
  BY <1>1, OneMoves
<1>. QED BY <1>2, <1>3

(* The numbers the invariants compare. *)
LEMMA Numbers ==
  ASSUME TypeOK, WellFormed(ring)
  PROVE  /\ Cardinality(At(Asleep)) \in Nat
         /\ Cardinality(At(TakersDue)) \in Nat
         /\ Cardinality(At(PuttersDue)) \in Nat
         /\ Count(ring) \in Nat /\ Size \in Nat
         /\ PopBlocked(ring) <=> Count(ring) = 0
         /\ PushBlocked(ring) <=> Count(ring) = Size
<1>1. RingType(ring, Items)
  BY DEF TypeOK
<1>. QED BY <1>1, AtFinite, CountProperties, RingAssumption

-----------------------------------------------------------------------------
(* The inductive invariant *)

LEMMA InitIInv == Init => IInv
<1>. SUFFICES ASSUME Init PROVE IInv
  OBVIOUS
<1>1. RingType(ring, Items) /\ WellFormed(ring) /\ Count(ring) = 0
  BY NewRingWellFormed DEF Init
<1>2. At(Asleep) = {} /\ At({"pop_wait"}) = {} /\ At({"push_wait"}) = {}
  BY DEF Init, At, Asleep
<1>3. TypeOK
  BY <1>1, RingAssumption DEF Init, TypeOK, PC
<1>4. PendingIsSleepers
  BY <1>2, FS_EmptySet DEF Init, PendingIsSleepers
<1>5. NoLostWakeup
  BY <1>2 DEF NoLostWakeup
<1>6. ArgHeld /\ DestroyerState
  BY DEF Init, ArgHeld, DestroyerState
<1>. QED BY <1>1, <1>3, <1>4, <1>5, <1>6 DEF IInv

(* A pop that finds an item, whoever makes it. *)
LEMMA TakeOrWaitInv ==
  ASSUME IInv, NEW t \in Threads, NEW n \in Nat,
         \/ pc[t] = "pop_lock"  /\ n = pending + 1
         \/ pc[t] = "pop_woken" /\ n = pending,
         ~freed, TakeOrWait(t, n), UNCHANGED <<alive, arg, destroyer, freed>>
  PROVE  IInv'
<1>. USE DEF IInv
<1>1. /\ Cardinality(At(Asleep)) \in Nat /\ Cardinality(At(TakersDue)) \in Nat
      /\ Cardinality(At(PuttersDue)) \in Nat /\ Count(ring) \in Nat /\ Size \in Nat
      /\ PopBlocked(ring) <=> Count(ring) = 0
      /\ pending = Cardinality(At(Asleep))
  BY Numbers DEF PendingIsSleepers
<1>2. CASE PopBlocked(ring)
  <2>1. Goto(t, "pop_wait") /\ pending' = n /\ UNCHANGED <<ring, lock, got>>
    BY <1>2 DEF TakeOrWait
  <2>2. TypeOK'
    BY <2>1 DEF TypeOK, Goto, PC
  <2>3. ArgHeld'
    BY <2>1 DEF ArgHeld, Goto, TypeOK
  <2>4. PendingIsSleepers'
    BY <1>1, <2>1, Counts DEF PendingIsSleepers, Asleep
  <2>5. NoLostWakeup'
    <3>1. Cardinality(At(TakersDue))' \in Nat
      <4>1. At(TakersDue)' \in SUBSET Threads
        BY DEF At
      <4>. QED BY <4>1, QueueAssumption, FS_Subset, FS_CardinalityType
    <3>2. Cardinality(At(PuttersDue))' = Cardinality(At(PuttersDue)) - (IF pc[t] \in PuttersDue THEN 1 ELSE 0)
      BY <1>1, <2>1, Counts DEF PuttersDue
    <3>3. At({"push_wait"})' # {} => At({"push_wait"}) # {}
      BY <2>1, Counts
    <3>4. pc[t] \notin PuttersDue /\ Count(ring') = Count(ring)
      BY <2>1 DEF PuttersDue
    <3>. QED BY <1>1, <1>2, <2>1, <3>1, <3>2, <3>3, <3>4 DEF NoLostWakeup
  <2>. QED BY <2>1, <2>2, <2>3, <2>4, <2>5 DEF DestroyerState
<1>3. CASE ~PopBlocked(ring)
  <2>1. /\ Goto(t, "pop_unlock") /\ pending' = n - 1 /\ lock' = t
        /\ ring' = AfterPop(ring) /\ got' = [got EXCEPT ![t] = Front(ring)]
    BY <1>3 DEF TakeOrWait
  <2>2. /\ RingType(ring', Items) /\ WellFormed(ring') /\ Count(ring') = Count(ring) - 1
        /\ Front(ring) \in Items \cup {NULL}
    BY <1>3, <2>1, PopRemovesHead DEF TypeOK, RingType, Front
  <2>3. n - 1 \in Nat
    BY <1>1, SomeoneAt DEF Asleep
  <2>4. TypeOK'
    BY <2>1, <2>2, <2>3 DEF TypeOK, Goto, PC
  <2>5. ArgHeld'
    BY <2>1 DEF ArgHeld, Goto, TypeOK
  <2>6. PendingIsSleepers'
    BY <1>1, <2>1, Counts DEF PendingIsSleepers, Asleep
  <2>7. NoLostWakeup'
    BY <1>1, <2>1, <2>2, Counts DEF NoLostWakeup, TakersDue, PuttersDue
  <2>. QED BY <2>2, <2>4, <2>5, <2>6, <2>7 DEF DestroyerState
<1>. QED BY <1>2, <1>3

(* A push that finds a free slot, whoever makes it. *)
LEMMA PutOrWaitInv ==
  ASSUME IInv, NEW t \in Threads, NEW n \in Nat,
         \/ pc[t] = "push_lock"  /\ n = pending + 1
         \/ pc[t] = "push_woken" /\ n = pending,
         ~freed, PutOrWait(t, n), UNCHANGED <<alive, got, destroyer, freed>>
  PROVE  IInv'
<1>. USE DEF IInv
<1>1. /\ Cardinality(At(Asleep)) \in Nat /\ Cardinality(At(TakersDue)) \in Nat
      /\ Cardinality(At(PuttersDue)) \in Nat /\ Count(ring) \in Nat /\ Size \in Nat
      /\ PushBlocked(ring) <=> Count(ring) = Size
      /\ pending = Cardinality(At(Asleep))
  BY Numbers DEF PendingIsSleepers
<1>2. CASE PushBlocked(ring)
  <2>1. Goto(t, "push_wait") /\ pending' = n /\ UNCHANGED <<ring, lock, arg>>
    BY <1>2 DEF PutOrWait
  <2>2. TypeOK'
    BY <2>1 DEF TypeOK, Goto, PC
  <2>3. ArgHeld'
    BY <2>1 DEF ArgHeld, Goto, TypeOK
  <2>4. PendingIsSleepers'
    BY <1>1, <2>1, Counts DEF PendingIsSleepers, Asleep
  <2>5. NoLostWakeup'
    <3>1. Cardinality(At(PuttersDue))' \in Nat
      <4>1. At(PuttersDue)' \in SUBSET Threads
        BY DEF At
      <4>. QED BY <4>1, QueueAssumption, FS_Subset, FS_CardinalityType
    <3>2. Cardinality(At(TakersDue))' = Cardinality(At(TakersDue)) - (IF pc[t] \in TakersDue THEN 1 ELSE 0)
      BY <1>1, <2>1, Counts DEF TakersDue
    <3>3. At({"pop_wait"})' # {} => At({"pop_wait"}) # {}
      BY <2>1, Counts
    <3>4. pc[t] \notin TakersDue /\ Count(ring') = Count(ring)
      BY <2>1 DEF TakersDue
    <3>. QED BY <1>1, <1>2, <2>1, <3>1, <3>2, <3>3, <3>4 DEF NoLostWakeup
  <2>. QED BY <2>1, <2>2, <2>3, <2>4, <2>5 DEF DestroyerState
<1>3. CASE ~PushBlocked(ring)
  <2>1. /\ Goto(t, "push_unlock") /\ pending' = n - 1 /\ lock' = t
        /\ ring' = AfterPush(ring, arg[t]) /\ arg' = [arg EXCEPT ![t] = NULL]
    BY <1>3 DEF PutOrWait
  <2>2. arg[t] \in Items /\ arg[t] # NULL
    BY QueueAssumption DEF ArgHeld
  <2>3. RingType(ring', Items) /\ WellFormed(ring') /\ Count(ring') = Count(ring) + 1
    BY <1>3, <2>1, <2>2, PushAppends DEF TypeOK
  <2>4. n - 1 \in Nat
    BY <1>1, SomeoneAt DEF Asleep
  <2>5. TypeOK'
    BY <2>1, <2>3, <2>4 DEF TypeOK, Goto, PC
  <2>6. ArgHeld'
    BY <2>1 DEF ArgHeld, Goto, TypeOK
  <2>7. PendingIsSleepers'
    BY <1>1, <2>1, Counts DEF PendingIsSleepers, Asleep
  <2>8. NoLostWakeup'
    BY <1>1, <2>1, <2>3, Counts DEF NoLostWakeup, TakersDue, PuttersDue
  <2>. QED BY <2>3, <2>5, <2>6, <2>7, <2>8 DEF DestroyerState
<1>. QED BY <1>2, <1>3

(* A thread that leaves pthread_cond_wait because the queue is going away. *)
LEMMA GiveUpInv ==
  ASSUME IInv, NEW t \in Threads, pc[t] \in {"pop_woken", "push_woken"}, ~alive, ~freed,
         Goto(t, "quit"), pending' = pending - 1, lock' = t,
         got' = [got EXCEPT ![t] = NULL] \/ got' = got,
         arg' = [arg EXCEPT ![t] = NULL] \/ arg' = arg,
         UNCHANGED <<ring, alive, destroyer, freed>>
  PROVE  IInv'
<1>. USE DEF IInv
<1>1. Cardinality(At(Asleep)) \in Nat /\ pending = Cardinality(At(Asleep))
  BY Numbers DEF PendingIsSleepers
<1>2. pending - 1 \in Nat
  BY <1>1, SomeoneAt DEF Asleep
<1>3. TypeOK'
  BY <1>2 DEF TypeOK, Goto, PC
<1>4. ArgHeld'
  BY DEF ArgHeld, Goto, TypeOK
<1>5. PendingIsSleepers'
  BY <1>1, Counts DEF PendingIsSleepers, Asleep
<1>. QED BY <1>3, <1>4, <1>5 DEF NoLostWakeup, DestroyerState

(* A thread that moves on without touching the queue, to a place that      *)
(* counts as asleep, and as due to take or to put, as much as the one left.*)
LEMMA MoveInv ==
  ASSUME IInv, NEW t \in Threads, NEW p \in PC, Goto(t, p),
         p \in Asleep <=> pc[t] \in Asleep,
         pc[t] \in TakersDue => p \in TakersDue,
         pc[t] \in PuttersDue => p \in PuttersDue,
         p \notin {"pop_wait", "push_wait"},
         p \in {"push_lock", "push_woken"} => arg'[t] \in Items,
         \A u \in Threads \ {t} : arg'[u] = arg[u],
         arg' \in [Threads -> Items \cup {NULL}],
         got' \in [Threads -> Items \cup {NULL}],
         lock' \in Threads \cup {NoThread},
         UNCHANGED <<ring, alive, pending, destroyer, freed>>
  PROVE  IInv'
<1>. USE DEF IInv
<1>1. /\ Cardinality(At(Asleep)) \in Nat /\ Cardinality(At(TakersDue)) \in Nat
      /\ Cardinality(At(PuttersDue)) \in Nat /\ Count(ring) \in Nat /\ Size \in Nat
  BY Numbers
<1>2. TypeOK'
  BY DEF TypeOK, Goto
<1>3. ArgHeld'
  BY DEF ArgHeld, Goto, TypeOK
<1>4. PendingIsSleepers'
  BY <1>1, Counts DEF PendingIsSleepers
<1>5. NoLostWakeup'
  <2>1. /\ Cardinality(At(TakersDue))' >= Cardinality(At(TakersDue))
        /\ Cardinality(At(PuttersDue))' >= Cardinality(At(PuttersDue))
        /\ Cardinality(At(TakersDue))' \in Int
        /\ Cardinality(At(PuttersDue))' \in Int
    BY <1>1, Counts
  <2>2. /\ At({"pop_wait"})' # {} => At({"pop_wait"}) # {}
        /\ At({"push_wait"})' # {} => At({"push_wait"}) # {}
    BY Counts
  <2>. QED BY <1>1, <2>1, <2>2 DEF NoLostWakeup
<1>. QED BY <1>2, <1>3, <1>4, <1>5 DEF DestroyerState

(* pthread_cond_signal: the sleeper woken takes over from the signaller, or *)
(* nobody sleeps.                                                           *)
LEMMA SignalInv ==
  ASSUME IInv, NEW t \in Threads, PopSignal(t) \/ PushSignal(t)
  PROVE  IInv'
<1>. USE DEF IInv
<1>1. /\ Cardinality(At(Asleep)) \in Nat /\ Cardinality(At(TakersDue)) \in Nat
      /\ Cardinality(At(PuttersDue)) \in Nat /\ Count(ring) \in Nat /\ Size \in Nat
      /\ pc \in [Threads -> PC]
  BY Numbers DEF TypeOK
<1>2. UNCHANGED <<ring, alive, pending, lock, arg, got, destroyer, freed>>
  BY DEF PopSignal, PushSignal, SignalOne
<1>3. ASSUME NEW w \in Threads, NEW woken \in {"pop_woken", "push_woken"},
             \/ pc[t] = "push_signal" /\ pc[w] = "pop_wait"  /\ woken = "pop_woken"
             \/ pc[t] = "pop_signal" /\ pc[w] = "push_wait" /\ woken = "push_woken",
             pc' = [pc EXCEPT ![t] = "idle", ![w] = woken]
      PROVE  IInv'
  <2>1. t # w
    BY <1>3
  <2>2. TypeOK'
    BY <1>2, <1>3 DEF TypeOK, PC
  <2>3. ArgHeld'
    BY <1>1, <1>2, <1>3 DEF ArgHeld
  <2>4. /\ Cardinality(At(Asleep)') = Cardinality(At(Asleep))
        /\ Cardinality(At(TakersDue)') = Cardinality(At(TakersDue))
        /\ Cardinality(At(PuttersDue)') = Cardinality(At(PuttersDue))
    <3>1. ASSUME NEW S
          PROVE  Cardinality(At(S)') = Cardinality(At(S))
                   + (IF "idle" \in S THEN 1 ELSE 0) - (IF pc[t] \in S THEN 1 ELSE 0)
                   + (IF woken \in S THEN 1 ELSE 0) - (IF pc[w] \in S THEN 1 ELSE 0)
      BY <1>1, <1>3, <2>1, TwoMove
    <3>. QED BY <1>1, <1>3, <3>1 DEF Asleep, TakersDue, PuttersDue
  <2>5. At({"pop_wait"})' \subseteq At({"pop_wait"}) /\ At({"push_wait"})' \subseteq At({"push_wait"})
    BY <1>1, <1>3 DEF At
  <2>6. PendingIsSleepers'
    BY <1>2, <2>4 DEF PendingIsSleepers
  <2>7. NoLostWakeup'
    BY <1>2, <2>4, <2>5 DEF NoLostWakeup
  <2>. QED BY <1>2, <2>2, <2>3, <2>6, <2>7 DEF DestroyerState
<1>4. ASSUME \/ pc[t] = "push_signal" /\ \A w \in Threads : pc[w] # "pop_wait"
             \/ pc[t] = "pop_signal" /\ \A w \in Threads : pc[w] # "push_wait",
             Goto(t, "idle")
      PROVE  IInv'
  <2>1. TypeOK'
    BY <1>2, <1>4 DEF TypeOK, Goto, PC
  <2>2. ArgHeld'
    BY <1>1, <1>2, <1>4 DEF ArgHeld, Goto
  <2>3. PendingIsSleepers'
    BY <1>1, <1>2, <1>4, Counts DEF PendingIsSleepers, Asleep
  <2>4. NoLostWakeup'
    <3>1. CASE pc[t] = "push_signal"
      <4>1. At({"pop_wait"})' = {}
        BY <1>1, <1>4, <3>1 DEF At, Goto
      <4>2. /\ Cardinality(At(PuttersDue))' = Cardinality(At(PuttersDue))
            /\ At({"push_wait"})' # {} => At({"push_wait"}) # {}
        BY <1>1, <1>4, <3>1, Counts DEF PuttersDue
      <4>. QED BY <1>2, <4>1, <4>2 DEF NoLostWakeup
    <3>2. CASE pc[t] = "pop_signal"
      <4>1. At({"push_wait"})' = {}
        BY <1>1, <1>4, <3>2 DEF At, Goto
      <4>2. /\ Cardinality(At(TakersDue))' = Cardinality(At(TakersDue))
            /\ At({"pop_wait"})' # {} => At({"pop_wait"}) # {}
        BY <1>1, <1>4, <3>2, Counts DEF TakersDue
      <4>. QED BY <1>2, <4>1, <4>2 DEF NoLostWakeup
    <3>. QED BY <1>4, <3>1, <3>2
  <2>. QED BY <1>2, <2>1, <2>2, <2>3, <2>4 DEF DestroyerState
<1>5. CASE PopSignal(t)
  <2>1. pc[t] = "pop_signal" /\ SignalOne(t, "push_wait", "push_woken")
    BY <1>5 DEF PopSignal
  <2>2. CASE \A w \in Threads : pc[w] # "push_wait"
    <3>1. Goto(t, "idle")
      BY <2>1, <2>2 DEF SignalOne
    <3>. QED BY <1>4, <2>1, <2>2, <3>1
  <2>3. ASSUME NEW w \in Threads, pc[w] = "push_wait",
               pc' = [pc EXCEPT ![t] = "idle", ![w] = "push_woken"]
        PROVE  IInv'
    BY <1>3, <2>1, <2>3
  <2>. QED BY <2>1, <2>2, <2>3 DEF SignalOne
<1>6. CASE PushSignal(t)
  <2>1. pc[t] = "push_signal" /\ SignalOne(t, "pop_wait", "pop_woken")
    BY <1>6 DEF PushSignal
  <2>2. CASE \A w \in Threads : pc[w] # "pop_wait"
    <3>1. Goto(t, "idle")
      BY <2>1, <2>2 DEF SignalOne
    <3>. QED BY <1>4, <2>1, <2>2, <3>1
  <2>3. ASSUME NEW w \in Threads, pc[w] = "pop_wait",
               pc' = [pc EXCEPT ![t] = "idle", ![w] = "pop_woken"]
        PROVE  IInv'
    BY <1>3, <2>1, <2>3
  <2>. QED BY <2>1, <2>2, <2>3 DEF SignalOne
<1>. QED BY <1>5, <1>6

(* The broadcasts of queue_destroy, which has cleared alive before.         *)
LEMMA DrainInv ==
  ASSUME IInv, DestroyDrain
  PROVE  IInv'
<1>. USE DEF IInv, DestroyDrain
<1>1. pc \in [Threads -> PC] /\ ~alive
  BY DEF TypeOK, DestroyerState
<1>2. \A t \in Threads : /\ pc'[t] \in PC
                         /\ pc'[t] \in Asleep <=> pc[t] \in Asleep
                         /\ pc'[t] = pc[t] \/ pc[t] \in {"pop_wait", "push_wait"}
                         /\ pc[t] = "push_wait" => pc'[t] = "push_woken"
                         /\ pc[t] = "pop_wait" => pc'[t] = "pop_woken"
  BY <1>1 DEF Awake, Asleep, PC
<1>3. TypeOK'
  BY <1>2 DEF TypeOK
<1>4. ArgHeld'
  BY <1>2 DEF ArgHeld
<1>5. At(Asleep)' = At(Asleep)
  BY <1>2 DEF At
<1>6. PendingIsSleepers'
  BY <1>5 DEF PendingIsSleepers
<1>. QED BY <1>1, <1>3, <1>4, <1>6 DEF NoLostWakeup, DestroyerState

(* Every step keeps the invariant. *)
LEMMA NextIInv == IInv /\ [Next]_vars => IInv'
<1>. SUFFICES ASSUME IInv, [Next]_vars PROVE IInv'
  OBVIOUS
<1>. USE DEF IInv
<1>0. /\ pending \in Nat /\ pc \in [Threads -> PC] /\ lock \in Threads \cup {NoThread}
      /\ arg \in [Threads -> Items \cup {NULL}] /\ got \in [Threads -> Items \cup {NULL}]
      /\ RingType(ring, Items)
  BY DEF TypeOK
<1>1. ASSUME NEW t \in Threads, PopCall(t) PROVE IInv'
  <2>1. CASE alive
    BY <1>0, <1>1, <2>1, MoveInv DEF PopCall, Asleep, TakersDue, PuttersDue, PC
  <2>2. CASE ~alive
    <3>1. TypeOK'
      BY <1>1, <2>2 DEF PopCall, TypeOK
    <3>. QED BY <1>1, <2>2, <3>1 DEF PopCall, ArgHeld, DestroyerState, PendingIsSleepers,
             NoLostWakeup, At
  <2>. QED BY <2>1, <2>2
<1>2. ASSUME NEW t \in Threads, PopEnter(t) PROVE IInv'
  BY <1>0, <1>2, TakeOrWaitInv DEF PopEnter
<1>3. ASSUME NEW t \in Threads, PopResume(t) PROVE IInv'
  BY <1>0, <1>3, TakeOrWaitInv, GiveUpInv DEF PopResume
<1>4. ASSUME NEW t \in Threads, PushCall(t) PROVE IInv'
  BY <1>0, <1>4, MoveInv DEF PushCall, Asleep, TakersDue, PuttersDue, PC
<1>5. ASSUME NEW t \in Threads, PushEnter(t) PROVE IInv'
  BY <1>0, <1>5, PutOrWaitInv DEF PushEnter
<1>6. ASSUME NEW t \in Threads, PushResume(t) PROVE IInv'
  BY <1>0, <1>6, PutOrWaitInv, GiveUpInv DEF PushResume
<1>7. ASSUME NEW t \in Threads, Unlock(t) PROVE IInv'
  BY <1>0, <1>7, MoveInv DEF Unlock, Asleep, TakersDue, PuttersDue, PC
<1>8. ASSUME NEW t \in Threads, PopSignal(t) \/ PushSignal(t) PROVE IInv'
  BY <1>8, SignalInv
<1>9. ASSUME NEW t \in Threads, SpuriousWakeup(t) PROVE IInv'
  BY <1>0, <1>9, MoveInv DEF SpuriousWakeup, Awake, ArgHeld, Asleep, TakersDue, PuttersDue, PC
<1>10. ASSUME NEW t \in Threads, UseAfterFree(t) PROVE IInv'
  <2>1. TypeOK'
    BY <1>10 DEF UseAfterFree, TypeOK, Goto, PC
  <2>2. ArgHeld'
    BY <1>0, <1>10 DEF UseAfterFree, ArgHeld, Goto
  <2>. QED BY <1>10, <2>1, <2>2 DEF UseAfterFree, DestroyerState, PendingIsSleepers, NoLostWakeup
<1>11. ASSUME DestroyBegin PROVE IInv'
  BY <1>11 DEF DestroyBegin, TypeOK, ArgHeld, DestroyerState, PendingIsSleepers, NoLostWakeup, At
<1>12. ASSUME DestroyDrain PROVE IInv'
  BY <1>12, DrainInv
<1>13. ASSUME DestroyDrained PROVE IInv'
  BY <1>13 DEF DestroyDrained, TypeOK, ArgHeld, DestroyerState, PendingIsSleepers, NoLostWakeup, At
<1>14. ASSUME DestroyFree PROVE IInv'
  BY <1>14 DEF DestroyFree, TypeOK, ArgHeld, DestroyerState, PendingIsSleepers, NoLostWakeup, At
<1>15. CASE UNCHANGED vars
  BY <1>15 DEF vars, TypeOK, ArgHeld, DestroyerState, PendingIsSleepers, NoLostWakeup, At
<1>16. Poppers \subseteq Threads /\ Pushers \subseteq Threads
  BY DEF Threads
<1>17. ASSUME NEW t \in Threads, Pop(t) \/ Push(t) PROVE IInv'
  BY <1>1, <1>2, <1>3, <1>4, <1>5, <1>6, <1>17 DEF Pop, Push
<1>18. ASSUME Destroy PROVE IInv'
  BY <1>11, <1>12, <1>13, <1>14, <1>18 DEF Destroy
<1>. QED BY <1>7, <1>8, <1>9, <1>10, <1>15, <1>16, <1>17, <1>18 DEF Next

(* Every reachable state satisfies the inductive invariant. *)
THEOREM Invariance == Spec => []IInv
BY InitIInv, NextIInv, PTL DEF Spec

(* Every variable of the queue keeps its type, for every size and every     *)
(* number of callers; in particular pending never goes below zero.          *)
THEOREM TypeCorrect == Spec => []TypeOK
BY Invariance, PTL DEF IInv

(* While a thread sleeps on a condition there is somebody awake, or bound   *)
(* to wake somebody, for each item (each free slot): signalling after the   *)
(* unlock and one at a time is enough, for any number of threads.           *)
THEOREM NoWakeupLost == Spec => []NoLostWakeup
BY Invariance, PTL DEF IInv

(* queue_destroy may rely on pending: it is the number of threads inside    *)
(* pthread_cond_wait until the queue is freed.                              *)
THEOREM PendingCounts == Spec => []PendingIsSleepers
BY Invariance, PTL DEF IInv

-----------------------------------------------------------------------------
(* Refinement *)

LEMMA InitRefines == Init => Fifo!Init
<1>. SUFFICES ASSUME Init PROVE Fifo!Init
  OBVIOUS
<1>1. Contents(ring) = <<>>
  BY NewRingWellFormed DEF Init
<1>. QED BY <1>1 DEF Init, Fifo!Init

(* Taking an item implements Take, putting one implements Put, and going to *)
(* sleep is a stutter.                                                      *)
LEMMA TakeRefines ==
  ASSUME IInv, NEW t \in Threads, NEW n, TakeOrWait(t, n), UNCHANGED alive
  PROVE  Fifo!Next \/ UNCHANGED Fifo!vars
<1>1. RingType(ring, Items) /\ WellFormed(ring)
  BY DEF IInv, TypeOK
<1>2. CASE PopBlocked(ring)
  BY <1>2 DEF TakeOrWait, Fifo!vars
<1>3. CASE ~PopBlocked(ring)
  <2>1. ring' = AfterPop(ring) /\ got' = [got EXCEPT ![t] = Front(ring)]
    BY <1>3 DEF TakeOrWait
  <2>2. /\ Contents(ring) # <<>>
        /\ Front(ring) = Head(Contents(ring))
        /\ Contents(AfterPop(ring)) = Tail(Contents(ring))
    BY <1>1, <1>3, PopRemovesHead
  <2>3. Contents(ring)' = Contents(AfterPop(ring))
    BY <2>1
  <2>. QED BY <2>1, <2>2, <2>3 DEF Fifo!Next, Fifo!Take
<1>. QED BY <1>2, <1>3

(* A push() that puts its item in, or goes to sleep, appends or stutters. *)
LEMMA PutRefines ==
  ASSUME IInv, NEW t \in Threads, NEW n, PutOrWait(t, n),
         pc[t] \in {"push_lock", "push_woken"}, UNCHANGED <<alive, got>>
  PROVE  Fifo!Next \/ UNCHANGED Fifo!vars
<1>1. /\ RingType(ring, Items) /\ WellFormed(ring)
      /\ arg[t] \in Items /\ arg[t] # NULL
  BY QueueAssumption DEF IInv, TypeOK, ArgHeld
<1>2. CASE PushBlocked(ring)
  BY <1>2 DEF PutOrWait, Fifo!vars
<1>3. CASE ~PushBlocked(ring)
  <2>1. Contents(ring)' = Contents(AfterPush(ring, arg[t]))
    BY <1>3 DEF PutOrWait
  <2>2. Contents(AfterPush(ring, arg[t])) = Append(Contents(ring), arg[t])
    BY <1>1, <1>3, PushAppends
  <2>3. Len(Contents(ring)) < Size
    <3>1. Count(ring) \in 0 .. Size /\ Count(ring) # Size
      BY <1>1, <1>3, CountProperties
    <3>2. Len(Contents(ring)) = Count(ring)
      BY <1>1, ContentsType
    <3>. QED BY <3>1, <3>2, RingAssumption
  <2>. QED BY <1>1, <2>1, <2>2, <2>3 DEF Fifo!Next, Fifo!Put
<1>. QED BY <1>2, <1>3

(* Every step of queue.c is a step of the bounded FIFO or a stutter. *)
LEMMA StepRefines == IInv /\ [Next]_vars => [Fifo!Next]_(Fifo!vars)
<1>. SUFFICES ASSUME IInv, [Next]_vars PROVE Fifo!Next \/ UNCHANGED Fifo!vars
  OBVIOUS
<1>1. ASSUME NEW t \in Threads, PopCall(t) PROVE Fifo!Next \/ UNCHANGED Fifo!vars
  BY <1>1 DEF PopCall, Fifo!Next, Fifo!Refuse, Fifo!vars
<1>2. ASSUME NEW t \in Threads, PopEnter(t) PROVE Fifo!Next \/ UNCHANGED Fifo!vars
  BY <1>2, TakeRefines DEF PopEnter
<1>3. ASSUME NEW t \in Threads, PopResume(t) PROVE Fifo!Next \/ UNCHANGED Fifo!vars
  <2>1. CASE alive /\ TakeOrWait(t, pending)
    BY <1>3, <2>1, TakeRefines DEF PopResume
  <2>2. CASE ~alive
    BY <1>3, <2>2 DEF PopResume, Fifo!Next, Fifo!Refuse
  <2>. QED BY <1>3, <2>1, <2>2 DEF PopResume
<1>4. ASSUME NEW t \in Threads, PushCall(t) PROVE Fifo!Next \/ UNCHANGED Fifo!vars
  BY <1>4 DEF PushCall, Fifo!vars
<1>5. ASSUME NEW t \in Threads, PushEnter(t) PROVE Fifo!Next \/ UNCHANGED Fifo!vars
  BY <1>5, PutRefines DEF PushEnter
<1>6. ASSUME NEW t \in Threads, PushResume(t) PROVE Fifo!Next \/ UNCHANGED Fifo!vars
  <2>1. CASE alive /\ PutOrWait(t, pending)
    BY <1>6, <2>1, PutRefines DEF PushResume
  <2>2. CASE ~alive
    BY <1>6, <2>2 DEF PushResume, Fifo!vars
  <2>. QED BY <1>6, <2>1, <2>2 DEF PushResume
<1>7. ASSUME NEW t \in Threads,
             \/ Unlock(t) \/ PopSignal(t) \/ PushSignal(t) \/ SpuriousWakeup(t) \/ UseAfterFree(t)
      PROVE  Fifo!Next \/ UNCHANGED Fifo!vars
  BY <1>7 DEF Unlock, PopSignal, PushSignal, SignalOne, SpuriousWakeup, UseAfterFree, Fifo!vars
<1>8. ASSUME Destroy PROVE Fifo!Next \/ UNCHANGED Fifo!vars
  <2>1. CASE DestroyBegin
    <3>1. alive
      BY <2>1 DEF DestroyBegin, IInv, DestroyerState
    <3>. QED BY <2>1, <3>1 DEF DestroyBegin, Fifo!Next, Fifo!Close
  <2>2. CASE DestroyDrain \/ DestroyDrained \/ DestroyFree
    BY <2>2 DEF DestroyDrain, DestroyDrained, DestroyFree, Fifo!vars
  <2>. QED BY <1>8, <2>1, <2>2 DEF Destroy
<1>9. CASE UNCHANGED vars
  BY <1>9 DEF vars, Fifo!vars
<1>10. Poppers \subseteq Threads /\ Pushers \subseteq Threads
  BY DEF Threads
<1>11. ASSUME NEW t \in Threads, Pop(t) \/ Push(t) PROVE Fifo!Next \/ UNCHANGED Fifo!vars
  BY <1>1, <1>2, <1>3, <1>4, <1>5, <1>6, <1>11 DEF Pop, Push
<1>. QED BY <1>7, <1>8, <1>9, <1>10, <1>11 DEF Next

(* The queue implements the bounded FIFO, for every size and any number of  *)
(* callers: nothing is lost, duplicated or reordered, and NULL is answered  *)
(* only once queue_destroy has begun.                                       *)
THEOREM Refinement == Spec => ImplementsFifo
BY InitRefines, StepRefines, Invariance, PTL DEF Spec, ImplementsFifo, Fifo!Spec
=============================================================================
