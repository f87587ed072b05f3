---------------------------- MODULE RingTheorems ----------------------------
(***************************************************************************)
(* What the ring of queue_t computes, for every size: as long as no NULL   *)
(* is pushed, the ring is a bounded sequence, push appends to it and pop   *)
(* removes its head, and the waiting conditions are "full" and "empty".    *)
(***************************************************************************)
EXTENDS Ring, TLAPS

(* The ring queue_create returns is well formed and empty. *)
LEMMA NewRingWellFormed ==
  ASSUME NEW S
  PROVE  /\ RingType(NewRing, S)
         /\ WellFormed(NewRing)
         /\ Count(NewRing) = 0
         /\ Contents(NewRing) = <<>>
<1>1. RingType(NewRing, S)
  BY RingAssumption DEF RingType, NewRing, Slots
<1>2. WellFormed(NewRing)
  BY RingAssumption DEF WellFormed, NewRing, InUse, Slots
<1>3. Count(NewRing) = 0
  BY RingAssumption DEF Count, NewRing, Slots
<1>4. Contents(NewRing) = <<>>
  BY <1>3 DEF Contents
<1>. QED BY <1>1, <1>2, <1>3, <1>4

(* The count is within bounds; the slots of the items are slots in use, and *)
(* the waiting conditions of pop() and push() compare it with 0 and Size.   *)
LEMMA CountProperties ==
  ASSUME NEW S, NEW q, RingType(q, S), WellFormed(q)
  PROVE  /\ Count(q) \in 0 .. Size
         /\ PopBlocked(q) <=> Count(q) = 0
         /\ PushBlocked(q) <=> Count(q) = Size
         /\ \A k \in 1 .. Count(q) : SlotOf(q, k) \in Slots /\ InUse(q, SlotOf(q, k))
<1>. q.head \in Slots /\ q.tail \in Slots
  BY DEF RingType
<1>1. Count(q) \in 0 .. Size
  BY RingAssumption DEF Count, Slots
<1>2. PopBlocked(q) <=> Count(q) = 0
  BY RingAssumption DEF Count, PopBlocked, Slots
<1>3. PushBlocked(q) <=> Count(q) = Size
  BY RingAssumption DEF Count, PushBlocked, Slots
<1>4. ASSUME NEW k \in 1 .. Count(q)
      PROVE  SlotOf(q, k) \in Slots /\ InUse(q, SlotOf(q, k))
  BY RingAssumption, <1>1 DEF SlotOf, Count, InUse, Slots
<1>. QED BY <1>1, <1>2, <1>3, <1>4

(* The contents are a sequence of items, none of them NULL. *)
LEMMA ContentsType ==
  ASSUME NEW S, NEW q, RingType(q, S), WellFormed(q)
  PROVE  /\ Contents(q) \in Seq(S)
         /\ Len(Contents(q)) = Count(q)
<1>1. /\ Count(q) \in Nat
      /\ \A k \in 1 .. Count(q) : SlotOf(q, k) \in Slots /\ InUse(q, SlotOf(q, k))
  BY CountProperties, RingAssumption DEF Slots
<1>2. ASSUME NEW k \in 1 .. Count(q)
      PROVE  q.array[SlotOf(q, k)] \in S
  BY <1>1 DEF WellFormed, RingType
<1>. QED BY <1>1, <1>2 DEF Contents

(* A slot is an integer, and what head++ or tail++ makes of it. *)
LEMMA SlotFacts ==
  ASSUME NEW i \in Slots
  PROVE  /\ Size \in Int /\ Size >= 1
         /\ i \in Int /\ 0 <= i /\ i < Size
         /\ Advance(i) \in Slots
         /\ i + 1 < Size => Advance(i) = i + 1
         /\ i + 1 = Size => Advance(i) = 0
         /\ i + 1 < Size \/ i + 1 = Size
BY RingAssumption DEF Slots, Advance

(* push: the ring stays well formed and the item comes last. *)
LEMMA PushAppends ==
  ASSUME NEW S, NEW q, RingType(q, S), WellFormed(q), ~PushBlocked(q),
         NEW d \in S, d # NULL
  PROVE  /\ RingType(AfterPush(q, d), S)
         /\ WellFormed(AfterPush(q, d))
         /\ Count(AfterPush(q, d)) = Count(q) + 1
         /\ Contents(AfterPush(q, d)) = Append(Contents(q), d)
<1>. DEFINE r == AfterPush(q, d)
<1>0. /\ q.head \in Slots /\ q.tail \in Slots
      /\ q.array \in [Slots -> S \cup {NULL}]
  BY DEF RingType
<1>1. /\ r.head = q.head
      /\ r.tail = Advance(q.tail)
      /\ r.tail \in Slots
      /\ r.array \in [Slots -> S \cup {NULL}]
      /\ r.array[q.tail] = d
      /\ \A i \in Slots : i # q.tail => r.array[i] = q.array[i]
  BY <1>0, RingAssumption DEF AfterPush, Advance, Slots
<1>i. /\ Size \in Int /\ Size >= 1
      /\ q.head \in Int /\ 0 <= q.head /\ q.head < Size
      /\ q.tail \in Int /\ 0 <= q.tail /\ q.tail < Size
      /\ q.tail + 1 < Size => r.tail = q.tail + 1
      /\ q.tail + 1 = Size => r.tail = 0
      /\ q.tail + 1 < Size \/ q.tail + 1 = Size
  <2>1. q.head \in Slots /\ q.tail \in Slots /\ r.tail = Advance(q.tail)
    BY <1>0, <1>1
  <2>. HIDE DEF r
  <2>. QED BY <2>1, SlotFacts
<1>2. RingType(r, S)
  BY <1>0, <1>1 DEF RingType, AfterPush
<1>3. Count(r) = Count(q) + 1
  <2>1. r.array[q.head] # NULL
    <3>1. CASE q.head = q.tail
      BY <3>1, <1>1
    <3>2. CASE q.head # q.tail
      BY <3>2, <1>0, <1>1, RingAssumption DEF WellFormed, InUse, Slots
    <3>. QED BY <3>1, <3>2
  <2>. HIDE DEF r
  <2>2. q.tail + 1 < Size \/ q.tail + 1 = Size
    BY <1>0, RingAssumption DEF Slots
  <2>3. CASE q.head = q.tail
    BY <2>1, <2>2, <2>3, <1>0, <1>1, RingAssumption DEF Count, PushBlocked, Advance, Slots
  <2>4. CASE q.head < q.tail
    BY <2>1, <2>2, <2>4, <1>0, <1>1, <1>i DEF Count
  <2>5. CASE q.head > q.tail
    <3>1. q.tail + 1 < Size /\ r.tail = q.tail + 1
      BY <2>5, <1>0, <1>1, <1>i
    <3>2. Count(q) = Size - q.head + q.tail
      BY <2>5, <1>0, <1>i DEF Count
    <3>3. CASE q.head = q.tail + 1
      BY <2>1, <3>1, <3>2, <3>3, <1>0, <1>1, <1>i DEF Count
    <3>4. CASE q.head # q.tail + 1
      <4>1. r.head > r.tail
        BY <2>5, <3>1, <3>4, <1>0, <1>1, <1>i
      <4>. QED BY <4>1, <3>1, <3>2, <1>0, <1>1, <1>i DEF Count
    <3>. QED BY <3>3, <3>4
  <2>. QED BY <2>3, <2>4, <2>5, <1>0 DEF Slots
<1>4. WellFormed(r)
  <2>. SUFFICES ASSUME NEW i \in Slots
                PROVE  r.array[i] # NULL <=> InUse(r, i)
    BY DEF WellFormed
  <2>i. i \in Int /\ 0 <= i /\ i < Size
    BY SlotFacts
  <2>1. q.array[i] # NULL <=> InUse(q, i)
    BY DEF WellFormed
  <2>2. r.array[i] # NULL <=> (i = q.tail \/ InUse(q, i))
    BY <2>1, <1>1
  <2>3. CASE q.head = q.tail
    <3>1. ~InUse(q, i)
      BY <2>3, <1>0 DEF InUse, PushBlocked, Slots
    <3>. HIDE DEF r
    <3>. QED BY <3>1, <2>2, <2>3, <1>0, <1>1, RingAssumption DEF InUse, Advance, Slots
  <2>4. CASE q.head < q.tail
    <3>. HIDE DEF r
    <3>1. InUse(q, i) <=> q.head <= i /\ i < q.tail
      BY <2>4 DEF InUse
    <3>2. CASE q.tail + 1 < Size
      <4>1. r.tail = q.tail + 1 /\ r.head < r.tail
        BY <2>4, <3>2, <1>1, <1>i, <2>i
      <4>2. InUse(r, i) <=> r.head <= i /\ i < r.tail
        BY <4>1 DEF InUse
      <4>. QED BY <4>1, <4>2, <3>1, <2>2, <2>4, <1>1, <1>i, <2>i
    <3>3. CASE q.tail + 1 = Size
      <4>1. r.tail = 0
        BY <3>3, <1>1, <1>i, <2>i
      <4>2. CASE q.head = 0
        <5>1. InUse(r, i) <=> r.array[q.head] # NULL
          BY <4>1, <4>2, <1>1 DEF InUse
        <5>2. r.array[q.head] # NULL
          BY <2>4, <1>0, <1>1, <1>i, <2>i DEF WellFormed, InUse
        <5>. QED BY <5>1, <5>2, <4>2, <3>1, <3>3, <2>2, <1>0, <1>i, <2>i
      <4>3. CASE q.head # 0
        <5>1. r.head > r.tail
          BY <4>1, <4>3, <1>1, <1>i, <2>i
        <5>2. InUse(r, i) <=> i >= r.head \/ i < r.tail
          BY <5>1, <1>1, <1>i, <2>i DEF InUse
        <5>. QED BY <5>2, <4>1, <3>1, <3>3, <2>2, <2>4, <1>1, <1>i, <2>i
      <4>. QED BY <4>2, <4>3
    <3>. QED BY <3>2, <3>3, <1>0, <1>i, <2>i
  <2>5. CASE q.head > q.tail
    <3>. HIDE DEF r
    <3>1. q.array[q.head] # NULL
      BY <2>5, <1>0 DEF WellFormed, InUse, Slots
    <3>2. r.array[q.head] # NULL
      BY <3>1, <2>5, <1>0, <1>1 DEF Slots
    <3>. QED BY <3>2, <2>2, <2>5, <1>0, <1>1, RingAssumption DEF InUse, Advance, Slots
  <2>. QED BY <2>3, <2>4, <2>5, <1>0 DEF Slots
<1>5. Contents(r) = Append(Contents(q), d)
  <2>1. Count(q) \in Nat /\ Len(Contents(q)) = Count(q) /\ Contents(q) \in Seq(S)
    BY CountProperties, ContentsType, RingAssumption DEF Slots
  <2>2. ASSUME NEW k \in 1 .. Count(q)
        PROVE  r.array[SlotOf(r, k)] = q.array[SlotOf(q, k)]
    <3>1. SlotOf(r, k) = SlotOf(q, k)
      BY <1>1 DEF SlotOf
    <3>2. SlotOf(q, k) \in Slots /\ InUse(q, SlotOf(q, k))
      BY CountProperties
    <3>3. ~InUse(q, q.tail)
      BY <1>0, <1>i DEF InUse, PushBlocked
    <3>. QED BY <3>1, <3>2, <3>3, <1>1
  <2>3. SlotOf(r, Count(q) + 1) = q.tail
    BY <1>0, <1>1, RingAssumption DEF SlotOf, Count, PushBlocked, Slots
  <2>. QED BY <2>1, <2>2, <2>3, <1>1, <1>3 DEF Contents
<1>. QED BY <1>2, <1>3, <1>4, <1>5

(* pop: the item returned is the oldest one, and the others stay. *)
LEMMA PopRemovesHead ==
  ASSUME NEW S, NEW q, RingType(q, S), WellFormed(q), ~PopBlocked(q)
  PROVE  /\ RingType(AfterPop(q), S)
         /\ WellFormed(AfterPop(q))
         /\ Count(AfterPop(q)) = Count(q) - 1
         /\ Contents(q) # <<>>
         /\ Front(q) = Head(Contents(q))
         /\ Contents(AfterPop(q)) = Tail(Contents(q))
<1>. DEFINE r == AfterPop(q)
<1>0. /\ q.head \in Slots /\ q.tail \in Slots
      /\ q.array \in [Slots -> S \cup {NULL}]
  BY DEF RingType
<1>1. /\ r.head = Advance(q.head)
      /\ r.tail = q.tail
      /\ r.head \in Slots
      /\ r.array \in [Slots -> S \cup {NULL}]
      /\ r.array[q.head] = NULL
      /\ \A i \in Slots : i # q.head => r.array[i] = q.array[i]
  BY <1>0, RingAssumption DEF AfterPop, Advance, Slots
<1>i. /\ Size \in Int /\ Size >= 1
      /\ q.head \in Int /\ 0 <= q.head /\ q.head < Size
      /\ q.tail \in Int /\ 0 <= q.tail /\ q.tail < Size
      /\ q.head + 1 < Size => r.head = q.head + 1
      /\ q.head + 1 = Size => r.head = 0
      /\ q.head + 1 < Size \/ q.head + 1 = Size
      /\ r.tail = q.tail
  <2>1. q.head \in Slots /\ q.tail \in Slots /\ r.head = Advance(q.head) /\ r.tail = q.tail
    BY <1>0, <1>1
  <2>. HIDE DEF r
  <2>. QED BY <2>1, SlotFacts
<1>2. RingType(r, S)
  BY <1>0, <1>1 DEF RingType, AfterPop
<1>3. Count(q) \in 1 .. Size
  BY CountProperties, RingAssumption
<1>. HIDE DEF r
<1>4. Count(r) = Count(q) - 1
  <2>1. CASE q.head = q.tail
    <3>1. Count(q) = Size
      BY <2>1, <1>0, <1>i DEF Count, PopBlocked
    <3>2. CASE q.head + 1 < Size
      BY <3>1, <3>2, <2>1, <1>0, <1>1, <1>i DEF Count
    <3>3. CASE q.head + 1 = Size
      <4>1. r.head = 0 /\ r.tail = Size - 1
        BY <3>3, <2>1, <1>0, <1>1, <1>i
      <4>2. CASE Size = 1
        BY <4>1, <4>2, <3>1, <3>3, <1>0, <1>1, <1>i DEF Count
      <4>3. CASE Size # 1
        BY <4>1, <4>3, <3>1, <1>0, <1>i DEF Count
      <4>. QED BY <4>2, <4>3
    <3>. QED BY <3>2, <3>3, <1>0, <1>i
  <2>2. CASE q.head < q.tail
    <3>1. Count(q) = q.tail - q.head
      BY <2>2 DEF Count
    <3>2. r.head = q.head + 1
      BY <2>2, <1>0, <1>1, <1>i
    <3>3. CASE q.head + 1 = q.tail
      <4>1. r.array[r.head] = NULL
        BY <3>2, <3>3, <2>2, <1>0, <1>1, <1>i DEF WellFormed, InUse
      <4>. QED BY <4>1, <3>1, <3>2, <3>3, <1>0, <1>1, <1>i DEF Count
    <3>4. CASE q.head + 1 # q.tail
      <4>1. r.head < r.tail
        BY <3>2, <3>4, <2>2, <1>0, <1>1, <1>i
      <4>. QED BY <4>1, <3>1, <3>2, <1>0, <1>1, <1>i DEF Count
    <3>. QED BY <3>3, <3>4
  <2>3. CASE q.head > q.tail
    <3>1. Count(q) = Size - q.head + q.tail
      BY <2>3, <1>0, <1>i DEF Count
    <3>2. CASE q.head + 1 < Size
      <4>1. r.head = q.head + 1 /\ r.head > r.tail
        BY <3>2, <2>3, <1>0, <1>1, <1>i
      <4>. QED BY <4>1, <3>1, <1>0, <1>1, <1>i DEF Count
    <3>3. CASE q.head + 1 = Size
      <4>1. r.head = 0
        BY <3>3, <1>0, <1>1, <1>i
      <4>2. CASE q.tail = 0
        <5>1. r.array[r.head] = NULL
          BY <4>1, <4>2, <2>3, <1>0, <1>1, <1>i DEF WellFormed, InUse
        <5>. QED BY <5>1, <4>1, <4>2, <3>1, <3>3, <1>0, <1>1, <1>i DEF Count
      <4>3. CASE q.tail # 0
        BY <4>1, <4>3, <3>1, <3>3, <1>0, <1>1, <1>i DEF Count
      <4>. QED BY <4>2, <4>3
    <3>. QED BY <3>2, <3>3, <1>0, <1>i
  <2>. QED BY <2>1, <2>2, <2>3, <1>0, <1>i
<1>5. WellFormed(r)
  <2>. SUFFICES ASSUME NEW i \in Slots
                PROVE  r.array[i] # NULL <=> InUse(r, i)
    BY DEF WellFormed
  <2>i. i \in Int /\ 0 <= i /\ i < Size
    BY SlotFacts
  <2>1. q.array[i] # NULL <=> InUse(q, i)
    BY DEF WellFormed
  <2>2. r.array[i] # NULL <=> (i # q.head /\ InUse(q, i))
    BY <2>1, <1>1
  <2>3. CASE q.head = q.tail
    <3>1. InUse(q, i)
      BY <2>3, <1>i DEF InUse, PopBlocked
    <3>2. CASE q.head + 1 < Size
      <4>1. r.head = q.head + 1 /\ r.head > r.tail
        BY <3>2, <2>3, <1>1, <1>i, <2>i
      <4>. QED BY <4>1, <3>1, <2>2, <2>3, <1>1, <1>i, <2>i DEF InUse
    <3>3. CASE q.head + 1 = Size
      <4>1. r.head = 0 /\ r.tail = Size - 1
        BY <3>3, <2>3, <1>1, <1>i, <2>i
      <4>2. CASE Size = 1
        BY <4>1, <4>2, <2>2, <2>3, <3>3, <1>1, <1>i, <2>i DEF InUse
      <4>3. CASE Size # 1
        <5>1. r.head < r.tail
          BY <4>1, <4>3, <1>0, <1>i, <2>i
        <5>. QED BY <5>1, <4>1, <3>1, <3>3, <2>2, <2>3, <1>1, <1>i, <2>i DEF InUse
      <4>. QED BY <4>2, <4>3
    <3>. QED BY <3>2, <3>3, <1>0, <1>i, <2>i
  <2>4. CASE q.head < q.tail
    <3>1. InUse(q, i) <=> q.head <= i /\ i < q.tail
      BY <2>4 DEF InUse
    <3>2. r.head = q.head + 1
      BY <2>4, <1>1, <1>i, <2>i
    <3>3. CASE q.head + 1 = q.tail
      <4>1. r.array[r.head] = NULL
        BY <3>2, <3>3, <2>4, <1>1, <1>i, <2>i DEF WellFormed, InUse
      <4>. QED BY <4>1, <3>1, <3>2, <3>3, <2>2, <2>4, <1>1, <1>i, <2>i DEF InUse
    <3>4. CASE q.head + 1 # q.tail
      <4>1. r.head < r.tail
        BY <3>2, <3>4, <2>4, <1>1, <1>i, <2>i
      <4>. QED BY <4>1, <3>1, <3>2, <2>2, <1>1, <1>i, <2>i DEF InUse
    <3>. QED BY <3>3, <3>4
  <2>5. CASE q.head > q.tail
    <3>1. InUse(q, i) <=> i >= q.head \/ i < q.tail
      BY <2>5, <1>0, <1>i, <2>i DEF InUse
    <3>2. CASE q.head + 1 < Size
      <4>1. r.head = q.head + 1 /\ r.head > r.tail
        BY <3>2, <2>5, <1>1, <1>i, <2>i
      <4>. QED BY <4>1, <3>1, <2>2, <2>5, <1>1, <1>i, <2>i DEF InUse
    <3>3. CASE q.head + 1 = Size
      <4>1. r.head = 0
        BY <3>3, <1>1, <1>i, <2>i
      <4>2. CASE q.tail = 0
        <5>1. r.array[r.head] = NULL
          BY <4>1, <4>2, <2>5, <1>1, <1>i, <2>i DEF WellFormed, InUse
        <5>. QED BY <5>1, <4>1, <4>2, <3>1, <3>3, <2>2, <1>1, <1>i, <2>i DEF InUse
      <4>3. CASE q.tail # 0
        <5>1. r.head < r.tail
          BY <4>1, <4>3, <1>1, <1>i, <2>i
        <5>. QED BY <5>1, <4>1, <3>1, <3>3, <2>2, <2>5, <1>1, <1>i, <2>i DEF InUse
      <4>. QED BY <4>2, <4>3
    <3>. QED BY <3>2, <3>3, <1>0, <1>i, <2>i
  <2>. QED BY <2>3, <2>4, <2>5, <1>0, <1>i, <2>i
<1>6. Contents(q) \in Seq(S) /\ Len(Contents(q)) = Count(q)
  BY ContentsType
<1>7. Contents(q) # <<>> /\ Front(q) = Head(Contents(q))
  <2>1. SlotOf(q, 1) = q.head
    BY <1>0, <1>i DEF SlotOf
  <2>. QED BY <2>1, <1>3, <1>6 DEF Front, Contents
<1>8. Contents(r) = Tail(Contents(q))
  <2>1. ASSUME NEW k \in 1 .. Count(r)
        PROVE  r.array[SlotOf(r, k)] = q.array[SlotOf(q, k + 1)]
    <3>0. k \in Int /\ k >= 1 /\ k < Size
      BY <1>3, <1>4, <1>0, <1>i
    <3>1. SlotOf(r, k) = SlotOf(q, k + 1)
      <4>1. CASE q.head + 1 < Size
        <5>1. r.head + k - 1 = q.head + (k + 1) - 1
          BY <4>1, <3>0, <1>0, <1>1, <1>i
        <5>. QED BY <5>1, <4>1, <3>0, <1>1, <1>i DEF SlotOf
      <4>2. CASE q.head + 1 = Size
        <5>1. SlotOf(r, k) = k - 1
          BY <4>2, <3>0, <1>0, <1>1, <1>i DEF SlotOf
        <5>2. SlotOf(q, k + 1) = k - 1
          BY <4>2, <3>0, <1>0, <1>i DEF SlotOf
        <5>. QED BY <5>1, <5>2
      <4>. QED BY <4>1, <4>2, <1>0, <1>i
    <3>2. SlotOf(q, k + 1) \in Slots /\ SlotOf(q, k + 1) # q.head
      BY <1>0, <1>3, <1>4, RingAssumption DEF SlotOf, Slots
    <3>. QED BY <3>1, <3>2, <1>1
  <2>. QED BY <2>1, <1>3, <1>4, <1>6 DEF Contents
<1>. QED BY <1>2, <1>4, <1>5, <1>7, <1>8 DEF r
=============================================================================
