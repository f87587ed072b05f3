-------------------------- MODULE ThreadPoolTheorems --------------------------
(***************************************************************************)
(* Proofs about ThreadPool, for any size of the pool, any threads and any  *)
(* jobs: a task record has one owner while the pool is up, jobs are taken  *)
(* in the order they were queued, and nobody is caught in pushWork by the  *)
(* destruction of the pool.                                                *)
(*                                                                         *)
(* The three need one another.  That a record is in one place only keeps   *)
(* what a submitter writes from being overwritten before a worker takes    *)
(* it; that each job is run once means that a long job which has finished  *)
(* is not running somewhere else; and so, when threadPool_destroy begins,  *)
(* nobody is left who could submit.                                        *)
(***************************************************************************)
EXTENDS ThreadPool, RingTheorems, FiniteSetTheorems, SequenceTheorems, TLAPS

WorkerPlaces == {"loop", "pop", "asleep", "run", "clear", "return", "push", "done", "fault", "cancelled"}

TypeOK ==
  /\ RingType(tasks, Tasks) /\ RingType(work, Tasks)
  /\ func \in [Tasks -> Jobs \cup {NULL}]
  /\ wpc \in [Workers -> WorkerPlaces] /\ wtask \in [Workers -> Tasks \cup {NULL}]
  /\ cpc \in [Threads -> {"idle", "get", "asleep", "put"}]
  /\ cjob \in [Threads -> Jobs \cup {NULL}]
  /\ ctask \in [Threads -> Tasks \cup {NULL}]
  /\ submitted \in Seq(Jobs) /\ started \in Seq(Jobs) /\ finished \subseteq Jobs

(* The rings hold no gaps. *)
RingsFormed == WellFormed(tasks) /\ WellFormed(work)

(* The places a task record can be in, and the record that is in one. *)
PlaceSet == ({"free", "queued"} \X Slots) \cup ({"worker"} \X Workers) \cup ({"caller"} \X Threads)

In(x) == CASE x[1] = "free"   -> tasks.array[x[2]]
           [] x[1] = "queued" -> work.array[x[2]]
           [] x[1] = "worker" -> wtask[x[2]]
           [] x[1] = "caller" -> ctask[x[2]]

Apart == \A x, y \in PlaceSet : In(x) = In(y) /\ In(x) # NULL => x = y

NoneLost == pool = "up" => \A t \in Tasks : \E x \in PlaceSet : In(x) = t

(* What workers and callers hold where they are. *)
Held ==
  /\ \A w \in Workers : wtask[w] # NULL <=> wpc[w] \in {"run", "clear", "return", "push"}
  /\ \A p \in Threads : /\ ctask[p] # NULL <=> cpc[p] = "put"
                        /\ cjob[p] # NULL <=> cpc[p] # "idle"
                        /\ cpc[p] = "put" => func[ctask[p]] = cjob[p]
  /\ \A w \in Workers : cpc[w] # "idle" => wpc[w] = "run" /\ func[wtask[w]] \in Spawners

(* No job is submitted twice, queued twice or run twice. *)
EachOnce ==
  /\ \A i, k \in DOMAIN submitted : submitted[i] = submitted[k] => i = k
  /\ \A p \in Threads : /\ cjob[p] \notin JobsOf(submitted)
                        /\ \A q \in Threads : cjob[p] = cjob[q] /\ cjob[p] # NULL => p = q
  /\ finished \subseteq JobsOf(started)
  /\ \A w \in Workers : wpc[w] = "run" =>
       /\ func[wtask[w]] \in JobsOf(started) \ finished
       /\ \A v \in Workers \ {w} : wpc[v] = "run" => func[wtask[v]] # func[wtask[w]]

ClientsIdle == stop => \A p \in Clients : cpc[p] = "idle"

IInv == /\ TypeOK /\ RingsFormed /\ Apart /\ NoneLost /\ Held /\ EachOnce
        /\ ClientsIdle /\ JobsInOrder /\ NoLateCaller
-----------------------------------------------------------------------------
(* Places *)

LEMMA PlaceFacts ==
  /\ \A i \in Slots : /\ <<"free", i>> \in PlaceSet /\ In(<<"free", i>>) = tasks.array[i]
                      /\ <<"queued", i>> \in PlaceSet /\ In(<<"queued", i>>) = work.array[i]
  /\ \A w \in Workers : <<"worker", w>> \in PlaceSet /\ In(<<"worker", w>>) = wtask[w]
  /\ \A p \in Threads : <<"caller", p>> \in PlaceSet /\ In(<<"caller", p>>) = ctask[p]
BY DEF PlaceSet, In

(* The kinds of place a record can be in. *)
LEMMA PlaceCases ==
  ASSUME NEW x \in PlaceSet
  PROVE  \/ \E i \in Slots : x = <<"free", i>>
         \/ \E i \in Slots : x = <<"queued", i>>
         \/ \E w \in Workers : x = <<"worker", w>>
         \/ \E p \in Threads : x = <<"caller", p>>
BY DEF PlaceSet

(* A record that goes from one place to another that was empty. *)
LEMMA MoveKeeps ==
  ASSUME Apart, NoneLost, NEW x \in PlaceSet, NEW y \in PlaceSet,
         In(x) # NULL, In(y) = NULL, In(x)' = NULL, In(y)' = In(x),
         \A z \in PlaceSet \ {x, y} : In(z)' = In(z), pool' = pool
  PROVE  Apart' /\ NoneLost'
<1>0. PlaceSet' = PlaceSet
  BY DEF PlaceSet, Threads
<1>1. Apart'
  <2>1. \A z \in PlaceSet \ {x, y} : In(z)' # In(y)' \/ In(z)' = NULL
    BY DEF Apart
  <2>2. ASSUME NEW a \in PlaceSet, NEW b \in PlaceSet, In(a)' = In(b)', In(a)' # NULL
        PROVE  a = b
    <3>1. a # x /\ b # x
      BY <2>2
    <3>2. CASE a = y \/ b = y
      BY <2>1, <2>2, <3>1, <3>2
    <3>3. CASE a # y /\ b # y
      BY <2>2, <3>1, <3>3 DEF Apart
    <3>. QED
      BY <3>2, <3>3
  <2>. QED
    BY <1>0, <2>2 DEF Apart
<1>2. NoneLost'
  <2>1. ASSUME NEW t \in Tasks, pool = "up"
        PROVE  \E z \in PlaceSet : In(z)' = t
    <3>1. PICK z \in PlaceSet : In(z) = t
      BY <2>1 DEF NoneLost
    <3>2. z # y
      BY <3>1, PoolAssumption
    <3>. QED
      BY <3>1, <3>2
  <2>. QED
    BY <1>0, <2>1 DEF NoneLost
<1>. QED
  BY <1>1, <1>2

(* A record that is left behind when the pool is going down. *)
LEMMA DropKeeps ==
  ASSUME Apart, NEW x \in PlaceSet, In(x)' = NULL,
         \A z \in PlaceSet \ {x} : In(z)' = In(z), pool' # "up"
  PROVE  Apart' /\ NoneLost'
<1>0. PlaceSet' = PlaceSet
  BY DEF PlaceSet, Threads
<1>1. ASSUME NEW a \in PlaceSet, NEW b \in PlaceSet, In(a)' = In(b)', In(a)' # NULL
      PROVE  a = b
  BY <1>1 DEF Apart
<1>. QED
  BY <1>0, <1>1 DEF Apart, NoneLost

(* A step that moves no record leaves each in its one place. *)
LEMMA StayKeeps ==
  ASSUME Apart, NoneLost, UNCHANGED <<tasks, work, wtask, ctask>>, pool' = "up" => pool = "up"
  PROVE  Apart' /\ NoneLost'
<1>1. PlaceSet' = PlaceSet /\ \A x : In(x)' = In(x)
  BY DEF PlaceSet, Threads, In
<1>. QED
  BY <1>1 DEF Apart, NoneLost

(* What a ring has in its slots after push and pop. *)
LEMMA RingSlots ==
  ASSUME NEW q, RingType(q, Tasks), NEW d
  PROVE  /\ q.head \in Slots /\ q.tail \in Slots
         /\ AfterPush(q, d).array[q.tail] = d /\ AfterPop(q).array[q.head] = NULL
         /\ \A i \in Slots \ {q.tail} : AfterPush(q, d).array[i] = q.array[i]
         /\ \A i \in Slots \ {q.head} : AfterPop(q).array[i] = q.array[i]
BY DEF RingType, AfterPush, AfterPop

(* push() waits unless the slot of the tail is free; pop() waits unless     *)
(* there is a record in the slot of the head.                               *)
LEMMA RingEnds ==
  ASSUME NEW q, RingType(q, Tasks), WellFormed(q)
  PROVE  /\ ~PushBlocked(q) => q.array[q.tail] = NULL
         /\ ~PopBlocked(q) => Front(q) \in Tasks
<1>1. /\ q.head \in Slots /\ q.tail \in Slots /\ \A i \in Slots : i \in Int
      /\ q.array[q.head] \in Tasks \cup {NULL}
  BY RingAssumption DEF RingType, Slots
<1>2. ~PushBlocked(q) => q.array[q.tail] = NULL
  BY <1>1 DEF WellFormed, InUse, PushBlocked
<1>3. ~PopBlocked(q) => q.array[q.head] # NULL
  BY <1>1 DEF WellFormed, InUse, PopBlocked
<1>. QED
  BY <1>1, <1>2, <1>3 DEF Front

-----------------------------------------------------------------------------
(* The jobs on their way *)

(* The first of s2 goes to the end of s1. *)
LEMMA ConcatMoves ==
  ASSUME NEW S, NEW s1 \in Seq(S), NEW s2 \in Seq(S), s2 # <<>>
  PROVE  /\ s1 \o s2 = Append(s1, Head(s2)) \o Tail(s2)
         /\ Len(s1) + 1 \in 1 .. Len(s1 \o s2) /\ (s1 \o s2)[Len(s1) + 1] = Head(s2)
<1>1. /\ Head(s2) \in S /\ Head(s2) = s2[1] /\ Tail(s2) \in Seq(S) /\ Len(Tail(s2)) = Len(s2) - 1
      /\ \A i \in 1 .. Len(Tail(s2)) : Tail(s2)[i] = s2[i + 1]
      /\ Len(s1) \in Nat /\ Len(s2) \in Nat \ {0}
  BY HeadTailProperties, LenProperties, EmptySeq
<1>2. /\ Append(s1, Head(s2)) \in Seq(S) /\ Len(Append(s1, Head(s2))) = Len(s1) + 1
      /\ \A i \in 1 .. Len(s1) + 1 : Append(s1, Head(s2))[i] = IF i <= Len(s1) THEN s1[i] ELSE Head(s2)
  BY <1>1
<1>. DEFINE l == s1 \o s2
            r == Append(s1, Head(s2)) \o Tail(s2)
<1>3. /\ l \in Seq(S) /\ Len(l) = Len(s1) + Len(s2)
      /\ \A i \in 1 .. Len(s1) + Len(s2) : l[i] = IF i <= Len(s1) THEN s1[i] ELSE s2[i - Len(s1)]
  BY ConcatProperties
<1>4. /\ r \in Seq(S) /\ Len(r) = Len(s1) + Len(s2)
      /\ \A i \in 1 .. Len(s1) + Len(s2) :
           r[i] = IF i <= Len(s1) + 1 THEN Append(s1, Head(s2))[i] ELSE Tail(s2)[i - (Len(s1) + 1)]
  BY <1>1, <1>2, ConcatProperties
<1>5. ASSUME NEW i \in 1 .. Len(s1) + Len(s2) PROVE l[i] = r[i]
  <2>1. CASE i <= Len(s1)
    BY <1>1, <1>2, <1>3, <1>4, <2>1
  <2>2. CASE i = Len(s1) + 1
    BY <1>1, <1>2, <1>3, <1>4, <2>2
  <2>3. CASE i > Len(s1) + 1
    <3>1. i - (Len(s1) + 1) \in 1 .. Len(Tail(s2)) /\ i - (Len(s1) + 1) + 1 = i - Len(s1)
      BY <1>1, <2>3
    <3>2. r[i] = s2[i - Len(s1)]
      BY <1>1, <1>4, <2>3, <3>1
    <3>. QED
      BY <1>1, <1>3, <2>3, <3>2
  <2>. QED
    BY <1>1, <2>1, <2>2, <2>3
<1>6. l = r
  BY <1>3, <1>4, <1>5, SeqEqual
<1>7. Len(s1) + 1 \in 1 .. Len(l) /\ l[Len(s1) + 1] = Head(s2)
  BY <1>1, <1>3
<1>. QED
  BY <1>6, <1>7

(* Appending to the second of two sequences appends to both. *)
LEMMA ConcatAppends ==
  ASSUME NEW S, NEW s1 \in Seq(S), NEW s2 \in Seq(S), NEW e \in S
  PROVE  s1 \o Append(s2, e) = Append(s1 \o s2, e)
<1>1. <<e>> \in Seq(S)
  OBVIOUS
<1>2. Append(s2, e) = s2 \o <<e>>
  BY AppendIsConcat
<1>3. s1 \o s2 \in Seq(S)
  BY ConcatProperties
<1>4. Append(s1 \o s2, e) = (s1 \o s2) \o <<e>>
  BY <1>3, AppendIsConcat
<1>. QED
  BY <1>1, <1>2, <1>4, ConcatAssociative

(* The jobs of the records in workQueue. *)
Queued == [k \in DOMAIN Contents(work) |-> func[Contents(work)[k]]]

(* The jobs in the work queue, read from their records. *)
LEMMA QueuedType ==
  ASSUME TypeOK, RingsFormed
  PROVE  /\ Contents(work) \in Seq(Tasks)
         /\ Queued \in Seq(Jobs \cup {NULL}) /\ Len(Queued) = Len(Contents(work))
         /\ started \in Seq(Jobs \cup {NULL}) /\ submitted \in Seq(Jobs \cup {NULL})
<1>1. Contents(work) \in Seq(Tasks)
  BY ContentsType DEF TypeOK, RingsFormed
<1>2. Queued \in Seq(Jobs \cup {NULL}) /\ Len(Queued) = Len(Contents(work))
  BY <1>1 DEF Queued, TypeOK
<1>. QED
  BY <1>1, <1>2, SeqMonotonic DEF TypeOK

(* The jobs that were started are among those that were submitted, and come *)
(* first.                                                                   *)
LEMMA StartedFirst ==
  ASSUME TypeOK, RingsFormed, JobsInOrder
  PROVE  /\ submitted = started \o Queued /\ DOMAIN started \subseteq DOMAIN submitted
         /\ \A i \in DOMAIN started : submitted[i] = started[i]
         /\ JobsOf(started) \subseteq JobsOf(submitted)
<1>1. submitted = started \o Queued
  BY DEF JobsInOrder, Queued
<1>2. /\ Len(submitted) = Len(started) + Len(Queued)
      /\ \A i \in 1 .. Len(started) + Len(Queued) :
           submitted[i] = IF i <= Len(started) THEN started[i] ELSE Queued[i - Len(started)]
  BY <1>1, QueuedType, ConcatProperties
<1>3. /\ Len(started) \in Nat /\ Len(Queued) \in Nat
      /\ DOMAIN started = 1 .. Len(started) /\ DOMAIN submitted = 1 .. Len(submitted)
  BY QueuedType, LenProperties
<1>4. /\ DOMAIN started \subseteq DOMAIN submitted
      /\ \A i \in DOMAIN started : submitted[i] = started[i]
  BY <1>2, <1>3
<1>. QED
  BY <1>1, <1>4 DEF JobsOf

(* What is in workQueue stays so as long as the records in it do.           *)
LEMMA QueuedSame ==
  ASSUME TypeOK, RingsFormed, UNCHANGED work,
         \A i \in Slots : work.array[i] # NULL => func'[work.array[i]] = func[work.array[i]]
  PROVE  Queued' = Queued
<1>. DEFINE c == Contents(work)
<1>1. DOMAIN c = 1 .. Count(work)
  BY DEF Contents
<1>2. ASSUME NEW k \in DOMAIN c PROVE func'[c[k]] = func[c[k]]
  <2>1. SlotOf(work, k) \in Slots /\ c[k] = work.array[SlotOf(work, k)]
    BY <1>1, CountProperties DEF Contents, TypeOK, RingsFormed
  <2>2. InUse(work, SlotOf(work, k))
    BY <1>1, CountProperties DEF TypeOK, RingsFormed
  <2>. QED
    BY <2>1, <2>2 DEF RingsFormed, WellFormed
<1>3. Contents(work)' = c
  BY DEF Contents, Count, SlotOf
<1>. QED
  BY <1>2, <1>3 DEF Queued

-----------------------------------------------------------------------------
(* threadPool_create: every record is free. *)
LEMMA InitIInv == Init => IInv
<1>. SUFFICES ASSUME Init PROVE IInv
  OBVIOUS
<1>. USE PoolAssumption, RingAssumption
<1>1. /\ tasks = [head |-> 0, tail |-> 0, array |-> [i \in Slots |-> i + 1]]
      /\ work = NewRing /\ work.array = [i \in Slots |-> NULL]
      /\ 0 \in Slots /\ \A i \in Slots : i + 1 \in Tasks /\ i + 1 # NULL
  BY DEF Init, NewRing, Slots, Tasks
<1>2. RingType(tasks, Tasks) /\ WellFormed(tasks)
  BY <1>1 DEF RingType, WellFormed, InUse
<1>3. RingType(work, Tasks) /\ WellFormed(work) /\ Contents(work) = <<>>
  BY <1>1, NewRingWellFormed
<1>4. TypeOK
  BY <1>2, <1>3 DEF Init, TypeOK, WorkerPlaces
<1>5. Apart
  <2>1. ASSUME NEW x \in PlaceSet, In(x) # NULL
        PROVE  \E i \in Slots : x = <<"free", i>> /\ In(x) = i + 1
    <3>1. \A w \in Workers : wtask[w] = NULL
      BY DEF Init
    <3>2. \A p \in Threads : ctask[p] = NULL
      BY DEF Init
    <3>3. \A i \in Slots : tasks.array[i] = i + 1 /\ work.array[i] = NULL
      BY <1>1
    <3>4. CASE \E i \in Slots : x = <<"free", i>>
      BY <3>3, <3>4, PlaceFacts
    <3>5. CASE ~ \E i \in Slots : x = <<"free", i>>
      <4>1. In(x) = NULL
        BY <3>1, <3>2, <3>3, <3>5, PlaceFacts, PlaceCases
      <4>. QED
        BY <2>1, <4>1
    <3>. QED
      BY <3>4, <3>5
  <2>2. \A i, k \in Slots : i + 1 = k + 1 => i = k
    BY DEF Slots
  <2>. QED
    BY <2>1, <2>2 DEF Apart
<1>6. NoneLost
  <2>1. ASSUME NEW t \in Tasks PROVE t - 1 \in Slots /\ tasks.array[t - 1] = t
    BY <1>1 DEF Tasks, Slots
  <2>. QED
    BY <2>1, PlaceFacts DEF NoneLost
<1>7. Held
  BY DEF Init, Held, Threads
<1>8. JobsOf(submitted) = {} /\ JobsOf(started) = {}
  BY DEF Init, JobsOf
<1>9. EachOnce
  BY <1>8 DEF Init, EachOnce
<1>10. JobsInOrder
  <2>1. [k \in DOMAIN Contents(work) |-> func[Contents(work)[k]]] = <<>>
    BY <1>3
  <2>2. <<>> \o <<>> = <<>>
    BY ConcatEmptySeq, EmptySeq
  <2>. QED
    BY <2>1, <2>2 DEF Init, JobsInOrder
<1>. QED
  BY <1>2, <1>3, <1>4, <1>5, <1>6, <1>7, <1>9, <1>10
     DEF Init, IInv, RingsFormed, ClientsIdle, NoLateCaller

-----------------------------------------------------------------------------
(* The steps of threads *)

Holding == {"run", "clear", "return", "push"}

(* Steps that move no record and no job. *)
LEMMA QuietKeeps ==
  ASSUME IInv, UNCHANGED <<tasks, work, func, wtask, callVars, submitted, started, finished>>,
         wpc' \in [Workers -> WorkerPlaces],
         \A w \in Workers : \/ wpc'[w] = wpc[w] \/ {wpc[w], wpc'[w]} \cap Holding = {}
                            \/ {wpc[w], wpc'[w]} \subseteq Holding \ {"run"},
         pool' = "up" => pool = "up", ClientsIdle', NoLateCaller'
  PROVE  IInv'
<1>. USE DEF IInv
<1>1. UNCHANGED <<tasks, work, func, wtask, cpc, cjob, ctask, submitted, started, finished>>
  BY DEF callVars
<1>2. TypeOK' /\ RingsFormed'
  BY <1>1 DEF TypeOK, RingsFormed, RingType, WellFormed, InUse
<1>3. Apart' /\ NoneLost'
  BY <1>1, StayKeeps
<1>4. \A w \in Workers : /\ wpc'[w] \in Holding <=> wpc[w] \in Holding
                         /\ wpc'[w] = "run" <=> wpc[w] = "run"
  BY DEF Holding
<1>5. Held'
  <2>1. \A w \in Workers : wtask[w] # NULL <=> wpc'[w] \in {"run", "clear", "return", "push"}
    BY <1>4 DEF Held, Holding
  <2>. QED
    BY <1>1, <1>4, <2>1 DEF Held
<1>6. EachOnce'
  BY <1>1, <1>4 DEF EachOnce, JobsOf
<1>7. JobsInOrder'
  BY <1>1 DEF JobsInOrder, Contents, Count, SlotOf
<1>. QED
  BY <1>2, <1>3, <1>5, <1>6, <1>7

(* thread_entry takes the record at the head of the queue: the oldest job   *)
(* that was not started, which nobody else runs.                            *)
LEMMA PopWorkKeeps ==
  ASSUME IInv, NEW w \in Workers, wpc[w] \in {"pop", "asleep"}, ~PopBlocked(work),
         wtask' = [wtask EXCEPT ![w] = Front(work)], work' = AfterPop(work),
         started' = Append(started, func[Front(work)]), WorkerAt(w, "run"),
         UNCHANGED <<tasks, func, pool, callVars, joined, stop, submitted, finished>>
  PROVE  IInv'
<1>. USE DEF IInv
<1>. DEFINE t == Front(work)
            j == func[t]
<1>1. /\ UNCHANGED <<tasks, func, pool, cpc, cjob, ctask, stop, submitted, finished>>
      /\ wpc' = [wpc EXCEPT ![w] = "run"]
  BY DEF callVars, WorkerAt
<1>2. /\ RingType(work, Tasks) /\ WellFormed(work) /\ t \in Tasks /\ t # NULL
      /\ work.head \in Slots /\ work.array[work.head] = t
  <2>1. RingType(work, Tasks) /\ WellFormed(work)
    BY DEF TypeOK, RingsFormed
  <2>2. t \in Tasks /\ work.head \in Slots
    BY <2>1, RingEnds, RingSlots
  <2>. QED
    BY <2>1, <2>2, PoolAssumption DEF Front
<1>3. /\ RingType(work', Tasks) /\ WellFormed(work')
      /\ Contents(work) # <<>> /\ t = Head(Contents(work)) /\ Contents(work') = Tail(Contents(work))
  BY <1>2, PopRemovesHead
<1>4. wtask[w] = NULL
  BY DEF Held
<1>5. Contents(work) \in Seq(Tasks) /\ Queued \in Seq(Jobs \cup {NULL}) /\ Len(Queued) = Len(Contents(work))
  BY QueuedType
<1>6. Queued # <<>> /\ Head(Queued) = j /\ Queued' = Tail(Queued)
  <2>1. Len(Contents(work)) \in Nat \ {0} /\ Len(Queued) \in Nat \ {0}
    BY <1>3, <1>5, EmptySeq
  <2>2. Queued # <<>>
    BY <2>1
  <2>3. Head(Queued) = j
    BY <1>3, <1>5, <2>1 DEF Queued
  <2>4. DOMAIN Tail(Contents(work)) = 1 .. Len(Contents(work)) - 1
    BY <1>5, <2>1
  <2>5. Queued' = [k \in 1 .. Len(Contents(work)) - 1 |-> func[Contents(work)[k + 1]]]
    BY <1>1, <1>3, <1>5, <2>1, <2>4 DEF Queued
  <2>6. Tail(Queued) = [k \in 1 .. Len(Contents(work)) - 1 |-> func[Contents(work)[k + 1]]]
    BY <1>5, <2>1 DEF Queued
  <2>. QED
    BY <2>2, <2>3, <2>5, <2>6
<1>7. /\ submitted = started \o Queued /\ DOMAIN started \subseteq DOMAIN submitted
      /\ \A i \in DOMAIN started : submitted[i] = started[i]
  BY StartedFirst
<1>8. /\ started \o Queued = Append(started, j) \o Tail(Queued)
      /\ Len(started) + 1 \in 1 .. Len(submitted) /\ submitted[Len(started) + 1] = j
  BY <1>5, <1>6, <1>7, QueuedType, ConcatMoves
<1>9. JobsInOrder'
  BY <1>1, <1>6, <1>7, <1>8 DEF JobsInOrder, Queued
<1>10. j \in Jobs /\ j \notin JobsOf(started) /\ JobsOf(started') = JobsOf(started) \cup {j}
  <2>1. Len(started) \in Nat /\ DOMAIN started = 1 .. Len(started) /\ DOMAIN submitted = 1 .. Len(submitted)
    BY DEF TypeOK
  <2>2. j \in Jobs
    BY <1>8 DEF TypeOK
  <2>3. j \notin JobsOf(started)
    <3>1. \A i, k \in DOMAIN submitted : submitted[i] = submitted[k] => i = k
      BY DEF EachOnce
    <3>2. ASSUME NEW i \in DOMAIN started PROVE started[i] # j
      <4>1. i \in DOMAIN submitted /\ submitted[i] = started[i] /\ i <= Len(started) /\ i \in Nat
        BY <1>7, <2>1
      <4>2. Len(started) + 1 \in DOMAIN submitted /\ Len(started) + 1 # i
        BY <1>8, <2>1, <4>1
      <4>3. submitted[Len(started) + 1] # submitted[i]
        BY <3>1, <4>1, <4>2
      <4>. QED
        BY <1>8, <4>1, <4>3
    <3>. QED
      BY <3>2 DEF JobsOf
  <2>4. /\ DOMAIN started' = 1 .. Len(started) + 1 /\ started'[Len(started) + 1] = j
        /\ \A i \in 1 .. Len(started) : started'[i] = started[i]
    BY <2>1, <2>2 DEF TypeOK
  <2>. QED
    BY <2>1, <2>2, <2>3, <2>4 DEF JobsOf
<1>11. TypeOK' /\ RingsFormed'
  <2>1. wpc' \in [Workers -> WorkerPlaces] /\ wtask' \in [Workers -> Tasks \cup {NULL}]
    BY <1>1, <1>2 DEF TypeOK, WorkerPlaces
  <2>2. started' \in Seq(Jobs)
    BY <1>10 DEF TypeOK
  <2>3. RingType(tasks', Tasks) /\ WellFormed(tasks')
    BY <1>1 DEF TypeOK, RingsFormed
  <2>. QED
    BY <1>1, <1>3, <2>1, <2>2, <2>3 DEF TypeOK, RingsFormed, RingType, WellFormed, InUse
<1>12. Apart' /\ NoneLost'
  <2>0. PICK h \in Slots : h = work.head
    BY <1>2
  <2>. DEFINE x == <<"queued", h>>
              y == <<"worker", w>>
  <2>1. x \in PlaceSet /\ y \in PlaceSet /\ In(x) = t /\ In(y) = NULL
    BY <1>2, <1>4, <2>0, PlaceFacts
  <2>2. In(x)' = NULL /\ In(y)' = t
    <3>1. work'.array[h] = NULL
      BY <1>2, <2>0, RingSlots
    <3>2. wtask'[w] = t
      BY DEF TypeOK
    <3>. QED
      BY <3>1, <3>2 DEF In
  <2>3. ASSUME NEW z \in PlaceSet \ {x, y} PROVE In(z)' = In(z)
    <3>1. CASE \E i \in Slots : z = <<"free", i>>
      BY <1>1, <3>1 DEF In
    <3>2. CASE \E i \in Slots : z = <<"queued", i>>
      <4>1. PICK i \in Slots : z = <<"queued", i>> /\ i # work.head
        BY <2>0, <2>3, <3>2
      <4>2. work'.array[i] = work.array[i]
        BY <1>2, <4>1, RingSlots
      <4>. QED
        BY <4>1, <4>2 DEF In
    <3>3. CASE \E v \in Workers : z = <<"worker", v>>
      <4>1. PICK v \in Workers : z = <<"worker", v>> /\ v # w
        BY <2>3, <3>3
      <4>. QED
        BY <4>1 DEF In, TypeOK
    <3>4. CASE \E p \in Threads : z = <<"caller", p>>
      BY <1>1, <3>4 DEF In
    <3>. QED
      BY <3>1, <3>2, <3>3, <3>4, PlaceCases
  <2>. QED
    BY <1>1, <1>2, <2>1, <2>2, <2>3, MoveKeeps
<1>13. Held'
  <2>1. /\ wpc'[w] = "run" /\ wtask'[w] = t
        /\ \A v \in Workers \ {w} : wpc'[v] = wpc[v] /\ wtask'[v] = wtask[v]
    BY <1>1 DEF TypeOK
  <2>2. cpc[w] = "idle"
    BY DEF Held
  <2>. QED
    BY <1>1, <1>2, <2>1, <2>2 DEF Held
<1>14. EachOnce'
  <2>1. /\ wpc'[w] = "run" /\ wtask'[w] = t
        /\ \A v \in Workers \ {w} : wpc'[v] = wpc[v] /\ wtask'[v] = wtask[v]
    BY <1>1 DEF TypeOK
  <2>2. /\ \A i, k \in DOMAIN submitted : submitted[i] = submitted[k] => i = k
        /\ \A p \in Threads : /\ cjob[p] \notin JobsOf(submitted)
                              /\ \A q \in Threads : cjob[p] = cjob[q] /\ cjob[p] # NULL => p = q
    BY DEF EachOnce
  <2>3. finished \subseteq JobsOf(started') /\ j \in JobsOf(started') \ finished
    BY <1>10 DEF EachOnce
  <2>4. \A v \in Workers \ {w} : wpc[v] = "run" =>
          /\ func[wtask[v]] \in JobsOf(started') \ finished /\ func[wtask[v]] # j
          /\ \A u \in Workers \ {v} : wpc[u] = "run" => func[wtask[u]] # func[wtask[v]]
    BY <1>10 DEF EachOnce
  <2>. QED
    BY <1>1, <2>1, <2>2, <2>3, <2>4 DEF EachOnce, JobsOf
<1>15. ClientsIdle' /\ NoLateCaller'
  BY <1>1 DEF ClientsIdle, NoLateCaller
<1>. QED
  BY <1>9, <1>11, <1>12, <1>13, <1>14, <1>15

(* A job that returns keeps the invariant. *)
LEMMA FuncReturnsKeeps ==
  ASSUME IInv, NEW w \in Workers, FuncReturns(w)
  PROVE  IInv'
<1>. USE DEF IInv
<1>. DEFINE j == func[wtask[w]]
<1>1. /\ wpc[w] = "run" /\ cpc[w] = "idle" /\ wpc' = [wpc EXCEPT ![w] = "clear"]
      /\ finished' = finished \cup {j}
      /\ UNCHANGED <<tasks, work, func, pool, wtask, cpc, cjob, ctask, stop, submitted, started>>
  BY DEF FuncReturns, WorkerAt, callVars
<1>2. j \in JobsOf(started) /\ j \in Jobs
  BY <1>1 DEF EachOnce, JobsOf, TypeOK
<1>3. /\ wpc'[w] = "clear" /\ \A v \in Workers \ {w} : wpc'[v] = wpc[v]
      /\ wpc' \in [Workers -> WorkerPlaces]
  BY <1>1 DEF TypeOK, WorkerPlaces
<1>4. TypeOK' /\ RingsFormed'
  BY <1>1, <1>2, <1>3 DEF TypeOK, RingsFormed, RingType, WellFormed, InUse
<1>5. Apart' /\ NoneLost'
  BY <1>1, StayKeeps
<1>6. Held'
  BY <1>1, <1>3 DEF Held
<1>7. EachOnce'
  <2>1. /\ \A i, k \in DOMAIN submitted : submitted[i] = submitted[k] => i = k
        /\ \A p \in Threads : /\ cjob[p] \notin JobsOf(submitted)
                              /\ \A q \in Threads : cjob[p] = cjob[q] /\ cjob[p] # NULL => p = q
    BY DEF EachOnce
  <2>2. finished' \subseteq JobsOf(started)
    BY <1>1, <1>2 DEF EachOnce
  <2>3. \A v \in Workers : wpc'[v] = "run" =>
          /\ v # w /\ wpc[v] = "run"
          /\ func[wtask[v]] \in JobsOf(started) \ finished'
          /\ \A u \in Workers \ {v} : wpc[u] = "run" => func[wtask[u]] # func[wtask[v]]
    BY <1>1, <1>3 DEF EachOnce
  <2>4. \A v \in Workers : wpc'[v] = "run" => wpc[v] = "run"
    BY <1>3
  <2>. QED
    BY <1>1, <2>1, <2>2, <2>3, <2>4 DEF EachOnce, JobsOf
<1>8. ClientsIdle' /\ NoLateCaller' /\ JobsInOrder'
  BY <1>1 DEF ClientsIdle, NoLateCaller, JobsInOrder, Contents, Count, SlotOf
<1>. QED
  BY <1>4, <1>5, <1>6, <1>7, <1>8

(* A record that is cleared is in no queue, and nobody else has it. *)
LEMMA Elsewhere ==
  ASSUME IInv, NEW w \in Workers, wtask[w] # NULL
  PROVE  /\ \A i \in Slots : work.array[i] # wtask[w] /\ tasks.array[i] # wtask[w]
         /\ \A v \in Workers \ {w} : wtask[v] # wtask[w]
         /\ \A p \in Threads : ctask[p] # wtask[w]
<1>1. \A x \in PlaceSet : x # <<"worker", w>> => In(x) # wtask[w]
  BY PlaceFacts DEF Apart, IInv
<1>. QED
  BY <1>1, PlaceFacts

(* The worker clears its record before it gives it back. *)
LEMMA ClearTaskKeeps ==
  ASSUME IInv, NEW w \in Workers, ClearTask(w)
  PROVE  IInv'
<1>. USE DEF IInv
<1>1. /\ wpc[w] = "clear" /\ wpc' = [wpc EXCEPT ![w] = "return"]
      /\ func' = [func EXCEPT ![wtask[w]] = NULL]
      /\ UNCHANGED <<tasks, work, pool, wtask, cpc, cjob, ctask, stop, submitted, started, finished>>
  BY DEF ClearTask, WorkerAt, callVars
<1>2. wtask[w] # NULL /\ wtask[w] \in Tasks
  BY <1>1 DEF Held, TypeOK
<1>3. /\ wpc'[w] = "return" /\ \A v \in Workers \ {w} : wpc'[v] = wpc[v]
      /\ wpc' \in [Workers -> WorkerPlaces]
  BY <1>1 DEF TypeOK, WorkerPlaces
<1>4. \A t \in Tasks \ {wtask[w]} : func'[t] = func[t]
  BY <1>1 DEF TypeOK
<1>5. TypeOK' /\ RingsFormed'
  <2>1. func' \in [Tasks -> Jobs \cup {NULL}]
    BY <1>1, <1>2 DEF TypeOK
  <2>. QED
    BY <1>1, <1>3, <2>1 DEF TypeOK, RingsFormed, RingType, WellFormed, InUse
<1>6. Apart' /\ NoneLost'
  BY <1>1, StayKeeps
<1>7. /\ \A v \in Workers \ {w} : wpc[v] = "run" => func'[wtask[v]] = func[wtask[v]]
      /\ \A p \in Threads : cpc[p] = "put" => func'[ctask[p]] = func[ctask[p]]
  <2>1. \A v \in Workers \ {w} : wpc[v] = "run" => wtask[v] \in Tasks \ {wtask[w]}
    BY <1>2, Elsewhere DEF Held, TypeOK
  <2>2. \A p \in Threads : cpc[p] = "put" => ctask[p] \in Tasks \ {wtask[w]}
    BY <1>2, Elsewhere DEF Held, TypeOK
  <2>. QED
    BY <1>4, <2>1, <2>2
<1>8. Held'
  <2>1. \A v \in Workers : wtask[v] # NULL <=> wpc'[v] \in {"run", "clear", "return", "push"}
    BY <1>1, <1>3 DEF Held
  <2>2. \A p \in Threads : /\ ctask[p] # NULL <=> cpc[p] = "put"
                           /\ cjob[p] # NULL <=> cpc[p] # "idle"
                           /\ cpc[p] = "put" => func'[ctask[p]] = cjob[p]
    BY <1>7 DEF Held
  <2>3. \A v \in Workers : cpc[v] # "idle" => wpc'[v] = "run" /\ func'[wtask[v]] \in Spawners
    <3>1. \A v \in Workers : cpc[v] # "idle" => wpc[v] = "run" /\ func[wtask[v]] \in Spawners
      BY DEF Held
    <3>. QED
      BY <1>1, <1>3, <1>7, <3>1
  <2>. QED
    BY <1>1, <2>1, <2>2, <2>3 DEF Held
<1>9. EachOnce'
  <2>1. /\ \A i, k \in DOMAIN submitted : submitted[i] = submitted[k] => i = k
        /\ \A p \in Threads : /\ cjob[p] \notin JobsOf(submitted)
                              /\ \A q \in Threads : cjob[p] = cjob[q] /\ cjob[p] # NULL => p = q
        /\ finished \subseteq JobsOf(started)
    BY DEF EachOnce
  <2>2. \A v \in Workers : wpc'[v] = "run" => v # w /\ wpc[v] = "run" /\ func'[wtask[v]] = func[wtask[v]]
    BY <1>3, <1>7
  <2>3. \A v \in Workers : wpc'[v] = "run" =>
          /\ func'[wtask[v]] \in JobsOf(started) \ finished
          /\ \A u \in Workers \ {v} : wpc'[u] = "run" => func'[wtask[u]] # func'[wtask[v]]
    BY <2>2 DEF EachOnce
  <2>. QED
    BY <1>1, <2>1, <2>3 DEF EachOnce, JobsOf
<1>10. JobsInOrder'
  <2>1. \A i \in Slots : work.array[i] # NULL => work.array[i] \in Tasks \ {wtask[w]}
    BY <1>2, Elsewhere DEF TypeOK, RingType
  <2>2. Queued' = Queued
    BY <1>1, <1>4, <2>1, QueuedSame
  <2>. QED
    BY <1>1, <2>2 DEF JobsInOrder, Queued
<1>11. ClientsIdle' /\ NoLateCaller'
  BY <1>1 DEF ClientsIdle, NoLateCaller
<1>. QED
  BY <1>5, <1>6, <1>8, <1>9, <1>10, <1>11

(* A worker lets go of its record when the pool is going down. *)
LEMMA LetGoKeeps ==
  ASSUME IInv, NEW w \in Workers, pool # "up", wtask' = [wtask EXCEPT ![w] = NULL],
         NEW c \in {"loop", "fault", "cancelled"}, WorkerAt(w, c),
         UNCHANGED <<tasks, work, func, pool, callVars, stop, submitted, started, finished>>
  PROVE  IInv'
<1>. USE DEF IInv
<1>1. /\ wpc' = [wpc EXCEPT ![w] = c]
      /\ UNCHANGED <<tasks, work, func, pool, cpc, cjob, ctask, stop, submitted, started, finished>>
  BY DEF WorkerAt, callVars
<1>2. /\ wpc'[w] = c /\ \A v \in Workers \ {w} : wpc'[v] = wpc[v]
      /\ wpc' \in [Workers -> WorkerPlaces]
      /\ wtask'[w] = NULL /\ \A v \in Workers \ {w} : wtask'[v] = wtask[v]
      /\ wtask' \in [Workers -> Tasks \cup {NULL}]
  BY <1>1 DEF TypeOK, WorkerPlaces
<1>3. TypeOK' /\ RingsFormed'
  BY <1>1, <1>2 DEF TypeOK, RingsFormed, RingType, WellFormed, InUse
<1>4. Apart' /\ NoneLost'
  <2>1. <<"worker", w>> \in PlaceSet /\ In(<<"worker", w>>)' = NULL
    BY <1>2, PlaceFacts DEF In
  <2>2. ASSUME NEW z \in PlaceSet \ {<<"worker", w>>} PROVE In(z)' = In(z)
    <3>1. CASE \E v \in Workers : z = <<"worker", v>>
      <4>1. PICK v \in Workers : z = <<"worker", v>> /\ v # w
        BY <2>2, <3>1
      <4>. QED
        BY <1>2, <4>1 DEF In
    <3>2. CASE ~ \E v \in Workers : z = <<"worker", v>>
      BY <1>1, <3>2, PlaceCases DEF In
    <3>. QED
      BY <3>1, <3>2
  <2>. QED
    BY <1>1, <2>1, <2>2, DropKeeps
<1>5. \A p \in Threads : cpc[p] = "idle"
  BY DEF NoLateCaller
<1>6. Held'
  <2>1. \A v \in Workers : wtask'[v] # NULL <=> wpc'[v] \in {"run", "clear", "return", "push"}
    BY <1>2 DEF Held
  <2>2. \A v \in Workers : v \in Threads
    BY DEF Threads
  <2>. QED
    BY <1>1, <1>5, <2>1, <2>2 DEF Held
<1>7. EachOnce'
  <2>1. /\ \A i, k \in DOMAIN submitted : submitted[i] = submitted[k] => i = k
        /\ \A p \in Threads : /\ cjob[p] \notin JobsOf(submitted)
                              /\ \A q \in Threads : cjob[p] = cjob[q] /\ cjob[p] # NULL => p = q
        /\ finished \subseteq JobsOf(started)
    BY DEF EachOnce
  <2>2. \A v \in Workers : wpc'[v] = "run" => v # w /\ wpc[v] = "run" /\ wtask'[v] = wtask[v]
    BY <1>2
  <2>3. \A v \in Workers : wpc'[v] = "run" =>
          /\ func[wtask'[v]] \in JobsOf(started) \ finished
          /\ \A u \in Workers \ {v} : wpc'[u] = "run" => func[wtask'[u]] # func[wtask'[v]]
    BY <2>2 DEF EachOnce
  <2>. QED
    BY <1>1, <2>1, <2>3 DEF EachOnce, JobsOf
<1>8. JobsInOrder'
  BY <1>1 DEF JobsInOrder, Contents, Count, SlotOf
<1>9. ClientsIdle' /\ NoLateCaller'
  BY <1>1, <1>5 DEF ClientsIdle, NoLateCaller
<1>. QED
  BY <1>3, <1>4, <1>6, <1>7, <1>8, <1>9

(* The worker gives its record back only while the pool is running. *)
LEMMA CheckReturnKeeps ==
  ASSUME IInv, NEW w \in Workers, CheckReturn(w)
  PROVE  IInv'
<1>1. CASE Running
  <2>1. wpc[w] = "return" /\ wpc' = [wpc EXCEPT ![w] = "push"] /\ wtask' = [wtask EXCEPT ![w] = @]
    BY <1>1 DEF CheckReturn, WorkerAt
  <2>2. wtask' = wtask
    BY <2>1 DEF IInv, TypeOK
  <2>3. /\ wpc' \in [Workers -> WorkerPlaces]
        /\ \A v \in Workers : wpc'[v] = wpc[v] \/ {wpc[v], wpc'[v]} \subseteq Holding \ {"run"}
    BY <2>1 DEF IInv, TypeOK, WorkerPlaces, Holding
  <2>4. ClientsIdle' /\ NoLateCaller'
    BY DEF IInv, ClientsIdle, NoLateCaller, CheckReturn, callVars
  <2>. QED
    BY <2>2, <2>3, <2>4, QuietKeeps DEF CheckReturn
<1>2. CASE ~Running
  BY <1>2, LetGoKeeps DEF CheckReturn, Running
<1>. QED
  BY <1>1, <1>2

(* A thread cancelled in its job lets go of its record. *)
LEMMA CancelKeeps ==
  ASSUME IInv, NEW w \in Workers, Cancel(w)
  PROVE  IInv'
BY LetGoKeeps DEF Cancel

(* push(tasksQueue, task): the record goes from the worker to the free ones. *)
LEMMA GiveBackKeeps ==
  ASSUME IInv, NEW w \in Workers, wpc[w] = "push", ~PushBlocked(tasks),
         tasks' = AfterPush(tasks, wtask[w]), wtask' = [wtask EXCEPT ![w] = NULL],
         WorkerAt(w, "loop"),
         UNCHANGED <<work, func, pool, callVars, stop, submitted, started, finished>>
  PROVE  IInv'
<1>. USE DEF IInv
<1>1. /\ wpc' = [wpc EXCEPT ![w] = "loop"]
      /\ UNCHANGED <<work, func, pool, cpc, cjob, ctask, stop, submitted, started, finished>>
  BY DEF WorkerAt, callVars
<1>2. /\ wpc'[w] = "loop" /\ \A v \in Workers \ {w} : wpc'[v] = wpc[v]
      /\ wpc' \in [Workers -> WorkerPlaces]
      /\ wtask'[w] = NULL /\ \A v \in Workers \ {w} : wtask'[v] = wtask[v]
      /\ wtask' \in [Workers -> Tasks \cup {NULL}]
  BY <1>1 DEF TypeOK, WorkerPlaces
<1>3. wtask[w] \in Tasks /\ wtask[w] # NULL
  BY DEF Held, TypeOK
<1>4. RingType(tasks, Tasks) /\ WellFormed(tasks)
  BY DEF TypeOK, RingsFormed
<1>5. RingType(tasks', Tasks) /\ WellFormed(tasks')
  BY <1>3, <1>4, PushAppends
<1>6. TypeOK' /\ RingsFormed'
  BY <1>1, <1>2, <1>5 DEF TypeOK, RingsFormed, RingType, WellFormed, InUse
<1>7. Apart' /\ NoneLost'
  <2>0. PICK i \in Slots : i = tasks.tail
    BY <1>4, RingSlots
  <2>. DEFINE x == <<"worker", w>>
              y == <<"free", i>>
  <2>1. x \in PlaceSet /\ y \in PlaceSet /\ In(x) = wtask[w] /\ In(y) = NULL
    BY <1>4, <2>0, PlaceFacts, RingEnds
  <2>2. In(x)' = NULL /\ In(y)' = wtask[w]
    <3>1. tasks'.array[i] = wtask[w]
      BY <1>4, <2>0, RingSlots
    <3>. QED
      BY <1>2, <3>1 DEF In
  <2>3. ASSUME NEW z \in PlaceSet \ {x, y} PROVE In(z)' = In(z)
    <3>1. CASE \E k \in Slots : z = <<"free", k>>
      <4>1. PICK k \in Slots : z = <<"free", k>> /\ k # tasks.tail
        BY <2>0, <2>3, <3>1
      <4>2. tasks'.array[k] = tasks.array[k]
        BY <1>4, <4>1, RingSlots
      <4>. QED
        BY <4>1, <4>2 DEF In
    <3>2. CASE \E k \in Slots : z = <<"queued", k>>
      BY <1>1, <3>2 DEF In
    <3>3. CASE \E v \in Workers : z = <<"worker", v>>
      <4>1. PICK v \in Workers : z = <<"worker", v>> /\ v # w
        BY <2>3, <3>3
      <4>. QED
        BY <1>2, <4>1 DEF In
    <3>4. CASE \E p \in Threads : z = <<"caller", p>>
      BY <1>1, <3>4 DEF In
    <3>. QED
      BY <3>1, <3>2, <3>3, <3>4, PlaceCases
  <2>. QED
    BY <1>1, <1>3, <2>1, <2>2, <2>3, MoveKeeps
<1>8. Held'
  <2>1. \A v \in Workers : wtask'[v] # NULL <=> wpc'[v] \in {"run", "clear", "return", "push"}
    BY <1>2 DEF Held
  <2>2. \A v \in Workers : cpc[v] # "idle" => wpc'[v] = "run" /\ func[wtask'[v]] \in Spawners
    BY <1>2 DEF Held
  <2>. QED
    BY <1>1, <2>1, <2>2 DEF Held
<1>9. EachOnce'
  <2>1. /\ \A i, k \in DOMAIN submitted : submitted[i] = submitted[k] => i = k
        /\ \A p \in Threads : /\ cjob[p] \notin JobsOf(submitted)
                              /\ \A q \in Threads : cjob[p] = cjob[q] /\ cjob[p] # NULL => p = q
        /\ finished \subseteq JobsOf(started)
    BY DEF EachOnce
  <2>2. \A v \in Workers : wpc'[v] = "run" => v # w /\ wpc[v] = "run" /\ wtask'[v] = wtask[v]
    BY <1>2
  <2>3. \A v \in Workers : wpc'[v] = "run" =>
          /\ func[wtask'[v]] \in JobsOf(started) \ finished
          /\ \A u \in Workers \ {v} : wpc'[u] = "run" => func[wtask'[u]] # func[wtask'[v]]
    BY <2>2 DEF EachOnce
  <2>. QED
    BY <1>1, <2>1, <2>3 DEF EachOnce, JobsOf
<1>10. JobsInOrder'
  BY <1>1 DEF JobsInOrder, Contents, Count, SlotOf
<1>11. ClientsIdle' /\ NoLateCaller'
  BY <1>1 DEF ClientsIdle, NoLateCaller
<1>. QED
  BY <1>6, <1>7, <1>8, <1>9, <1>10, <1>11

(* A record goes from its worker back to the free ones. *)
LEMMA ReturnTaskKeeps ==
  ASSUME IInv, NEW w \in Workers, ReturnTask(w)
  PROVE  IInv'
<1>1. CASE TasksOpen /\ ~PushBlocked(tasks) /\ GiveBack(w) /\ WorkerAt(w, "loop")
  BY <1>1, GiveBackKeeps DEF ReturnTask, GiveBack
<1>2. CASE pool = "tasks_closed" /\ WorkerAt(w, "loop") /\ UNCHANGED tasks
  BY <1>2, LetGoKeeps DEF ReturnTask
<1>3. CASE ~TasksThere /\ WorkerAt(w, "fault") /\ UNCHANGED tasks
  BY <1>3, LetGoKeeps DEF ReturnTask, TasksThere, TasksOpen
<1>. QED
  BY <1>1, <1>2, <1>3 DEF ReturnTask

(* A worker takes the record at the head of the work queue, or waits. *)
LEMMA PopWorkAll ==
  ASSUME IInv, NEW w \in Workers, PopWork(w)
  PROVE  IInv'
<1>. DEFINE Same == UNCHANGED <<tasks, work, func, pool, wtask, callVars, stop, submitted, started, finished>>
<1>1. ASSUME NEW c \in {"asleep", "done", "fault"}, WorkerAt(w, c), Same
      PROVE  IInv'
  <2>1. wpc' = [wpc EXCEPT ![w] = c] /\ wpc[w] \in {"pop", "asleep"}
    BY <1>1 DEF WorkerAt, PopWork
  <2>2. /\ wpc' \in [Workers -> WorkerPlaces]
        /\ \A v \in Workers : wpc'[v] = wpc[v] \/ {wpc[v], wpc'[v]} \cap Holding = {}
    BY <2>1 DEF IInv, TypeOK, WorkerPlaces, Holding
  <2>3. ClientsIdle' /\ NoLateCaller'
    BY <1>1 DEF IInv, ClientsIdle, NoLateCaller, callVars
  <2>. QED
    BY <1>1, <2>2, <2>3, QuietKeeps
<1>2. CASE /\ ~PopBlocked(work) /\ wtask' = [wtask EXCEPT ![w] = Front(work)] /\ work' = AfterPop(work)
           /\ started' = Append(started, func[Front(work)]) /\ WorkerAt(w, "run")
  BY <1>2, PopWorkKeeps DEF PopWork
<1>3. CASE /\ WorkerAt(w, "asleep") \/ WorkerAt(w, "done") \/ WorkerAt(w, "fault")
           /\ UNCHANGED <<work, wtask, started>>
  <2>1. Same
    BY <1>3 DEF PopWork
  <2>. QED
    BY <1>1, <1>3, <2>1
<1>. QED
  BY <1>2, <1>3 DEF PopWork

-----------------------------------------------------------------------------
(* The steps of callers *)

(* The job is one that was not submitted before and that nobody submits. *)
LEMMA PushWorkKeeps ==
  ASSUME IInv, NEW p \in Threads, PushWork(p)
  PROVE  IInv'
<1>. USE DEF IInv
<1>1. PICK j \in Jobs : j \notin JobsOf(submitted) /\ j \notin InFlight /\ cjob' = [cjob EXCEPT ![p] = j]
  BY DEF PushWork
<1>2. /\ cpc[p] = "idle" /\ pool = "up" /\ cpc' = [cpc EXCEPT ![p] = "get"]
      /\ p \in Workers => wpc[p] = "run" /\ func[wtask[p]] \in Spawners
      /\ p \in Clients => ~stop
      /\ UNCHANGED <<tasks, work, func, pool, wpc, wtask, ctask, stop, submitted, started, finished>>
  BY DEF PushWork, CallerAt, workVars
<1>3. /\ cpc'[p] = "get" /\ cjob'[p] = j /\ cpc' \in [Threads -> {"idle", "get", "asleep", "put"}]
      /\ cjob' \in [Threads -> Jobs \cup {NULL}] /\ j # NULL
      /\ \A q \in Threads \ {p} : cpc'[q] = cpc[q] /\ cjob'[q] = cjob[q]
  BY <1>1, <1>2, PoolAssumption DEF TypeOK
<1>4. TypeOK' /\ RingsFormed'
  BY <1>2, <1>3 DEF TypeOK, RingsFormed, RingType, WellFormed, InUse
<1>5. Apart' /\ NoneLost'
  BY <1>2, StayKeeps
<1>6. Held'
  <2>1. \A q \in Threads : /\ ctask[q] # NULL <=> cpc'[q] = "put"
                           /\ cjob'[q] # NULL <=> cpc'[q] # "idle"
                           /\ cpc'[q] = "put" => func[ctask[q]] = cjob'[q]
    BY <1>2, <1>3 DEF Held
  <2>2. \A w \in Workers : cpc'[w] # "idle" => wpc[w] = "run" /\ func[wtask[w]] \in Spawners
    BY <1>2, <1>3 DEF Held, Threads
  <2>. QED
    BY <1>2, <2>1, <2>2 DEF Held
<1>7. EachOnce'
  <2>1. \A q \in Threads \ {p} : cjob[q] # j
    BY <1>1, <1>3 DEF InFlight
  <2>2. \A q \in Threads : /\ cjob'[q] \notin JobsOf(submitted)
                           /\ \A r \in Threads : cjob'[q] = cjob'[r] /\ cjob'[q] # NULL => q = r
    BY <1>1, <1>3, <2>1 DEF EachOnce
  <2>. QED
    BY <1>2, <2>2 DEF EachOnce, JobsOf
<1>8. JobsInOrder'
  BY <1>2 DEF JobsInOrder, Contents, Count, SlotOf
<1>9. ClientsIdle' /\ NoLateCaller'
  BY <1>2, <1>3 DEF ClientsIdle, NoLateCaller, Threads
<1>. QED
  BY <1>4, <1>5, <1>6, <1>7, <1>8, <1>9

(* threadPool_getTask: the record that is filled in is in nobody's hands    *)
(* and in no queue.                                                         *)
LEMMA TakeFreeKeeps ==
  ASSUME IInv, NEW p \in Threads, cpc[p] \in {"get", "asleep"}, ~PopBlocked(tasks),
         ctask' = [ctask EXCEPT ![p] = Front(tasks)], tasks' = AfterPop(tasks),
         FillIn(p), CallerAt(p, "put"),
         UNCHANGED <<work, pool, workVars, cjob, stop, submitted, started, finished>>
  PROVE  IInv'
<1>. USE DEF IInv
<1>. DEFINE t == Front(tasks)
<1>1. /\ func' = [func EXCEPT ![t] = cjob[p]] /\ cpc' = [cpc EXCEPT ![p] = "put"]
      /\ UNCHANGED <<work, pool, wpc, wtask, cjob, stop, submitted, started, finished>>
  BY DEF FillIn, CallerAt, workVars
<1>2. RingType(tasks, Tasks) /\ WellFormed(tasks)
  BY DEF TypeOK, RingsFormed
<1>3. t \in Tasks /\ t # NULL /\ tasks.head \in Slots /\ tasks.array[tasks.head] = t
  <2>1. t \in Tasks /\ tasks.head \in Slots
    BY <1>2, RingEnds, RingSlots
  <2>. QED
    BY <2>1, PoolAssumption DEF Front
<1>4. RingType(tasks', Tasks) /\ WellFormed(tasks')
  BY <1>2, PopRemovesHead
<1>5. /\ cpc'[p] = "put" /\ cpc' \in [Threads -> {"idle", "get", "asleep", "put"}]
      /\ ctask'[p] = t /\ ctask' \in [Threads -> Tasks \cup {NULL}]
      /\ \A q \in Threads \ {p} : cpc'[q] = cpc[q] /\ ctask'[q] = ctask[q]
  BY <1>1, <1>3 DEF TypeOK
<1>6. /\ func' \in [Tasks -> Jobs \cup {NULL}] /\ func'[t] = cjob[p]
      /\ \A s \in Tasks \ {t} : func'[s] = func[s]
  BY <1>1, <1>3 DEF TypeOK
<1>7. TypeOK' /\ RingsFormed'
  BY <1>1, <1>4, <1>5, <1>6 DEF TypeOK, RingsFormed, RingType, WellFormed, InUse
<1>8. PICK h \in Slots : h = tasks.head
  BY <1>3
<1>9. /\ \A i \in Slots : work.array[i] # t
      /\ \A w \in Workers : wtask[w] # t
      /\ \A q \in Threads : ctask[q] # t
  <2>1. In(<<"free", h>>) = t /\ <<"free", h>> \in PlaceSet
    BY <1>3, <1>8, PlaceFacts
  <2>2. \A x \in PlaceSet : x # <<"free", h>> => In(x) # t
    BY <1>3, <2>1 DEF Apart
  <2>. QED
    BY <2>2, PlaceFacts
<1>10. Apart' /\ NoneLost'
  <2>. DEFINE x == <<"free", h>>
              y == <<"caller", p>>
  <2>1. x \in PlaceSet /\ y \in PlaceSet /\ In(x) = t /\ In(y) = NULL
    <3>1. ctask[p] = NULL
      BY DEF Held
    <3>. QED
      BY <1>3, <1>8, <3>1, PlaceFacts
  <2>2. In(x)' = NULL /\ In(y)' = t
    <3>1. tasks'.array[h] = NULL
      BY <1>2, <1>8, RingSlots
    <3>. QED
      BY <1>5, <3>1 DEF In
  <2>3. ASSUME NEW z \in PlaceSet \ {x, y} PROVE In(z)' = In(z)
    <3>1. CASE \E i \in Slots : z = <<"free", i>>
      <4>1. PICK i \in Slots : z = <<"free", i>> /\ i # tasks.head
        BY <1>8, <2>3, <3>1
      <4>2. tasks'.array[i] = tasks.array[i]
        BY <1>2, <4>1, RingSlots
      <4>. QED
        BY <4>1, <4>2 DEF In
    <3>2. CASE \E i \in Slots : z = <<"queued", i>>
      BY <1>1, <3>2 DEF In
    <3>3. CASE \E w \in Workers : z = <<"worker", w>>
      BY <1>1, <3>3 DEF In
    <3>4. CASE \E q \in Threads : z = <<"caller", q>>
      <4>1. PICK q \in Threads : z = <<"caller", q>> /\ q # p
        BY <2>3, <3>4
      <4>. QED
        BY <1>5, <4>1 DEF In
    <3>. QED
      BY <3>1, <3>2, <3>3, <3>4, PlaceCases
  <2>. QED
    BY <1>1, <1>3, <2>1, <2>2, <2>3, MoveKeeps
<1>11. /\ \A w \in Workers : wpc[w] = "run" => func'[wtask[w]] = func[wtask[w]]
       /\ \A q \in Threads : cpc[q] = "put" => func'[ctask[q]] = func[ctask[q]]
  <2>1. \A w \in Workers : wpc[w] = "run" => wtask[w] \in Tasks \ {t}
    BY <1>9 DEF Held, TypeOK
  <2>2. \A q \in Threads : cpc[q] = "put" => ctask[q] \in Tasks \ {t}
    BY <1>9 DEF Held, TypeOK
  <2>. QED
    BY <1>6, <2>1, <2>2
<1>12. Held'
  <2>1. \A q \in Threads : /\ ctask'[q] # NULL <=> cpc'[q] = "put"
                           /\ cjob[q] # NULL <=> cpc'[q] # "idle"
                           /\ cpc'[q] = "put" => func'[ctask'[q]] = cjob[q]
    BY <1>3, <1>5, <1>6, <1>11 DEF Held
  <2>2. \A w \in Workers : cpc'[w] # "idle" => wpc[w] = "run" /\ func'[wtask[w]] \in Spawners
    <3>1. \A w \in Workers : cpc'[w] # "idle" => cpc[w] # "idle"
      BY <1>5 DEF Threads
    <3>2. \A w \in Workers : cpc[w] # "idle" => wpc[w] = "run" /\ func[wtask[w]] \in Spawners
      BY DEF Held
    <3>. QED
      BY <1>11, <3>1, <3>2
  <2>3. \A w \in Workers : wtask[w] # NULL <=> wpc[w] \in {"run", "clear", "return", "push"}
    BY DEF Held
  <2>. QED
    BY <1>1, <2>1, <2>2, <2>3 DEF Held
<1>13. EachOnce'
  <2>1. /\ \A i, k \in DOMAIN submitted : submitted[i] = submitted[k] => i = k
        /\ \A q \in Threads : /\ cjob[q] \notin JobsOf(submitted)
                              /\ \A r \in Threads : cjob[q] = cjob[r] /\ cjob[q] # NULL => q = r
        /\ finished \subseteq JobsOf(started)
    BY DEF EachOnce
  <2>2. \A w \in Workers : wpc[w] = "run" =>
          /\ func'[wtask[w]] \in JobsOf(started) \ finished
          /\ \A v \in Workers \ {w} : wpc[v] = "run" => func'[wtask[v]] # func'[wtask[w]]
    BY <1>11 DEF EachOnce
  <2>. QED
    BY <1>1, <2>1, <2>2 DEF EachOnce, JobsOf
<1>14. JobsInOrder'
  <2>1. \A i \in Slots : work.array[i] # NULL => work.array[i] \in Tasks \ {t}
    BY <1>9 DEF TypeOK, RingType
  <2>2. Queued' = Queued
    BY <1>1, <1>6, <2>1, QueuedSame
  <2>. QED
    BY <1>1, <2>2 DEF JobsInOrder, Queued
<1>15. ClientsIdle' /\ NoLateCaller'
  <2>1. cpc[p] # "idle"
    OBVIOUS
  <2>2. \A q \in Threads : cpc[q] = "idle" => cpc'[q] = "idle"
    BY <1>5, <2>1
  <2>. QED
    BY <1>1, <2>2 DEF ClientsIdle, NoLateCaller, Threads
<1>. QED
  BY <1>7, <1>10, <1>12, <1>13, <1>14, <1>15

(* threadPool_pushWork takes a free record, or waits for one. *)
LEMMA GetTaskKeeps ==
  ASSUME IInv, NEW p \in Threads, GetTask(p)
  PROVE  IInv'
<1>. USE DEF IInv
<1>1. CASE /\ ~PopBlocked(tasks) /\ ctask' = [ctask EXCEPT ![p] = Front(tasks)]
           /\ tasks' = AfterPop(tasks) /\ FillIn(p) /\ CallerAt(p, "put")
  BY <1>1, TakeFreeKeeps DEF GetTask
<1>2. CASE cpc[p] = "get" /\ CallerAt(p, "asleep") /\ UNCHANGED <<tasks, func, ctask>>
  <2>1. /\ cpc' = [cpc EXCEPT ![p] = "asleep"]
        /\ UNCHANGED <<tasks, work, func, pool, wpc, wtask, cjob, ctask, stop, submitted, started, finished>>
    BY <1>2 DEF GetTask, CallerAt, workVars
  <2>2. /\ cpc'[p] = "asleep" /\ cpc' \in [Threads -> {"idle", "get", "asleep", "put"}]
        /\ \A q \in Threads \ {p} : cpc'[q] = cpc[q]
    BY <2>1 DEF TypeOK
  <2>3. /\ \A q \in Threads : /\ cpc'[q] = "idle" <=> cpc[q] = "idle"
                              /\ cpc'[q] = "put" <=> cpc[q] = "put"
        /\ Workers \subseteq Threads /\ Clients \subseteq Threads
    BY <1>2, <2>2 DEF Threads
  <2>4. TypeOK' /\ RingsFormed'
    BY <2>1, <2>2 DEF TypeOK, RingsFormed, RingType, WellFormed, InUse
  <2>5. Apart' /\ NoneLost'
    BY <2>1, StayKeeps
  <2>6. Held'
    BY <2>1, <2>3 DEF Held
  <2>7. EachOnce'
    BY <2>1 DEF EachOnce, JobsOf
  <2>8. JobsInOrder'
    BY <2>1 DEF JobsInOrder, Contents, Count, SlotOf
  <2>9. ClientsIdle' /\ NoLateCaller'
    BY <2>1, <2>3 DEF ClientsIdle, NoLateCaller
  <2>. QED
    BY <2>4, <2>5, <2>6, <2>7, <2>8, <2>9
<1>. QED
  BY <1>1, <1>2 DEF GetTask

(* threadPool_pushTask: the record goes to the end of workQueue, and so     *)
(* does its job to that of the jobs to be started.                          *)
LEMMA PutTaskKeeps ==
  ASSUME IInv, NEW p \in Threads, PutTask(p)
  PROVE  IInv'
<1>. USE DEF IInv
<1>. DEFINE t == ctask[p]
            j == cjob[p]
<1>1. /\ cpc[p] = "put" /\ ~PushBlocked(work) /\ work' = AfterPush(work, t)
      /\ submitted' = Append(submitted, j)
      /\ cpc' = [cpc EXCEPT ![p] = "idle"] /\ cjob' = [cjob EXCEPT ![p] = NULL]
      /\ ctask' = [ctask EXCEPT ![p] = NULL]
      /\ UNCHANGED <<tasks, func, pool, wpc, wtask, stop, started, finished>>
  BY DEF PutTask, CallerAt, workVars
<1>2. t \in Tasks /\ t # NULL /\ j \in Jobs /\ j # NULL /\ func[t] = j
  BY <1>1 DEF Held, TypeOK
<1>3. RingType(work, Tasks) /\ WellFormed(work)
  BY DEF TypeOK, RingsFormed
<1>4. /\ RingType(work', Tasks) /\ WellFormed(work')
      /\ Contents(work') = Append(Contents(work), t)
  BY <1>1, <1>2, <1>3, PushAppends
<1>5. /\ cpc'[p] = "idle" /\ cpc' \in [Threads -> {"idle", "get", "asleep", "put"}]
      /\ ctask'[p] = NULL /\ ctask' \in [Threads -> Tasks \cup {NULL}]
      /\ cjob'[p] = NULL /\ cjob' \in [Threads -> Jobs \cup {NULL}]
      /\ \A q \in Threads \ {p} : cpc'[q] = cpc[q] /\ ctask'[q] = ctask[q] /\ cjob'[q] = cjob[q]
  BY <1>1 DEF TypeOK
<1>6. /\ submitted' \in Seq(Jobs) /\ JobsOf(submitted') = JobsOf(submitted) \cup {j}
      /\ Len(submitted) \in Nat /\ DOMAIN submitted = 1 .. Len(submitted)
      /\ DOMAIN submitted' = 1 .. Len(submitted) + 1 /\ submitted'[Len(submitted) + 1] = j
      /\ \A i \in 1 .. Len(submitted) : submitted'[i] = submitted[i]
  <2>1. /\ Len(submitted) \in Nat /\ DOMAIN submitted = 1 .. Len(submitted)
        /\ submitted' \in Seq(Jobs) /\ DOMAIN submitted' = 1 .. Len(submitted) + 1
        /\ submitted'[Len(submitted) + 1] = j
        /\ \A i \in 1 .. Len(submitted) : submitted'[i] = submitted[i]
    BY <1>1, <1>2 DEF TypeOK
  <2>. QED
    BY <2>1 DEF JobsOf
<1>7. TypeOK' /\ RingsFormed'
  BY <1>1, <1>4, <1>5, <1>6 DEF TypeOK, RingsFormed, RingType, WellFormed, InUse
<1>8. Apart' /\ NoneLost'
  <2>0. PICK i \in Slots : i = work.tail
    BY <1>3, RingSlots
  <2>. DEFINE x == <<"caller", p>>
              y == <<"queued", i>>
  <2>1. x \in PlaceSet /\ y \in PlaceSet /\ In(x) = t /\ In(y) = NULL
    BY <1>1, <1>3, <2>0, PlaceFacts, RingEnds
  <2>2. In(x)' = NULL /\ In(y)' = t
    <3>1. work'.array[i] = t
      BY <1>1, <1>3, <2>0, RingSlots
    <3>. QED
      BY <1>5, <3>1 DEF In
  <2>3. ASSUME NEW z \in PlaceSet \ {x, y} PROVE In(z)' = In(z)
    <3>1. CASE \E k \in Slots : z = <<"free", k>>
      BY <1>1, <3>1 DEF In
    <3>2. CASE \E k \in Slots : z = <<"queued", k>>
      <4>1. PICK k \in Slots : z = <<"queued", k>> /\ k # work.tail
        BY <2>0, <2>3, <3>2
      <4>2. work'.array[k] = work.array[k]
        BY <1>1, <1>3, <4>1, RingSlots
      <4>. QED
        BY <4>1, <4>2 DEF In
    <3>3. CASE \E w \in Workers : z = <<"worker", w>>
      BY <1>1, <3>3 DEF In
    <3>4. CASE \E q \in Threads : z = <<"caller", q>>
      <4>1. PICK q \in Threads : z = <<"caller", q>> /\ q # p
        BY <2>3, <3>4
      <4>. QED
        BY <1>5, <4>1 DEF In
    <3>. QED
      BY <3>1, <3>2, <3>3, <3>4, PlaceCases
  <2>. QED
    BY <1>1, <1>2, <2>1, <2>2, <2>3, MoveKeeps
<1>9. Held'
  <2>1. \A q \in Threads : /\ ctask'[q] # NULL <=> cpc'[q] = "put"
                           /\ cjob'[q] # NULL <=> cpc'[q] # "idle"
                           /\ cpc'[q] = "put" => func[ctask'[q]] = cjob'[q]
    BY <1>5 DEF Held
  <2>2. \A w \in Workers : cpc'[w] # "idle" => wpc[w] = "run" /\ func[wtask[w]] \in Spawners
    BY <1>5 DEF Held, Threads
  <2>3. \A w \in Workers : wtask[w] # NULL <=> wpc[w] \in {"run", "clear", "return", "push"}
    BY DEF Held
  <2>. QED
    BY <1>1, <2>1, <2>2, <2>3 DEF Held
<1>10. EachOnce'
  <2>1. \A i, k \in DOMAIN submitted' : submitted'[i] = submitted'[k] => i = k
    <3>1. j \notin JobsOf(submitted)
      BY DEF EachOnce
    <3>2. \A i \in 1 .. Len(submitted) : submitted[i] # j
      BY <1>6, <3>1 DEF JobsOf
    <3>3. \A i, k \in 1 .. Len(submitted) : submitted[i] = submitted[k] => i = k
      BY <1>6 DEF EachOnce
    <3>. QED
      BY <1>6, <3>2, <3>3
  <2>2. \A q \in Threads : /\ cjob'[q] \notin JobsOf(submitted')
                           /\ \A r \in Threads : cjob'[q] = cjob'[r] /\ cjob'[q] # NULL => q = r
    <3>1. \A q \in Threads : /\ cjob[q] \notin JobsOf(submitted)
                             /\ \A r \in Threads : cjob[q] = cjob[r] /\ cjob[q] # NULL => q = r
      BY DEF EachOnce
    <3>2. \A q \in Threads \ {p} : cjob'[q] # j
      BY <1>2, <1>5, <3>1
    <3>3. NULL \notin JobsOf(submitted')
      BY <1>6, PoolAssumption DEF JobsOf
    <3>. QED
      BY <1>2, <1>5, <1>6, <3>1, <3>2, <3>3
  <2>3. /\ finished \subseteq JobsOf(started)
        /\ \A w \in Workers : wpc[w] = "run" =>
             /\ func[wtask[w]] \in JobsOf(started) \ finished
             /\ \A v \in Workers \ {w} : wpc[v] = "run" => func[wtask[v]] # func[wtask[w]]
    BY DEF EachOnce
  <2>. QED
    BY <1>1, <2>1, <2>2, <2>3 DEF EachOnce, JobsOf
<1>11. JobsInOrder'
  <2>1. /\ Contents(work) \in Seq(Tasks) /\ Queued \in Seq(Jobs \cup {NULL})
        /\ Len(Queued) = Len(Contents(work)) /\ started \in Seq(Jobs \cup {NULL})
    BY QueuedType
  <2>2. Queued' = Append(Queued, j)
    <3>. DEFINE n == Len(Contents(work))
    <3>1. n \in Nat /\ DOMAIN Contents(work) = 1 .. n
      BY <2>1
    <3>2. /\ DOMAIN Append(Contents(work), t) = 1 .. n + 1
          /\ Append(Contents(work), t)[n + 1] = t
          /\ \A k \in 1 .. n : Append(Contents(work), t)[k] = Contents(work)[k]
      BY <1>2, <2>1, <3>1
    <3>3. Queued' = [k \in 1 .. n + 1 |-> IF k = n + 1 THEN j ELSE func[Contents(work)[k]]]
      BY <1>1, <1>2, <1>4, <3>1, <3>2 DEF Queued
    <3>4. Append(Queued, j) = [k \in 1 .. n + 1 |-> IF k = n + 1 THEN j ELSE func[Contents(work)[k]]]
      BY <1>2, <2>1, <3>1 DEF Queued
    <3>. QED
      BY <3>3, <3>4
  <2>3. started \o Append(Queued, j) = Append(started \o Queued, j)
    BY <1>2, <2>1, ConcatAppends
  <2>4. submitted = started \o Queued
    BY StartedFirst
  <2>. QED
    BY <1>1, <2>2, <2>3, <2>4 DEF JobsInOrder, Queued
<1>12. ClientsIdle' /\ NoLateCaller'
  BY <1>1, <1>5 DEF ClientsIdle, NoLateCaller, Threads
<1>. QED
  BY <1>7, <1>8, <1>9, <1>10, <1>11, <1>12

-----------------------------------------------------------------------------
(* Shutdown *)

(* Where threadPool_destroy begins nobody is in pushWork: a client is not   *)
(* since the flags were set, and a worker would run a long job that is      *)
(* among the submitted ones and has not finished.                           *)
LEMMA NobodyCalls ==
  ASSUME IInv, stop, LongJobsDone, NEW p \in Threads
  PROVE  cpc[p] = "idle"
<1>. USE DEF IInv
<1>1. CASE p \in Clients
  BY <1>1 DEF ClientsIdle
<1>2. ASSUME p \in Workers, cpc[p] # "idle" PROVE FALSE
  <2>1. wpc[p] = "run" /\ func[wtask[p]] \in LongJobs
    BY <1>2, PoolAssumption DEF Held
  <2>2. func[wtask[p]] \in JobsOf(started) /\ func[wtask[p]] \notin finished
    BY <1>2, <2>1 DEF EachOnce
  <2>3. func[wtask[p]] \in JobsOf(submitted)
    BY <2>2, StartedFirst
  <2>. QED
    BY <2>1, <2>2, <2>3 DEF LongJobsDone
<1>. QED
  BY <1>1, <1>2 DEF Threads

(* Steps that change no more than the stage of the shutdown. *)
LEMMA StageKeeps ==
  ASSUME IInv, UNCHANGED <<tasks, work, func, workVars, callVars, submitted, started, finished>>,
         pool' = "up" => pool = "up", ClientsIdle', NoLateCaller'
  PROVE  IInv'
<1>1. UNCHANGED <<wpc, wtask>>
  BY DEF workVars
<1>2. wpc' \in [Workers -> WorkerPlaces] /\ \A w \in Workers : wpc'[w] = wpc[w]
  BY <1>1 DEF IInv, TypeOK
<1>. QED
  BY <1>1, <1>2, QuietKeeps

(* SIGINT tells the long jobs to end, and no client asks for more. *)
LEMMA StopKeeps ==
  ASSUME IInv, Stop
  PROVE  IInv'
<1>1. ClientsIdle' /\ NoLateCaller' /\ pool' = pool
  BY DEF IInv, Stop, callVars, ClientsIdle, NoLateCaller
<1>. QED
  BY <1>1, StageKeeps DEF Stop

(* Each step of threadPool_destroy keeps the invariant. *)
LEMMA DestroyStepKeeps ==
  ASSUME IInv, DestroyStep
  PROVE  IInv'
<1>1. /\ UNCHANGED <<tasks, work, func, workVars, callVars, submitted, started, finished>>
      /\ UNCHANGED <<cpc, stop>> /\ pool' # "up"
  BY DEF DestroyStep, callVars
<1>2. \A p \in Threads : cpc[p] = "idle"
  <2>1. CASE pool = "up"
    BY <2>1, NobodyCalls DEF DestroyStep
  <2>2. CASE pool # "up"
    BY <2>2 DEF IInv, NoLateCaller
  <2>. QED
    BY <2>1, <2>2
<1>3. ClientsIdle' /\ NoLateCaller'
  BY <1>1, <1>2 DEF ClientsIdle, NoLateCaller, Threads
<1>. QED
  BY <1>1, <1>3, StageKeeps

(* Every step of the pool and its users keeps the invariant. *)
LEMMA NextIInv == IInv /\ [Next]_vars => IInv'
<1>. SUFFICES ASSUME IInv, [Next]_vars PROVE IInv'
  OBVIOUS
<1>1. ASSUME NEW w \in Workers, CheckRunning(w) PROVE IInv'
  <2>1. /\ wpc[w] = "loop" /\ wpc' = [wpc EXCEPT ![w] = IF Running THEN "pop" ELSE "done"]
        /\ UNCHANGED <<pool, stop, cpc>>
    BY <1>1 DEF CheckRunning, WorkerAt, callVars
  <2>2. /\ wpc' \in [Workers -> WorkerPlaces]
        /\ \A v \in Workers : wpc'[v] = wpc[v] \/ {wpc[v], wpc'[v]} \cap Holding = {}
    BY <2>1 DEF IInv, TypeOK, WorkerPlaces, Holding
  <2>3. ClientsIdle' /\ NoLateCaller'
    BY <2>1 DEF IInv, ClientsIdle, NoLateCaller
  <2>. QED
    BY <1>1, <2>1, <2>2, <2>3, QuietKeeps DEF CheckRunning
<1>2. ASSUME NEW w \in Workers, Worker(w) PROVE IInv'
  BY <1>1, <1>2, PopWorkAll, FuncReturnsKeeps, ClearTaskKeeps, CheckReturnKeeps, ReturnTaskKeeps
     DEF Worker
<1>3. ASSUME NEW p \in Threads, Caller(p) PROVE IInv'
  BY <1>3, PushWorkKeeps, GetTaskKeeps, PutTaskKeeps DEF Caller
<1>4. ASSUME NEW w \in Workers, Join(w) PROVE IInv'
  <2>1. UNCHANGED <<pool, stop, cpc>>
    BY <1>4 DEF Join, callVars
  <2>2. ClientsIdle' /\ NoLateCaller'
    BY <2>1 DEF IInv, ClientsIdle, NoLateCaller
  <2>. QED
    BY <1>4, <2>1, <2>2, StageKeeps DEF Join
<1>5. ASSUME FreePool PROVE IInv'
  <2>1. UNCHANGED <<stop, cpc>> /\ pool # "up" /\ pool' # "up"
    BY <1>5 DEF FreePool, callVars
  <2>2. ClientsIdle' /\ NoLateCaller'
    BY <2>1 DEF IInv, ClientsIdle, NoLateCaller
  <2>. QED
    BY <1>5, <2>1, <2>2, StageKeeps DEF FreePool
<1>6. CASE UNCHANGED vars
  <2>1. UNCHANGED <<pool, stop, cpc>> /\ UNCHANGED <<workVars, callVars>>
    BY <1>6 DEF vars, workVars, callVars
  <2>2. ClientsIdle' /\ NoLateCaller'
    BY <2>1 DEF IInv, ClientsIdle, NoLateCaller
  <2>. QED
    BY <1>6, <2>1, <2>2, StageKeeps DEF vars
<1>7. CASE Destroyer
  BY <1>4, <1>5, <1>7, DestroyStepKeeps, CancelKeeps DEF Destroyer
<1>. QED
  BY <1>2, <1>3, <1>6, <1>7, StopKeeps DEF Next

(* So the invariant of the pool always holds. *)
LEMMA Safety == Spec => []IInv
<1>. QED
  BY InitIInv, NextIInv, PTL DEF Spec

-----------------------------------------------------------------------------
(* A record that is in one place of PlaceSet, and in one only, has one      *)
(* owner.                                                                   *)
LEMMA OneOwnerIfApart == Apart /\ NoneLost => OneOwner
<1>. SUFFICES ASSUME Apart, NoneLost, pool = "up", NEW t \in Tasks
              PROVE  Cardinality(Places(t)) = 1
  BY DEF OneOwner
<1>1. \A x : x \in Places(t) <=> x \in PlaceSet /\ In(x) = t
  <2>1. ASSUME NEW x \in Places(t) PROVE x \in PlaceSet /\ In(x) = t
    BY PlaceFacts DEF Places
  <2>2. ASSUME NEW x \in PlaceSet, In(x) = t PROVE x \in Places(t)
    BY <2>2, PlaceCases, PlaceFacts DEF Places
  <2>. QED
    BY <2>1, <2>2
<1>2. PICK x \in PlaceSet : In(x) = t
  BY DEF NoneLost
<1>3. Places(t) = {x}
  BY <1>1, <1>2, PoolAssumption DEF Apart
<1>. QED
  BY <1>3, FS_Singleton

(* While the pool is up every task record is in exactly one place, so that  *)
(* no two threads fill in, run or clear the same one, and none is lost      *)
(* (threadpool.c:24-43, 88-93), for any number of records and threads.      *)
THEOREM OneOwnerAlways == Spec => []OneOwner
<1>1. IInv => OneOwner
  BY OneOwnerIfApart DEF IInv
<1>. QED
  BY <1>1, Safety, PTL

(* Workers take the jobs in the order in which pushWork queued them, each   *)
(* once, and find in the record what its submitter wrote                    *)
(* (threadpool.c:24-43, 88-93).                                            *)
THEOREM JobsAlwaysInOrder == Spec => []JobsInOrder
<1>1. IInv => JobsInOrder
  BY DEF IInv
<1>. QED
  BY <1>1, Safety, PTL

(* Nobody is inside threadPool_pushWork when the pool is destroyed, where   *)
(* it would use the NULL that it gets for a record.  It takes that the      *)
(* callers are clients that wait for the flags, and long jobs that the      *)
(* program waits for before it destroys the pool (server.c, main).          *)
THEOREM NoCallerIsLate == Spec => []NoLateCaller
<1>1. IInv => NoLateCaller
  BY DEF IInv
<1>. QED
  BY <1>1, Safety, PTL
===============================================================================
