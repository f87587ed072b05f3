--------------------------- MODULE UserStoreTheorems ---------------------------
(***************************************************************************)
(* Proofs about UserStore, for any threads, names, capacity and number of  *)
(* starts and crashes: .meta.bin never counts users that users.db does not *)
(* hold, and, as long as the queue to the session task does not fill up    *)
(* and the process does not die, every user of the table is in one place   *)
(* on the way to the file.                                                 *)
(*                                                                         *)
(* The queue holds entries and one of them, 0, is what it takes for an     *)
(* empty slot: the lemmas about rings without NULL do not apply.  What is  *)
(* in use is told by head and tail alone here, which is sound while the    *)
(* ring is not full.                                                       *)
(*                                                                         *)
(* And about Portfolio, the directory and the file of a user, for any      *)
(* number of requests at a time and of transactions: the directory is      *)
(* there for every request after the registration, and what was posted     *)
(* alone is kept, in order.                                                *)
(***************************************************************************)
EXTENDS UserStore, Portfolio, FiniteSetTheorems, SequenceTheorems, TLAPS

TypeOK ==
  /\ up \in {"up", "stopping", "down"}
  /\ users \in Seq(Names) /\ db \in Seq(Names)
  /\ {taken, new, base, meta, crashes} \subseteq Nat
  /\ pc \in [Threads -> {"idle", "push", "login"}] /\ entry \in [Threads -> Nat]
  /\ tpc \in {"check", "round", "drain", "save", "meta", "out"}
  /\ RingType(work, Nat)

(* The entries on their way are those of users in the table. *)
EntriesThere ==
  /\ \A t \in Threads : pc[t] = "push" => entry[t] + 1 \in DOMAIN users
  /\ tpc = "save" => taken + 1 \in DOMAIN users
  /\ \A i \in Slots : work.array[i] # NULL => work.array[i] + 1 \in DOMAIN users
  /\ ~IsEmpty(work) => users # <<>>

(* The records that are counted are in the file. *)
MetaBehind == meta <= Len(db) /\ base + new <= Len(db)

-----------------------------------------------------------------------------
(* The slots in use, by head and tail alone. *)
Used(q, i) == \/ q.head < q.tail /\ q.head <= i /\ i < q.tail
              \/ q.head > q.tail /\ (q.head <= i \/ i < q.tail)

RestEmpty(q) == \A i \in Slots : ~Used(q, i) => q.array[i] = NULL

(* The places a user can be in on the way to the file and in it, and the    *)
(* name, if any, that is in one.                                            *)
PlaceSet == ({"db"} \X (Nat \ {0})) \cup ({"queue"} \X Slots) \cup ({"request"} \X Threads)
              \cup ({"task"} \X {0})

In(x) == CASE x[1] = "db"      -> {db[i] : i \in {x[2]} \cap DOMAIN db}
           [] x[1] = "queue"   -> IF Used(work, x[2]) THEN {users[work.array[x[2]] + 1]} ELSE {}
           [] x[1] = "request" -> IF pc[x[2]] = "push" THEN {users[entry[x[2]] + 1]} ELSE {}
           [] x[1] = "task"    -> IF tpc = "save" THEN {users[taken + 1]} ELSE {}

Apart    == \A x, y \in PlaceSet : In(x) \cap In(y) # {} => x = y
NoneLost == \A k \in DOMAIN users : \E x \in PlaceSet : users[k] \in In(x)

NamesOnce == \A i, k \in DOMAIN users : users[i] = users[k] => i = k

(* The counts keep step with the file. *)
InStep ==
  /\ up = "down" => meta = Len(db) /\ users = <<>>
  /\ up # "down" => /\ meta = base /\ base + new = Len(db)
                    /\ tpc \in {"check", "round", "out"} => new = 0
                    /\ \A i \in DOMAIN db : \E k \in DOMAIN users : db[i] = users[k]

QueueFits == RestEmpty(work) /\ Waiting <= Burst

Files == TypeOK /\ EntriesThere /\ MetaBehind

Orderly == QueueFits /\ NamesOnce /\ InStep /\ Apart /\ NoneLost

IInv == Files /\ (Fits /\ crashes = 0 => Orderly)

-----------------------------------------------------------------------------
(* The files: .meta.bin is not ahead of users.db *)

(* push and pop on a ring of entries. *)
LEMMA RingTypes ==
  ASSUME NEW q, RingType(q, Nat), NEW d \in Nat
  PROVE  /\ q.head \in Slots /\ q.tail \in Slots /\ NULL = 0
         /\ Front(q) \in Nat /\ q.array \in [Slots -> Nat]
         /\ RingType(AfterPush(q, d), Nat) /\ RingType(AfterPop(q), Nat)
         /\ AfterPush(q, d).head = q.head /\ AfterPush(q, d).tail = Advance(q.tail)
         /\ AfterPop(q).head = Advance(q.head) /\ AfterPop(q).tail = q.tail
         /\ AfterPush(q, d).array[q.tail] = d /\ AfterPop(q).array[q.head] = NULL
         /\ \A i \in Slots \ {q.tail} : AfterPush(q, d).array[i] = q.array[i]
         /\ \A i \in Slots \ {q.head} : AfterPop(q).array[i] = q.array[i]
<1>1. q.head \in Slots /\ q.tail \in Slots /\ NULL = 0 /\ q.array \in [Slots -> Nat]
  BY StoreAssumption DEF RingType
<1>2. \A i \in Slots : Advance(i) \in Slots
  BY RingAssumption DEF Advance, Slots
<1>. QED
  BY <1>1, <1>2 DEF RingType, AfterPush, AfterPop, Front

(* What is in the memory of a process that has loaded s. *)
LEMMA LoadedType ==
  ASSUME NEW s \in Seq(Names), Loaded(s)
  PROVE  /\ users' = s /\ pc' \in [Threads -> {"idle", "push", "login"}] /\ entry' \in [Threads -> Nat]
         /\ tpc' = "check" /\ taken' = 0 /\ new' = 0 /\ base' = Len(s) /\ Len(s) \in Nat
         /\ RingType(work', Nat) /\ work'.head = 0 /\ work'.tail = 0
         /\ \A i \in Slots : work'.array[i] = NULL
         /\ \A t \in Threads : pc'[t] = "idle"
         /\ EntriesThere'
<1>1. /\ users' = s /\ work' = NewRing
      /\ pc' = [t \in Threads |-> "idle"] /\ entry' = [t \in Threads |-> 0]
      /\ tpc' = "check" /\ taken' = 0 /\ new' = 0 /\ base' = Len(s)
  BY DEF Loaded, Base
<1>2. /\ RingType(NewRing, Nat) /\ NewRing.head = 0 /\ NewRing.tail = 0
      /\ \A i \in Slots : NewRing.array[i] = NULL
  BY StoreAssumption, RingAssumption DEF NewRing, RingType, Slots
<1>3. EntriesThere'
  BY <1>1, <1>2 DEF EntriesThere, IsEmpty
<1>. QED
  BY <1>1, <1>2, <1>3

(* The files are in step before the first start. *)
LEMMA InitFiles == Init => Files
<1>. SUFFICES ASSUME Init PROVE Files
  OBVIOUS
<1>1. /\ RingType(NewRing, Nat) /\ NewRing.head = NewRing.tail
      /\ \A i \in Slots : NewRing.array[i] = NULL
  BY StoreAssumption, RingAssumption DEF NewRing, RingType, Slots
<1>2. TypeOK
  BY <1>1 DEF Init, TypeOK
<1>3. EntriesThere
  BY <1>1 DEF Init, EntriesThere, IsEmpty
<1>4. MetaBehind
  BY DEF Init, MetaBehind
<1>. QED
  BY <1>2, <1>3, <1>4 DEF Files

(* Requests do not touch the files. *)
LEMMA RequestFiles ==
  ASSUME Files, NEW t \in Threads, Request(t) \/ Serve(t)
  PROVE  Files'
<1>. USE DEF Files
<1>1. ASSUME NEW n \in Names, Register(t, n) PROVE Files'
  <2>1. /\ users' = Append(users, n) /\ pc' = [pc EXCEPT ![t] = "push"]
        /\ entry' = [entry EXCEPT ![t] = Len(users)]
        /\ UNCHANGED <<up, work, tpc, taken, new, base, db, meta, crashes>>
    BY <1>1 DEF Register, taskVars, fileVars, countVars
  <2>2. /\ users' \in Seq(Names) /\ Len(users) \in Nat
        /\ DOMAIN users = 1 .. Len(users) /\ DOMAIN users' = 1 .. Len(users) + 1
    BY <2>1 DEF TypeOK
  <2>3. TypeOK'
    BY <2>1, <2>2 DEF TypeOK
  <2>4. users' # <<>>
    BY <2>2
  <2>5. EntriesThere'
    BY <2>1, <2>2, <2>4 DEF EntriesThere, TypeOK, IsEmpty
  <2>. QED
    BY <2>1, <2>3, <2>5 DEF MetaBehind
<1>2. ASSUME NEW n \in Names, RegisterTaken(t, n) PROVE Files'
  BY <1>2 DEF RegisterTaken, TypeOK, EntriesThere, MetaBehind, IsEmpty,
              requestVars, taskVars, fileVars, countVars
<1>3. CASE PushWork(t)
  <2>1. /\ pc[t] = "push" /\ work' = AfterPush(work, entry[t])
        /\ pc' = [pc EXCEPT ![t] = "idle"] /\ entry' = [entry EXCEPT ![t] = 0]
        /\ UNCHANGED <<up, users, tpc, taken, new, base, db, meta, crashes>>
    BY <1>3 DEF PushWork, tableVars, taskVars, fileVars, countVars
  <2>2. entry[t] \in Nat /\ entry[t] + 1 \in DOMAIN users /\ RingType(work, Nat)
    BY <2>1 DEF TypeOK, EntriesThere
  <2>3. TypeOK'
    BY <2>1, <2>2, RingTypes DEF TypeOK
  <2>4. \A i \in Slots : work'.array[i] # NULL => work'.array[i] + 1 \in DOMAIN users
    <3>1. /\ work.tail \in Slots /\ work'.array[work.tail] = entry[t]
          /\ \A i \in Slots \ {work.tail} : work'.array[i] = work.array[i]
      BY <2>1, <2>2, RingTypes
    <3>. QED
      BY <2>2, <3>1 DEF EntriesThere
  <2>5. users # <<>>
    BY <2>2
  <2>6. EntriesThere'
    BY <2>1, <2>4, <2>5 DEF EntriesThere, TypeOK
  <2>. QED
    BY <2>1, <2>3, <2>6 DEF MetaBehind
<1>4. CASE LoginBegin(t)
  <2>1. /\ pc' = [pc EXCEPT ![t] = "login"]
        /\ UNCHANGED <<up, users, work, entry, tpc, taken, new, base, db, meta, crashes>>
    BY <1>4 DEF LoginBegin, tableVars, taskVars, fileVars, countVars
  <2>. QED
    BY <2>1 DEF TypeOK, EntriesThere, MetaBehind, IsEmpty
<1>5. CASE UserGet(t)
  <2>1. /\ pc' = [pc EXCEPT ![t] = "idle"]
        /\ UNCHANGED <<up, users, work, entry, tpc, taken, new, base, db, meta, crashes>>
    BY <1>5 DEF UserGet, taskVars, fileVars, countVars
  <2>. QED
    BY <2>1 DEF TypeOK, EntriesThere, MetaBehind, IsEmpty
<1>. QED
  BY <1>1, <1>2, <1>3, <1>4, <1>5 DEF Request, Serve

(* The session task writes users.db first and .meta.bin after it. *)
LEMMA TaskFiles ==
  ASSUME Files, Task
  PROVE  Files'
<1>. USE DEF Files
<1>1. CASE Check \/ Round \/ SkipRound
  <2>1. /\ tpc' \in {"check", "round", "drain", "out"}
        /\ UNCHANGED <<up, users, work, pc, entry, taken, new, base, db, meta, crashes>>
    BY <1>1 DEF Check, Round, SkipRound, tableVars, requestVars, fileVars, countVars
  <2>. QED
    BY <2>1 DEF TypeOK, EntriesThere, MetaBehind, IsEmpty
<1>2. CASE Drain
  <2>0. UNCHANGED <<up, users, pc, entry, new, base, db, meta, crashes>>
    BY <1>2 DEF Drain, tableVars, requestVars, fileVars, countVars
  <2>1. CASE ~IsEmpty(work) /\ taken' = Front(work) /\ work' = AfterPop(work) /\ tpc' = "save"
    <3>1. /\ RingType(work, Nat) /\ RingType(work', Nat) /\ taken' \in Nat /\ work.head \in Slots
          /\ work'.array[work.head] = NULL
          /\ \A i \in Slots \ {work.head} : work'.array[i] = work.array[i]
      BY <2>1, RingTypes DEF TypeOK
    <3>2. taken' + 1 \in DOMAIN users
      <4>1. CASE taken' = NULL
        BY <2>1, <4>1, StoreAssumption DEF EntriesThere, TypeOK
      <4>2. CASE taken' # NULL
        BY <2>1, <3>1, <4>2 DEF EntriesThere, Front
      <4>. QED
        BY <4>1, <4>2
    <3>3. TypeOK'
      BY <2>0, <2>1, <3>1 DEF TypeOK
    <3>4. users # <<>>
      BY <3>2
    <3>5. \A i \in Slots : work'.array[i] # NULL => work'.array[i] + 1 \in DOMAIN users
      BY <3>1 DEF EntriesThere
    <3>6. EntriesThere'
      BY <2>0, <2>1, <3>2, <3>4, <3>5 DEF EntriesThere
    <3>. QED
      BY <2>0, <3>3, <3>6 DEF MetaBehind
  <2>2. CASE tpc' = (IF new > 0 THEN "meta" ELSE "check") /\ UNCHANGED <<taken, work>>
    BY <2>0, <2>2 DEF TypeOK, EntriesThere, MetaBehind, IsEmpty
  <2>. QED
    BY <1>2, <2>1, <2>2 DEF Drain
<1>3. CASE Save
  <2>1. /\ tpc = "save" /\ db' = Append(db, users[taken + 1]) /\ new' = new + 1
        /\ taken' = 0 /\ tpc' = "drain"
        /\ UNCHANGED <<up, users, work, pc, entry, base, meta, crashes>>
    BY <1>3 DEF Save, TaskAt, tableVars, requestVars, countVars
  <2>2. users[taken + 1] \in Names
    BY <2>1 DEF EntriesThere, TypeOK
  <2>3. db' \in Seq(Names) /\ Len(db') = Len(db) + 1 /\ Len(db) \in Nat
    BY <2>1, <2>2 DEF TypeOK
  <2>4. TypeOK'
    BY <2>1, <2>3 DEF TypeOK
  <2>5. EntriesThere'
    BY <2>1 DEF EntriesThere, IsEmpty
  <2>6. MetaBehind'
    BY <2>1, <2>3 DEF MetaBehind, TypeOK
  <2>. QED
    BY <2>4, <2>5, <2>6
<1>4. CASE WriteMeta
  <2>1. /\ base' = base + new /\ meta' = base + new /\ new' = 0 /\ tpc' = "check"
        /\ UNCHANGED <<up, users, work, pc, entry, taken, db, crashes>>
    BY <1>4 DEF WriteMeta, SavedUsers, tableVars, requestVars, countVars
  <2>2. base + new \in Nat
    BY DEF TypeOK
  <2>3. TypeOK'
    BY <2>1, <2>2 DEF TypeOK
  <2>4. EntriesThere'
    BY <2>1 DEF EntriesThere, IsEmpty
  <2>5. MetaBehind'
    BY <2>1, <2>2 DEF MetaBehind
  <2>. QED
    BY <2>3, <2>4, <2>5
<1>. QED
  BY <1>1, <1>2, <1>3, <1>4 DEF Task

(* A start, a stop and a crash take the files as they are. *)
LEMMA LifeFiles ==
  ASSUME Files, Start \/ Stop \/ Stopped \/ Crash
  PROVE  Files'
<1>. USE DEF Files
<1>1. Len(db) \in Nat /\ meta \in Nat /\ meta <= Len(db)
  BY DEF TypeOK, MetaBehind
<1>2. CASE Start
  <2>. DEFINE s == SubSeq(db, 1, meta)
  <2>1. s \in Seq(Names) /\ Len(s) = meta
    BY <1>1 DEF TypeOK
  <2>2. up' = "up" /\ db' = (IF meta = 0 THEN <<>> ELSE db) /\ Loaded(s) /\ UNCHANGED <<meta, crashes>>
    BY <1>2 DEF Start
  <2>3. db' \in Seq(Names) /\ meta <= Len(db') /\ Len(db') \in Nat
    BY <1>1, <2>2 DEF TypeOK
  <2>. HIDE DEF s
  <2>4. /\ users' = s /\ pc' \in [Threads -> {"idle", "push", "login"}] /\ entry' \in [Threads -> Nat]
        /\ tpc' = "check" /\ taken' = 0 /\ new' = 0 /\ base' = meta
        /\ RingType(work', Nat) /\ EntriesThere'
    BY <2>1, <2>2, LoadedType
  <2>5. TypeOK'
    BY <1>1, <2>1, <2>2, <2>3, <2>4 DEF TypeOK
  <2>6. MetaBehind'
    BY <1>1, <2>2, <2>3, <2>4 DEF MetaBehind
  <2>. QED
    BY <2>4, <2>5, <2>6
<1>3. CASE Stop
  BY <1>3 DEF Stop, TypeOK, EntriesThere, MetaBehind, IsEmpty,
              tableVars, requestVars, taskVars, fileVars, countVars
<1>4. CASE Stopped \/ Crash
  <2>1. <<>> \in Seq(Names) /\ Len(<<>>) = 0
    OBVIOUS
  <2>2. up' = "down" /\ Loaded(<<>>) /\ UNCHANGED <<db, meta>> /\ crashes' \in Nat
    BY <1>4 DEF Stopped, Crash, fileVars, countVars, TypeOK
  <2>3. /\ users' = <<>> /\ pc' \in [Threads -> {"idle", "push", "login"}] /\ entry' \in [Threads -> Nat]
        /\ tpc' = "check" /\ taken' = 0 /\ new' = 0 /\ base' = 0
        /\ RingType(work', Nat) /\ EntriesThere'
    BY <2>1, <2>2, LoadedType
  <2>4. TypeOK'
    BY <1>1, <2>1, <2>2, <2>3 DEF TypeOK
  <2>5. MetaBehind'
    BY <1>1, <2>2, <2>3 DEF MetaBehind
  <2>. QED
    BY <2>3, <2>4, <2>5
<1>. QED
  BY <1>2, <1>3, <1>4

(* Every step keeps the files in step. *)
LEMMA NextFiles == Files /\ [Next]_vars => Files'
<1>1. Files /\ UNCHANGED vars => Files'
  BY DEF Files, TypeOK, EntriesThere, MetaBehind, IsEmpty,
         vars, tableVars, requestVars, taskVars, fileVars, countVars
<1>. QED
  BY <1>1, RequestFiles, TaskFiles, LifeFiles DEF Next

(* So the files are always in step, crashes included. *)
LEMMA FilesSafe == Spec => []Files
<1>. QED
  BY InitFiles, NextFiles, PTL DEF Spec

(* Whatever is lost when the process dies, .meta.bin does not count users   *)
(* that users.db does not hold, so that load_user_db never leaves entries   *)
(* without a name (http_session.c:104-121, 306-326).                        *)
THEOREM MetaNeverAhead == Spec => []MetaNotAhead
<1>1. Files => MetaNotAhead
  BY DEF Files, MetaBehind, MetaNotAhead
<1>. QED
  BY <1>1, FilesSafe, PTL

-----------------------------------------------------------------------------
(* A ring of entries that is never full *)

LEMMA RingCount ==
  ASSUME NEW q, RingType(q, Nat), RestEmpty(q)
  PROVE  /\ Count(q) \in 0 .. Size - 1
         /\ IsEmpty(q) <=> Count(q) = 0
         /\ Count(q) = IF q.head <= q.tail THEN q.tail - q.head ELSE Size - q.head + q.tail
<1>1. /\ q.head \in Slots /\ q.tail \in Slots /\ Size \in Nat \ {0}
      /\ q.head \in Int /\ q.tail \in Int
  BY RingTypes, RingAssumption DEF Slots
<1>2. q.head = q.tail => q.array[q.head] = NULL
  BY <1>1 DEF RestEmpty, Used
<1>. QED
  BY <1>1, <1>2 DEF Count, IsEmpty, Slots

(* The next slot of the ring. *)
LEMMA AdvanceFacts ==
  ASSUME NEW i \in Slots
  PROVE  /\ Advance(i) \in Slots /\ i \in Int /\ 0 <= i /\ i < Size /\ Size \in Nat \ {0}
         /\ Advance(i) = IF i + 1 = Size THEN 0 ELSE i + 1
BY RingAssumption DEF Advance, Slots

(* push() uses one slot more, the one at tail. *)
LEMMA PushUses ==
  ASSUME NEW q, RingType(q, Nat), RestEmpty(q), Count(q) + 1 < Size, NEW d \in Nat
  PROVE  /\ RestEmpty(AfterPush(q, d)) /\ Count(AfterPush(q, d)) = Count(q) + 1
         /\ ~Used(q, q.tail) /\ Used(AfterPush(q, d), q.tail)
         /\ \A i \in Slots \ {q.tail} : Used(AfterPush(q, d), i) <=> Used(q, i)
<1>. DEFINE r == AfterPush(q, d)
<1>1. /\ q.head \in Slots /\ q.tail \in Slots /\ r.head = q.head /\ r.tail = Advance(q.tail)
      /\ \A i \in Slots \ {q.tail} : r.array[i] = q.array[i]
      /\ RingType(r, Nat)
  BY RingTypes
<1>. HIDE DEF r
<1>2. Count(q) = IF q.head <= q.tail THEN q.tail - q.head ELSE Size - q.head + q.tail
  BY RingCount
<1>. DEFINE h == q.head  t == q.tail
<1>0. /\ h \in Int /\ t \in Int /\ 0 <= h /\ h < Size /\ 0 <= t /\ t < Size /\ Size \in Int
      /\ r.head = h /\ r.tail = IF t + 1 = Size THEN 0 ELSE t + 1
  BY <1>1, AdvanceFacts
<1>. HIDE DEF h, t
<1>8. IF h <= t THEN t - h + 1 < Size ELSE t + 1 < h
  BY <1>0, <1>2 DEF h, t
<1>3. ~Used(q, q.tail) /\ Used(r, q.tail)
  BY <1>1, <1>2, AdvanceFacts DEF Used
<1>4. ASSUME NEW i \in Slots \ {q.tail} PROVE Used(r, i) <=> Used(q, i)
  <2>1. i \in Int /\ 0 <= i /\ i < Size /\ i # t
    BY AdvanceFacts DEF t
  <2>2. Used(q, i) <=> (h < t /\ h <= i /\ i < t) \/ (h > t /\ (h <= i \/ i < t))
    BY DEF Used, h, t
  <2>3. CASE t + 1 = Size
    <3>1. r.tail = 0 /\ (Used(r, i) <=> (h < 0 /\ h <= i /\ i < 0) \/ (h > 0 /\ (h <= i \/ i < 0)))
      BY <1>0, <2>3 DEF Used
    <3>. QED
      BY <1>0, <1>8, <2>1, <2>2, <2>3, <3>1
  <2>4. CASE t + 1 # Size
    <3>1. Used(r, i) <=> (h < t + 1 /\ h <= i /\ i < t + 1) \/ (h > t + 1 /\ (h <= i \/ i < t + 1))
      BY <1>0, <2>4 DEF Used
    <3>. QED
      BY <1>0, <1>8, <2>1, <2>2, <2>4, <3>1
  <2>. QED
    BY <2>3, <2>4
<1>5. RestEmpty(r)
  BY <1>1, <1>3, <1>4 DEF RestEmpty
<1>6. Count(r) = IF r.head <= r.tail THEN r.tail - r.head ELSE Size - r.head + r.tail
  BY <1>1, <1>5, RingCount
<1>7. Count(r) = Count(q) + 1
  BY <1>0, <1>2, <1>6, <1>8 DEF h, t
<1>. QED
  BY <1>3, <1>4, <1>5, <1>7 DEF r

(* pop() frees one slot, the one at head. *)
LEMMA PopFrees ==
  ASSUME NEW q, RingType(q, Nat), RestEmpty(q), ~IsEmpty(q)
  PROVE  /\ RestEmpty(AfterPop(q)) /\ Count(AfterPop(q)) = Count(q) - 1
         /\ Used(q, q.head) /\ ~Used(AfterPop(q), q.head)
         /\ \A i \in Slots \ {q.head} : Used(AfterPop(q), i) <=> Used(q, i)
<1>. DEFINE r == AfterPop(q)
<1>1. /\ q.head \in Slots /\ q.tail \in Slots /\ r.head = Advance(q.head) /\ r.tail = q.tail
      /\ \A i \in Slots \ {q.head} : r.array[i] = q.array[i]
      /\ r.array[q.head] = NULL /\ RingType(r, Nat)
  BY RingTypes
<1>. HIDE DEF r
<1>2. q.head # q.tail
  BY DEF IsEmpty
<1>3. Used(q, q.head) /\ ~Used(r, q.head)
  BY <1>1, <1>2, AdvanceFacts DEF Used
<1>. DEFINE h == q.head  t == q.tail
<1>0. /\ h \in Int /\ t \in Int /\ 0 <= h /\ h < Size /\ 0 <= t /\ t < Size /\ Size \in Int
      /\ r.tail = t /\ r.head = (IF h + 1 = Size THEN 0 ELSE h + 1) /\ h # t
  BY <1>1, <1>2, AdvanceFacts
<1>. HIDE DEF h, t
<1>4. ASSUME NEW i \in Slots \ {q.head} PROVE Used(r, i) <=> Used(q, i)
  <2>1. i \in Int /\ 0 <= i /\ i < Size /\ i # h
    BY AdvanceFacts DEF h
  <2>2. Used(q, i) <=> (h < t /\ h <= i /\ i < t) \/ (h > t /\ (h <= i \/ i < t))
    BY DEF Used, h, t
  <2>3. CASE h + 1 = Size
    <3>1. Used(r, i) <=> (0 < t /\ 0 <= i /\ i < t) \/ (0 > t /\ (0 <= i \/ i < t))
      BY <1>0, <2>3 DEF Used
    <3>. QED
      BY <1>0, <2>1, <2>2, <2>3, <3>1
  <2>4. CASE h + 1 # Size
    <3>1. Used(r, i) <=> (h + 1 < t /\ h + 1 <= i /\ i < t) \/ (h + 1 > t /\ (h + 1 <= i \/ i < t))
      BY <1>0, <2>4 DEF Used
    <3>. QED
      BY <1>0, <2>1, <2>2, <2>4, <3>1
  <2>. QED
    BY <2>3, <2>4
<1>5. RestEmpty(r)
  BY <1>1, <1>4 DEF RestEmpty
<1>6. /\ Count(r) = IF r.head <= r.tail THEN r.tail - r.head ELSE Size - r.head + r.tail
      /\ Count(q) = IF q.head <= q.tail THEN q.tail - q.head ELSE Size - q.head + q.tail
  BY <1>1, <1>5, RingCount
<1>7. Count(r) = Count(q) - 1
  BY <1>0, <1>6 DEF h, t
<1>. QED
  BY <1>3, <1>4, <1>5, <1>7 DEF r

(* The slots in use are those of the positions in the queue, one each. *)
LEMMA Positions ==
  ASSUME NEW q, RingType(q, Nat), RestEmpty(q)
  PROVE  /\ \A k \in 1 .. Count(q) : SlotOf(q, k) \in Slots /\ Used(q, SlotOf(q, k))
         /\ \A i \in Slots : Used(q, i) => \E k \in 1 .. Count(q) : SlotOf(q, k) = i
         /\ \A j, k \in 1 .. Count(q) : SlotOf(q, j) = SlotOf(q, k) => j = k
<1>. DEFINE h == q.head
            t == q.tail
<1>1. h \in Int /\ t \in Int /\ 0 <= h /\ h < Size /\ 0 <= t /\ t < Size /\ Size \in Int
  BY RingTypes, RingAssumption DEF Slots
<1>2. Count(q) = IF h <= t THEN t - h ELSE Size - h + t
  BY RingCount
<1>6. /\ \A i : i \in Slots <=> i \in Int /\ 0 <= i /\ i < Size
      /\ \A i \in Slots : Used(q, i) <=> (h <= i /\ i < t) \/ (h > t /\ (h <= i \/ i < t))
      /\ \A k : SlotOf(q, k) = IF h + k - 1 >= Size THEN h + k - 1 - Size ELSE h + k - 1
  <2>1. \A i : i \in Slots <=> i \in Int /\ 0 <= i /\ i < Size
    BY <1>1 DEF Slots
  <2>2. \A i \in Slots : Used(q, i) <=> (h <= i /\ i < t) \/ (h > t /\ (h <= i \/ i < t))
    BY <1>1, <2>1 DEF Used
  <2>3. \A k : SlotOf(q, k) = IF h + k - 1 >= Size THEN h + k - 1 - Size ELSE h + k - 1
    BY DEF SlotOf
  <2>. QED
    BY <2>1, <2>2, <2>3
<1>. HIDE DEF h, t
<1>3. ASSUME NEW k \in 1 .. Count(q) PROVE SlotOf(q, k) \in Slots /\ Used(q, SlotOf(q, k))
  <2>1. k \in Int /\ 1 <= k /\ k <= Count(q)
    BY <1>1, <1>2
  <2>2. CASE h + k - 1 >= Size
    <3>1. SlotOf(q, k) = h + k - 1 - Size
      BY <1>6, <2>2
    <3>. QED
      BY <1>1, <1>2, <1>6, <2>1, <2>2, <3>1
  <2>3. CASE h + k - 1 < Size
    <3>1. SlotOf(q, k) = h + k - 1
      BY <1>1, <1>6, <2>1, <2>3
    <3>. QED
      BY <1>1, <1>2, <1>6, <2>1, <2>3, <3>1
  <2>. QED
    BY <1>1, <2>1, <2>2, <2>3
<1>4. ASSUME NEW i \in Slots, Used(q, i) PROVE \E k \in 1 .. Count(q) : SlotOf(q, k) = i
  <2>1. i \in Int /\ 0 <= i /\ i < Size
    BY <1>6
  <2>2. CASE i >= h
    <3>1. i - h + 1 \in 1 .. Count(q)
      BY <1>1, <1>2, <1>4, <1>6, <2>1, <2>2
    <3>2. SlotOf(q, i - h + 1) = i
      BY <1>1, <1>6, <2>1, <2>2
    <3>. QED
      BY <3>1, <3>2
  <2>3. CASE i < h
    <3>1. Size - h + i + 1 \in 1 .. Count(q)
      BY <1>1, <1>2, <1>4, <1>6, <2>1, <2>3
    <3>2. SlotOf(q, Size - h + i + 1) = i
      BY <1>1, <1>6, <2>1, <2>3
    <3>. QED
      BY <3>1, <3>2
  <2>. QED
    BY <1>1, <2>1, <2>2, <2>3
<1>5. ASSUME NEW j \in 1 .. Count(q), NEW k \in 1 .. Count(q), SlotOf(q, j) = SlotOf(q, k)
      PROVE  j = k
  <2>1. /\ j \in Int /\ 1 <= j /\ j <= Size /\ k \in Int /\ 1 <= k /\ k <= Size
    BY <1>1, <1>2
  <2>. QED
    BY <1>1, <1>5, <1>6, <2>1
<1>. QED
  BY <1>3, <1>4, <1>5

-----------------------------------------------------------------------------
(* Places *)

(* What is in each of the places. *)
PlacesHold ==
  /\ \A i \in Nat \ {0} : /\ <<"db", i>> \in PlaceSet
                          /\ In(<<"db", i>>) = IF i \in DOMAIN db THEN {db[i]} ELSE {}
  /\ \A i \in Slots : /\ <<"queue", i>> \in PlaceSet
                      /\ In(<<"queue", i>>) = IF Used(work, i) THEN {users[work.array[i] + 1]} ELSE {}
  /\ \A t \in Threads : /\ <<"request", t>> \in PlaceSet
                        /\ In(<<"request", t>>) = IF pc[t] = "push" THEN {users[entry[t] + 1]} ELSE {}
  /\ <<"task", 0>> \in PlaceSet
  /\ In(<<"task", 0>>) = IF tpc = "save" THEN {users[taken + 1]} ELSE {}

(* Each place by its definition. *)
LEMMA PlaceFacts == PlacesHold
<1>1. ASSUME NEW i \in Nat \ {0}
      PROVE  <<"db", i>> \in PlaceSet /\ In(<<"db", i>>) = IF i \in DOMAIN db THEN {db[i]} ELSE {}
  BY DEF PlaceSet, In
<1>2. ASSUME NEW i \in Slots
      PROVE  /\ <<"queue", i>> \in PlaceSet
             /\ In(<<"queue", i>>) = IF Used(work, i) THEN {users[work.array[i] + 1]} ELSE {}
  BY DEF PlaceSet, In
<1>3. ASSUME NEW t \in Threads
      PROVE  /\ <<"request", t>> \in PlaceSet
             /\ In(<<"request", t>>) = IF pc[t] = "push" THEN {users[entry[t] + 1]} ELSE {}
  BY DEF PlaceSet, In
<1>4. <<"task", 0>> \in PlaceSet /\ In(<<"task", 0>>) = IF tpc = "save" THEN {users[taken + 1]} ELSE {}
  BY DEF PlaceSet, In
<1>. QED
  BY <1>1, <1>2, <1>3, <1>4 DEF PlacesHold

(* The same of the places after a step. *)
LEMMA PlaceFactsNext == PlacesHold'
BY PlaceFacts, PTL

(* The kinds of place a user can be in. *)
LEMMA PlaceCases ==
  ASSUME NEW x \in PlaceSet
  PROVE  \/ \E i \in Nat \ {0} : x = <<"db", i>>
         \/ \E i \in Slots : x = <<"queue", i>>
         \/ \E t \in Threads : x = <<"request", t>>
         \/ x = <<"task", 0>>
BY DEF PlaceSet

(* What is in a place is a user of the table, or in the file. *)
LEMMA EntryOfUsed ==
  ASSUME TypeOK, EntriesThere, NEW i \in Slots, Used(work, i)
  PROVE  work.array[i] + 1 \in DOMAIN users /\ work.array[i] \in Nat
<1>1. work.array[i] \in Nat /\ work.head \in Int /\ work.tail \in Int
  BY RingTypes, RingAssumption DEF TypeOK, Slots
<1>2. ~IsEmpty(work)
  BY <1>1 DEF Used, IsEmpty
<1>3. CASE work.array[i] = NULL
  BY <1>2, <1>3, StoreAssumption DEF EntriesThere, TypeOK
<1>4. CASE work.array[i] # NULL
  BY <1>1, <1>4 DEF EntriesThere
<1>. QED
  BY <1>1, <1>3, <1>4

(* A user that goes to a place that was empty is in one place still. *)
LEMMA MoveKeeps ==
  ASSUME Apart, NoneLost, NEW x \in PlaceSet, NEW y \in PlaceSet,
         In(y) = {}, In(x)' = {}, In(y)' = In(x),
         \A z \in PlaceSet \ {x, y} : In(z)' = In(z), users' = users
  PROVE  Apart' /\ NoneLost'
<1>0. PlaceSet' = PlaceSet
  BY DEF PlaceSet
<1>1. ASSUME NEW a \in PlaceSet, NEW b \in PlaceSet, In(a)' \cap In(b)' # {}
      PROVE  a = b
  <2>1. a # x /\ b # x
    BY <1>1
  <2>2. CASE a = y \/ b = y
    BY <1>1, <2>1, <2>2 DEF Apart
  <2>3. CASE a # y /\ b # y
    BY <1>1, <2>1, <2>3 DEF Apart
  <2>. QED
    BY <2>2, <2>3
<1>2. ASSUME NEW k \in DOMAIN users PROVE \E z \in PlaceSet : users[k] \in In(z)'
  BY DEF NoneLost
<1>. QED
  BY <1>0, <1>1, <1>2 DEF Apart, NoneLost

(* A step that moves no user leaves each in its one place. *)
LEMMA StayKeeps ==
  ASSUME Apart, NoneLost, \A z \in PlaceSet : In(z)' = In(z), users' = users
  PROVE  Apart' /\ NoneLost'
<1>1. PlaceSet' = PlaceSet
  BY DEF PlaceSet
<1>. QED
  BY <1>1 DEF Apart, NoneLost

(* What is in a place is the name of a user of the table. *)
LEMMA OnlyUsers ==
  ASSUME Files, InStep, up # "down", NEW x \in PlaceSet, NEW v \in In(x)
  PROVE  \E k \in DOMAIN users : v = users[k]
<1>. USE PlaceFacts DEF PlacesHold
<1>1. CASE \E i \in Nat \ {0} : x = <<"db", i>>
  BY <1>1 DEF InStep
<1>2. CASE \E i \in Slots : x = <<"queue", i>>
  BY <1>2, EntryOfUsed DEF Files
<1>3. CASE \E t \in Threads : x = <<"request", t>>
  BY <1>3 DEF Files, EntriesThere
<1>4. CASE x = <<"task", 0>>
  BY <1>4 DEF Files, EntriesThere
<1>. QED
  BY <1>1, <1>2, <1>3, <1>4, PlaceCases

-----------------------------------------------------------------------------
(* Every step keeps the users in order *)

Pushers == {t \in Threads : pc[t] = "push"}

(* The threads in push() are finitely many. *)
LEMMA PushersCount ==
  ASSUME TypeOK
  PROVE  /\ IsFiniteSet(Pushers) /\ Cardinality(Pushers) \in Nat
         /\ \A t \in Threads : pc[t] = "push" => Cardinality(Pushers) >= 1
<1>1. IsFiniteSet(Pushers)
  BY FS_Subset, StoreAssumption DEF Pushers
<1>2. Cardinality(Pushers) \in Nat
  BY <1>1, FS_CardinalityType
<1>3. \A t \in Threads : pc[t] = "push" => Pushers # {}
  BY DEF Pushers
<1>4. Cardinality(Pushers) = 0 <=> Pushers = {}
  BY <1>1, FS_EmptySet
<1>. QED
  BY <1>1, <1>2, <1>3, <1>4

(* A step that moves no user. *)
LEMMA NothingMoves ==
  ASSUME TypeOK, QueueFits, NamesOnce, Apart, NoneLost,
         UNCHANGED <<users, db, work, entry, taken>>,
         \A s \in Threads : pc'[s] = "push" <=> pc[s] = "push",
         tpc' = "save" <=> tpc = "save"
  PROVE  QueueFits' /\ NamesOnce' /\ Apart' /\ NoneLost'
<1>1. ASSUME NEW z \in PlaceSet PROVE In(z)' = In(z)
  <2>. USE PlaceFacts, PlaceFactsNext DEF PlacesHold
  <2>1. CASE \E i \in Nat \ {0} : z = <<"db", i>>
    BY <2>1
  <2>2. CASE \E i \in Slots : z = <<"queue", i>>
    BY <2>2 DEF Used
  <2>3. CASE \E t \in Threads : z = <<"request", t>>
    BY <2>3
  <2>4. CASE z = <<"task", 0>>
    BY <2>4
  <2>. QED
    BY <2>1, <2>2, <2>3, <2>4, PlaceCases
<1>2. Apart' /\ NoneLost'
  BY <1>1, StayKeeps
<1>3. {t \in Threads : pc'[t] = "push"} = {t \in Threads : pc[t] = "push"}
  OBVIOUS
<1>4. Waiting' = Waiting
  BY <1>3 DEF Waiting, Count
<1>5. QueueFits'
  BY <1>4 DEF QueueFits, RestEmpty, Used
<1>6. NamesOnce'
  BY DEF NamesOnce
<1>. QED
  BY <1>2, <1>5, <1>6

(* A registration puts the new user into the hands of its thread. *)
LEMMA RegisterOrderly ==
  ASSUME Files, Orderly, NEW t \in Threads, NEW n \in Names, Register(t, n)
  PROVE  Orderly'
<1>. DEFINE y == <<"request", t>>
<1>. USE PlaceFacts, PlaceFactsNext DEF PlacesHold
<1>1. /\ pc[t] = "idle" /\ up # "down" /\ Waiting < Burst
      /\ users' = Append(users, n) /\ pc' = [pc EXCEPT ![t] = "push"]
      /\ entry' = [entry EXCEPT ![t] = Len(users)]
      /\ UNCHANGED <<up, work, tpc, taken, new, base, db, meta>>
  BY DEF Register, Locks, taskVars, fileVars, countVars
<1>2. /\ Len(users) \in Nat /\ DOMAIN users = 1 .. Len(users)
      /\ DOMAIN users' = 1 .. Len(users) + 1 /\ users'[Len(users) + 1] = n
      /\ \A k \in DOMAIN users : users'[k] = users[k] /\ users[k] # n
  BY <1>1 DEF Register, Range, Files, TypeOK
<1>3. pc \in [Threads -> {"idle", "push", "login"}] /\ entry \in [Threads -> Nat]
  BY DEF Files, TypeOK
<1>4. y \in PlaceSet /\ In(y) = {} /\ In(y)' = {n}
  BY <1>1, <1>2, <1>3
<1>12. ASSUME NEW z \in PlaceSet \ {y} PROVE In(z)' = In(z)
  <2>1. CASE \E i \in Nat \ {0} : z = <<"db", i>>
    BY <1>1, <2>1
  <2>2. CASE \E i \in Slots : z = <<"queue", i>>
    <3>1. PICK i \in Slots : z = <<"queue", i>>
      BY <2>2
    <3>2. Used(work, i)' <=> Used(work, i)
      BY <1>1 DEF Used
    <3>3. Used(work, i) => work.array[i] + 1 \in DOMAIN users
      BY EntryOfUsed DEF Files
    <3>4. Used(work, i) => users'[work.array[i] + 1] = users[work.array[i] + 1]
      BY <1>2, <3>3
    <3>5. /\ In(z) = IF Used(work, i) THEN {users[work.array[i] + 1]} ELSE {}
          /\ In(z)' = IF Used(work, i)' THEN {users'[work'.array[i] + 1]} ELSE {}
      BY <3>1
    <3>6. work'.array[i] = work.array[i]
      BY <1>1
    <3>. QED
      BY <3>2, <3>4, <3>5, <3>6
  <2>3. CASE \E s \in Threads : z = <<"request", s>>
    <3>1. PICK s \in Threads : z = <<"request", s>>
      BY <2>3
    <3>2. s # t /\ pc'[s] = pc[s] /\ entry'[s] = entry[s]
      BY <1>1, <1>3, <3>1
    <3>3. pc[s] = "push" => users'[entry[s] + 1] = users[entry[s] + 1]
      BY <1>2 DEF Files, EntriesThere
    <3>4. /\ In(z) = IF pc[s] = "push" THEN {users[entry[s] + 1]} ELSE {}
          /\ In(z)' = IF pc'[s] = "push" THEN {users'[entry'[s] + 1]} ELSE {}
      BY <3>1
    <3>. QED
      BY <3>2, <3>3, <3>4
  <2>4. CASE z = <<"task", 0>>
    BY <1>1, <1>2, <2>4 DEF Files, EntriesThere
  <2>. QED
    BY <2>1, <2>2, <2>3, <2>4, PlaceCases
<1>5. ASSUME NEW z \in PlaceSet \ {y} PROVE In(z)' = In(z) /\ n \notin In(z)
  BY <1>1, <1>2, <1>12, OnlyUsers DEF Orderly
<1>6. PlaceSet' = PlaceSet
  BY DEF PlaceSet
<1>7. Apart'
  BY <1>4, <1>5, <1>6 DEF Orderly, Apart
<1>8. NoneLost'
  <2>1. ASSUME NEW k \in DOMAIN users' PROVE \E z \in PlaceSet : users'[k] \in In(z)'
    <3>1. CASE k = Len(users) + 1
      BY <1>2, <1>4, <3>1
    <3>2. CASE k # Len(users) + 1
      <4>1. k \in DOMAIN users /\ users'[k] = users[k] /\ users[k] # n
        BY <1>2, <3>2
      <4>2. PICK z \in PlaceSet : users[k] \in In(z)
        BY <4>1 DEF Orderly, NoneLost
      <4>. QED
        BY <1>4, <1>5, <4>1, <4>2
    <3>. QED
      BY <3>1, <3>2
  <2>. QED
    BY <1>6, <2>1 DEF NoneLost
<1>9. NamesOnce'
  BY <1>2 DEF Orderly, NamesOnce
<1>10. InStep'
  BY <1>1, <1>2 DEF Orderly, InStep
<1>11. QueueFits'
  <2>1. Pushers' = Pushers \cup {t} /\ t \notin Pushers
    BY <1>1, <1>3 DEF Pushers
  <2>2. Cardinality(Pushers') = Cardinality(Pushers) + 1
    BY <2>1, PushersCount, FS_AddElement DEF Files
  <2>3. Count(work) \in Nat /\ Cardinality(Pushers) \in Nat /\ Burst \in Nat
    <3>1. TypeOK /\ RingType(work, Nat) /\ RestEmpty(work)
      BY DEF Files, TypeOK, Orderly, QueueFits
    <3>2. Count(work) \in 0 .. Size - 1 /\ Size \in Nat
      BY <3>1, RingCount, RingAssumption
    <3>. QED
      BY <3>1, <3>2, PushersCount, StoreAssumption
  <2>4. Waiting' <= Burst
    <3>1. Waiting = Count(work) + Cardinality(Pushers) + (IF tpc = "save" THEN 1 ELSE 0)
      BY DEF Waiting, Pushers
    <3>2. Waiting' = Count(work) + Cardinality(Pushers') + (IF tpc = "save" THEN 1 ELSE 0)
      BY <1>1 DEF Waiting, Pushers, Count
    <3>. QED
      BY <1>1, <2>2, <2>3, <3>1, <3>2
  <2>. QED
    BY <1>1, <2>4 DEF Orderly, QueueFits, RestEmpty, Used
<1>. QED
  BY <1>7, <1>8, <1>9, <1>10, <1>11 DEF Orderly

(* push() moves the user from its thread to the queue. *)
LEMMA PushWorkOrderly ==
  ASSUME Files, Fits, Orderly, NEW t \in Threads, PushWork(t)
  PROVE  Orderly'
<1>. USE PlaceFacts, PlaceFactsNext DEF PlacesHold
<1>1. /\ up # "down" /\ pc[t] = "push" /\ work' = AfterPush(work, entry[t])
      /\ pc' = [pc EXCEPT ![t] = "idle"] /\ entry' = [entry EXCEPT ![t] = 0]
      /\ UNCHANGED <<up, users, tpc, taken, new, base, db, meta>>
  BY DEF PushWork, tableVars, taskVars, fileVars, countVars
<1>2. /\ TypeOK /\ EntriesThere /\ RingType(work, Nat) /\ RestEmpty(work) /\ Waiting <= Burst
      /\ Apart /\ NoneLost /\ NamesOnce /\ InStep
      /\ pc \in [Threads -> {"idle", "push", "login"}] /\ entry \in [Threads -> Nat]
  BY DEF Files, TypeOK, Orderly, QueueFits
<1>3. /\ Count(work) \in Nat /\ Cardinality(Pushers) \in Nat /\ Burst \in Nat /\ Size \in Nat
      /\ Burst < Size /\ Cardinality(Pushers) >= 1 /\ IsFiniteSet(Pushers)
  <2>1. Count(work) \in 0 .. Size - 1 /\ Size \in Nat
    BY <1>2, RingCount, RingAssumption
  <2>. QED
    BY <1>1, <1>2, <2>1, PushersCount, StoreAssumption DEF Fits
<1>4. Waiting = Count(work) + Cardinality(Pushers) + (IF tpc = "save" THEN 1 ELSE 0)
  BY DEF Waiting, Pushers
<1>5. Count(work) + 1 < Size
  BY <1>2, <1>3, <1>4
<1>6. /\ RestEmpty(work') /\ Count(work') = Count(work) + 1
      /\ ~Used(work, work.tail) /\ Used(work', work.tail)
      /\ \A i \in Slots \ {work.tail} : Used(work', i) <=> Used(work, i)
  BY <1>1, <1>2, <1>5, PushUses
<1>7. /\ work.tail \in Slots /\ work'.array[work.tail] = entry[t]
      /\ \A i \in Slots \ {work.tail} : work'.array[i] = work.array[i]
  BY <1>1, <1>2, RingTypes
<1>8. PICK m \in Slots : m = work.tail
  BY <1>7
<1>. DEFINE x == <<"request", t>>  y == <<"queue", m>>
<1>9. x \in PlaceSet /\ In(x) = {users[entry[t] + 1]} /\ In(x)' = {}
  BY <1>1, <1>2
<1>10. y \in PlaceSet /\ In(y) = {} /\ In(y)' = {users[entry[t] + 1]}
  BY <1>1, <1>6, <1>7, <1>8
<1>11. ASSUME NEW z \in PlaceSet \ {x, y} PROVE In(z)' = In(z)
  <2>1. CASE \E i \in Nat \ {0} : z = <<"db", i>>
    BY <1>1, <2>1
  <2>2. CASE \E i \in Slots : z = <<"queue", i>>
    <3>1. PICK i \in Slots : z = <<"queue", i>>
      BY <2>2
    <3>2. i # work.tail
      BY <1>8, <3>1
    <3>3. (Used(work', i) <=> Used(work, i)) /\ work'.array[i] = work.array[i]
      BY <1>6, <1>7, <3>2
    <3>. QED
      BY <1>1, <3>1, <3>3 DEF Used
  <2>3. CASE \E s \in Threads : z = <<"request", s>>
    BY <1>1, <1>2, <2>3
  <2>4. CASE z = <<"task", 0>>
    BY <1>1, <2>4
  <2>. QED
    BY <2>1, <2>2, <2>3, <2>4, PlaceCases
<1>12. Apart' /\ NoneLost'
  BY <1>1, <1>2, <1>9, <1>10, <1>11, MoveKeeps
<1>13. NamesOnce' /\ InStep'
  BY <1>1, <1>2 DEF NamesOnce, InStep
<1>14. QueueFits'
  <2>1. Pushers' = Pushers \ {t} /\ t \in Pushers
    BY <1>1, <1>2 DEF Pushers
  <2>2. Cardinality(Pushers') = Cardinality(Pushers) - 1
    BY <1>3, <2>1, FS_RemoveElement
  <2>3. Waiting' = Count(work') + Cardinality(Pushers') + (IF tpc = "save" THEN 1 ELSE 0)
    BY <1>1 DEF Waiting, Pushers
  <2>4. Waiting' <= Burst
    BY <1>2, <1>3, <1>4, <1>6, <2>2, <2>3
  <2>. QED
    BY <1>6, <2>4 DEF QueueFits, RestEmpty
<1>. QED
  BY <1>12, <1>13, <1>14 DEF Orderly

(* A refused registration and a login move nobody. *)
LEMMA SessionOrderly ==
  ASSUME Files, Orderly, NEW t \in Threads,
         (\E n \in Names : RegisterTaken(t, n)) \/ LoginBegin(t) \/ UserGet(t)
  PROVE  Orderly'
<1>1. /\ UNCHANGED <<users, db, work, entry, taken, up, tpc, new, base, meta>>
      /\ \A s \in Threads : pc'[s] = "push" <=> pc[s] = "push"
  BY DEF RegisterTaken, LoginBegin, UserGet, tableVars, requestVars, taskVars, fileVars, countVars,
         Files, TypeOK
<1>2. QueueFits' /\ NamesOnce' /\ Apart' /\ NoneLost'
  BY <1>1, NothingMoves DEF Files, Orderly
<1>3. InStep'
  BY <1>1 DEF Orderly, InStep
<1>. QED
  BY <1>2, <1>3 DEF Orderly

(* The session task takes a user out of the queue. *)
LEMMA DrainOrderly ==
  ASSUME Files, Orderly, Drain
  PROVE  Orderly'
<1>. USE PlaceFacts, PlaceFactsNext DEF PlacesHold
<1>1. /\ up # "down" /\ tpc = "drain"
      /\ UNCHANGED <<up, users, pc, entry, new, base, db, meta>>
  BY DEF Drain, TaskAt, tableVars, requestVars, fileVars, countVars
<1>2. /\ TypeOK /\ EntriesThere /\ RingType(work, Nat) /\ RestEmpty(work) /\ Waiting <= Burst
      /\ Apart /\ NoneLost /\ NamesOnce /\ InStep
  BY DEF Files, TypeOK, Orderly, QueueFits
<1>3. /\ Count(work) \in Nat /\ Cardinality(Pushers) \in Nat /\ Burst \in Nat
  <2>1. Count(work) \in 0 .. Size - 1 /\ Size \in Nat
    BY <1>2, RingCount, RingAssumption
  <2>. QED
    BY <1>2, <2>1, PushersCount, StoreAssumption
<1>4. CASE ~IsEmpty(work) /\ taken' = Front(work) /\ work' = AfterPop(work) /\ tpc' = "save"
  <2>1. /\ RestEmpty(work') /\ Count(work') = Count(work) - 1
        /\ Used(work, work.head) /\ ~Used(work', work.head)
        /\ \A i \in Slots \ {work.head} : Used(work', i) <=> Used(work, i)
    BY <1>2, <1>4, PopFrees
  <2>2. /\ work.head \in Slots /\ taken' = work.array[work.head]
        /\ \A i \in Slots \ {work.head} : work'.array[i] = work.array[i]
    BY <1>2, <1>4, RingTypes DEF Front
  <2>3. PICK m \in Slots : m = work.head
    BY <2>2
  <2>. DEFINE x == <<"queue", m>>  y == <<"task", 0>>
  <2>4. x \in PlaceSet /\ In(x) = {users[taken' + 1]}
    BY <2>1, <2>2, <2>3
  <2>5. In(x)' = {}
    BY <2>1, <2>3 DEF Used
  <2>6. y \in PlaceSet /\ In(y) = {} /\ In(y)' = {users[taken' + 1]}
    BY <1>1, <1>4
  <2>7. ASSUME NEW z \in PlaceSet \ {x, y} PROVE In(z)' = In(z)
    <3>1. CASE \E i \in Nat \ {0} : z = <<"db", i>>
      BY <1>1, <3>1
    <3>2. CASE \E i \in Slots : z = <<"queue", i>>
      <4>1. PICK i \in Slots : z = <<"queue", i>>
        BY <3>2
      <4>2. i # work.head
        BY <2>3, <4>1
      <4>3. (Used(work', i) <=> Used(work, i)) /\ work'.array[i] = work.array[i]
        BY <2>1, <2>2, <4>2
      <4>. QED
        BY <1>1, <4>1, <4>3 DEF Used
    <3>3. CASE \E s \in Threads : z = <<"request", s>>
      BY <1>1, <3>3
    <3>4. CASE z = <<"task", 0>>
      BY <3>4
    <3>. QED
      BY <3>1, <3>2, <3>3, <3>4, PlaceCases
  <2>8. Apart' /\ NoneLost'
    BY <1>1, <1>2, <2>4, <2>5, <2>6, <2>7, MoveKeeps
  <2>9. NamesOnce' /\ InStep'
    BY <1>1, <1>2, <1>4 DEF NamesOnce, InStep
  <2>10. Waiting' <= Burst
    <3>1. Waiting = Count(work) + Cardinality(Pushers)
      BY <1>1, <1>3 DEF Waiting, Pushers
    <3>2. Waiting' = Count(work') + Cardinality(Pushers) + 1
      BY <1>1, <1>4 DEF Waiting, Pushers
    <3>. QED
      BY <1>2, <1>3, <2>1, <3>1, <3>2
  <2>. QED
    BY <2>1, <2>8, <2>9, <2>10 DEF Orderly, QueueFits, RestEmpty
<1>5. CASE tpc' = (IF new > 0 THEN "meta" ELSE "check") /\ UNCHANGED <<taken, work>>
  <2>1. QueueFits' /\ NamesOnce' /\ Apart' /\ NoneLost'
    BY <1>1, <1>5, NothingMoves DEF Files, Orderly
  <2>2. InStep'
    BY <1>1, <1>2, <1>5 DEF InStep, TypeOK
  <2>. QED
    BY <2>1, <2>2 DEF Orderly
<1>. QED
  BY <1>4, <1>5 DEF Drain

(* The session task writes the user it has into users.db. *)
LEMMA SaveOrderly ==
  ASSUME Files, Orderly, Save
  PROVE  Orderly'
<1>. USE PlaceFacts, PlaceFactsNext DEF PlacesHold
<1>1. /\ up # "down" /\ tpc = "save" /\ db' = Append(db, users[taken + 1]) /\ new' = new + 1
      /\ taken' = 0 /\ tpc' = "drain"
      /\ UNCHANGED <<up, users, work, pc, entry, base, meta>>
  BY DEF Save, TaskAt, tableVars, requestVars, countVars
<1>2. /\ Apart /\ NoneLost /\ NamesOnce /\ InStep /\ RestEmpty(work) /\ Waiting <= Burst
      /\ taken + 1 \in DOMAIN users /\ {base, new} \subseteq Nat
  BY <1>1 DEF Files, TypeOK, EntriesThere, Orderly, QueueFits
<1>3. /\ Len(db) \in Nat /\ DOMAIN db = 1 .. Len(db) /\ Len(db') = Len(db) + 1
      /\ DOMAIN db' = 1 .. Len(db) + 1 /\ db'[Len(db) + 1] = users[taken + 1]
      /\ \A i \in DOMAIN db : db'[i] = db[i]
  BY <1>1, <1>2 DEF Files, TypeOK
<1>4. PICK m \in Nat \ {0} : m = Len(db) + 1
  BY <1>3
<1>. DEFINE x == <<"task", 0>>  y == <<"db", m>>
<1>5. x \in PlaceSet /\ In(x) = {users[taken + 1]} /\ In(x)' = {}
  BY <1>1
<1>6. y \in PlaceSet /\ In(y) = {} /\ In(y)' = {users[taken + 1]}
  <2>1. m \notin DOMAIN db /\ m \in DOMAIN db' /\ db'[m] = users[taken + 1]
    BY <1>3, <1>4
  <2>. QED
    BY <2>1
<1>7. ASSUME NEW z \in PlaceSet \ {x, y} PROVE In(z)' = In(z)
  <2>1. CASE \E i \in Nat \ {0} : z = <<"db", i>>
    <3>1. PICK i \in Nat \ {0} : z = <<"db", i>>
      BY <2>1
    <3>2. i # Len(db) + 1
      BY <1>4, <3>1
    <3>3. (i \in DOMAIN db' <=> i \in DOMAIN db) /\ (i \in DOMAIN db => db'[i] = db[i])
      BY <1>3, <3>2
    <3>. QED
      BY <3>1, <3>3
  <2>2. CASE \E i \in Slots : z = <<"queue", i>>
    BY <1>1, <2>2 DEF Used
  <2>3. CASE \E s \in Threads : z = <<"request", s>>
    BY <1>1, <2>3
  <2>4. CASE z = <<"task", 0>>
    BY <2>4
  <2>. QED
    BY <2>1, <2>2, <2>3, <2>4, PlaceCases
<1>8. Apart' /\ NoneLost'
  BY <1>1, <1>2, <1>5, <1>6, <1>7, MoveKeeps
<1>9. NamesOnce'
  BY <1>1, <1>2 DEF NamesOnce
<1>10. InStep'
  <2>1. \A i \in DOMAIN db' : \E k \in DOMAIN users : db'[i] = users[k]
    BY <1>1, <1>2, <1>3 DEF InStep
  <2>. QED
    BY <1>1, <1>2, <1>3, <2>1 DEF InStep
<1>11. QueueFits'
  <2>1. /\ Count(work) \in Nat /\ Cardinality(Pushers) \in Nat /\ Burst \in Nat
    <3>1. TypeOK /\ RingType(work, Nat)
      BY DEF Files, TypeOK
    <3>2. Count(work) \in 0 .. Size - 1 /\ Size \in Nat
      BY <1>2, <3>1, RingCount, RingAssumption
    <3>. QED
      BY <3>1, <3>2, PushersCount, StoreAssumption
  <2>2. Waiting = Count(work) + Cardinality(Pushers) + 1
    BY <1>1 DEF Waiting, Pushers
  <2>3. Waiting' = Count(work) + Cardinality(Pushers)
    BY <1>1, <2>1 DEF Waiting, Pushers, Count
  <2>4. Waiting' <= Burst
    BY <1>2, <2>1, <2>2, <2>3
  <2>. QED
    BY <1>1, <1>2, <2>4 DEF QueueFits, RestEmpty, Used
<1>. QED
  BY <1>8, <1>9, <1>10, <1>11 DEF Orderly

(* The session task keeps everybody in one place. *)
LEMMA TaskOrderly ==
  ASSUME Files, Orderly, Task
  PROVE  Orderly'
<1>1. CASE Check \/ Round \/ SkipRound
  <2>1. /\ UNCHANGED <<users, db, work, entry, taken, up, pc, new, base, meta>>
        /\ tpc' # "save" /\ tpc # "save"
        /\ tpc \in {"check", "round"}
    BY <1>1 DEF Check, Round, SkipRound, TaskAt, tableVars, requestVars, fileVars, countVars
  <2>2. QueueFits' /\ NamesOnce' /\ Apart' /\ NoneLost'
    BY <2>1, NothingMoves DEF Files, Orderly
  <2>3. InStep'
    BY <2>1 DEF Orderly, InStep
  <2>. QED
    BY <2>2, <2>3 DEF Orderly
<1>2. CASE WriteMeta
  <2>1. /\ UNCHANGED <<users, db, work, entry, taken, up, pc>>
        /\ up # "down" /\ tpc = "meta" /\ tpc' = "check"
        /\ base' = base + new /\ meta' = base + new /\ new' = 0
    BY <1>2 DEF WriteMeta, SavedUsers, TaskAt, tableVars, requestVars, countVars
  <2>2. QueueFits' /\ NamesOnce' /\ Apart' /\ NoneLost'
    BY <2>1, NothingMoves DEF Files, Orderly
  <2>3. InStep'
    BY <2>1 DEF Files, TypeOK, Orderly, InStep
  <2>. QED
    BY <2>2, <2>3 DEF Orderly
<1>. QED
  BY <1>1, <1>2, DrainOrderly, SaveOrderly DEF Task

(* A process that has loaded what is in the file, or has ended. *)
LEMMA LoadedOrderly ==
  ASSUME Files, Apart, NEW s \in Seq(Names), Loaded(s), s = db \/ s = <<>>, UNCHANGED db
  PROVE  QueueFits' /\ NamesOnce' /\ Apart' /\ NoneLost'
<1>. USE PlaceFacts, PlaceFactsNext DEF PlacesHold
<1>1. /\ users' = s /\ tpc' = "check"
      /\ RingType(work', Nat) /\ work'.head = 0 /\ work'.tail = 0
      /\ \A i \in Slots : work'.array[i] = NULL
      /\ \A t \in Threads : pc'[t] = "idle"
  BY LoadedType
<1>2. RestEmpty(work') /\ \A i \in Slots : ~Used(work', i)
  BY <1>1 DEF RestEmpty, Used
<1>3. QueueFits'
  <2>1. Count(work') = 0
    BY <1>1, <1>2, RingCount
  <2>2. Pushers' = {} /\ Cardinality({}) = 0
    BY <1>1, FS_EmptySet DEF Pushers
  <2>3. Waiting' = Count(work') + Cardinality(Pushers') + (IF tpc' = "save" THEN 1 ELSE 0)
    BY DEF Waiting, Pushers
  <2>4. Waiting' <= Burst
    BY <1>1, <2>1, <2>2, <2>3, StoreAssumption
  <2>. QED
    BY <1>2, <2>4 DEF QueueFits, RestEmpty
<1>4. DOMAIN db = 1 .. Len(db) /\ Len(db) \in Nat
  BY DEF Files, TypeOK
<1>5. NamesOnce'
  <2>1. ASSUME NEW i \in DOMAIN db, NEW k \in DOMAIN db, db[i] = db[k] PROVE i = k
    <3>1. i \in Nat \ {0} /\ k \in Nat \ {0}
      BY <1>4
    <3>2. In(<<"db", i>>) = {db[i]} /\ In(<<"db", k>>) = {db[k]}
      BY <3>1
    <3>3. <<"db", i>> \in PlaceSet /\ <<"db", k>> \in PlaceSet
      BY <3>1
    <3>4. <<"db", i>> = <<"db", k>>
      BY <2>1, <3>2, <3>3 DEF Apart
    <3>. QED
      BY <3>4
  <2>. QED
    BY <1>1, <2>1 DEF NamesOnce
<1>6. ASSUME NEW z \in PlaceSet PROVE In(z)' \subseteq In(z)
  <2>1. CASE \E i \in Nat \ {0} : z = <<"db", i>>
    BY <2>1
  <2>2. CASE \E i \in Slots : z = <<"queue", i>>
    BY <1>2, <2>2 DEF Used
  <2>3. CASE \E t \in Threads : z = <<"request", t>>
    BY <1>1, <2>3
  <2>4. CASE z = <<"task", 0>>
    BY <1>1, <2>4
  <2>. QED
    BY <2>1, <2>2, <2>3, <2>4, PlaceCases
<1>7. PlaceSet' = PlaceSet
  BY DEF PlaceSet
<1>8. Apart'
  BY <1>6, <1>7 DEF Apart
<1>9. ASSUME NEW k \in DOMAIN users' PROVE \E z \in PlaceSet : users'[k] \in In(z)'
  <2>1. k \in DOMAIN db /\ users' = db /\ k \in Nat \ {0}
    BY <1>1, <1>4
  <2>2. <<"db", k>> \in PlaceSet /\ In(<<"db", k>>)' = {db[k]}
    BY <2>1
  <2>. QED
    BY <2>1, <2>2
<1>. QED
  BY <1>3, <1>5, <1>7, <1>8, <1>9 DEF NoneLost

(* A start loads, and a stop leaves, everybody in the file. *)
LEMMA LifeOrderly ==
  ASSUME Files, Orderly, Start \/ Stop \/ Stopped
  PROVE  Orderly'
<1>0. Len(db) \in Nat /\ db \in Seq(Names)
  BY DEF Files, TypeOK
<1>1. CASE Start
  <2>1. up = "down" /\ meta = Len(db)
    BY <1>1 DEF Start, Orderly, InStep
  <2>2. SubSeq(db, 1, Len(db)) = db /\ (Len(db) = 0 => db = <<>>)
    BY <1>0
  <2>3. up' = "up" /\ meta' = meta /\ db' = db /\ Loaded(db)
    BY <1>1, <2>1, <2>2 DEF Start
  <2>4. QueueFits' /\ NamesOnce' /\ Apart' /\ NoneLost'
    BY <1>0, <2>3, LoadedOrderly DEF Orderly
  <2>5. users' = db /\ new' = 0 /\ base' = Len(db)
    BY <1>0, <2>3, LoadedType
  <2>6. InStep'
    BY <1>0, <2>1, <2>3, <2>5 DEF InStep
  <2>. QED
    BY <2>4, <2>6 DEF Orderly
<1>2. CASE Stop
  <2>1. /\ UNCHANGED <<users, db, work, entry, taken, pc, tpc, new, base, meta>>
        /\ up # "down" /\ up' # "down"
    BY <1>2 DEF Stop, tableVars, requestVars, taskVars, fileVars, countVars
  <2>2. QueueFits' /\ NamesOnce' /\ Apart' /\ NoneLost'
    BY <2>1, NothingMoves DEF Files, Orderly
  <2>3. InStep'
    BY <2>1 DEF Orderly, InStep
  <2>. QED
    BY <2>2, <2>3 DEF Orderly
<1>3. CASE Stopped
  <2>1. /\ up = "stopping" /\ tpc = "out" /\ up' = "down" /\ Loaded(<<>>)
        /\ UNCHANGED <<db, meta>>
    BY <1>3 DEF Stopped, fileVars
  <2>2. meta = Len(db)
    BY <2>1 DEF Files, TypeOK, Orderly, InStep
  <2>3. <<>> \in Seq(Names)
    OBVIOUS
  <2>4. QueueFits' /\ NamesOnce' /\ Apart' /\ NoneLost'
    BY <2>1, <2>3, LoadedOrderly DEF Orderly
  <2>5. users' = <<>>
    BY <2>1, <2>3, LoadedType
  <2>6. InStep'
    BY <2>1, <2>2, <2>5 DEF InStep
  <2>. QED
    BY <2>4, <2>6 DEF Orderly
<1>. QED
  BY <1>1, <1>2, <1>3

(* Nobody is anywhere before the first start. *)
LEMMA InitOrderly == Init => Orderly
<1>. SUFFICES ASSUME Init PROVE Orderly
  OBVIOUS
<1>. USE PlaceFacts DEF PlacesHold
<1>1. /\ RingType(NewRing, Nat) /\ NewRing.head = 0 /\ NewRing.tail = 0
      /\ \A i \in Slots : NewRing.array[i] = NULL
  BY StoreAssumption, RingAssumption DEF NewRing, RingType, Slots
<1>2. /\ work = NewRing /\ users = <<>> /\ db = <<>> /\ meta = 0 /\ up = "down" /\ tpc = "check"
      /\ \A t \in Threads : pc[t] = "idle"
  BY DEF Init
<1>3. RestEmpty(work) /\ \A i \in Slots : ~Used(work, i)
  BY <1>1, <1>2 DEF RestEmpty, Used
<1>4. Waiting <= Burst
  <2>1. Count(work) = 0
    BY <1>1, <1>2, <1>3, RingCount
  <2>2. Pushers = {} /\ Cardinality({}) = 0
    BY <1>2, FS_EmptySet DEF Pushers
  <2>3. Waiting = Count(work) + Cardinality(Pushers) + (IF tpc = "save" THEN 1 ELSE 0)
    BY DEF Waiting, Pushers
  <2>. QED
    BY <1>2, <2>1, <2>2, <2>3, StoreAssumption
<1>5. ASSUME NEW z \in PlaceSet PROVE In(z) = {}
  <2>0. DOMAIN db = {}
    BY <1>2
  <2>1. CASE \E i \in Nat \ {0} : z = <<"db", i>>
    BY <2>0, <2>1
  <2>2. CASE \E i \in Slots : z = <<"queue", i>>
    BY <1>3, <2>2
  <2>3. CASE \E t \in Threads : z = <<"request", t>>
    BY <1>2, <2>3
  <2>4. CASE z = <<"task", 0>>
    BY <1>2, <2>4
  <2>. QED
    BY <2>1, <2>2, <2>3, <2>4, PlaceCases
<1>6. Apart
  BY <1>5 DEF Apart
<1>. QED
  BY <1>2, <1>3, <1>4, <1>6 DEF Orderly, QueueFits, NamesOnce, InStep, NoneLost

(* Every step of the users keeps the invariant. *)
LEMMA NextIInv == IInv /\ [Next]_vars => IInv'
<1>. SUFFICES ASSUME IInv, [Next]_vars PROVE IInv'
  OBVIOUS
<1>1. Files /\ Files'
  BY NextFiles DEF IInv
<1>2. ASSUME Fits, crashes' = 0 PROVE Orderly'
  <2>1. crashes = 0 /\ ~Crash
    BY <1>1, <1>2 DEF Files, TypeOK, vars, countVars, Next, Request, Serve, Task, Register,
       RegisterTaken, PushWork, LoginBegin, UserGet, Check, Round, SkipRound, Drain, Save,
       WriteMeta, Start, Stop, Stopped, Crash
  <2>2. Orderly
    BY <1>2, <2>1 DEF IInv
  <2>3. CASE UNCHANGED vars
    <3>1. UNCHANGED <<users, db, work, entry, taken, up, pc, tpc, new, base, meta>>
      BY <2>3 DEF vars, tableVars, requestVars, taskVars, fileVars
    <3>2. QueueFits' /\ NamesOnce' /\ Apart' /\ NoneLost'
      BY <1>1, <2>2, <3>1, NothingMoves DEF Files, Orderly
    <3>3. InStep'
      BY <2>2, <3>1 DEF Orderly, InStep
    <3>. QED
      BY <3>2, <3>3 DEF Orderly
  <2>4. ASSUME NEW t \in Threads, Request(t) \/ Serve(t) PROVE Orderly'
    BY <1>1, <1>2, <2>2, <2>4, RegisterOrderly, PushWorkOrderly, SessionOrderly DEF Request, Serve
  <2>. QED
    BY <1>1, <2>1, <2>2, <2>3, <2>4, TaskOrderly, LifeOrderly DEF Next
<1>. QED
  BY <1>1, <1>2 DEF IInv

(* So the invariant of the users always holds. *)
LEMMA IInvSafe == Spec => []IInv
<1>1. Init => IInv
  BY InitFiles, InitOrderly DEF IInv
<1>. QED
  BY <1>1, NextIInv, PTL DEF Spec

-----------------------------------------------------------------------------
(* One place for each user *)

(* Places, which counts positions in the queue, has one element for each    *)
(* place the user is in.                                                    *)
LEMMA OnePlace ==
  ASSUME Files, Orderly, up # "down", NEW k \in DOMAIN users
  PROVE  Cardinality(Places(k)) = 1
<1>. USE PlaceFacts DEF PlacesHold
<1>1. /\ TypeOK /\ EntriesThere /\ RingType(work, Nat) /\ RestEmpty(work)
      /\ Apart /\ NoneLost /\ NamesOnce
      /\ DOMAIN db = 1 .. Len(db) /\ Len(db) \in Nat /\ k \in Nat \ {0}
  BY DEF Files, TypeOK, Orderly, QueueFits
<1>2. \A j \in 1 .. Count(work) : /\ SlotOf(work, j) \in Slots /\ Used(work, SlotOf(work, j))
                                 /\ Contents(work)[j] = work.array[SlotOf(work, j)]
  BY <1>1, Positions DEF Contents
<1>3. \A j \in Nat : j + 1 \in DOMAIN users => (users[j + 1] = users[k] <=> j = k - 1)
  BY <1>1 DEF NamesOnce
<1>. DEFINE Place(p) == IF p[1] = "queue" THEN <<"queue", SlotOf(work, p[2])>> ELSE p
<1>4. ASSUME NEW p \in Places(k)
      PROVE  /\ Place(p) \in PlaceSet /\ users[k] \in In(Place(p))
             /\ \/ p[1] = "queue" /\ p[2] \in 1 .. Count(work) /\ p = <<"queue", p[2]>>
                \/ p[1] # "queue"
  <2>0. k - 1 + 1 = k
    BY <1>1
  <2>1. CASE \E i \in DOMAIN db : p = <<"db", i>> /\ db[i] = users[k]
    <3>1. PICK i \in DOMAIN db : p = <<"db", i>> /\ db[i] = users[k]
      BY <2>1
    <3>2. i \in Nat \ {0}
      BY <1>1
    <3>3. <<"db", i>> \in PlaceSet /\ In(<<"db", i>>) = {users[k]}
      BY <3>1, <3>2
    <3>. QED
      BY <3>1, <3>3
  <2>2. CASE \E j \in 1 .. Count(work) : p = <<"queue", j>> /\ Contents(work)[j] = k - 1
    <3>1. PICK j \in 1 .. Count(work) : p = <<"queue", j>> /\ Contents(work)[j] = k - 1
      BY <2>2
    <3>2. PICK i \in Slots : i = SlotOf(work, j) /\ Used(work, i) /\ work.array[i] = k - 1
      BY <1>2, <3>1
    <3>3. <<"queue", i>> \in PlaceSet /\ In(<<"queue", i>>) = {users[k]}
      BY <2>0, <3>2
    <3>. QED
      BY <3>1, <3>2, <3>3
  <2>3. CASE \E t \in Threads : p = <<"request", t>> /\ pc[t] = "push" /\ entry[t] = k - 1
    <3>1. PICK t \in Threads : p = <<"request", t>> /\ pc[t] = "push" /\ entry[t] = k - 1
      BY <2>3
    <3>2. <<"request", t>> \in PlaceSet /\ In(<<"request", t>>) = {users[k]}
      BY <2>0, <3>1
    <3>. QED
      BY <3>1, <3>2
  <2>4. CASE p = <<"task", 0>> /\ tpc = "save" /\ taken = k - 1
    BY <1>1, <2>4
  <2>. QED
    BY <2>1, <2>2, <2>3, <2>4 DEF Places
<1>5. ASSUME NEW p \in Places(k), NEW r \in Places(k) PROVE p = r
  <2>1. Place(p) = Place(r)
    <3>1. In(Place(p)) \cap In(Place(r)) # {} /\ Place(p) \in PlaceSet /\ Place(r) \in PlaceSet
      BY <1>4
    <3>. QED
      BY <1>1, <3>1 DEF Apart
  <2>2. CASE p[1] = "queue" /\ r[1] = "queue"
    BY <1>1, <1>4, <2>1, <2>2, Positions
  <2>3. CASE p[1] # "queue" \/ r[1] # "queue"
    BY <1>4, <2>1, <2>3
  <2>. QED
    BY <2>2, <2>3
<1>6. PICK z \in PlaceSet : users[k] \in In(z)
  BY <1>1 DEF NoneLost
<1>7. \E p : p \in Places(k)
  <2>1. CASE \E i \in Nat \ {0} : z = <<"db", i>>
    <3>1. PICK i \in DOMAIN db : db[i] = users[k]
      BY <1>6, <2>1
    <3>2. <<"db", i>> \in {<<"db", j>> : j \in {h \in DOMAIN db : db[h] = users[k]}}
      BY <3>1
    <3>. QED
      BY <3>2 DEF Places
  <2>2. CASE \E i \in Slots : z = <<"queue", i>>
    <3>1. PICK i \in Slots : Used(work, i) /\ users[work.array[i] + 1] = users[k]
      BY <1>6, <2>2
    <3>2. work.array[i] = k - 1
      BY <1>1, <1>3, <3>1, EntryOfUsed
    <3>3. PICK j \in 1 .. Count(work) : SlotOf(work, j) = i
      BY <1>1, <3>1, Positions
    <3>4. Contents(work)[j] = k - 1
      BY <1>2, <3>2, <3>3
    <3>. QED
      BY <3>4 DEF Places
  <2>3. CASE \E t \in Threads : z = <<"request", t>>
    <3>1. PICK t \in Threads : pc[t] = "push" /\ users[entry[t] + 1] = users[k]
      BY <1>6, <2>3
    <3>2. entry[t] = k - 1
      BY <1>1, <1>3, <3>1 DEF EntriesThere, TypeOK
    <3>. QED
      BY <3>1, <3>2 DEF Places
  <2>4. CASE z = <<"task", 0>>
    <3>1. tpc = "save" /\ users[taken + 1] = users[k]
      BY <1>6, <2>4
    <3>2. taken = k - 1
      BY <1>1, <1>3, <3>1 DEF EntriesThere, TypeOK
    <3>. QED
      BY <3>1, <3>2 DEF Places
  <2>. QED
    BY <2>1, <2>2, <2>3, <2>4, PlaceCases
<1>8. PICK p : Places(k) = {p}
  BY <1>5, <1>7
<1>. QED
  BY <1>8, FS_Singleton

(* Every user of the table is in the file or on the way there, and exactly  *)
(* once: no two requests register one name, no entry is dropped or read     *)
(* twice between the request, the queue and the session task, and what a    *)
(* stop leaves in the files is what the next start loads                    *)
(* (http_session.c:153-182, 104-121, 306-326).                              *)
THEOREM StoredExactlyOnce == Spec => []StoredOnce
<1>1. IInv => StoredOnce
  BY OnePlace DEF IInv, StoredOnce
<1>. QED
  BY <1>1, IInvSafe, PTL

-----------------------------------------------------------------------------
(* The portfolio                                                           *)

OnTheWay == {"add", "new", "head", "seek", "write"}
Begun    == {"look", "mkdir", "read", "load"} \cup OnTheWay

PortfolioTypeOK ==
  /\ user \in {"none", "stored", "answered"} /\ dir \in BOOLEAN
  /\ file = NoFile \/ file \in Seq(Cell)
  /\ at \in [Workers -> {"idle", "create", "create_mkdir", "create_done", "fault"} \cup Begun]
  /\ tx \in [Workers -> Txns \cup {NoTxn}]
  /\ last \in [Workers -> Nat] /\ pos \in [Workers -> Nat]
  /\ early \in [Workers -> BOOLEAN] /\ mixed \in [Workers -> BOOLEAN]
  /\ done \in Seq(Txns) /\ raced \in BOOLEAN

(* The directory is there for all that begin after the registration.        *)
DirectoryThere ==
  /\ user = "answered" => dir
  /\ \A w \in Workers :
       /\ at[w] = "create_done" => dir
       /\ at[w] \in Begun /\ ~early[w] => dir
       /\ at[w] = "mkdir" => early[w]

(* A request has a transaction from its beginning to its end, and a file    *)
(* from when it has looked for one.                                         *)
OneTransactionEach ==
  \A w \in Workers :
    /\ at[w] \in OnTheWay => tx[w] # NoTxn
    /\ at[w] \in {"head", "seek", "write"} => file # NoFile
    /\ at[w] = "write" => pos[w] >= 1
    /\ w \in Adding /\ ~mixed[w] => Adding = {w}
    /\ at[w] = "write" /\ ~mixed[w] => pos[w] = Len(file) + 1

(* The file ends with a line or the heading; it begins with one unless      *)
(* somebody is about to write the heading.                                  *)
NoZerosAtEnds ==
  file # NoFile =>
    /\ file # <<>> => file[Len(file)] # Zeros
    /\ (\A w \in Workers : at[w] # "head") => file # <<>> /\ file[1] # Zeros

(* A line of one who was alone follows a line or the heading, and who will  *)
(* write now will do so behind it.                                          *)
AloneSafe ==
  /\ alone # {} => file # NoFile /\ \A w \in Workers : at[w] \notin {"new", "head"}
  /\ \A l \in alone : \E i \in 2 .. Len(file) :
       /\ file[i] = l /\ l # Zeros /\ file[i - 1] # Zeros
       /\ \A w \in Workers : at[w] = "write" => pos[w] > i

(* As long as nothing overlapped, the file is the heading and those lines.  *)
InOrderSoFar ==
  /\ (\A v, w \in Adding : v = w) /\ (\A w \in Workers : ~mixed[w])
  /\ file = NoFile => done = <<>>
  /\ \A w \in Workers :
       /\ at[w] \in OnTheWay \ {"add"} => last[w] = Len(done)
       /\ at[w] = "new" => file = NoFile
       /\ at[w] = "head" => file = <<>> /\ done = <<>>
  /\ file # NoFile /\ (\A w \in Workers : at[w] # "head") =>
       /\ Len(file) = Len(done) + 1 /\ file[1] = Heading
       /\ \A k \in 1 .. Len(done) : file[k + 1] = [id |-> k, tx |-> done[k]]

PortfolioIInv ==
  /\ PortfolioTypeOK /\ DirectoryThere /\ OneTransactionEach
  /\ NoZerosAtEnds /\ AloneSafe /\ SafeOnceRegistered
  /\ ~raced => InOrderSoFar

-----------------------------------------------------------------------------
(* The ranks of the members of a set of numbers go from 1 to its size, each *)
(* of them once, and grow with the number.                                  *)
LEMMA Ranks ==
  ASSUME NEW n \in Nat, NEW E \in SUBSET (1 .. n)
  PROVE  /\ Cardinality(E) \in Nat
         /\ \A i \in E : Cardinality({j \in E : j <= i}) \in 1 .. Cardinality(E)
         /\ \A i, k \in E : i < k => Cardinality({j \in E : j <= i}) < Cardinality({j \in E : j <= k})
         /\ \A r \in 1 .. Cardinality(E) : \E i \in E : Cardinality({j \in E : j <= i}) = r
<1>. DEFINE UpTo(i) == {j \in E : j <= i}
            rank == [i \in E |-> Cardinality(UpTo(i))]
<1>1. IsFiniteSet(E) /\ Cardinality(E) \in Nat
  <2>1. IsFiniteSet(1 .. n)
    BY FS_Interval
  <2>2. IsFiniteSet(E)
    BY <2>1, FS_Subset
  <2>. QED
    BY <2>2, FS_CardinalityType
<1>2. ASSUME NEW i \in E
      PROVE  IsFiniteSet(UpTo(i)) /\ Cardinality(UpTo(i)) \in 1 .. Cardinality(E)
  <2>1. UpTo(i) \in SUBSET E /\ i \in UpTo(i)
    OBVIOUS
  <2>2. IsFiniteSet(UpTo(i)) /\ Cardinality(UpTo(i)) <= Cardinality(E)
    BY <1>1, <2>1, FS_Subset
  <2>3. Cardinality(UpTo(i)) \in Nat /\ Cardinality(UpTo(i)) # 0
    BY <2>1, <2>2, FS_CardinalityType, FS_EmptySet
  <2>. QED
    BY <1>1, <2>2, <2>3
<1>3. ASSUME NEW i \in E, NEW k \in E, i < k
      PROVE  Cardinality(UpTo(i)) < Cardinality(UpTo(k))
  <2>0. \A j \in E : j \in Int
    OBVIOUS
  <2>1. UpTo(i) \in SUBSET UpTo(k)
    <3>. SUFFICES ASSUME NEW j \in E, j <= i PROVE j <= k
      OBVIOUS
    <3>. QED
      BY <1>3, <2>0
  <2>2. k \in UpTo(k) /\ k \notin UpTo(i)
    BY <1>3, <2>0
  <2>3. Cardinality(UpTo(i)) <= Cardinality(UpTo(k)) /\ Cardinality(UpTo(i)) # Cardinality(UpTo(k))
    BY <1>2, <2>1, <2>2, FS_Subset
  <2>. QED
    BY <1>2, <2>3
<1>4. rank \in Injection(E, 1 .. Cardinality(E))
  <2>1. rank \in [E -> 1 .. Cardinality(E)]
    BY <1>2
  <2>2. ASSUME NEW i \in E, NEW k \in E, rank[i] = rank[k] PROVE i = k
    <3>1. ~(i < k) /\ ~(k < i)
      BY <1>2, <1>3, <2>2
    <3>. QED
      BY <3>1
  <2>. QED
    BY <2>1, <2>2 DEF Injection, IsInjective
<1>5. /\ IsFiniteSet(1 .. Cardinality(E)) /\ Cardinality(1 .. Cardinality(E)) = Cardinality(E)
  BY <1>1, FS_Interval
<1>6. rank \in Surjection(E, 1 .. Cardinality(E))
  BY <1>4, <1>5, FS_Injection
<1>7. ASSUME NEW r \in 1 .. Cardinality(E) PROVE \E i \in E : Cardinality(UpTo(i)) = r
  BY <1>6 DEF Surjection
<1>. QED
  BY <1>1, <1>2, <1>3, <1>7

(* The cells of a file that are no zeros, and the number of such cells up   *)
(* to one of them.                                                          *)
Ends(f)    == {i \in DOMAIN f : f[i] # Zeros}
Rank(f, i) == Cardinality({j \in Ends(f) : j <= i})

(* What is read are the cells that are no zeros, in order and without the   *)
(* first of them.                                                           *)
LEMMA LinesFacts ==
  ASSUME NEW f \in Seq(Cell)
  PROVE  /\ Cardinality(Ends(f)) \in Nat
         /\ DOMAIN Lines(f) = 1 .. Cardinality(Ends(f)) - 1
         /\ \A i, k \in Ends(f) : i < k => Rank(f, i) < Rank(f, k)
         /\ \A i \in Ends(f) : Rank(f, i) \in 1 .. Cardinality(Ends(f))
         /\ \A k \in DOMAIN Lines(f) : \E i \in Ends(f) :
              /\ Rank(f, i) = k + 1
              /\ Lines(f)[k] = [f[i] EXCEPT !.id = IF i > 1 /\ f[i - 1] = Zeros THEN 0 ELSE @]
<1>. DEFINE E == Ends(f)
            nth(k) == CHOOSE i \in E : Rank(f, i) = k + 1
            line(i) == [f[i] EXCEPT !.id = IF i > 1 /\ f[i - 1] = Zeros THEN 0 ELSE @]
<1>1. f # NoFile /\ Len(f) \in Nat /\ E \in SUBSET (1 .. Len(f))
  BY PortfolioAssumption DEF Ends
<1>2. Lines(f) = [k \in 1 .. Cardinality(E) - 1 |-> line(nth(k))]
  BY <1>1 DEF Lines, Ends, Rank
<1>3. /\ Cardinality(E) \in Nat
      /\ \A i \in E : Rank(f, i) \in 1 .. Cardinality(E)
      /\ \A i, k \in E : i < k => Rank(f, i) < Rank(f, k)
      /\ \A r \in 1 .. Cardinality(E) : \E i \in E : Rank(f, i) = r
  BY <1>1, Ranks DEF Rank
<1>4. ASSUME NEW k \in DOMAIN Lines(f)
      PROVE  \E i \in E : Rank(f, i) = k + 1 /\ Lines(f)[k] = line(i)
  <2>1. k + 1 \in 1 .. Cardinality(E)
    BY <1>2, <1>3
  <2>2. nth(k) \in E /\ Rank(f, nth(k)) = k + 1
    BY <1>3, <2>1
  <2>3. Lines(f)[k] = line(nth(k))
    BY <1>2
  <2>. QED
    BY <2>2, <2>3
<1>. QED
  BY <1>2, <1>3, <1>4

(* A line that follows no zeros is read as it is.                           *)
LEMMA LineIsRead ==
  ASSUME NEW f \in Seq(Cell), NEW i \in 2 .. Len(f),
         f[1] # Zeros, f[i] # Zeros, f[i - 1] # Zeros
  PROVE  \E k \in DOMAIN Lines(f) : Lines(f)[k] = f[i]
<1>1. 1 \in Ends(f) /\ i \in Ends(f) /\ f[i] \in Cell /\ i - 1 \in DOMAIN f
  BY DEF Ends
<1>2. Rank(f, 1) < Rank(f, i) /\ Rank(f, 1) \in Nat \ {0} /\ Rank(f, i) \in 1 .. Cardinality(Ends(f))
      /\ Cardinality(Ends(f)) \in Nat
  BY <1>1, LinesFacts
<1>3. Rank(f, i) - 1 \in DOMAIN Lines(f)
  BY <1>2, LinesFacts
<1>4. PICK j \in Ends(f) :
        /\ Rank(f, j) = Rank(f, i) - 1 + 1
        /\ Lines(f)[Rank(f, i) - 1] = [f[j] EXCEPT !.id = IF j > 1 /\ f[j - 1] = Zeros THEN 0 ELSE @]
  BY <1>3, LinesFacts
<1>5. Rank(f, j) = Rank(f, i)
  BY <1>2, <1>4
<1>6. j = i
  <2>1. ~(i < j) /\ ~(j < i)
    BY <1>1, <1>2, <1>5, LinesFacts
  <2>. QED
    BY <1>1, <2>1 DEF Ends
<1>7. Lines(f)[Rank(f, i) - 1] = [f[i] EXCEPT !.id = @]
  BY <1>4, <1>6
<1>8. [f[i] EXCEPT !.id = @] = f[i]
  BY <1>1 DEF Cell
<1>. QED
  BY <1>3, <1>7, <1>8

(* Without zeros every cell but the first is a line.                        *)
LEMMA PlainLines ==
  ASSUME NEW f \in Seq(Cell), \A i \in DOMAIN f : f[i] # Zeros
  PROVE  Lines(f) = [k \in 1 .. Len(f) - 1 |-> f[k + 1]]
<1>1. Ends(f) = 1 .. Len(f) /\ Len(f) \in Nat
  BY DEF Ends
<1>2. Cardinality(Ends(f)) = Len(f)
  BY <1>1, FS_Interval
<1>3. ASSUME NEW i \in 1 .. Len(f) PROVE Rank(f, i) = i
  <2>1. {j \in Ends(f) : j <= i} = 1 .. i
    BY <1>1
  <2>2. Rank(f, i) = Cardinality(1 .. i)
    BY <2>1 DEF Rank
  <2>. QED
    BY <2>2, FS_Interval
<1>4. ASSUME NEW k \in DOMAIN Lines(f) PROVE Lines(f)[k] = f[k + 1]
  <2>1. PICK i \in Ends(f) :
          /\ Rank(f, i) = k + 1
          /\ Lines(f)[k] = [f[i] EXCEPT !.id = IF i > 1 /\ f[i - 1] = Zeros THEN 0 ELSE @]
    BY LinesFacts
  <2>2. i = k + 1 /\ f[i] \in Cell /\ (i > 1 => f[i - 1] # Zeros)
    BY <1>1, <1>3, <2>1
  <2>3. Lines(f)[k] = [f[i] EXCEPT !.id = @]
    BY <2>1, <2>2
  <2>. QED
    BY <2>2, <2>3 DEF Cell
<1>5. DOMAIN Lines(f) = 1 .. Len(f) - 1
  BY <1>2, LinesFacts
<1>. DEFINE n == Len(f) - 1
<1>6. n \in Int /\ DOMAIN Lines(f) = 1 .. n /\ f # NoFile
  BY <1>1, <1>5, PortfolioAssumption
<1>7. Lines(f) = [k \in 1 .. n |-> Lines(f)[k]]
  BY <1>6 DEF Lines
<1>. QED
  BY <1>4, <1>5, <1>7

(* The id of the last line is a number.                                     *)
LEMMA LastIdType ==
  ASSUME file = NoFile \/ file \in Seq(Cell)
  PROVE  LastId \in Nat
<1>1. CASE Lines(file) = <<>>
  BY <1>1 DEF LastId
<1>2. CASE file = NoFile
  BY <1>1, <1>2 DEF Lines
<1>3. CASE Lines(file) # <<>> /\ file \in Seq(Cell)
  <2>. DEFINE n == Cardinality(Ends(file)) - 1
  <2>1. n \in Int /\ DOMAIN Lines(file) = 1 .. n /\ file # NoFile
    BY <1>3, LinesFacts, PortfolioAssumption
  <2>2. Lines(file) = [k \in 1 .. n |-> Lines(file)[k]]
    BY <2>1 DEF Lines
  <2>3. n >= 1
    <3>. HIDE DEF n
    <3>. SUFFICES ASSUME ~(n >= 1) PROVE FALSE
      OBVIOUS
    <3>1. 1 .. n = {}
      BY <2>1
    <3>2. \A k \in {} : FALSE
      OBVIOUS
    <3>3. Lines(file) = [k \in {} |-> Lines(file)[k]]
      BY <2>2, <3>1
    <3>4. <<>> = [k \in {} |-> Lines(file)[k]]
      OBVIOUS
    <3>. QED
      BY <1>3, <3>3, <3>4
  <2>4. Len(Lines(file)) = n
    BY <2>1, <2>2, <2>3
  <2>5. n \in DOMAIN Lines(file)
    BY <2>1, <2>3
  <2>. HIDE DEF n
  <2>9. \A k \in DOMAIN Lines(file) : \E i \in Ends(file) :
          Lines(file)[k] = [file[i] EXCEPT !.id = IF i > 1 /\ file[i - 1] = Zeros THEN 0 ELSE @]
    BY <1>3, LinesFacts
  <2>6. PICK i \in Ends(file) :
          Lines(file)[n] = [file[i] EXCEPT !.id = IF i > 1 /\ file[i - 1] = Zeros THEN 0 ELSE @]
    BY <2>5, <2>9
  <2>7. file[i] \in Cell
    BY <1>3 DEF Ends
  <2>8. Lines(file)[n].id \in Nat
    BY <2>6, <2>7 DEF Cell
  <2>. QED
    BY <1>3, <2>4, <2>8 DEF LastId
<1>. QED
  BY <1>1, <1>2, <1>3

(* A write changes one cell and leaves the others as they were; what it adds*)
(* before it are zeros.                                                     *)
LEMMA WrittenFacts ==
  ASSUME NEW f \in Seq(Cell), NEW p \in Nat \ {0}, NEW c \in Cell
  PROVE  /\ Written(f, p, c) \in Seq(Cell)
         /\ Len(Written(f, p, c)) = (IF p <= Len(f) THEN Len(f) ELSE p)
         /\ Written(f, p, c)[p] = c
         /\ \A i \in 1 .. Len(f) : i # p => Written(f, p, c)[i] = f[i]
<1>1. CASE p <= Len(f)
  BY <1>1 DEF Written
<1>2. CASE ~(p <= Len(f))
  <2>. DEFINE n == p - Len(f)
              g == [i \in 1 .. n |-> IF i = n THEN c ELSE Zeros]
  <2>1. n \in Nat \ {0} /\ Zeros \in Cell
    BY <1>2 DEF Zeros, Cell
  <2>2. g \in Seq(Cell) /\ Len(g) = n /\ g[n] = c
    BY <2>1
  <2>3. Written(f, p, c) = f \o g
    BY <1>2 DEF Written
  <2>. HIDE DEF g
  <2>4. /\ f \o g \in Seq(Cell) /\ Len(f \o g) = Len(f) + n
        /\ \A i \in 1 .. Len(f) : (f \o g)[i] = f[i]
        /\ (f \o g)[Len(f) + n] = g[n]
    BY <2>1, <2>2
  <2>5. Len(f) + n = p
    OBVIOUS
  <2>. QED
    BY <1>2, <2>2, <2>3, <2>4, <2>5
<1>. QED
  BY <1>1, <1>2

-----------------------------------------------------------------------------
(* In the beginning nobody is registered and nothing is there.              *)
LEMMA PortfolioInitIInv == PortfolioInit => PortfolioIInv
<1>. SUFFICES ASSUME PortfolioInit PROVE PortfolioIInv
  OBVIOUS
<1>1. PortfolioTypeOK
  <2>1. done \in Seq(Txns)
    BY DEF PortfolioInit
  <2>. QED
    BY <2>1 DEF PortfolioInit, PortfolioTypeOK
<1>2. \A w \in Workers : at[w] = "idle" /\ w \notin Adding
  BY DEF PortfolioInit, Adding
<1>3. DirectoryThere /\ SafeOnceRegistered /\ OneTransactionEach
  BY <1>2 DEF PortfolioInit, DirectoryThere, SafeOnceRegistered, OneTransactionEach, OnTheWay, Begun
<1>4. NoZerosAtEnds /\ AloneSafe
  BY DEF PortfolioInit, NoZerosAtEnds, AloneSafe
<1>5. InOrderSoFar
  BY <1>2 DEF PortfolioInit, InOrderSoFar, OnTheWay, Adding
<1>. QED
  BY <1>1, <1>3, <1>4, <1>5 DEF PortfolioIInv

(* What every request leaves of the types.                                  *)
LEMMA PortfolioTypeKept ==
  ASSUME PortfolioTypeOK, OneTransactionEach, NEW w \in Workers, PortfolioRequest(w)
  PROVE  PortfolioTypeOK'
<1>. USE DEF PortfolioTypeOK, Goes, OnTheWay, Begun, historyVars
<1>1. CASE RegisterUser(w)
  BY <1>1 DEF RegisterUser
<1>2. CASE CreateLook(w) \/ CreateMkdir(w) \/ CreateDone(w)
  BY <1>2 DEF CreateLook, CreateMkdir, CreateDone
<1>3. CASE ListCoins(w) \/ ListTransactions(w)
  BY <1>3 DEF ListCoins, ListTransactions, Begin
<1>4. CASE Look(w) \/ Mkdir(w) \/ ReadCoins(w) \/ LoadTransactions(w)
  BY <1>4 DEF Look, Mkdir, ReadCoins, LoadTransactions
<1>5. CASE AddTransaction(w)
  <2>1. mixed' \in [Workers -> BOOLEAN] /\ raced' \in BOOLEAN
    <3>1. mixed' = [v \in Workers |-> IF v = w THEN Adding # {} ELSE mixed[v] \/ v \in Adding]
      BY <1>5 DEF AddTransaction
    <3>2. raced' = (raced \/ Adding # {})
      BY <1>5 DEF AddTransaction
    <3>3. \A v \in Workers : (IF v = w THEN Adding # {} ELSE mixed[v] \/ v \in Adding) \in BOOLEAN
      OBVIOUS
    <3>. QED
      BY <3>1, <3>2, <3>3
  <2>2. tx' \in [Workers -> Txns \cup {NoTxn}] /\ at' \in [Workers ->
           {"idle", "create", "create_mkdir", "create_done", "fault"} \cup Begun]
    BY <1>5 DEF AddTransaction, Begin
  <2>3. early' \in [Workers -> BOOLEAN]
    BY <1>5 DEF AddTransaction, Begin
  <2>. QED
    BY <1>5, <2>1, <2>2, <2>3 DEF AddTransaction
<1>6. CASE Load(w)
  BY <1>6, LastIdType DEF Load
<1>7. CASE Create(w)
  <2>1. <<>> \in Seq(Cell)
    OBVIOUS
  <2>2. file' = <<>> \/ file' = file
    BY <1>7 DEF Create
  <2>3. file' = NoFile \/ file' \in Seq(Cell)
    BY <2>1, <2>2
  <2>. QED
    BY <1>7, <2>3 DEF Create
<1>8. CASE WriteHeading(w)
  <2>1. file \in Seq(Cell) /\ Heading \in Cell
    BY <1>8 DEF WriteHeading, OneTransactionEach, Heading, Cell
  <2>2. file' \in Seq(Cell)
    BY <1>8, <2>1, WrittenFacts DEF WriteHeading
  <2>. QED
    BY <1>8, <2>2 DEF WriteHeading
<1>9. CASE Seek(w)
  <2>1. End \in Nat
    BY <1>9 DEF Seek, OneTransactionEach, End
  <2>. QED
    BY <1>9, <2>1 DEF Seek
<1>10. CASE AppendLine(w)
  <2>. DEFINE line == [id |-> NextId(w), tx |-> tx[w]]
  <2>1. at[w] = "write" /\ tx[w] \in Txns /\ file \in Seq(Cell) /\ pos[w] \in Nat \ {0}
    BY <1>10 DEF AppendLine, OneTransactionEach
  <2>2. line \in Cell
    BY <2>1 DEF Cell, NextId
  <2>3. file' \in Seq(Cell)
    BY <1>10, <2>1, <2>2, WrittenFacts DEF AppendLine
  <2>4. done' \in Seq(Txns)
    BY <1>10, <2>1 DEF AppendLine
  <2>. QED
    BY <1>10, <2>3, <2>4 DEF AppendLine
<1>. QED
  BY <1>1, <1>2, <1>3, <1>4, <1>5, <1>6, <1>7, <1>8, <1>9, <1>10 DEF PortfolioRequest

(* Who begins after the registration has the directory, so that only who    *)
(* began before fails for want of it.                                       *)
LEMMA DirectoryKept ==
  ASSUME PortfolioTypeOK, DirectoryThere, SafeOnceRegistered, ~Faulted,
         NEW w \in Workers, PortfolioRequest(w)
  PROVE  DirectoryThere' /\ SafeOnceRegistered'
<1>0. \A v \in Workers : at[v] # "fault"
  BY DEF Faulted
<1>. USE <1>0 DEF PortfolioTypeOK, DirectoryThere, SafeOnceRegistered, Goes, OnTheWay, Begun, historyVars
<1>1. CASE RegisterUser(w)
  BY <1>1 DEF RegisterUser
<1>2. CASE CreateLook(w) \/ CreateMkdir(w) \/ CreateDone(w)
  BY <1>2 DEF CreateLook, CreateMkdir, CreateDone, NeedsDirectory
<1>3. CASE ListCoins(w) \/ ListTransactions(w)
  BY <1>3 DEF ListCoins, ListTransactions, Begin
<1>4. CASE Look(w) \/ Mkdir(w) \/ ReadCoins(w)
  BY <1>4 DEF Look, Mkdir, ReadCoins
<1>5. CASE LoadTransactions(w)
  BY <1>5 DEF LoadTransactions
<1>6. CASE AddTransaction(w)
  BY <1>6 DEF AddTransaction, Begin
<1>7. CASE Load(w)
  BY <1>7 DEF Load
<1>8. CASE Create(w)
  BY <1>8 DEF Create
<1>9. CASE WriteHeading(w) \/ Seek(w)
  BY <1>9 DEF WriteHeading, Seek
<1>10. CASE AppendLine(w)
  BY <1>10 DEF AppendLine
<1>. QED
  BY <1>1, <1>2, <1>3, <1>4, <1>5, <1>6, <1>7, <1>8, <1>9, <1>10 DEF PortfolioRequest

(* The parts of the invariant that are about the file.                      *)
FileParts ==
  OneTransactionEach /\ NoZerosAtEnds /\ AloneSafe /\ (~raced => InOrderSoFar)

(* A request that has no transaction does not touch them.                   *)
LEMMA OthersKeepFile ==
  ASSUME PortfolioTypeOK, FileParts, NEW w \in Workers, NEW to,
         at' = [at EXCEPT ![w] = to], at[w] \notin OnTheWay, to \notin OnTheWay,
         UNCHANGED <<file, tx, last, pos, mixed, done, alone, raced>>
  PROVE  FileParts'
<1>1. /\ at'[w] = to /\ \A v \in Workers : v # w => at'[v] = at[v]
      /\ Adding' = Adding
  BY DEF PortfolioTypeOK, Adding
<1>2. \A v \in Workers : (at[v] \in OnTheWay \/ at'[v] \in OnTheWay) => at'[v] = at[v]
  BY <1>1
<1>3. OneTransactionEach' /\ NoZerosAtEnds'
  BY <1>1, <1>2 DEF FileParts, OneTransactionEach, NoZerosAtEnds, OnTheWay
<1>4. AloneSafe'
  BY <1>1, <1>2 DEF FileParts, AloneSafe, OnTheWay
<1>5. InOrderSoFar => InOrderSoFar'
  BY <1>1, <1>2 DEF InOrderSoFar, OnTheWay
<1>. QED
  BY <1>3, <1>4, <1>5 DEF FileParts

-----------------------------------------------------------------------------
(* A transaction that begins with no other on the way is the only one.      *)
LEMMA AddKeeps ==
  ASSUME PortfolioTypeOK, FileParts, NEW w \in Workers, AddTransaction(w)
  PROVE  FileParts'
<1>1. /\ at[w] = "idle" /\ at' = [at EXCEPT ![w] = "add"]
      /\ UNCHANGED <<user, dir, file, last, pos, done, alone>>
      /\ mixed' = [v \in Workers |-> IF v = w THEN Adding # {} ELSE mixed[v] \/ v \in Adding]
      /\ raced' = (raced \/ Adding # {})
      /\ \E t \in Txns : tx' = [tx EXCEPT ![w] = t]
  BY DEF AddTransaction, Begin, Goes
<1>2. /\ at'[w] = "add" /\ \A v \in Workers : v # w => at'[v] = at[v] /\ tx'[v] = tx[v]
      /\ tx'[w] # NoTxn /\ Adding' = Adding \cup {w}
  BY <1>1, PortfolioAssumption DEF PortfolioTypeOK, Adding
<1>3. \A v \in Workers : v # w => (mixed'[v] <=> mixed[v] \/ v \in Adding)
  BY <1>1
<1>4. mixed'[w] <=> Adding # {}
  BY <1>1
<1>5. OneTransactionEach'
  <2>1. ASSUME NEW v \in Workers, v # w
        PROVE  /\ at'[v] \in OnTheWay => tx'[v] # NoTxn
               /\ at'[v] \in {"head", "seek", "write"} => file' # NoFile
               /\ at'[v] = "write" => pos'[v] >= 1 /\ mixed'[v]
               /\ v \in Adding' => mixed'[v]
    <3>1. v \in Adding' => v \in Adding
      BY <1>2, <2>1
    <3>2. at[v] \in OnTheWay => v \in Adding
      BY DEF FileParts, OneTransactionEach, Adding
    <3>. QED
      BY <1>1, <1>2, <1>3, <2>1, <3>1, <3>2 DEF FileParts, OneTransactionEach, OnTheWay
  <2>2. w \in Adding' /\ ~mixed'[w] => Adding' = {w}
    BY <1>2, <1>4
  <2>. QED
    BY <1>2, <2>1, <2>2 DEF OneTransactionEach, OnTheWay
<1>6. NoZerosAtEnds' /\ AloneSafe'
  BY <1>1, <1>2 DEF FileParts, NoZerosAtEnds, AloneSafe
<1>7. ASSUME ~raced' PROVE InOrderSoFar'
  <2>1. ~raced /\ Adding = {} /\ InOrderSoFar
    BY <1>1, <1>7 DEF FileParts
  <2>2. \A v \in Workers : ~mixed'[v]
    BY <1>3, <1>4, <2>1 DEF InOrderSoFar
  <2>. QED
    BY <1>1, <1>2, <2>1, <2>2 DEF InOrderSoFar, OnTheWay
<1>. QED
  BY <1>5, <1>6, <1>7 DEF FileParts

(* What the step of one on the way does not change.                         *)
LEMMA OnTheWayFacts ==
  ASSUME PortfolioTypeOK, FileParts, NEW w \in Workers, at[w] \in OnTheWay
  PROVE  /\ w \in Adding
         /\ \A v \in Workers : at[v] \in OnTheWay => v \in Adding
         /\ \A v \in Workers : v # w /\ v \in Adding => mixed[v]
         /\ ~raced => \A v \in Adding : v = w
BY DEF FileParts, OneTransactionEach, Adding, InOrderSoFar

(* As long as nothing overlapped, all that is in the file is read.          *)
LEMMA PlainFile ==
  ASSUME PortfolioTypeOK, InOrderSoFar, file # NoFile, \A v \in Workers : at[v] # "head"
  PROVE  Lines(file) = [k \in 1 .. Len(done) |-> file[k + 1]]
<1>1. /\ file \in Seq(Cell) /\ Len(file) = Len(done) + 1 /\ file[1] = Heading
      /\ \A k \in 1 .. Len(done) : file[k + 1] = [id |-> k, tx |-> done[k]]
      /\ Len(done) \in Nat
  BY DEF PortfolioTypeOK, InOrderSoFar
<1>2. Heading # Zeros /\ \A k \in Nat \ {0} : \A t : [id |-> k, tx |-> t] # Zeros
  BY DEF Heading, Zeros
<1>3. \A i \in DOMAIN file : file[i] # Zeros
  <2>. SUFFICES ASSUME NEW i \in 1 .. Len(file) PROVE file[i] # Zeros
    BY <1>1
  <2>1. CASE i = 1
    BY <1>1, <1>2, <2>1
  <2>2. CASE i # 1
    <3>1. i - 1 \in 1 .. Len(done) /\ (i - 1) + 1 = i /\ i - 1 \in Nat \ {0}
      BY <1>1, <2>2
    <3>2. file[i] = [id |-> i - 1, tx |-> done[i - 1]]
      BY <1>1, <3>1
    <3>. QED
      BY <1>2, <3>1, <3>2
  <2>. QED
    BY <2>1, <2>2
<1>4. Lines(file) = [k \in 1 .. Len(file) - 1 |-> file[k + 1]]
  BY <1>1, <1>3, PlainLines
<1>5. Len(file) - 1 = Len(done)
  BY <1>1
<1>. QED
  BY <1>4, <1>5

(* The last id is then the number of the lines.                             *)
LEMMA LastIdCounts ==
  ASSUME PortfolioTypeOK, InOrderSoFar, \A v \in Workers : at[v] # "head"
  PROVE  LastId = Len(done)
<1>1. CASE file = NoFile
  BY <1>1 DEF InOrderSoFar, LastId, Lines
<1>2. CASE file # NoFile
  <2>1. /\ Lines(file) = [k \in 1 .. Len(done) |-> file[k + 1]] /\ Len(done) \in Nat
        /\ \A k \in 1 .. Len(done) : file[k + 1] = [id |-> k, tx |-> done[k]]
    BY <1>2, PlainFile DEF PortfolioTypeOK, InOrderSoFar
  <2>2. CASE Len(done) = 0
    <3>1. Lines(file) = <<>>
      BY <2>1, <2>2
    <3>. QED
      BY <2>2, <3>1 DEF LastId
  <2>3. CASE Len(done) # 0
    <3>1. Len(Lines(file)) = Len(done) /\ Lines(file) # <<>>
      BY <2>1, <2>3
    <3>2. Lines(file)[Len(done)] = [id |-> Len(done), tx |-> done[Len(done)]]
      BY <2>1, <2>3
    <3>. QED
      BY <3>1, <3>2 DEF LastId
  <2>. QED
    BY <2>1, <2>2, <2>3
<1>. QED
  BY <1>1, <1>2

(* To load, to make and to head a file, and to seek.                        *)
LEMMA LoadKeeps ==
  ASSUME PortfolioTypeOK, FileParts, NEW w \in Workers, Load(w)
  PROVE  FileParts'
<1>1. /\ at[w] = "add" /\ at' = [at EXCEPT ![w] = IF file = NoFile THEN "new" ELSE "seek"]
      /\ last' = [last EXCEPT ![w] = LastId]
      /\ UNCHANGED <<user, dir, file, tx, pos, early, mixed, done, alone, raced>>
  BY DEF Load, Goes, historyVars
<1>2. /\ at'[w] = (IF file = NoFile THEN "new" ELSE "seek") /\ last'[w] = LastId
      /\ \A v \in Workers : v # w => at'[v] = at[v] /\ last'[v] = last[v]
      /\ Adding' = Adding
  BY <1>1 DEF PortfolioTypeOK, Adding
<1>3. OneTransactionEach' /\ NoZerosAtEnds'
  BY <1>1, <1>2 DEF FileParts, OneTransactionEach, NoZerosAtEnds, OnTheWay
<1>4. AloneSafe'
  BY <1>1, <1>2 DEF FileParts, AloneSafe
<1>5. ASSUME ~raced PROVE InOrderSoFar'
  <2>1. \A v \in Workers : v # w => at[v] \notin OnTheWay
    BY <1>1, <1>5, OnTheWayFacts DEF OnTheWay
  <2>2. InOrderSoFar /\ \A v \in Workers : at[v] # "head"
    BY <1>1, <1>5, <2>1 DEF FileParts, OnTheWay
  <2>3. last'[w] = Len(done)
    BY <1>2, <2>2, LastIdCounts
  <2>. QED
    BY <1>1, <1>2, <2>1, <2>2, <2>3 DEF InOrderSoFar, OnTheWay
<1>. QED
  BY <1>1, <1>3, <1>4, <1>5 DEF FileParts

(* fopen creates the file, or empties one that was created meanwhile. *)
LEMMA CreateKeeps ==
  ASSUME PortfolioTypeOK, FileParts, NEW w \in Workers, Create(w)
  PROVE  FileParts'
<1>1. /\ at[w] = "new" /\ UNCHANGED <<user, dir, tx, last, pos, early, mixed, done, alone, raced>>
      /\ \/ at' = [at EXCEPT ![w] = "head"] /\ file' = <<>>
         \/ at' = [at EXCEPT ![w] = "fault"] /\ UNCHANGED file
  BY DEF Create, Goes, historyVars
<1>2. /\ at'[w] \in {"head", "fault"} /\ (at'[w] = "head" => file' = <<>>)
      /\ (at'[w] = "fault" => file' = file)
      /\ \A v \in Workers : v # w => at'[v] = at[v]
      /\ Adding' = Adding
  BY <1>1 DEF PortfolioTypeOK, Adding
<1>3. <<>> # NoFile
  <2>1. <<>> \in Seq(Cell)
    OBVIOUS
  <2>. QED
    BY <2>1, PortfolioAssumption
<1>4. alone = {} /\ w \in Adding /\ \A v \in Workers : at[v] = "write" => mixed[v]
  <2>1. \A v \in Workers : at[v] = "write" => v # w /\ v \in Adding
    BY <1>1, OnTheWayFacts DEF OnTheWay
  <2>. QED
    BY <1>1, <2>1, OnTheWayFacts DEF FileParts, AloneSafe, OnTheWay
<1>5. OneTransactionEach'
  <2>1. \A v \in Workers : at'[v] \in OnTheWay => tx'[v] # NoTxn
    BY <1>1, <1>2 DEF FileParts, OneTransactionEach, OnTheWay
  <2>2. \A v \in Workers : at'[v] \in {"head", "seek", "write"} => file' # NoFile
    BY <1>1, <1>2, <1>3 DEF FileParts, OneTransactionEach
  <2>3. \A v \in Workers : at'[v] = "write" => pos'[v] >= 1 /\ mixed'[v]
    BY <1>1, <1>2, <1>4 DEF FileParts, OneTransactionEach
  <2>4. \A v \in Workers : v \in Adding' /\ ~mixed'[v] => Adding' = {v}
    BY <1>1, <1>2 DEF FileParts, OneTransactionEach
  <2>. QED
    BY <2>1, <2>2, <2>3, <2>4 DEF OneTransactionEach
<1>6. NoZerosAtEnds'
  BY <1>1, <1>2 DEF FileParts, NoZerosAtEnds
<1>7. AloneSafe'
  BY <1>1, <1>4 DEF AloneSafe
<1>8. ASSUME ~raced PROVE InOrderSoFar'
  <2>1. \A v \in Workers : v # w => at[v] \notin OnTheWay
    BY <1>1, <1>8, OnTheWayFacts DEF OnTheWay
  <2>2. InOrderSoFar /\ file = NoFile /\ done = <<>>
    BY <1>1, <1>8 DEF FileParts, InOrderSoFar
  <2>. QED
    BY <1>1, <1>2, <1>3, <2>1, <2>2 DEF InOrderSoFar, OnTheWay
<1>. QED
  BY <1>1, <1>5, <1>6, <1>7, <1>8 DEF FileParts

(* The heading is written over what the file begins with by then. *)
LEMMA HeadingKeeps ==
  ASSUME PortfolioTypeOK, FileParts, NEW w \in Workers, WriteHeading(w)
  PROVE  FileParts'
<1>1. /\ at[w] = "head" /\ at' = [at EXCEPT ![w] = "seek"] /\ file' = Written(file, 1, Heading)
      /\ UNCHANGED <<user, dir, tx, last, pos, early, mixed, done, alone, raced>>
  BY DEF WriteHeading, Goes, historyVars
<1>2. /\ at'[w] = "seek" /\ \A v \in Workers : v # w => at'[v] = at[v]
      /\ Adding' = Adding
  BY <1>1 DEF PortfolioTypeOK, Adding
<1>3. /\ file # NoFile /\ file \in Seq(Cell) /\ Heading \in Cell /\ Heading # Zeros
      /\ Len(file) \in Nat
  BY <1>1 DEF FileParts, OneTransactionEach, PortfolioTypeOK, Heading, Zeros, Cell
<1>4. /\ file' \in Seq(Cell) /\ Len(file') = IF 1 <= Len(file) THEN Len(file) ELSE 1
      /\ file'[1] = Heading /\ \A i \in 1 .. Len(file) : i # 1 => file'[i] = file[i]
  <2>1. Heading \in Cell /\ 1 \in Nat \ {0}
    BY <1>3
  <2>. DEFINE g == Written(file, 1, Heading)
  <2>2. g \in Seq(Cell)
    BY <1>3, <2>1, WrittenFacts
  <2>3. Len(g) = (IF 1 <= Len(file) THEN Len(file) ELSE 1)
    <3>1. \A p \in Nat \ {0} :
            Len(Written(file, p, Heading)) = (IF p <= Len(file) THEN Len(file) ELSE p)
      BY <1>3, <2>1, WrittenFacts
    <3>. QED
      BY <2>1, <3>1
  <2>4. g[1] = Heading
    BY <1>3, <2>1, WrittenFacts
  <2>5. \A i \in 1 .. Len(file) : i # 1 => g[i] = file[i]
    BY <1>3, <2>1, WrittenFacts
  <2>. HIDE DEF g
  <2>6. file' = g
    BY <1>1 DEF g
  <2>. QED
    BY <2>2, <2>3, <2>4, <2>5, <2>6
<1>5. alone = {} /\ w \in Adding /\ \A v \in Workers : at[v] = "write" => mixed[v]
  <2>1. \A v \in Workers : at[v] = "write" => v # w /\ v \in Adding
    BY <1>1, OnTheWayFacts DEF OnTheWay
  <2>. QED
    BY <1>1, <2>1, OnTheWayFacts DEF FileParts, AloneSafe, OnTheWay
<1>6. file' # NoFile /\ file' # <<>>
  BY <1>3, <1>4, PortfolioAssumption
<1>7. OneTransactionEach'
  <2>1. \A v \in Workers : at'[v] \in OnTheWay => tx'[v] # NoTxn
    BY <1>1, <1>2 DEF FileParts, OneTransactionEach, OnTheWay
  <2>2. \A v \in Workers : at'[v] = "write" => pos'[v] >= 1 /\ mixed'[v]
    BY <1>1, <1>2, <1>5 DEF FileParts, OneTransactionEach
  <2>3. \A v \in Workers : v \in Adding' /\ ~mixed'[v] => Adding' = {v}
    BY <1>1, <1>2 DEF FileParts, OneTransactionEach
  <2>. QED
    BY <1>6, <2>1, <2>2, <2>3 DEF OneTransactionEach
<1>8. NoZerosAtEnds'
  <2>1. CASE Len(file) <= 1
    BY <1>3, <1>4, <1>6, <2>1 DEF NoZerosAtEnds
  <2>2. CASE Len(file) > 1
    <3>1. file # <<>> /\ file'[Len(file')] = file[Len(file)]
      BY <1>3, <1>4, <2>2
    <3>. QED
      BY <1>3, <1>4, <1>6, <3>1 DEF FileParts, NoZerosAtEnds
  <2>. QED
    BY <1>3, <2>1, <2>2
<1>9. AloneSafe'
  BY <1>1, <1>5 DEF AloneSafe
<1>10. ASSUME ~raced PROVE InOrderSoFar'
  <2>1. \A v \in Workers : v # w => at[v] \notin OnTheWay
    BY <1>1, <1>10, OnTheWayFacts DEF OnTheWay
  <2>2. InOrderSoFar /\ file = <<>> /\ done = <<>> /\ last[w] = Len(done)
    BY <1>1, <1>10 DEF FileParts, InOrderSoFar, OnTheWay
  <2>3. Len(file') = 1 /\ Len(done') = 0 /\ 1 .. Len(done') = {}
    BY <1>1, <1>4, <2>2
  <2>. QED
    BY <1>1, <1>2, <1>4, <1>6, <2>1, <2>2, <2>3 DEF InOrderSoFar, OnTheWay
<1>. QED
  BY <1>1, <1>7, <1>8, <1>9, <1>10 DEF FileParts

(* The seek finds the end of the file; the line is written there later. *)
LEMMA SeekKeeps ==
  ASSUME PortfolioTypeOK, FileParts, NEW w \in Workers, Seek(w)
  PROVE  FileParts'
<1>1. /\ at[w] = "seek" /\ at' = [at EXCEPT ![w] = "write"]
      /\ pos' = [pos EXCEPT ![w] = Len(file) + 1]
      /\ UNCHANGED <<user, dir, file, tx, last, early, mixed, done, alone, raced>>
  BY DEF Seek, End, Goes, historyVars
<1>2. /\ at'[w] = "write" /\ pos'[w] = Len(file) + 1
      /\ \A v \in Workers : v # w => at'[v] = at[v] /\ pos'[v] = pos[v]
      /\ Adding' = Adding
  BY <1>1 DEF PortfolioTypeOK, Adding
<1>3. file # NoFile /\ file \in Seq(Cell) /\ Len(file) \in Nat
  BY <1>1 DEF FileParts, OneTransactionEach, PortfolioTypeOK
<1>4. OneTransactionEach' /\ NoZerosAtEnds'
  BY <1>1, <1>2, <1>3 DEF FileParts, OneTransactionEach, NoZerosAtEnds, OnTheWay
<1>5. AloneSafe'
  <2>1. ASSUME NEW l \in alone
        PROVE  \E i \in 2 .. Len(file) :
                 /\ file[i] = l /\ l # Zeros /\ file[i - 1] # Zeros
                 /\ \A v \in Workers : at'[v] = "write" => pos'[v] > i
    <3>1. PICK i \in 2 .. Len(file) :
                 /\ file[i] = l /\ l # Zeros /\ file[i - 1] # Zeros
                 /\ \A v \in Workers : at[v] = "write" => pos[v] > i
      BY DEF FileParts, AloneSafe
    <3>2. pos'[w] > i
      BY <1>2, <1>3
    <3>. QED
      BY <1>2, <3>1, <3>2
  <2>. QED
    BY <1>1, <1>2, <2>1 DEF FileParts, AloneSafe
<1>6. InOrderSoFar => InOrderSoFar'
  BY <1>1, <1>2 DEF InOrderSoFar, OnTheWay
<1>. QED
  BY <1>1, <1>4, <1>5, <1>6 DEF FileParts

(* The write of a line.  Who overlapped with nobody writes right behind the *)
(* end; who did may write into the file or leave zeros, but only behind the *)
(* lines of those who did not.                                              *)
LEMMA AppendKeeps ==
  ASSUME PortfolioTypeOK, FileParts, NEW w \in Workers, AppendLine(w)
  PROVE  FileParts'
<1>. DEFINE line == [id |-> last[w] + 1, tx |-> tx[w]]
<1>1. /\ at[w] = "write" /\ at' = [at EXCEPT ![w] = "idle"]
      /\ file' = Written(file, pos[w], line) /\ done' = Append(done, tx[w])
      /\ alone' = IF mixed[w] THEN alone ELSE alone \cup {line}
      /\ tx' = [tx EXCEPT ![w] = NoTxn]
      /\ last' = [last EXCEPT ![w] = 0] /\ pos' = [pos EXCEPT ![w] = 0]
      /\ mixed' = [mixed EXCEPT ![w] = FALSE]
      /\ UNCHANGED <<user, dir, early, raced>>
  BY DEF AppendLine, NextId, Goes
<1>2. /\ at'[w] = "idle" /\ tx'[w] = NoTxn /\ ~mixed'[w]
      /\ \A v \in Workers : v # w =>
           /\ at'[v] = at[v] /\ tx'[v] = tx[v] /\ last'[v] = last[v]
           /\ pos'[v] = pos[v] /\ mixed'[v] = mixed[v]
      /\ Adding' = Adding \ {w}
  BY <1>1 DEF PortfolioTypeOK, Adding
<1>3. /\ file # NoFile /\ file \in Seq(Cell) /\ Len(file) \in Nat
      /\ pos[w] \in Nat \ {0} /\ last[w] \in Nat
      /\ w \in Adding /\ tx[w] \in Txns
  BY <1>1 DEF FileParts, OneTransactionEach, PortfolioTypeOK, Adding, OnTheWay
<1>4. line \in Cell /\ line # Zeros
  BY <1>3 DEF Cell, Zeros
<1>. HIDE DEF line
<1>5. /\ file' \in Seq(Cell) /\ Len(file') = IF pos[w] <= Len(file) THEN Len(file) ELSE pos[w]
      /\ file'[pos[w]] = line /\ \A i \in 1 .. Len(file) : i # pos[w] => file'[i] = file[i]
  <2>. DEFINE g == Written(file, pos[w], line)
  <2>1. g \in Seq(Cell)
    BY <1>3, <1>4, WrittenFacts, Zenon
  <2>2. Len(g) = (IF pos[w] <= Len(file) THEN Len(file) ELSE pos[w])
    <3>1. \A p \in Nat \ {0}, c \in Cell :
            Len(Written(file, p, c)) = (IF p <= Len(file) THEN Len(file) ELSE p)
      BY <1>3, WrittenFacts
    <3>. QED
      BY <1>3, <1>4, <3>1
  <2>3. g[pos[w]] = line
    BY <1>3, <1>4, WrittenFacts, Zenon
  <2>4. \A i \in 1 .. Len(file) : i # pos[w] => g[i] = file[i]
    BY <1>3, <1>4, WrittenFacts, Zenon
  <2>. HIDE DEF g
  <2>5. file' = g
    BY <1>1 DEF g
  <2>. QED
    BY <2>1, <2>2, <2>3, <2>4, <2>5
<1>6. file' # NoFile /\ Len(file') \in Nat \ {0} /\ file' # <<>>
  BY <1>3, <1>5, PortfolioAssumption
<1>7. \A v \in Workers : v # w /\ at[v] \in OnTheWay => v \in Adding /\ mixed[v]
  BY <1>1, OnTheWayFacts DEF OnTheWay
<1>8. OneTransactionEach'
  <2>1. \A v \in Workers : at'[v] \in OnTheWay => v # w /\ at[v] \in OnTheWay
    BY <1>2 DEF OnTheWay
  <2>2. \A v \in Workers : at'[v] \in OnTheWay => tx'[v] # NoTxn
    BY <1>2, <2>1 DEF FileParts, OneTransactionEach
  <2>3. \A v \in Workers : at'[v] = "write" => pos'[v] >= 1 /\ mixed'[v]
    BY <1>2, <1>7, <2>1 DEF FileParts, OneTransactionEach, OnTheWay
  <2>4. \A v \in Workers : v \in Adding' => v # w /\ mixed'[v]
    BY <1>1, <1>2, OnTheWayFacts DEF OnTheWay
  <2>. QED
    BY <1>6, <2>2, <2>3, <2>4 DEF OneTransactionEach
<1>9. NoZerosAtEnds'
  <2>1. file'[Len(file')] # Zeros
    <3>1. CASE pos[w] >= Len(file)
      <4>1. Len(file') = pos[w]
        BY <1>3, <1>5, <3>1
      <4>. QED
        BY <1>4, <1>5, <4>1
    <3>2. CASE pos[w] < Len(file)
      <4>1. Len(file') = Len(file) /\ Len(file) \in 1 .. Len(file) /\ file # <<>>
        BY <1>3, <1>5, <3>2
      <4>2. file'[Len(file)] = file[Len(file)]
        BY <1>5, <3>2, <4>1
      <4>. QED
        BY <1>3, <4>1, <4>2 DEF FileParts, NoZerosAtEnds
    <3>. QED
      BY <1>3, <3>1, <3>2
  <2>2. ASSUME \A v \in Workers : at'[v] # "head" PROVE file'[1] # Zeros
    <3>1. file # <<>> /\ file[1] # Zeros
      BY <1>1, <1>2, <1>3, <2>2 DEF FileParts, NoZerosAtEnds
    <3>2. 1 \in 1 .. Len(file)
      BY <1>3, <3>1
    <3>. QED
      BY <1>4, <1>5, <3>1, <3>2
  <2>. QED
    BY <1>6, <2>1, <2>2 DEF NoZerosAtEnds
<1>10. AloneSafe'
  <2>1. ASSUME NEW l \in alone
        PROVE  \E i \in 2 .. Len(file') :
                 /\ file'[i] = l /\ l # Zeros /\ file'[i - 1] # Zeros
                 /\ \A v \in Workers : at'[v] = "write" => pos'[v] > i
    <3>1. PICK i \in 2 .. Len(file) :
                 /\ file[i] = l /\ l # Zeros /\ file[i - 1] # Zeros
                 /\ \A v \in Workers : at[v] = "write" => pos[v] > i
      BY DEF FileParts, AloneSafe
    <3>2. i < pos[w] /\ i - 1 # pos[w] /\ i \in 1 .. Len(file) /\ i - 1 \in 1 .. Len(file)
      BY <1>1, <1>3, <3>1
    <3>3. file'[i] = l /\ file'[i - 1] # Zeros
      BY <1>3, <1>5, <3>1, <3>2
    <3>4. \A v \in Workers : at'[v] = "write" => pos'[v] > i
      BY <1>2, <3>1
    <3>5. i \in 2 .. Len(file')
      BY <1>3, <1>5
    <3>. QED
      BY <3>1, <3>3, <3>4, <3>5
  <2>2. CASE mixed[w]
    <3>1. alone' = alone /\ (alone # {} => \A v \in Workers : at'[v] \notin {"new", "head"})
      BY <1>1, <1>2, <2>2 DEF FileParts, AloneSafe
    <3>. QED
      BY <1>6, <2>1, <3>1 DEF AloneSafe
  <2>3. CASE ~mixed[w]
    <3>1. pos[w] = Len(file) + 1 /\ Adding = {w}
      BY <1>1, <1>3, <2>3 DEF FileParts, OneTransactionEach
    <3>2. \A v \in Workers : at'[v] \notin OnTheWay
      BY <1>2, <1>7, <3>1 DEF OnTheWay
    <3>3. file # <<>> /\ file[Len(file)] # Zeros
      <4>1. \A v \in Workers : at[v] # "head"
        BY <1>1, <1>2, <3>2 DEF OnTheWay
      <4>. QED
        BY <1>3, <4>1 DEF FileParts, NoZerosAtEnds
    <3>. DEFINE i == Len(file) + 1
    <3>4. i \in 2 .. Len(file') /\ file'[i] = line /\ i - 1 = Len(file)
      BY <1>3, <1>5, <3>1, <3>3
    <3>5. file'[i - 1] # Zeros
      BY <1>3, <1>5, <3>1, <3>3, <3>4
    <3>6. alone' = alone \cup {line}
      BY <1>1, <2>3
    <3>. HIDE DEF i
    <3>7. \E k \in 2 .. Len(file') :
            /\ file'[k] = line /\ line # Zeros /\ file'[k - 1] # Zeros
            /\ \A v \in Workers : at'[v] = "write" => pos'[v] > k
      BY <1>4, <3>2, <3>4, <3>5 DEF OnTheWay
    <3>8. \A v \in Workers : at'[v] \notin {"new", "head"}
      BY <3>2 DEF OnTheWay
    <3>. QED
      BY <1>6, <2>1, <3>6, <3>7, <3>8 DEF AloneSafe
  <2>. QED
    BY <2>2, <2>3
<1>11. ASSUME ~raced PROVE InOrderSoFar'
  <2>1. InOrderSoFar /\ Adding = {w} /\ ~mixed[w] /\ last[w] = Len(done)
    BY <1>1, <1>3, <1>11, OnTheWayFacts DEF FileParts, InOrderSoFar, OnTheWay
  <2>2. \A v \in Workers : at'[v] \notin OnTheWay /\ at[v] # "head"
    BY <1>1, <1>2, <1>7, <2>1 DEF OnTheWay
  <2>3. /\ pos[w] = Len(file) + 1 /\ Len(file) = Len(done) + 1 /\ file[1] = Heading
        /\ \A k \in 1 .. Len(done) : file[k + 1] = [id |-> k, tx |-> done[k]]
    BY <1>1, <1>3, <2>1, <2>2 DEF FileParts, OneTransactionEach, InOrderSoFar
  <2>4. /\ done \in Seq(Txns) /\ Len(done) \in Nat /\ Len(done') = Len(done) + 1
        /\ done'[Len(done) + 1] = tx[w]
        /\ \A k \in 1 .. Len(done) : done'[k] = done[k]
    BY <1>1, <1>3 DEF PortfolioTypeOK
  <2>5. Len(file') = Len(done') + 1 /\ file'[1] = Heading
    BY <1>3, <1>5, <2>3, <2>4
  <2>6. ASSUME NEW k \in 1 .. Len(done') PROVE file'[k + 1] = [id |-> k, tx |-> done'[k]]
    <3>1. CASE k = Len(done')
      <4>1. k + 1 = pos[w] /\ k = last[w] + 1 /\ done'[k] = tx[w]
        BY <2>1, <2>3, <2>4, <3>1
      <4>. QED
        BY <1>5, <4>1 DEF line
    <3>2. CASE k # Len(done')
      <4>1. k \in 1 .. Len(done) /\ k + 1 \in 1 .. Len(file) /\ k + 1 # pos[w]
        BY <2>3, <2>4, <3>2
      <4>. QED
        BY <1>5, <2>3, <2>4, <4>1
    <3>. QED
      BY <3>1, <3>2
  <2>7. (\A u, v \in Adding' : u = v) /\ \A v \in Workers : ~mixed'[v]
    BY <1>2, <2>1 DEF InOrderSoFar
  <2>8. \A v \in Workers : at'[v] \notin OnTheWay \ {"add"} /\ at'[v] # "new" /\ at'[v] # "head"
    BY <2>2 DEF OnTheWay
  <2>. QED
    BY <1>6, <2>5, <2>6, <2>7, <2>8 DEF InOrderSoFar
<1>. QED
  BY <1>1, <1>8, <1>9, <1>10, <1>11 DEF FileParts

-----------------------------------------------------------------------------
(* Every request keeps the invariant.                                       *)
LEMMA PortfolioNextIInv == PortfolioIInv /\ [PortfolioNext]_portfolioVars => PortfolioIInv'
<1>. SUFFICES ASSUME PortfolioIInv, [PortfolioNext]_portfolioVars PROVE PortfolioIInv'
  OBVIOUS
<1>0. PortfolioTypeOK /\ DirectoryThere /\ SafeOnceRegistered /\ FileParts
  BY DEF PortfolioIInv, FileParts
<1>1. CASE UNCHANGED portfolioVars
  <2>1. PortfolioTypeOK' /\ DirectoryThere' /\ SafeOnceRegistered'
    BY <1>0, <1>1 DEF portfolioVars, threadVars, historyVars, PortfolioTypeOK, DirectoryThere,
       SafeOnceRegistered
  <2>2. OneTransactionEach' /\ NoZerosAtEnds' /\ AloneSafe'
    BY <1>0, <1>1 DEF portfolioVars, threadVars, historyVars, FileParts, OneTransactionEach,
       NoZerosAtEnds, AloneSafe, Adding
  <2>3. ~raced' => InOrderSoFar'
    BY <1>0, <1>1 DEF portfolioVars, threadVars, historyVars, FileParts, InOrderSoFar, Adding
  <2>. QED
    BY <2>1, <2>2, <2>3 DEF PortfolioIInv
<1>2. CASE PortfolioNext
  <2>1. PICK w \in Workers : ~Faulted /\ PortfolioRequest(w)
    BY <1>2 DEF PortfolioNext
  <2>2. PortfolioTypeOK' /\ DirectoryThere' /\ SafeOnceRegistered'
    BY <1>0, <2>1, PortfolioTypeKept, DirectoryKept DEF FileParts
  <2>3. FileParts'
    <3>1. ASSUME NEW from, NEW to, Goes(w, from, to), from \notin OnTheWay, to \notin OnTheWay,
                 UNCHANGED <<file, tx, last, pos, mixed, done, alone, raced>>
          PROVE  FileParts'
      BY <1>0, <3>1, OthersKeepFile DEF Goes
    <3>2. CASE RegisterUser(w) \/ CreateLook(w) \/ CreateMkdir(w) \/ CreateDone(w)
      BY <3>1, <3>2 DEF RegisterUser, CreateLook, CreateMkdir, CreateDone, historyVars, OnTheWay
    <3>3. CASE ListCoins(w) \/ ListTransactions(w)
      BY <3>1, <3>3 DEF ListCoins, ListTransactions, Begin, OnTheWay
    <3>4. CASE Look(w) \/ Mkdir(w) \/ ReadCoins(w) \/ LoadTransactions(w)
      BY <3>1, <3>4 DEF Look, Mkdir, ReadCoins, LoadTransactions, historyVars, OnTheWay
    <3>5. CASE AddTransaction(w)
      BY <1>0, <3>5, AddKeeps
    <3>6. CASE Load(w)
      BY <1>0, <3>6, LoadKeeps
    <3>7. CASE Create(w)
      BY <1>0, <3>7, CreateKeeps
    <3>8. CASE WriteHeading(w)
      BY <1>0, <3>8, HeadingKeeps
    <3>9. CASE Seek(w)
      BY <1>0, <3>9, SeekKeeps
    <3>10. CASE AppendLine(w)
      BY <1>0, <3>10, AppendKeeps
    <3>. QED
      BY <2>1, <3>2, <3>3, <3>4, <3>5, <3>6, <3>7, <3>8, <3>9, <3>10 DEF PortfolioRequest
  <2>. QED
    BY <2>2, <2>3 DEF PortfolioIInv, FileParts
<1>. QED
  BY <1>1, <1>2

(* So the invariant of the directory and the file always holds. *)
LEMMA PortfolioSafety == PortfolioSpec => []PortfolioIInv
BY PortfolioInitIInv, PortfolioNextIInv, PTL DEF PortfolioSpec

(* A request that began after the registration was answered never fails for *)
(* want of the directory, whoever made it (portfolio.c:11-42, app.c).       *)
THEOREM DirectoryAfterRegistration == PortfolioSpec => []SafeOnceRegistered
<1>1. PortfolioIInv => SafeOnceRegistered
  BY DEF PortfolioIInv
<1>. QED
  BY <1>1, PortfolioSafety, PTL

(* A transaction posted with no other at work is read from the file for     *)
(* ever, whatever those that overlap later do to the end of it              *)
(* (coin.c:127-166, csv.c:90-104).                                          *)
THEOREM AloneIsNeverLost == PortfolioSpec => []AloneIsKept
<1>1. PortfolioIInv => AloneIsKept
  <2>. SUFFICES ASSUME PortfolioIInv, NEW l \in alone
                PROVE  \E k \in DOMAIN Lines(file) : Lines(file)[k] = l
    BY DEF AloneIsKept
  <2>1. file # NoFile /\ file \in Seq(Cell) /\ \A w \in Workers : at[w] # "head"
    BY DEF PortfolioIInv, AloneSafe, PortfolioTypeOK
  <2>2. file[1] # Zeros
    BY <2>1 DEF PortfolioIInv, NoZerosAtEnds
  <2>3. PICK i \in 2 .. Len(file) : file[i] = l /\ l # Zeros /\ file[i - 1] # Zeros
    BY DEF PortfolioIInv, AloneSafe
  <2>. QED
    BY <2>1, <2>2, <2>3, LineIsRead
<1>. QED
  BY <1>1, PortfolioSafety, PTL

(* As long as no two transactions were posted at one time, what is read is  *)
(* what was answered, all of it, in order and numbered from 1               *)
(* (coin.c:127-166, csv.c:90-104).                                          *)
THEOREM TransactionsInOrder == PortfolioSpec => []KeptInOrder
<1>1. PortfolioIInv => KeptInOrder
  <2>. SUFFICES ASSUME PortfolioIInv, ~raced
                PROVE  Lines(file) = [k \in DOMAIN done |-> [id |-> k, tx |-> done[k]]]
    BY DEF KeptInOrder
  <2>1. PortfolioTypeOK /\ InOrderSoFar
    BY DEF PortfolioIInv
  <2>2. CASE file = NoFile \/ \E w \in Workers : at[w] = "head"
    <3>1. done = <<>> /\ (file = NoFile \/ file = <<>>)
      BY <2>1, <2>2 DEF InOrderSoFar
    <3>2. Lines(file) = <<>>
      <4>1. CASE file = NoFile
        BY <4>1 DEF Lines
      <4>2. CASE file # NoFile
        <5>1. file = <<>> /\ file \in Seq(Cell) /\ \A i \in DOMAIN file : file[i] # Zeros
          BY <2>1, <3>1, <4>2 DEF PortfolioTypeOK
        <5>2. Lines(file) = [k \in 1 .. Len(file) - 1 |-> file[k + 1]]
          BY <5>1, PlainLines
        <5>3. Len(file) - 1 = -1 /\ 1 .. -1 = {}
          BY <5>1
        <5>4. Lines(file) = [k \in 1 .. -1 |-> file[k + 1]]
          BY <5>2, <5>3
        <5>5. <<>> = [k \in 1 .. -1 |-> file[k + 1]]
          OBVIOUS
        <5>. QED
          BY <5>4, <5>5
      <4>. QED
        BY <4>1, <4>2
    <3>3. <<>> = [k \in DOMAIN done |-> [id |-> k, tx |-> done[k]]]
      BY <3>1
    <3>. QED
      BY <3>2, <3>3
  <2>3. CASE file # NoFile /\ \A w \in Workers : at[w] # "head"
    <3>1. Lines(file) = [k \in 1 .. Len(done) |-> file[k + 1]]
      BY <2>1, <2>3, PlainFile
    <3>2. DOMAIN done = 1 .. Len(done)
      BY <2>1 DEF PortfolioTypeOK
    <3>3. \A k \in 1 .. Len(done) : file[k + 1] = [id |-> k, tx |-> done[k]]
      BY <2>1, <2>3 DEF InOrderSoFar
    <3>. QED
      BY <3>1, <3>2, <3>3
  <2>. QED
    BY <2>2, <2>3
<1>. QED
  BY <1>1, PortfolioSafety, PTL
================================================================================
