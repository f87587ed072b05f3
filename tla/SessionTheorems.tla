---------------------------- MODULE SessionTheorems ----------------------------
(***************************************************************************)
(* Proofs about Session, for any number of threads, users and logins and   *)
(* any first capacity: the table is sound and the references of the users  *)
(* are counted right, however the activities on a session overlap, until   *)
(* the session task removes an entry that a logout has closed since it was *)
(* found; even then no reference is lost and the table is not left.  An id *)
(* names its user as long as the activities on a session do not overlap.   *)
(*                                                                         *)
(* The first two hold because a login takes its entry and a logout or the  *)
(* session task gives it up in one step under the lock, and because last   *)
(* comes down to 0 only if all that is open is removed (unless overtaken). *)
(* The third needs who may be at work on an entry: one thread, or the      *)
(* session task.                                                           *)
(***************************************************************************)
EXTENDS Session, FiniteSetTheorems, WellFoundedInduction, TLAPS

Row == [id : Ids \cup {NoId}, user : Users \cup {NoUser}, expire : Int]

Requests ==
  [pc : {"idle", "id", "ref", "cookie", "logout", "username"}, entry : Nat,
   id : Ids \cup {NoId}, user : Users \cup {NoUser}]

TypeOK ==
  /\ orderly \in BOOLEAN /\ faulted \in BOOLEAN /\ overtaken \in BOOLEAN
  /\ owner \in [Ids -> Users \cup {NoUser}] /\ given \subseteq Ids
  /\ capacity \in Nat \ {0} /\ entries \in Nat /\ last \in Nat
  /\ sessions \in [Entry -> Row]
  /\ refs \in [Users -> Int]
  /\ buff \subseteq Entry
  /\ req \in [Threads -> Requests]
  /\ \A t \in Threads : /\ req[t].entry \in Entry
                        /\ req[t].pc \in {"id", "ref"} => req[t].user \in Users

(* The UUIDs are drawn in order. *)
IdsDrawn == {i \in Ids : owner[i] # NoUser} = 1 .. Drawn

Working(t) == req[t].pc # "idle"

(* A thread at work on an open entry has it to itself, and the session task *)
(* has what it is to remove.                                                *)
WorkApart ==
  /\ buff \subseteq Open
  /\ \A t \in Threads : Working(t) =>
       /\ req[t].entry \in Open \ buff
       /\ \A s \in Threads \ {t} : Working(s) => req[s].entry # req[t].entry

(* The id that a login is to write is that of the user it took the entry    *)
(* for, and nobody else has it.                                             *)
IdsApart ==
  /\ \A e \in Entry : sessions[e].id # NoId => owner[sessions[e].id] # NoUser
  /\ \A t \in Threads : req[t].pc = "id" =>
       /\ req[t].id \in Ids /\ owner[req[t].id] \in Users
       /\ sessions[req[t].entry].user = owner[req[t].id]
       /\ \A e \in Entry : sessions[e].id # req[t].id
       /\ \A s \in Threads \ {t} : req[s].pc = "id" => req[s].id # req[t].id

InOrder == orderly /\ ~faulted => WorkApart /\ IdsApart /\ ~overtaken

IInv == /\ TypeOK /\ IdsDrawn /\ InOrder
        /\ TableSound /\ RefsCount /\ IdNamesItsUser

-----------------------------------------------------------------------------
(* Sets of entries *)

(* The sessions of u, and the logins of u that have not counted theirs yet. *)
OpenOf(u)    == {e \in Open : sessions[e].user = u}
PendingOf(u) == {t \in Threads : req[t].pc \in {"id", "ref"} /\ req[t].user = u}

(* A set of entries below n is finite and no larger than n. *)
LEMMA BelowIsFinite ==
  ASSUME NEW n \in Nat, NEW S \in SUBSET (0 .. n - 1)
  PROVE  IsFiniteSet(S) /\ Cardinality(S) \in Nat /\ Cardinality(S) <= n
<1>1. IsFiniteSet(0 .. n - 1) /\ Cardinality(0 .. n - 1) = n
  BY FS_Interval
<1>. QED
  BY <1>1, FS_Subset, FS_CardinalityType

(* Every set of naturals that is not empty has a least element, which is    *)
(* what the community module's Min chooses.                                 *)
LEMMA MinIsLeast ==
  ASSUME NEW S \in SUBSET Nat, S # {}
  PROVE  Min(S) \in S /\ \A n \in S : Min(S) <= n
<1>1. IsWellFoundedOn({ss \in Nat \X Nat : ss[1] < ss[2]}, Nat)
  BY NatLessThanWellFounded DEF OpToRel
<1>2. PICK m \in S : \A n \in S : <<n, m>> \notin {ss \in Nat \X Nat : ss[1] < ss[2]}
  BY <1>1, WFMin
<1>3. ASSUME NEW n \in S PROVE m <= n
  <2>1. <<n, m>> \in Nat \X Nat
    OBVIOUS
  <2>2. ~(n < m)
    BY <1>2, <2>1
  <2>. QED
    BY <2>2
<1>. QED
  BY <1>3 DEF Min

(* refs of u is as RefsCount says. *)
RefsRight(u) ==
  /\ refs[u] >= Cardinality(OpenOf(u)) - Cardinality(PendingOf(u))
  /\ ~overtaken => refs[u] = Cardinality(OpenOf(u)) - Cardinality(PendingOf(u))

(* The sets that RefsCount counts are finite, and what it says of them.     *)
LEMMA Counts ==
  ASSUME TypeOK
  PROVE  /\ IsFiniteSet(Open) /\ Cardinality(Open) \in Nat
         /\ \A u : /\ IsFiniteSet(OpenOf(u)) /\ Cardinality(OpenOf(u)) \in Nat
                   /\ IsFiniteSet(PendingOf(u)) /\ Cardinality(PendingOf(u)) \in Nat
         /\ RefsCount <=> \A u \in Users : RefsRight(u)
<1>1. IsFiniteSet(Open) /\ Cardinality(Open) \in Nat
  <2>1. Open \in SUBSET (0 .. capacity - 1)
    BY DEF Open, Entry
  <2>. QED
    BY <2>1, BelowIsFinite DEF TypeOK
<1>2. \A u : OpenOf(u) \in SUBSET Open /\ PendingOf(u) \in SUBSET Threads
  BY DEF OpenOf, PendingOf
<1>3. ASSUME NEW u
      PROVE  /\ IsFiniteSet(OpenOf(u)) /\ Cardinality(OpenOf(u)) \in Nat
             /\ IsFiniteSet(PendingOf(u)) /\ Cardinality(PendingOf(u)) \in Nat
  BY <1>1, <1>2, FS_Subset, FS_CardinalityType, SessionAssumption
<1>4. RefsCount <=> \A u \in Users : RefsRight(u)
  BY DEF RefsCount, RefsRight, OpenOf, PendingOf
<1>. QED
  BY <1>1, <1>3, <1>4

(* What the proofs of the steps conclude RefsCount' from. *)
LEMMA CountsNext ==
  ASSUME \A u \in Users : RefsRight(u)'
  PROVE  RefsCount'
BY DEF RefsCount, RefsRight, OpenOf, PendingOf

(* The references stay right where neither they nor what they count change. *)
LEMMA SameRefs ==
  ASSUME TypeOK, RefsCount, UNCHANGED <<refs, overtaken>>,
         \A u : OpenOf(u)' = OpenOf(u) /\ PendingOf(u)' = PendingOf(u)
  PROVE  RefsCount'
<1>1. \A u \in Users : RefsRight(u)
  BY Counts
<1>2. \A u \in Users : RefsRight(u)'
  BY <1>1 DEF RefsRight
<1>. QED
  BY <1>2, CountsNext

(* Steps that change nothing but who is at work on what, and the countdown, *)
(* leave the table as it is.                                                *)
LEMMA SameTable ==
  ASSUME TypeOK, TableSound, sessions' \in [Entry -> Row],
         UNCHANGED <<capacity, entries, last, overtaken>>,
         \A e \in Entry : sessions'[e].user = sessions[e].user
  PROVE  /\ Entry' = Entry /\ Open' = Open /\ TableSound'
         /\ \A u : OpenOf(u)' = OpenOf(u)
<1>1. Entry' = Entry /\ Open' = Open
  BY DEF Entry, Open
<1>2. TableSound'
  BY <1>1 DEF TableSound
<1>3. ASSUME NEW u PROVE OpenOf(u)' = OpenOf(u)
  BY <1>1 DEF OpenOf, Open
<1>. QED
  BY <1>1, <1>2, <1>3

-----------------------------------------------------------------------------
(* http_session_engine_start: every entry is free and no id is drawn.       *)
LEMMA InitIInv == Init => IInv
<1>. SUFFICES ASSUME Init PROVE IInv
  OBVIOUS
<1>. USE SessionAssumption
<1>1. Free \in Row /\ Idle \in Requests
  BY DEF Free, Row, Idle, Requests
<1>2. TypeOK
  <2>1. /\ orderly \in BOOLEAN /\ faulted \in BOOLEAN /\ overtaken \in BOOLEAN
        /\ given \subseteq Ids /\ buff \subseteq Entry
    BY DEF Init
  <2>2. owner \in [Ids -> Users \cup {NoUser}] /\ refs \in [Users -> Int]
    BY DEF Init
  <2>3. capacity \in Nat \ {0} /\ entries \in Nat /\ last \in Nat
    BY DEF Init
  <2>4. sessions \in [Entry -> Row]
    BY <1>1 DEF Init, Entry
  <2>5. req \in [Threads -> Requests]
    BY <1>1 DEF Init
  <2>6. \A t \in Threads : /\ req[t].entry \in Entry
                           /\ req[t].pc \in {"id", "ref"} => req[t].user \in Users
    BY <2>3 DEF Init, Idle, Entry
  <2>. QED
    BY <2>1, <2>2, <2>3, <2>4, <2>5, <2>6 DEF TypeOK
<1>3. \A e \in Entry : sessions[e] = Free
  BY DEF Init, Entry
<1>4. Open = {}
  BY <1>3 DEF Open, Free
<1>5. TableSound
  BY <1>4, FS_EmptySet DEF Init, TableSound
<1>6. RefsCount
  <2>1. \A u : OpenOf(u) = {} /\ PendingOf(u) = {}
    BY <1>4 DEF OpenOf, PendingOf, Init, Idle
  <2>2. ASSUME NEW u \in Users
        PROVE  RefsRight(u)
    <3>1. OpenOf(u) = {} /\ PendingOf(u) = {}
      BY <2>1
    <3>2. Cardinality(OpenOf(u)) = 0 /\ Cardinality(PendingOf(u)) = 0
      BY <3>1, FS_EmptySet
    <3>3. refs[u] = 0
      BY DEF Init
    <3>. QED
      BY <3>2, <3>3 DEF RefsRight
  <2>. QED
    BY <2>2, <1>2, Counts
<1>7. IdsDrawn
  <2>1. {i \in Ids : owner[i] # NoUser} = {}
    BY DEF Init
  <2>. QED
    BY <2>1, FS_EmptySet DEF IdsDrawn, Drawn
<1>8. InOrder /\ IdNamesItsUser
  <2>1. \A t \in Threads : req[t].pc = "idle"
    BY DEF Init, Idle
  <2>2. \A e \in Entry : sessions[e].id = NoId
    BY <1>3 DEF Free
  <2>3. WorkApart
    BY <2>1 DEF WorkApart, Working, Init
  <2>4. IdsApart
    BY <2>1, <2>2 DEF IdsApart
  <2>. QED
    BY <2>2, <2>3, <2>4 DEF InOrder, IdNamesItsUser, Init
<1>. QED
  BY <1>2, <1>5, <1>6, <1>7, <1>8 DEF IInv

-----------------------------------------------------------------------------
(* http_session_login_user *)

(* The entry of a login is not beyond the end, and free as long as the      *)
(* session task was not overtaken.                                          *)
LEMMA LoginEntry ==
  ASSUME IInv, NEW e, e = IF entries < capacity THEN FirstFree ELSE last
  PROVE  e \in Nat /\ e <= last /\ (~overtaken => e \notin Open)
<1>. USE DEF IInv
<1>1. CASE entries < capacity
  <2>. DEFINE S == {last} \cup ((0 .. last - 1) \ Open)
  <2>1. /\ S \in SUBSET Nat /\ S # {} /\ last \in S
        /\ ~overtaken => \A n \in S : n \notin Open
    BY DEF TypeOK, TableSound
  <2>2. e = Min(S)
    BY <1>1 DEF FirstFree
  <2>. QED
    BY <2>1, <2>2, MinIsLeast
<1>2. CASE ~(entries < capacity)
  BY <1>2 DEF TypeOK, TableSound
<1>. QED
  BY <1>1, <1>2

(* The table after a login: the entry has its user, every other entry its   *)
(* old one (or none, if it lay beyond last when the table doubled), and no  *)
(* id is new.                                                               *)
LEMMA LoginTable ==
  ASSUME IInv, NEW t \in Threads, NEW u \in Users, Login(t, u)
  PROVE  \E e \in Nat :
           /\ ~overtaken => e \notin Open
           /\ e \in Entry' /\ Entry \subseteq Entry'
           /\ sessions' \in [Entry' -> Row] /\ capacity' \in Nat \ {0}
           /\ sessions'[e].user = u
           /\ \A d \in Entry' \ {e} :
                /\ sessions'[d].user # NoUser => d \in Entry /\ sessions'[d].user = sessions[d].user
                /\ ~overtaken /\ d \in Entry => sessions'[d].user = sessions[d].user
           /\ \A d \in Entry' : sessions'[d].id = NoId \/ (d \in Entry /\ sessions'[d].id = sessions[d].id)
           /\ e <= last /\ last' = (IF e = last THEN last + 1 ELSE last) /\ last' <= entries + 1
           /\ entries' <= capacity'
           /\ req' = [req EXCEPT ![t] = [pc |-> "id", entry |-> e, id |-> Drawn + 1, user |-> u]]
<1>. USE DEF IInv
<1>1. PICK e : e = IF entries < capacity THEN FirstFree ELSE last
  OBVIOUS
<1>2. e \in Nat /\ e <= last /\ (~overtaken => e \notin Open)
  BY <1>1, LoginEntry
<1>3. /\ last' = (IF e = last THEN last + 1 ELSE last)
      /\ req' = [req EXCEPT ![t] = [pc |-> "id", entry |-> e, id |-> Drawn + 1, user |-> u]]
      /\ entries' = entries + 1
  BY <1>1 DEF Login
<1>4. last' <= entries + 1
  BY <1>2, <1>3 DEF TypeOK, TableSound
<1>5. CASE entries < capacity
  <2>1. sessions' = [sessions EXCEPT ![e].user = u, ![e].expire = Timeout] /\ capacity' = capacity
    BY <1>1, <1>5 DEF Login
  <2>2. e \in Entry /\ Entry' = Entry
    BY <1>2, <1>5, <2>1 DEF TypeOK, TableSound, Entry
  <2>3. Timeout \in Int
    BY SessionAssumption
  <2>4. /\ sessions' \in [Entry -> Row] /\ sessions'[e].user = u
        /\ \A d \in Entry : sessions'[d].id = sessions[d].id
        /\ \A d \in Entry \ {e} : sessions'[d].user = sessions[d].user
    BY <2>1, <2>2, <2>3 DEF TypeOK, Row
  <2>5. /\ sessions' \in [Entry' -> Row] /\ capacity' \in Nat \ {0} /\ entries' <= capacity'
        /\ e \in Entry' /\ Entry \subseteq Entry'
    BY <1>3, <1>5, <2>1, <2>2, <2>4 DEF TypeOK
  <2>6. \A d \in Entry' \ {e} : d \in Entry /\ sessions'[d].user = sessions[d].user
    BY <2>2, <2>4
  <2>7. \A d \in Entry' : sessions'[d].id = NoId \/ (d \in Entry /\ sessions'[d].id = sessions[d].id)
    BY <2>2, <2>4
  <2>. QED
    BY <1>2, <1>3, <1>4, <2>4, <2>5, <2>6, <2>7
<1>6. CASE ~(entries < capacity)
  <2>1. /\ sessions' = [i \in 0 .. 2 * capacity - 1 |->
                          IF i = e THEN [id |-> NoId, user |-> u, expire |-> Timeout]
                          ELSE IF i < last THEN sessions[i] ELSE Free]
        /\ capacity' = 2 * capacity /\ e = last
    BY <1>1, <1>6 DEF Login
  <2>2. Entry' = 0 .. 2 * capacity - 1 /\ Entry \subseteq Entry' /\ e \in Entry'
    BY <1>2, <1>6, <2>1 DEF TypeOK, TableSound, Entry
  <2>3. \A d \in Entry' : d < last => d \in Entry
    BY <1>6, <2>2 DEF TypeOK, TableSound, Entry
  <2>4. ~overtaken => \A d \in Entry : d >= last => sessions[d].user = NoUser
    BY DEF TypeOK, TableSound, Open, Entry
  <2>5. [id |-> NoId, user |-> u, expire |-> Timeout] \in Row /\ Free \in Row
    BY SessionAssumption DEF Row, Free
  <2>6. sessions' \in [Entry' -> Row]
    BY <2>1, <2>2, <2>3, <2>5 DEF TypeOK
  <2>7. sessions'[e].user = u /\ sessions'[e].id = NoId
    BY <2>1, <2>2
  <2>8. ASSUME NEW d \in Entry' \ {e}
        PROVE  /\ sessions'[d].user # NoUser => d \in Entry /\ sessions'[d].user = sessions[d].user
               /\ ~overtaken /\ d \in Entry => sessions'[d].user = sessions[d].user
               /\ sessions'[d].id = NoId \/ (d \in Entry /\ sessions'[d].id = sessions[d].id)
    <3>1. CASE d < last
      BY <2>1, <2>2, <2>3, <3>1
    <3>2. CASE ~(d < last)
      <4>1. sessions'[d] = Free
        BY <2>1, <2>2, <3>2
      <4>2. ~overtaken /\ d \in Entry => sessions[d].user = NoUser
        BY <2>2, <2>4, <3>2 DEF TypeOK
      <4>. QED
        BY <4>1, <4>2 DEF Free
    <3>. QED
      BY <3>1, <3>2
  <2>9. capacity' \in Nat \ {0} /\ entries' <= capacity'
    BY <1>3, <1>6, <2>1 DEF TypeOK, TableSound
  <2>. QED
    BY <1>2, <1>3, <1>4, <2>2, <2>6, <2>7, <2>8, <2>9
<1>. QED
  BY <1>5, <1>6

(* A login keeps the invariant: the entry it takes is its own, and so is    *)
(* the id that it draws.                                                    *)
LEMMA LoginKeeps ==
  ASSUME IInv, NEW t \in Threads, NEW u \in Users, Login(t, u)
  PROVE  IInv'
<1>. USE DEF IInv
<1>1. /\ req[t].pc = "idle" /\ ~faulted /\ Drawn < MaxLogins /\ entries' = entries + 1
      /\ owner' = [owner EXCEPT ![Drawn + 1] = u]
      /\ UNCHANGED <<orderly, given, refs, buff, faulted, overtaken>>
  BY DEF Login, At
<1>2. PICK e \in Nat :
           /\ ~overtaken => e \notin Open
           /\ e \in Entry' /\ Entry \subseteq Entry'
           /\ sessions' \in [Entry' -> Row] /\ capacity' \in Nat \ {0}
           /\ sessions'[e].user = u
           /\ \A d \in Entry' \ {e} :
                /\ sessions'[d].user # NoUser => d \in Entry /\ sessions'[d].user = sessions[d].user
                /\ ~overtaken /\ d \in Entry => sessions'[d].user = sessions[d].user
           /\ \A d \in Entry' : sessions'[d].id = NoId \/ (d \in Entry /\ sessions'[d].id = sessions[d].id)
           /\ e <= last /\ last' = (IF e = last THEN last + 1 ELSE last) /\ last' <= entries + 1
           /\ entries' <= capacity'
           /\ req' = [req EXCEPT ![t] = [pc |-> "id", entry |-> e, id |-> Drawn + 1, user |-> u]]
  BY LoginTable
<1>. DEFINE n == Drawn + 1
<1>3. /\ Drawn \in Nat /\ n \in Ids /\ owner[n] = NoUser
      /\ \A i \in Ids : owner[i] # NoUser <=> i \in 1 .. Drawn
  <2>1. IsFiniteSet(Ids)
    BY FS_Interval, SessionAssumption DEF Ids
  <2>2. Drawn \in Nat
    BY <2>1, FS_Subset, FS_CardinalityType DEF Drawn
  <2>3. n \in Ids
    BY <1>1, <2>2, SessionAssumption DEF Ids
  <2>. QED
    BY <2>2, <2>3 DEF IdsDrawn
<1>4. IdsDrawn'
  <2>1. {i \in Ids : owner'[i] # NoUser} = {i \in Ids : owner[i] # NoUser} \cup {n}
    BY <1>1, <1>3, SessionAssumption DEF TypeOK
  <2>2. IsFiniteSet({i \in Ids : owner[i] # NoUser})
    <3>1. {i \in Ids : owner[i] # NoUser} = 1 .. Drawn
      BY DEF IdsDrawn
    <3>2. IsFiniteSet(1 .. Drawn)
      BY <1>3, FS_Interval
    <3>. QED
      BY <3>1, <3>2
  <2>3. Drawn' = n
    BY <1>3, <2>1, <2>2, FS_AddElement DEF Drawn
  <2>4. {i \in Ids : owner'[i] # NoUser} = 1 .. n
    BY <1>3, <2>1 DEF IdsDrawn
  <2>. QED
    BY <2>3, <2>4 DEF IdsDrawn
<1>5. /\ Open' \subseteq Open \cup {e} /\ (~overtaken => Open' = Open \cup {e})
      /\ \A v : /\ OpenOf(v)' \subseteq OpenOf(v) \cup {e}
                /\ v # u => OpenOf(v)' \subseteq OpenOf(v)
                /\ ~overtaken => OpenOf(v)' = IF v = u THEN OpenOf(v) \cup {e} ELSE OpenOf(v)
  <2>1. u # NoUser
    BY SessionAssumption
  <2>2. ASSUME NEW d PROVE d \in Open' => d \in Open \cup {e}
    BY <1>2 DEF Open
  <2>3. ASSUME ~overtaken, NEW d PROVE d \in Open \cup {e} => d \in Open'
    BY <1>2, <2>1, <2>3 DEF Open
  <2>4. ASSUME NEW v, NEW d \in OpenOf(v)'
        PROVE  d \in OpenOf(v) \cup {e} /\ (v # u => d \in OpenOf(v))
    BY <1>2, <2>2, <2>4 DEF OpenOf, Open
  <2>5. ASSUME ~overtaken, NEW v, NEW d \in IF v = u THEN OpenOf(v) \cup {e} ELSE OpenOf(v)
        PROVE  d \in OpenOf(v)'
    BY <1>2, <2>1, <2>3, <2>5 DEF OpenOf, Open
  <2>6. ASSUME ~overtaken, NEW v
        PROVE  OpenOf(v)' = IF v = u THEN OpenOf(v) \cup {e} ELSE OpenOf(v)
    BY <2>4, <2>5, <2>6
  <2>. QED
    BY <2>2, <2>3, <2>4, <2>6
<1>6. TypeOK'
  <2>1. /\ owner' \in [Ids -> Users \cup {NoUser}] /\ entries' \in Nat /\ last' \in Nat
        /\ refs' \in [Users -> Int] /\ buff' \subseteq Entry' /\ given' \subseteq Ids
        /\ orderly' \in BOOLEAN /\ faulted' \in BOOLEAN /\ overtaken' \in BOOLEAN
    <3>1. owner' \in [Ids -> Users \cup {NoUser}]
      BY <1>1 DEF TypeOK
    <3>2. entries' \in Nat /\ last' \in Nat
      BY <1>1, <1>2 DEF TypeOK
    <3>3. buff' \subseteq Entry'
      BY <1>1, <1>2 DEF TypeOK
    <3>. QED
      BY <1>1, <3>1, <3>2, <3>3 DEF TypeOK
  <2>2. req' \in [Threads -> Requests]
    BY <1>2, <1>3 DEF TypeOK, Requests
  <2>3. ASSUME NEW s \in Threads
        PROVE  /\ req'[s].entry \in Entry'
               /\ req'[s].pc \in {"id", "ref"} => req'[s].user \in Users
    <3>1. CASE s = t
      <4>1. req'[t] = [pc |-> "id", entry |-> e, id |-> n, user |-> u]
        BY <1>2 DEF TypeOK
      <4>. QED
        BY <1>2, <3>1, <4>1
    <3>2. CASE s # t
      <4>1. req'[s] = req[s]
        BY <1>2, <3>2 DEF TypeOK
      <4>. QED
        BY <1>2, <4>1 DEF TypeOK
    <3>. QED
      BY <3>1, <3>2
  <2>. QED
    BY <1>2, <2>1, <2>2, <2>3 DEF TypeOK
<1>7. TableSound'
  <2>1. /\ ~overtaken => Open' \subseteq 0 .. last' - 1
        /\ last' <= entries' /\ entries' <= capacity'
    BY <1>1, <1>2, <1>5 DEF TypeOK, TableSound
  <2>2. IsFiniteSet(Open) /\ Cardinality(Open) \in Nat
    BY Counts
  <2>3. /\ IsFiniteSet(Open \cup {e}) /\ Cardinality(Open \cup {e}) \in Nat
        /\ Cardinality(Open \cup {e}) <= Cardinality(Open) + 1
    <3>1. CASE e \in Open
      <4>1. Open \cup {e} = Open
        BY <3>1
      <4>2. IsFiniteSet(Open \cup {e}) /\ Cardinality(Open \cup {e}) = Cardinality(Open)
        BY <2>2, <4>1
      <4>. QED
        BY <2>2, <4>2
    <3>2. CASE e \notin Open
      BY <2>2, <3>2, FS_AddElement
    <3>. QED
      BY <3>1, <3>2
  <2>4. Cardinality(Open') \in Nat /\ Cardinality(Open') <= Cardinality(Open \cup {e})
    BY <1>5, <2>3, FS_Subset, FS_CardinalityType
  <2>5. Cardinality(Open') <= entries'
    BY <1>1, <2>2, <2>3, <2>4 DEF TableSound, TypeOK
  <2>. QED
    BY <1>1, <2>1, <2>5 DEF TableSound
<1>8. RefsCount'
  <2>1. ASSUME NEW v \in Users
        PROVE  RefsRight(v)'
    <3>1. /\ IsFiniteSet(OpenOf(v)) /\ Cardinality(OpenOf(v)) \in Nat
          /\ IsFiniteSet(PendingOf(v)) /\ Cardinality(PendingOf(v)) \in Nat
          /\ RefsRight(v) /\ refs[v] \in Int
      BY Counts DEF TypeOK
    <3>2. PendingOf(v)' = IF v = u THEN PendingOf(v) \cup {t} ELSE PendingOf(v)
      BY <1>1, <1>2 DEF PendingOf, TypeOK
    <3>3. t \notin PendingOf(v) /\ (~overtaken => e \notin OpenOf(v))
      BY <1>1, <1>2 DEF OpenOf, PendingOf
    <3>4. CASE v = u
      <4>1. /\ IsFiniteSet(OpenOf(v) \cup {e}) /\ Cardinality(OpenOf(v) \cup {e}) \in Nat
            /\ Cardinality(OpenOf(v) \cup {e}) <= Cardinality(OpenOf(v)) + 1
            /\ ~overtaken => Cardinality(OpenOf(v) \cup {e}) = Cardinality(OpenOf(v)) + 1
        <5>1. CASE e \in OpenOf(v)
          <6>1. OpenOf(v) \cup {e} = OpenOf(v)
            BY <5>1
          <6>. QED
            BY <3>1, <3>3, <5>1, <6>1
        <5>2. CASE e \notin OpenOf(v)
          BY <3>1, <5>2, FS_AddElement
        <5>. QED
          BY <5>1, <5>2
      <4>2. Cardinality(OpenOf(v)') \in Nat /\ Cardinality(OpenOf(v)') <= Cardinality(OpenOf(v) \cup {e})
        BY <1>5, <4>1, FS_Subset, FS_CardinalityType
      <4>3. ~overtaken => Cardinality(OpenOf(v)') = Cardinality(OpenOf(v)) + 1
        BY <1>5, <3>4, <4>1
      <4>4. Cardinality(PendingOf(v)') = Cardinality(PendingOf(v)) + 1
        <5>1. PendingOf(v)' = PendingOf(v) \cup {t}
          BY <3>2, <3>4
        <5>. QED
          BY <3>1, <3>3, <5>1, FS_AddElement
      <4>. QED
        BY <1>1, <3>1, <4>1, <4>2, <4>3, <4>4 DEF RefsRight
    <3>5. CASE v # u
      <4>1. Cardinality(OpenOf(v)') \in Nat /\ Cardinality(OpenOf(v)') <= Cardinality(OpenOf(v))
        BY <1>5, <3>1, <3>5, FS_Subset, FS_CardinalityType
      <4>2. ~overtaken => Cardinality(OpenOf(v)') = Cardinality(OpenOf(v))
        BY <1>5, <3>5
      <4>3. Cardinality(PendingOf(v)') = Cardinality(PendingOf(v))
        BY <3>2, <3>5
      <4>. QED
        BY <1>1, <3>1, <4>1, <4>2, <4>3 DEF RefsRight
    <3>. QED
      BY <3>4, <3>5
  <2>. QED
    BY <2>1, CountsNext
<1>9. ASSUME orderly
      PROVE  WorkApart' /\ IdsApart' /\ IdNamesItsUser' /\ ~overtaken'
  <2>1. WorkApart /\ IdsApart /\ IdNamesItsUser /\ ~overtaken
    BY <1>1, <1>9 DEF InOrder
  <2>2. WorkApart'
    BY <1>1, <1>2, <1>5, <2>1 DEF WorkApart, Working, TypeOK
  <2>3. \A d \in Entry : sessions[d].id # NoId => sessions[d].id \in Ids \ {n}
    BY <1>3, <2>1 DEF IdsApart, TypeOK, Row
  <2>4. ASSUME NEW d \in Entry', sessions'[d].id # NoId
        PROVE  /\ d \in Entry \ {e} /\ sessions'[d].id = sessions[d].id
               /\ sessions'[d].user = sessions[d].user
    <3>1. d \in Entry /\ sessions'[d].id = sessions[d].id
      BY <1>2, <2>4
    <3>2. d \in Open
      BY <1>9, <2>1, <2>4, <3>1 DEF IdNamesItsUser, IdsApart, Open
    <3>. QED
      BY <1>2, <2>1, <3>1, <3>2
  <2>5. \A i \in Ids \ {n} : owner'[i] = owner[i]
    BY <1>1 DEF TypeOK
  <2>6. IdNamesItsUser'
    <3>. SUFFICES ASSUME NEW d \in Entry', sessions'[d].id # NoId
                  PROVE  /\ sessions'[d].user = owner'[sessions'[d].id]
                         /\ \A c \in Entry' \ {d} : sessions'[c].id # sessions'[d].id
      BY DEF IdNamesItsUser
    <3>1. sessions'[d].user = owner'[sessions'[d].id]
      BY <1>9, <2>1, <2>3, <2>4, <2>5 DEF IdNamesItsUser
    <3>2. \A c \in Entry' \ {d} : sessions'[c].id # sessions'[d].id
      BY <1>9, <2>1, <2>4 DEF IdNamesItsUser
    <3>. QED
      BY <3>1, <3>2
  <2>7. IdsApart'
    <3>1. \A d \in Entry' : sessions'[d].id # NoId => owner'[sessions'[d].id] # NoUser
      BY <2>1, <2>3, <2>4, <2>5 DEF IdsApart
    <3>2. \A d \in Entry' : sessions'[d].id # n
        BY <1>3, <2>3, <2>4 DEF Ids, NoId
    <3>3. ASSUME NEW s \in Threads \ {t}, req[s].pc = "id"
          PROVE  /\ req'[s] = req[s] /\ req[s].id \in Ids \ {n} /\ owner'[req[s].id] = owner[req[s].id]
                 /\ sessions'[req[s].entry].user = owner[req[s].id]
                 /\ \A d \in Entry' : sessions'[d].id # req[s].id
      <4>1. req'[s] = req[s]
        BY <1>2 DEF TypeOK
      <4>2. req[s].id \in Ids \ {n}
        BY <1>3, <2>1, <3>3, SessionAssumption DEF IdsApart
      <4>3. req[s].entry \in Open /\ req[s].entry \in Entry /\ req[s].entry # e
        BY <1>2, <2>1, <3>3 DEF WorkApart, Working, Open
      <4>4. sessions'[req[s].entry].user = owner[req[s].id]
        BY <1>2, <2>1, <3>3, <4>3 DEF IdsApart
      <4>5. \A d \in Entry' : sessions'[d].id # req[s].id
        BY <2>1, <2>4, <3>3, <4>2 DEF IdsApart, Ids, NoId
      <4>. QED
        BY <2>5, <4>1, <4>2, <4>4, <4>5
    <3>4. /\ req'[t].pc = "id" /\ req'[t].entry = e /\ req'[t].id = n /\ owner'[n] = u
      BY <1>1, <1>2, <1>3 DEF TypeOK
    <3>5. \A s \in Threads \ {t} : req'[s] = req[s]
      BY <1>2 DEF TypeOK
    <3>6. ASSUME NEW s \in Threads, req'[s].pc = "id"
          PROVE  /\ req'[s].id \in Ids /\ owner'[req'[s].id] \in Users
                 /\ sessions'[req'[s].entry].user = owner'[req'[s].id]
                 /\ \A d \in Entry' : sessions'[d].id # req'[s].id
      <4>1. CASE s = t
        BY <1>2, <1>3, <3>2, <3>4, <4>1
      <4>2. CASE s # t
        BY <2>1, <3>3, <3>5, <3>6, <4>2 DEF IdsApart
      <4>. QED
        BY <4>1, <4>2
    <3>7. ASSUME NEW s \in Threads, NEW r \in Threads \ {s}, req'[s].pc = "id", req'[r].pc = "id"
          PROVE  req'[r].id # req'[s].id
      <4>1. CASE s = t \/ r = t
        BY <3>3, <3>4, <3>5, <3>7, <4>1
      <4>2. CASE s # t /\ r # t
        BY <2>1, <3>5, <3>7, <4>2 DEF IdsApart
      <4>. QED
        BY <4>1, <4>2
    <3>. QED
      BY <3>1, <3>6, <3>7 DEF IdsApart
  <2>. QED
    BY <1>1, <2>1, <2>2, <2>6, <2>7
<1>10. InOrder' /\ IdNamesItsUser'
  <2>1. CASE orderly
    BY <1>9, <2>1 DEF InOrder
  <2>2. CASE ~orderly
    BY <1>1, <2>2 DEF InOrder, IdNamesItsUser
  <2>. QED
    BY <2>1, <2>2
<1>. QED
  BY <1>4, <1>6, <1>7, <1>8, <1>10
-----------------------------------------------------------------------------
(* The other steps of a request *)

(* The id that a login writes is the one its user was given; where the      *)
(* table has moved meanwhile nothing of it changes.                         *)
LEMMA WriteIdKeeps ==
  ASSUME IInv, NEW t \in Threads, WriteId(t)
  PROVE  IInv'
<1>. USE DEF IInv
<1>1. /\ req[t].pc = "id" /\ ~faulted /\ req' = [req EXCEPT ![t].pc = "ref"]
      /\ UNCHANGED <<orderly, owner, given, capacity, entries, last, refs, buff, overtaken>>
      /\ faulted' \in BOOLEAN
  BY DEF WriteId, At, GoesOn, externalVars, TypeOK
<1>2. req[t] \in Requests /\ req[t].entry \in Entry
  BY DEF TypeOK
<1>3. /\ sessions' \in [Entry -> Row]
      /\ \A e \in Entry : sessions'[e].user = sessions[e].user
      /\ \/ sessions' = sessions
         \/ sessions' = [sessions EXCEPT ![req[t].entry].id = req[t].id] /\ UNCHANGED faulted
  <2>1. CASE UNCHANGED sessions
    BY <2>1 DEF TypeOK
  <2>2. CASE sessions' = [sessions EXCEPT ![req[t].entry].id = req[t].id] /\ UNCHANGED faulted
    BY <1>2, <2>2 DEF TypeOK, Row, Requests
  <2>. QED
    BY <2>1, <2>2 DEF WriteId
<1>4. /\ Entry' = Entry /\ Open' = Open /\ TableSound'
      /\ \A u : OpenOf(u)' = OpenOf(u)
  BY <1>1, <1>3, SameTable
<1>5. /\ req'[t].pc = "ref" /\ req'[t].entry = req[t].entry /\ req'[t].user = req[t].user
      /\ \A s \in Threads \ {t} : req'[s] = req[s]
      /\ req' \in [Threads -> Requests]
  BY <1>1, <1>2 DEF TypeOK, Requests
<1>6. TypeOK'
  <2>1. ASSUME NEW s \in Threads
        PROVE  /\ req'[s].entry \in Entry
               /\ req'[s].pc \in {"id", "ref"} => req'[s].user \in Users
    BY <1>1, <1>5 DEF TypeOK
  <2>. QED
    BY <1>1, <1>3, <1>4, <1>5, <2>1 DEF TypeOK
<1>7. RefsCount'
  <2>1. \A u : PendingOf(u)' = PendingOf(u)
    BY <1>1, <1>5 DEF PendingOf
  <2>. QED
    BY <1>1, <1>4, <1>6, <2>1, SameRefs
<1>8. IdsDrawn'
  BY <1>1 DEF IdsDrawn, Drawn
<1>9. CASE sessions' = sessions
  <2>1. IdNamesItsUser'
    BY <1>1, <1>4, <1>9 DEF IdNamesItsUser
  <2>2. ASSUME orderly PROVE WorkApart' /\ IdsApart' /\ ~overtaken'
    <3>1. WorkApart /\ IdsApart /\ ~overtaken
      BY <1>1, <2>2 DEF InOrder
    <3>2. WorkApart'
      BY <1>1, <1>4, <1>5, <3>1 DEF WorkApart, Working
    <3>3. IdsApart'
      BY <1>1, <1>4, <1>5, <1>9, <3>1 DEF IdsApart
    <3>. QED
      BY <1>1, <3>1, <3>2, <3>3
  <2>. QED
    BY <1>1, <1>4, <1>6, <1>7, <1>8, <2>1, <2>2 DEF InOrder
<1>10. CASE sessions' = [sessions EXCEPT ![req[t].entry].id = req[t].id] /\ UNCHANGED faulted
  <2>1. ASSUME orderly PROVE WorkApart' /\ IdsApart' /\ IdNamesItsUser' /\ ~overtaken'
    <3>. DEFINE e == req[t].entry
                i == req[t].id
    <3>1. WorkApart /\ IdsApart /\ IdNamesItsUser /\ ~overtaken
      BY <1>1, <2>1 DEF InOrder
    <3>2. /\ i \in Ids /\ owner[i] \in Users /\ sessions[e].user = owner[i]
          /\ \A d \in Entry : sessions[d].id # i
          /\ \A s \in Threads \ {t} : req[s].pc = "id" => req[s].id # i
      BY <1>1, <3>1 DEF IdsApart
    <3>3. /\ sessions'[e].id = i /\ sessions'[e].user = owner[i]
          /\ \A d \in Entry \ {e} : sessions'[d] = sessions[d]
      BY <1>2, <1>10, <3>2 DEF TypeOK, Row
    <3>4. WorkApart'
      BY <1>1, <1>4, <1>5, <3>1 DEF WorkApart, Working
    <3>5. IdNamesItsUser'
      BY <1>1, <1>2, <1>4, <2>1, <3>1, <3>2, <3>3 DEF IdNamesItsUser
    <3>6. IdsApart'
      <4>1. \A d \in Entry : sessions'[d].id # NoId => owner[sessions'[d].id] # NoUser
        BY <1>2, <3>1, <3>2, <3>3, SessionAssumption DEF IdsApart
      <4>2. ASSUME NEW s \in Threads, req'[s].pc = "id"
            PROVE  /\ s # t /\ req'[s] = req[s] /\ req[s].pc = "id" /\ req[s].id # i
                   /\ req[s].entry \in Entry
        BY <1>5, <3>2, <4>2 DEF TypeOK
      <4>3. ASSUME NEW s \in Threads, req'[s].pc = "id"
            PROVE  /\ req[s].id \in Ids /\ owner[req[s].id] \in Users
                   /\ sessions'[req[s].entry].user = owner[req[s].id]
                   /\ \A d \in Entry : sessions'[d].id # req[s].id
        BY <1>3, <3>1, <3>3, <4>2, <4>3 DEF IdsApart
      <4>4. \A s, r \in Threads : r # s /\ req'[s].pc = "id" /\ req'[r].pc = "id"
                                    => req'[r].id # req'[s].id
        BY <3>1, <4>2 DEF IdsApart
      <4>. QED
        BY <1>1, <1>4, <4>1, <4>2, <4>3, <4>4 DEF IdsApart
    <3>. QED
      BY <1>1, <3>1, <3>4, <3>5, <3>6
  <2>2. IdNamesItsUser'
    BY <1>1, <2>1 DEF IdNamesItsUser
  <2>. QED
    BY <1>1, <1>4, <1>6, <1>7, <1>8, <2>1, <2>2 DEF InOrder
<1>. QED
  BY <1>3, <1>9, <1>10

(* A login counts its reference in a step of its own. *)
LEMMA CountRefKeeps ==
  ASSUME IInv, NEW t \in Threads, CountRef(t)
  PROVE  IInv'
<1>. USE DEF IInv
<1>1. /\ req[t].pc = "ref" /\ ~faulted /\ req' = [req EXCEPT ![t].pc = "cookie"]
      /\ refs' = [refs EXCEPT ![req[t].user] = @ + 1]
      /\ UNCHANGED <<orderly, owner, given, sessions, capacity, entries, last, buff, faulted, overtaken>>
  BY DEF CountRef, At, GoesOn, externalVars, tableVars
<1>2. req[t] \in Requests /\ req[t].entry \in Entry /\ req[t].user \in Users
  BY <1>1 DEF TypeOK
<1>3. /\ Entry' = Entry /\ Open' = Open /\ TableSound'
      /\ \A u : OpenOf(u)' = OpenOf(u)
  BY <1>1, SameTable DEF TypeOK
<1>4. /\ req'[t].pc = "cookie" /\ req'[t].entry = req[t].entry
      /\ \A s \in Threads \ {t} : req'[s] = req[s]
      /\ req' \in [Threads -> Requests]
  BY <1>1, <1>2 DEF TypeOK, Requests
<1>5. TypeOK'
  <2>1. ASSUME NEW s \in Threads
        PROVE  /\ req'[s].entry \in Entry
               /\ req'[s].pc \in {"id", "ref"} => req'[s].user \in Users
    BY <1>1, <1>4 DEF TypeOK
  <2>2. refs' \in [Users -> Int]
    BY <1>1, <1>2 DEF TypeOK
  <2>. QED
    BY <1>1, <1>3, <1>4, <2>1, <2>2 DEF TypeOK
<1>6. RefsCount'
  <2>1. ASSUME NEW u \in Users
        PROVE  RefsRight(u)'
    <3>1. /\ Cardinality(OpenOf(u)) \in Nat
          /\ IsFiniteSet(PendingOf(u)) /\ Cardinality(PendingOf(u)) \in Nat
          /\ RefsRight(u) /\ refs[u] \in Int
      BY Counts DEF TypeOK
    <3>2. CASE u = req[t].user
      <4>1. PendingOf(u)' = PendingOf(u) \ {t} /\ t \in PendingOf(u)
        BY <1>1, <1>4, <3>2 DEF PendingOf
      <4>2. Cardinality(PendingOf(u)') = Cardinality(PendingOf(u)) - 1
        BY <3>1, <4>1, FS_RemoveElement
      <4>3. refs'[u] = refs[u] + 1
        BY <1>1, <3>2 DEF TypeOK
      <4>. QED
        BY <1>1, <1>3, <3>1, <4>2, <4>3 DEF RefsRight
    <3>3. CASE u # req[t].user
      <4>1. PendingOf(u)' = PendingOf(u)
        BY <1>1, <1>4, <3>3 DEF PendingOf
      <4>2. refs'[u] = refs[u]
        BY <1>1, <3>3 DEF TypeOK
      <4>. QED
        BY <1>1, <1>3, <3>1, <4>1, <4>2 DEF RefsRight
    <3>. QED
      BY <3>2, <3>3
  <2>. QED
    BY <2>1, CountsNext
<1>7. IdsDrawn' /\ IdNamesItsUser'
  BY <1>1, <1>3 DEF IdsDrawn, Drawn, IdNamesItsUser
<1>8. InOrder'
  <2>1. ASSUME orderly PROVE WorkApart' /\ IdsApart' /\ ~overtaken'
    <3>1. WorkApart /\ IdsApart /\ ~overtaken
      BY <1>1, <2>1 DEF InOrder
    <3>2. WorkApart'
      BY <1>1, <1>3, <1>4, <3>1 DEF WorkApart, Working
    <3>3. IdsApart'
      BY <1>1, <1>3, <1>4, <3>1 DEF IdsApart
    <3>. QED
      BY <1>1, <3>1, <3>2, <3>3
  <2>. QED
    BY <1>1, <2>1 DEF InOrder
<1>. QED
  BY <1>3, <1>5, <1>6, <1>7, <1>8

(* A request that ends without a change to the table. *)
LEMMA EndKeeps ==
  ASSUME IInv, NEW t \in Threads, req[t].pc \notin {"id", "ref"}, Ends(t), given' \subseteq Ids,
         UNCHANGED <<orderly, owner, tableVars, refs, buff, overtaken>>, faulted' \in BOOLEAN, ~faulted
  PROVE  IInv'
<1>. USE DEF IInv
<1>1. /\ req' = [req EXCEPT ![t] = Idle]
      /\ UNCHANGED <<orderly, owner, sessions, capacity, entries, last, refs, buff, overtaken>>
  BY DEF Ends, tableVars
<1>2. Idle \in Requests /\ Idle.pc = "idle" /\ Idle.entry \in Entry
  BY DEF Idle, Requests, Entry, TypeOK
<1>3. /\ Entry' = Entry /\ Open' = Open /\ TableSound'
      /\ \A u : OpenOf(u)' = OpenOf(u)
  BY <1>1, SameTable DEF TypeOK
<1>4. /\ req'[t] = Idle
      /\ \A s \in Threads \ {t} : req'[s] = req[s]
      /\ req' \in [Threads -> Requests]
  BY <1>1, <1>2 DEF TypeOK
<1>5. TypeOK'
  <2>1. ASSUME NEW s \in Threads
        PROVE  /\ req'[s].entry \in Entry
               /\ req'[s].pc \in {"id", "ref"} => req'[s].user \in Users
    BY <1>2, <1>4 DEF TypeOK
  <2>. QED
    BY <1>1, <1>3, <1>4, <2>1 DEF TypeOK
<1>6. RefsCount'
  <2>1. \A u : PendingOf(u)' = PendingOf(u)
    BY <1>2, <1>4 DEF PendingOf
  <2>. QED
    BY <1>1, <1>3, <1>5, <2>1, SameRefs
<1>7. IdsDrawn' /\ IdNamesItsUser'
  BY <1>1, <1>3 DEF IdsDrawn, Drawn, IdNamesItsUser
<1>8. InOrder'
  <2>1. ASSUME orderly PROVE WorkApart' /\ IdsApart' /\ ~overtaken'
    <3>1. WorkApart /\ IdsApart /\ ~overtaken
      BY <2>1 DEF InOrder
    <3>2. WorkApart'
      BY <1>1, <1>2, <1>3, <1>4, <3>1 DEF WorkApart, Working
    <3>3. IdsApart'
      BY <1>1, <1>2, <1>3, <1>4, <3>1 DEF IdsApart
    <3>. QED
      BY <1>1, <3>1, <3>2, <3>3
  <2>. QED
    BY <1>1, <2>1 DEF InOrder
<1>. QED
  BY <1>3, <1>5, <1>6, <1>7, <1>8

(* The answer of a login carries the id that is in its entry by then. *)
LEMMA SetCookieKeeps ==
  ASSUME IInv, NEW t \in Threads, SetCookie(t)
  PROVE  IInv'
<1>1. given' \subseteq Ids
  BY DEF IInv, TypeOK, SetCookie, Row
<1>2. req[t].pc = "cookie" /\ ~faulted /\ Ends(t) /\ faulted' \in BOOLEAN
  BY DEF SetCookie, At, IInv, TypeOK
<1>. QED
  BY <1>1, <1>2, EndKeeps DEF SetCookie

(* The user name is read outside the lock and the invariant stays. *)
LEMMA GetUsernameKeeps ==
  ASSUME IInv, NEW t \in Threads, GetUsername(t)
  PROVE  IInv'
<1>1. req[t].pc = "username" /\ ~faulted /\ Ends(t) /\ faulted' \in BOOLEAN
  BY DEF GetUsername, At, MayFault, IInv, TypeOK
<1>2. UNCHANGED <<orderly, owner, given, tableVars, refs, buff, overtaken>>
  BY DEF GetUsername, externalVars
<1>3. given' \subseteq Ids
  BY <1>2 DEF IInv, TypeOK
<1>. QED
  BY <1>1, <1>2, <1>3, EndKeeps

(* A request finds the open entry that has its id; where the activities on  *)
(* a session do not overlap, nobody is at work on it.                       *)
LEMMA FindKeeps ==
  ASSUME IInv, NEW t \in Threads, NEW i \in Ids, NEW pc \in {"logout", "username"}, Find(t, i, pc)
  PROVE  IInv'
<1>. USE DEF IInv
<1>1. /\ req[t].pc = "idle" /\ ~faulted
      /\ UNCHANGED <<orderly, owner, given, sessions, capacity, entries, last, refs, buff, faulted, overtaken>>
  BY DEF Find, At, externalVars, tableVars
<1>2. PICK e \in Entry :
        /\ sessions[e].id = i
        /\ orderly => ~Busy(e) /\ e \notin buff
        /\ req' = [req EXCEPT ![t] = [pc |-> pc, entry |-> e, id |-> i, user |-> NoUser]]
  BY DEF Find
<1>3. /\ Entry' = Entry /\ Open' = Open /\ TableSound'
      /\ \A u : OpenOf(u)' = OpenOf(u)
  BY <1>1, SameTable DEF TypeOK
<1>4. /\ req'[t].pc = pc /\ req'[t].entry = e
      /\ \A s \in Threads \ {t} : req'[s] = req[s]
      /\ req' \in [Threads -> Requests]
  BY <1>2 DEF TypeOK, Requests, Entry
<1>5. TypeOK'
  <2>1. ASSUME NEW s \in Threads
        PROVE  /\ req'[s].entry \in Entry
               /\ req'[s].pc \in {"id", "ref"} => req'[s].user \in Users
    BY <1>4 DEF TypeOK
  <2>. QED
    BY <1>1, <1>3, <1>4, <2>1 DEF TypeOK
<1>6. RefsCount'
  <2>1. \A u : PendingOf(u)' = PendingOf(u)
    BY <1>1, <1>4 DEF PendingOf
  <2>. QED
    BY <1>1, <1>3, <1>5, <2>1, SameRefs
<1>7. IdsDrawn' /\ IdNamesItsUser'
  BY <1>1, <1>3 DEF IdsDrawn, Drawn, IdNamesItsUser
<1>8. InOrder'
  <2>1. ASSUME orderly PROVE WorkApart' /\ IdsApart' /\ ~overtaken'
    <3>1. WorkApart /\ IdsApart /\ ~overtaken
      BY <1>1, <2>1 DEF InOrder
    <3>2. e \in Open \ buff /\ \A s \in Threads : Working(s) => req[s].entry # e
      <4>1. sessions[e].id # NoId
        BY <1>2, SessionAssumption DEF Ids, NoId
      <4>2. sessions[e].user # NoUser
        BY <2>1, <3>1, <4>1 DEF IdNamesItsUser, IdsApart
      <4>. QED
        BY <1>2, <2>1, <4>2 DEF Open, Busy, Working
    <3>3. WorkApart'
      BY <1>1, <1>3, <1>4, <3>1, <3>2 DEF WorkApart, Working
    <3>4. IdsApart'
      BY <1>1, <1>3, <1>4, <3>1 DEF IdsApart
    <3>. QED
      BY <1>1, <3>1, <3>3, <3>4
  <2>. QED
    BY <1>1, <2>1 DEF InOrder
<1>. QED
  BY <1>3, <1>5, <1>6, <1>7, <1>8

(* A logout closes the session of its entry, if there is one still; last    *)
(* goes down only where no open entry lies beyond it.                       *)
LEMMA LogoutKeeps ==
  ASSUME IInv, NEW t \in Threads, Logout(t)
  PROVE  IInv'
<1>. USE DEF IInv
<1>. DEFINE e == req[t].entry
            u == sessions[e].user
<1>1. /\ req[t].pc = "logout" /\ ~faulted /\ Ends(t)
      /\ UNCHANGED <<orderly, owner, given, capacity, entries, buff, overtaken>>
      /\ faulted' \in BOOLEAN /\ DropRef(u) /\ last' = Shortened(e)
      /\ sessions' = [sessions EXCEPT ![e].id = NoId, ![e].user = NoUser]
  BY DEF Logout, At, externalVars, MayFault
<1>2. IInv'
  <2>1. /\ refs' = [v \in Users |-> IF v = u THEN refs[v] - 1 ELSE refs[v]]
        /\ req' = [req EXCEPT ![t] = Idle]
        /\ Idle \in Requests /\ Idle.pc = "idle" /\ Idle.entry \in Entry
    BY <1>1 DEF DropRef, Ends, Idle, Requests, Entry, TypeOK
  <2>2. e \in Entry /\ e \in Nat /\ sessions[e] \in Row
    BY DEF Entry, TypeOK, Row
  <2>3. /\ sessions' \in [Entry -> Row]
        /\ sessions'[e].id = NoId /\ sessions'[e].user = NoUser
        /\ \A d \in Entry \ {e} : sessions'[d] = sessions[d]
    BY <1>1, <2>2 DEF TypeOK, Row
  <2>4. Entry' = Entry /\ Open' = Open \ {e}
    BY <1>1, <2>2, <2>3 DEF Entry, Open
  <2>5. last' \in Nat /\ last' <= last /\ (~overtaken => Open' \subseteq 0 .. last' - 1)
    <3>1. CASE e = last - 1
      BY <1>1, <2>2, <2>4, <3>1 DEF Shortened, TableSound, TypeOK
    <3>2. CASE e # last - 1
      BY <1>1, <2>4, <3>2 DEF Shortened, TableSound, TypeOK
    <3>. QED
      BY <3>1, <3>2
  <2>6. /\ req'[t] = Idle
        /\ \A s \in Threads \ {t} : req'[s] = req[s]
        /\ req' \in [Threads -> Requests]
    BY <2>1 DEF TypeOK
  <2>7. TypeOK'
    <3>1. ASSUME NEW s \in Threads
          PROVE  /\ req'[s].entry \in Entry
                 /\ req'[s].pc \in {"id", "ref"} => req'[s].user \in Users
      BY <2>1, <2>6 DEF TypeOK
    <3>2. refs' \in [Users -> Int]
      BY <2>1 DEF TypeOK
    <3>. QED
      BY <1>1, <2>3, <2>4, <2>5, <2>6, <3>1, <3>2 DEF TypeOK
  <2>8. TableSound'
    <3>1. IsFiniteSet(Open)
      BY Counts
    <3>2. Cardinality(Open') <= Cardinality(Open) /\ Cardinality(Open') \in Nat /\ Cardinality(Open) \in Nat
      BY <2>4, <3>1, FS_Subset, FS_CardinalityType
    <3>3. last' <= entries /\ Cardinality(Open') <= entries
      BY <2>5, <3>2 DEF TableSound, TypeOK
    <3>. QED
      BY <1>1, <2>5, <3>3 DEF TableSound
  <2>9. RefsCount'
    <3>1. ASSUME NEW v \in Users
          PROVE  RefsRight(v)'
      <4>1. /\ IsFiniteSet(OpenOf(v)) /\ Cardinality(OpenOf(v)) \in Nat
            /\ Cardinality(PendingOf(v)) \in Nat
            /\ RefsRight(v) /\ refs[v] \in Int
        BY Counts DEF TypeOK
      <4>2. PendingOf(v)' = PendingOf(v)
        BY <1>1, <2>1, <2>6 DEF PendingOf
      <4>3. OpenOf(v)' = OpenOf(v) \ {e}
        BY <2>3, <2>4 DEF OpenOf, Open
      <4>4. e \in OpenOf(v) <=> v = u
        BY <2>2, SessionAssumption DEF OpenOf, Open
      <4>5. Cardinality(OpenOf(v)') = IF v = u THEN Cardinality(OpenOf(v)) - 1
                                           ELSE Cardinality(OpenOf(v))
        <5>1. CASE v = u
          <6>1. e \in OpenOf(v)
            BY <4>4, <5>1
          <6>2. Cardinality(OpenOf(v) \ {e}) = Cardinality(OpenOf(v)) - 1
            BY <4>1, <6>1, FS_RemoveElement
          <6>. QED
            BY <4>3, <5>1, <6>2
        <5>2. CASE v # u
          <6>1. OpenOf(v)' = OpenOf(v)
            BY <4>3, <4>4, <5>2
          <6>. QED
            BY <5>2, <6>1
        <5>. QED
          BY <5>1, <5>2
      <4>6. refs'[v] = IF v = u THEN refs[v] - 1 ELSE refs[v]
        BY <2>1
      <4>. QED
        BY <1>1, <4>1, <4>2, <4>5, <4>6 DEF RefsRight
    <3>. QED
      BY <3>1, CountsNext
  <2>10. IdsDrawn'
    BY <1>1 DEF IdsDrawn, Drawn
  <2>11. IdNamesItsUser'
    BY <1>1, <2>3, <2>4 DEF IdNamesItsUser
  <2>12. InOrder'
    <3>1. ASSUME orderly PROVE WorkApart' /\ IdsApart' /\ ~overtaken'
      <4>1. WorkApart /\ IdsApart /\ ~overtaken
        BY <1>1, <3>1 DEF InOrder
      <4>2. /\ e \notin buff
            /\ \A s \in Threads \ {t} : Working(s) => req[s].entry # e
        BY <1>1, <4>1 DEF WorkApart, Working
      <4>3. WorkApart'
        BY <1>1, <2>1, <2>4, <2>6, <4>1, <4>2 DEF WorkApart, Working
      <4>4. \A d \in Entry : sessions'[d].id # NoId => owner[sessions'[d].id] # NoUser
        BY <2>3, <4>1 DEF IdsApart
      <4>5. ASSUME NEW s \in Threads, req'[s].pc = "id"
            PROVE  /\ s # t /\ req'[s] = req[s] /\ req[s].id \in Ids /\ owner[req[s].id] \in Users
                   /\ sessions'[req[s].entry].user = owner[req[s].id]
                   /\ \A d \in Entry : sessions'[d].id # req[s].id
                   /\ \A r \in Threads \ {s} : req'[r].pc = "id" => req'[r].id # req[s].id
        <5>1. s # t /\ req'[s] = req[s]
          BY <2>1, <2>6, <4>5
        <5>2. req[s].entry \in Entry \ {e}
          BY <4>2, <4>5, <5>1 DEF TypeOK, Working
        <5>3. req[s].id # NoId /\ req[s].id \in Ids
          BY <4>1, <4>5, <5>1 DEF IdsApart, Ids, NoId
        <5>4. \A r \in Threads \ {s} : req'[r].pc = "id" => req'[r].id # req[s].id
          BY <2>1, <2>6, <4>1, <4>5, <5>1 DEF IdsApart
        <5>. QED
          BY <2>3, <4>1, <4>5, <5>1, <5>2, <5>3, <5>4 DEF IdsApart
      <4>6. IdsApart'
        <5>1. owner' = owner
          BY <1>1
        <5>. QED
          BY <2>4, <4>4, <4>5, <5>1 DEF IdsApart
      <4>. QED
        BY <1>1, <4>1, <4>3, <4>6
    <3>. QED
      BY <1>1, <3>1 DEF InOrder
  <2>. QED
    BY <2>7, <2>8, <2>9, <2>10, <2>11, <2>12
<1>. QED
  BY <1>2

-----------------------------------------------------------------------------
(* session_task *)

(* The countdown changes neither users nor ids; what it finds to have run   *)
(* out is open, and nobody's where activities do not overlap.               *)
LEMMA ScanKeeps ==
  ASSUME IInv, Scan
  PROVE  IInv'
<1>. USE DEF IInv
<1>1. /\ ~faulted /\ UNCHANGED <<orderly, owner, given, capacity, entries, last, refs, req, faulted, overtaken>>
      /\ buff' = {e \in Counted : sessions[e].expire = 1}
      /\ orderly => \A e \in Counted : sessions[e].expire = 1 => ~Busy(e)
  BY DEF Scan, externalVars
<1>2. /\ sessions' \in [Entry -> Row]
      /\ \A e \in Entry : sessions'[e].user = sessions[e].user /\ sessions'[e].id = sessions[e].id
  BY DEF Scan, TypeOK, Row
<1>3. /\ Entry' = Entry /\ Open' = Open /\ TableSound'
      /\ \A u : OpenOf(u)' = OpenOf(u)
  BY <1>1, <1>2, SameTable
<1>4. buff' \subseteq Open /\ Open \subseteq Entry
  BY <1>1 DEF Counted, Open, Entry
<1>5. TypeOK'
  BY <1>1, <1>2, <1>3, <1>4 DEF TypeOK
<1>6. RefsCount'
  <2>1. \A u : PendingOf(u)' = PendingOf(u)
    BY <1>1 DEF PendingOf
  <2>. QED
    BY <1>1, <1>3, <1>5, <2>1, SameRefs
<1>7. IdsDrawn' /\ IdNamesItsUser'
  BY <1>1, <1>2, <1>3 DEF IdsDrawn, Drawn, IdNamesItsUser
<1>8. InOrder'
  <2>1. ASSUME orderly PROVE WorkApart' /\ IdsApart' /\ ~overtaken'
    <3>1. WorkApart /\ IdsApart /\ ~overtaken
      BY <1>1, <2>1 DEF InOrder
    <3>2. \A t \in Threads : Working(t) => req[t].entry \notin buff'
      BY <1>1, <2>1 DEF Busy, Working
    <3>3. WorkApart'
      BY <1>1, <1>3, <1>4, <3>1, <3>2 DEF WorkApart, Working
    <3>4. IdsApart'
      BY <1>1, <1>2, <1>3, <3>1 DEF IdsApart, TypeOK
    <3>. QED
      BY <1>1, <3>1, <3>3, <3>4
  <2>. QED
    BY <1>1, <2>1 DEF InOrder
<1>. QED
  BY <1>3, <1>5, <1>6, <1>7, <1>8

(* The entries that are removed are distinct, and open unless the session   *)
(* task is overtaken here.  Where last comes down to 0 they are all the     *)
(* entries below it.                                                        *)
LEMMA ExpireKeeps ==
  ASSUME IInv, Expire
  PROVE  IInv'
<1>. USE DEF IInv
<1>1. /\ ~faulted /\ buff' = {} /\ faulted' \in BOOLEAN
      /\ overtaken' = (overtaken \/ ~(buff \subseteq Open))
      /\ UNCHANGED <<orderly, owner, given, capacity, entries, req>>
      /\ sessions' = [e \in Entry |-> IF e \in buff
           THEN [sessions[e] EXCEPT !.id = NoId, !.user = NoUser] ELSE sessions[e]]
      /\ refs' = [u \in Users |-> refs[u] - Dropped(u)]
      /\ last' = IF last \in 1 .. Cardinality(buff) THEN 0 ELSE last
  BY DEF Expire, externalVars, MayFault
<1>2. IInv'
  <2>1. /\ sessions' \in [Entry -> Row]
        /\ \A e \in buff : sessions'[e].id = NoId /\ sessions'[e].user = NoUser
        /\ \A e \in Entry \ buff : sessions'[e] = sessions[e]
    BY <1>1 DEF TypeOK, Row
  <2>2. Entry' = Entry /\ Open' = Open \ buff
    BY <1>1, <2>1 DEF Entry, Open
  <2>3. IsFiniteSet(Open) /\ Cardinality(Open) \in Nat
    BY Counts, FS_CardinalityType
  <2>0. ~overtaken' => ~overtaken /\ buff \subseteq Open
    BY <1>1
  <2>4. last' \in Nat /\ last' <= last /\ (~overtaken' => Open' \subseteq 0 .. last' - 1)
    <3>1. CASE last \in 1 .. Cardinality(buff)
      <4>1. ASSUME ~overtaken, buff \subseteq Open
            PROVE  Open' = {}
        <5>1. buff \in SUBSET (0 .. last - 1)
          BY <4>1 DEF TableSound
        <5>2. IsFiniteSet(0 .. last - 1) /\ Cardinality(0 .. last - 1) = last
          BY <3>1, FS_Interval DEF TypeOK
        <5>3. Cardinality(buff) \in Nat /\ Cardinality(buff) <= last
          BY <5>1, BelowIsFinite DEF TypeOK
        <5>4. Cardinality(buff) = Cardinality(0 .. last - 1)
          BY <3>1, <5>2, <5>3 DEF TypeOK
        <5>5. buff = 0 .. last - 1
          BY <5>1, <5>2, <5>4, FS_Subset
        <5>. QED
          BY <2>2, <4>1, <5>5 DEF TableSound
      <4>2. last' = 0
        BY <1>1, <3>1
      <4>. QED
        BY <2>0, <4>1, <4>2 DEF TypeOK
    <3>2. CASE last \notin 1 .. Cardinality(buff)
      <4>1. last' = last
        BY <1>1, <3>2
      <4>. QED
        BY <2>0, <2>2, <4>1 DEF TableSound, TypeOK
    <3>. QED
      BY <3>1, <3>2
  <2>5. ASSUME NEW u \in Users
        PROVE  /\ Dropped(u) \in Nat
               /\ Cardinality(OpenOf(u)') = Cardinality(OpenOf(u)) - Dropped(u)
    <3>. DEFINE D == {e \in buff : sessions[e].user = u}
    <3>1. IsFiniteSet(OpenOf(u)) /\ Cardinality(OpenOf(u)) \in Nat
      BY Counts
    <3>2. D \in SUBSET OpenOf(u) /\ OpenOf(u) \cap D = D
      BY SessionAssumption DEF OpenOf, Open, TypeOK
    <3>3. IsFiniteSet(D) /\ Cardinality(D) \in Nat
      BY <3>1, <3>2, FS_Subset, FS_CardinalityType
    <3>4. OpenOf(u)' = OpenOf(u) \ D
      BY <2>1, <2>2 DEF OpenOf, Open
    <3>5. Cardinality(OpenOf(u) \ D) = Cardinality(OpenOf(u)) - Cardinality(OpenOf(u) \cap D)
      BY <3>1, FS_Difference
    <3>. QED
      BY <3>2, <3>3, <3>4, <3>5 DEF Dropped
  <2>6. refs' \in [Users -> Int]
    <3>1. \A u \in Users : refs[u] - Dropped(u) \in Int
      BY <2>5 DEF TypeOK
    <3>. QED
      BY <1>1, <3>1
  <2>7. TypeOK'
    BY <1>1, <2>1, <2>2, <2>4, <2>6 DEF TypeOK
  <2>8. TableSound'
    <3>1. Cardinality(Open') <= Cardinality(Open) /\ Cardinality(Open') \in Nat
      BY <2>2, <2>3, FS_Subset, FS_CardinalityType
    <3>2. last' <= entries /\ Cardinality(Open') <= entries
      BY <2>3, <2>4, <3>1 DEF TableSound, TypeOK
    <3>. QED
      BY <1>1, <2>4, <3>2 DEF TableSound
  <2>9. RefsCount'
    <3>1. ASSUME NEW u \in Users
          PROVE  RefsRight(u)'
      <4>1. /\ Cardinality(OpenOf(u)) \in Nat /\ Cardinality(PendingOf(u)) \in Nat
            /\ RefsRight(u) /\ refs[u] \in Int
        BY Counts DEF TypeOK
      <4>2. PendingOf(u)' = PendingOf(u)
        BY <1>1 DEF PendingOf
      <4>3. refs'[u] = refs[u] - Dropped(u)
        BY <1>1
      <4>. QED
        BY <2>0, <2>5, <4>1, <4>2, <4>3 DEF RefsRight
    <3>. QED
      BY <3>1, CountsNext
  <2>10. IdsDrawn'
    BY <1>1 DEF IdsDrawn, Drawn
  <2>11. IdNamesItsUser'
    BY <1>1, <2>1, <2>2 DEF IdNamesItsUser
  <2>12. InOrder'
    <3>1. ASSUME orderly PROVE WorkApart' /\ IdsApart' /\ ~overtaken'
      <4>1. WorkApart /\ IdsApart /\ ~overtaken
        BY <1>1, <3>1 DEF InOrder
      <4>2. \A t \in Threads : Working(t) => req[t].entry \in Open \ buff
        BY <4>1 DEF WorkApart
      <4>3. WorkApart'
        BY <1>1, <2>2, <4>1, <4>2 DEF WorkApart, Working
      <4>4. \A e \in Entry : sessions'[e].id # NoId => owner[sessions'[e].id] # NoUser
        BY <2>1, <4>1 DEF IdsApart
      <4>5. ASSUME NEW s \in Threads, req[s].pc = "id"
            PROVE  /\ sessions'[req[s].entry].user = owner[req[s].id]
                   /\ \A e \in Entry : sessions'[e].id # req[s].id
        <5>1. req[s].entry \in Entry \ buff
          BY <4>2, <4>5 DEF Working, Open
        <5>2. req[s].id # NoId /\ req[s].id \in Ids
          BY <4>1, <4>5 DEF IdsApart, Ids, NoId
        <5>. QED
          BY <2>1, <4>1, <4>5, <5>1, <5>2 DEF IdsApart
      <4>6. req' = req /\ owner' = owner /\ Entry' = Entry
        BY <1>1, <2>2
      <4>7. \A e \in Entry' : sessions'[e].id # NoId => owner'[sessions'[e].id] # NoUser
        BY <4>4, <4>6
      <4>8. ASSUME NEW s \in Threads, req'[s].pc = "id"
            PROVE  /\ req'[s].id \in Ids /\ owner'[req'[s].id] \in Users
                   /\ \A r \in Threads \ {s} : req'[r].pc = "id" => req'[r].id # req'[s].id
        BY <4>1, <4>6, <4>8 DEF IdsApart
      <4>9. IdsApart'
        BY <4>5, <4>6, <4>7, <4>8 DEF IdsApart
      <4>. QED
        BY <1>1, <4>1, <4>3, <4>9 DEF WorkApart
    <3>. QED
      BY <1>1, <3>1 DEF InOrder
  <2>. QED
    BY <2>7, <2>8, <2>9, <2>10, <2>11, <2>12
<1>. QED
  BY <1>2

-----------------------------------------------------------------------------
(* Every step of the sessions keeps the invariant. *)
LEMMA NextIInv == IInv /\ [Next]_vars => IInv'
<1>. SUFFICES ASSUME IInv, [Next]_vars PROVE IInv'
  OBVIOUS
<1>1. ASSUME NEW t \in Threads, Request(t) PROVE IInv'
  BY <1>1, LoginKeeps, FindKeeps DEF Request
<1>2. ASSUME NEW t \in Threads, Serve(t) PROVE IInv'
  BY <1>2, WriteIdKeeps, CountRefKeeps, SetCookieKeeps, LogoutKeeps, GetUsernameKeeps DEF Serve
<1>3. CASE UNCHANGED vars
  <2>1. /\ UNCHANGED <<orderly, owner, given, sessions, capacity, entries, last>>
        /\ UNCHANGED <<refs, buff, req, faulted, overtaken>>
    BY <1>3 DEF vars, externalVars, tableVars
  <2>2. /\ Entry' = Entry /\ Open' = Open /\ TableSound'
        /\ \A u : OpenOf(u)' = OpenOf(u)
    BY <2>1, SameTable DEF IInv, TypeOK
  <2>3. TypeOK'
    BY <2>1, <2>2 DEF IInv, TypeOK
  <2>4. RefsCount'
    <3>1. \A u : PendingOf(u)' = PendingOf(u)
      BY <2>1 DEF PendingOf
    <3>. QED
      BY <2>1, <2>2, <2>3, <3>1, SameRefs DEF IInv
  <2>5. IdsDrawn' /\ IdNamesItsUser'
    BY <2>1, <2>2 DEF IInv, IdsDrawn, Drawn, IdNamesItsUser
  <2>6. InOrder'
    BY <2>1, <2>2 DEF IInv, InOrder, WorkApart, IdsApart, Working
  <2>. QED
    BY <2>2, <2>3, <2>4, <2>5, <2>6 DEF IInv
<1>. QED
  BY <1>1, <1>2, <1>3, ScanKeeps, ExpireKeeps DEF Next

(* So the invariant of the sessions always holds. *)
LEMMA Safety == Spec => []IInv
<1>. QED
  BY InitIInv, NextIInv, PTL DEF Spec

(* Although last goes down with a wrong comparison and entries never does,  *)
(* no login takes an entry beyond the end of the table, nor one in use until*)
(* the session task has removed an entry that was closed since it found it  *)
(* (http_session.c:87-99, 193-214, 259), for any first capacity.           *)
THEOREM TableAlwaysSound == Spec => []TableSound
<1>1. IInv => TableSound
  BY DEF IInv
<1>. QED
  BY <1>1, Safety, PTL

(* refs of a user is never less than the sessions of that user but for the  *)
(* logins that are still to count theirs, however logins, logouts and the   *)
(* session task interleave; and it is no more either, until the session     *)
(* task has removed an entry that was closed since it found it              *)
(* (http_session.c:87-99, 221-223, 254-258).                                *)
THEOREM RefsAlwaysCount == Spec => []RefsCount
<1>1. IInv => RefsCount
  BY DEF IInv
<1>. QED
  BY <1>1, Safety, PTL

(* As long as login, requests and expiry of one session do not overlap, an  *)
(* id in the table stands for a session of the user who was given it, and   *)
(* for one session only (http_session.c:140-150, 210-219).                 *)
THEOREM IdsNameTheirUsers == Spec => []IdNamesItsUser
<1>1. IInv => IdNamesItsUser
  BY DEF IInv
<1>. QED
  BY <1>1, Safety, PTL
=============================================================================
