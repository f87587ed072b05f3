------------------------------ MODULE UserStore ------------------------------
(***************************************************************************)
(* The users of http_libs/http_session.c and their file.  Requests         *)
(* register users in a table and hand each new one to the session task     *)
(* through a queue; the task appends it to users.db and then writes the    *)
(* number of users to .meta.bin.  The engine is stopped and started again, *)
(* or the process dies at any step, and the table is loaded from the files.*)
(*                                                                         *)
(* user_manager.lock is taken and given up within a step, but for the      *)
(* return in the middle of http_session_register_user that leaves it       *)
(* locked.  The queue holds entries, of which 0 is the null pointer: the   *)
(* constant NULL of Ring has to be 0.                                      *)
(***************************************************************************)
EXTENDS Ring, FiniteSets, Functions

CONSTANTS
  Threads,    (* the threads of the pool                                     *)
  Names,
  Capacity,   (* the base capacity; the queue has twice as many slots        *)
  Burst,      (* a bound: how many users wait for the session task           *)
  MaxStarts,  (* a bound: how often the process starts                       *)
  MaxCrashes, (* a bound: how often it dies                                  *)
  NoThread

ASSUME StoreAssumption ==
  /\ NULL = 0 /\ Capacity \in Nat \ {0} /\ Size = 2 * Capacity
  /\ {Burst, MaxStarts, MaxCrashes} \subseteq Nat
  /\ IsFiniteSet(Threads) /\ NoThread \notin Threads

VARIABLES
  dups,       (* external: clients try to register a name twice              *)
  up,         (* "up", "stopping" (session_manager.running cleared), "down"  *)
  users, capacity,  (* user_manager.users[0 .. entries - 1]; entries = last  *)
  wlock,      (* who holds user_manager.lock across steps                    *)
  work,       (* user_manager.work                                           *)
  pc, entry,  (* where the request of each thread is, and its entry          *)
  tpc, taken, new, base,  (* session_task: where it is, user_id, new_entries *)
                          (* and user_entries                                *)
  db, meta,   (* the contents of users.db and of .meta.bin                   *)
  starts, crashes

tableVars   == <<users, capacity, wlock>>
requestVars == <<pc, entry>>
taskVars    == <<tpc, taken, new, base>>
fileVars    == <<db, meta>>
countVars   == <<starts, crashes>>
vars == <<dups, up, tableVars, work, requestVars, taskVars, fileVars, countVars>>

(* Mutant: the task counts from 0 again. *)
BaseZero(s) == 0

Base(s) == Len(s)

(* What is in memory when it has been loaded with s; base is what           *)
(* session_task gets as base_entries.                                       *)
Loaded(s) ==
  /\ users' = s /\ capacity' = Len(s) + Capacity /\ wlock' = NoThread
  /\ work' = NewRing
  /\ pc' = [t \in Threads |-> "idle"] /\ entry' = [t \in Threads |-> 0]
  /\ tpc' = "check" /\ taken' = 0 /\ new' = 0 /\ base' = Base(s)

(* The process has not run yet; to load from no files is to load from files *)
(* that hold no user (load_user_db).                                        *)
Init ==
  /\ dups \in BOOLEAN /\ up = "down"
  /\ users = <<>> /\ capacity = Capacity /\ wlock = NoThread /\ work = NewRing
  /\ pc = [t \in Threads |-> "idle"] /\ entry = [t \in Threads |-> 0]
  /\ tpc = "check" /\ taken = 0 /\ new = 0 /\ base = 0
  /\ db = <<>> /\ meta = 0
  /\ starts = 0 /\ crashes = 0

-----------------------------------------------------------------------------
(* Requests *)

(* glibc refuses a lock to a thread that holds it for writing (EDEADLK);    *)
(* the wrappers do not look at that, so the thread goes on.                 *)
Locks(t) == up # "down" /\ wlock \in {NoThread, t}

Waiting == Count(work) + Cardinality({t \in Threads : pc[t] = "push"})
                       + (IF tpc = "save" THEN 1 ELSE 0)

(* http_session_register_user, with a new name. *)
Register(t, n) ==
  /\ pc[t] = "idle" /\ Locks(t) /\ n \notin Range(users) /\ Waiting < Burst
  /\ users' = Append(users, n)
  /\ capacity' = IF Len(users) < capacity THEN capacity ELSE 2 * capacity
  /\ wlock' = NoThread
  /\ pc' = [pc EXCEPT ![t] = "push"] /\ entry' = [entry EXCEPT ![t] = Len(users)]
  /\ UNCHANGED <<dups, up, work, taskVars, fileVars, countVars>>

(* The same with a name that is taken: it returns with the lock held. *)
RegisterTaken(t, n) ==
  /\ dups
  /\ pc[t] = "idle" /\ Locks(t) /\ n \in Range(users)
  /\ wlock' = t
  /\ UNCHANGED <<dups, up, users, capacity, work, requestVars, taskVars, fileVars, countVars>>

(* push(user_manager.work, entry), which waits for room if it has to. *)
PushWork(t) ==
  /\ up # "down" /\ pc[t] = "push" /\ ~PushBlocked(work)
  /\ work' = AfterPush(work, entry[t])
  /\ pc' = [pc EXCEPT ![t] = "idle"] /\ entry' = [entry EXCEPT ![t] = 0]
  /\ UNCHANGED <<dups, up, tableVars, taskVars, fileVars, countVars>>

(* A request to log in, and the search of the user under the lock.          *)
LoginBegin(t) ==
  /\ up # "down" /\ pc[t] = "idle" /\ users # <<>>
  /\ pc' = [pc EXCEPT ![t] = "login"]
  /\ UNCHANGED <<dups, up, tableVars, work, entry, taskVars, fileVars, countVars>>

UserGet(t) ==
  /\ pc[t] = "login" /\ Locks(t)
  /\ wlock' = NoThread
  /\ pc' = [pc EXCEPT ![t] = "idle"]
  /\ UNCHANGED <<dups, up, users, capacity, work, entry, taskVars, fileVars, countVars>>

-----------------------------------------------------------------------------
(* session_task.  How it counts sessions down is in module Session.         *)

TaskAt(here) == up # "down" /\ tpc = here

(* while(session_manager.running) *)
Check ==
  /\ TaskAt("check")
  /\ tpc' = IF up = "up" THEN "round" ELSE "out"
  /\ UNCHANGED <<dups, up, tableVars, work, requestVars, taken, new, base, fileVars, countVars>>

(* Mutant: users are saved at the end only. *)
RoundAtEnd ==
  /\ TaskAt("round") /\ up = "stopping"
  /\ tpc' = "drain"
  /\ UNCHANGED <<dups, up, tableVars, work, requestVars, taken, new, base, fileVars, countVars>>

(* if(!session_manager.running || cycle_counter == 0): one round in twenty, *)
(* or when the end has come.                                                *)
Round ==
  /\ TaskAt("round")
  /\ tpc' = "drain"
  /\ UNCHANGED <<dups, up, tableVars, work, requestVars, taken, new, base, fileVars, countVars>>

SkipRound ==
  /\ TaskAt("round") /\ up = "up"
  /\ tpc' = "check"
  /\ UNCHANGED <<dups, up, tableVars, work, requestVars, taken, new, base, fileVars, countVars>>

(* while(!empty(user_manager.work)): empty() takes a full queue for an      *)
(* empty one.                                                               *)
Drain ==
  /\ TaskAt("drain")
  /\ \/ /\ ~IsEmpty(work)
        /\ taken' = Front(work) /\ work' = AfterPop(work) /\ tpc' = "save"
     \/ /\ IsEmpty(work)
        /\ tpc' = IF new > 0 THEN "meta" ELSE "check"
        /\ UNCHANGED <<taken, work>>
  /\ UNCHANGED <<dups, up, tableVars, requestVars, new, base, fileVars, countVars>>

(* The record is appended, under the lock for readers, and flushed. *)
Save ==
  /\ TaskAt("save") /\ wlock = NoThread
  /\ db' = Append(db, users[taken + 1])
  /\ new' = new + 1 /\ taken' = 0 /\ tpc' = "drain"
  /\ UNCHANGED <<dups, up, tableVars, work, requestVars, base, meta, countVars>>

(* Mutant: the number of users in the table is written. *)
SavedAll == Len(users)

SavedUsers == base + new

WriteMeta ==
  /\ TaskAt("meta")
  /\ base' = SavedUsers /\ meta' = SavedUsers /\ new' = 0
  /\ tpc' = "check"
  /\ UNCHANGED <<dups, up, tableVars, work, requestVars, taken, db, countVars>>

-----------------------------------------------------------------------------
(* Start, stop and crash *)

(* http_session_engine_start and load_user_db: as many records are read as  *)
(* .meta.bin says there are; with none, users.db is emptied.                *)
Start ==
  /\ up = "down" /\ starts < MaxStarts
  /\ up' = "up" /\ starts' = starts + 1
  /\ db' = IF meta = 0 THEN <<>> ELSE db
  /\ Loaded(SubSeq(db, 1, meta))
  /\ UNCHANGED <<dups, meta, crashes>>

(* http_session_engine_stop: running is cleared, *)
Stop ==
  /\ up = "up"
  /\ up' = "stopping"
  /\ UNCHANGED <<dups, tableVars, work, requestVars, taskVars, fileVars, countVars>>

(* and when the session task has ended, everything is freed.  The process   *)
(* ends soon after; requests that still run are not followed.               *)
Stopped ==
  /\ up = "stopping" /\ tpc = "out"
  /\ up' = "down"
  /\ Loaded(<<>>)
  /\ UNCHANGED <<dups, fileVars, countVars>>

(* The process dies: what is left is what was flushed to the files. *)
Crash ==
  /\ up # "down" /\ crashes < MaxCrashes
  /\ up' = "down" /\ crashes' = crashes + 1
  /\ Loaded(<<>>)
  /\ UNCHANGED <<dups, fileVars, starts>>

-----------------------------------------------------------------------------
Request(t) == \/ \E n \in Names : Register(t, n) \/ RegisterTaken(t, n)
              \/ LoginBegin(t)
Serve(t) == PushWork(t) \/ UserGet(t)
Task     == Check \/ Round \/ SkipRound \/ Drain \/ Save \/ WriteMeta

Next == (\E t \in Threads : Request(t) \/ Serve(t)) \/ Task \/ Start \/ Stop \/ Stopped \/ Crash

Spec == Init /\ [][Next]_vars

(* Requests that have begun are served; the session task runs, and comes to *)
(* the twentieth of its rounds again and again.                             *)
FairSpec == /\ Spec
            /\ \A t \in Threads : WF_vars(Serve(t))
            /\ WF_vars(Check \/ Drain \/ Save \/ WriteMeta) /\ SF_vars(Round)

(* And a thread gets a lock that is free again and again.                   *)
FairLockSpec == FairSpec /\ \A t \in Threads : SF_vars(UserGet(t))

-----------------------------------------------------------------------------
(* Properties *)

(* Fewer users wait for the session task than its queue has slots.          *)
Fits == Burst < Size

(* Where the k-th user of the table is on the way to the file. *)
Places(k) ==
  {<<"db", i>> : i \in {j \in DOMAIN db : db[j] = users[k]}}
    \cup {<<"queue", i>> : i \in {j \in 1 .. Count(work) : Contents(work)[j] = k - 1}}
    \cup {<<"request", t>> : t \in {s \in Threads : pc[s] = "push" /\ entry[s] = k - 1}}
    \cup {<<"task", 0>> : x \in IF tpc = "save" /\ taken = k - 1 THEN {0} ELSE {}}

(* Every user of the table is written to the file, or on the way there, and *)
(* exactly once, whoever registers at the same time and over any number of  *)
(* stops and starts; "we have to write lock it here to ensure that a        *)
(* parallel request does not register the same user name"                   *)
(* (http_session.c:153-182, 104-121, 306-326).                              *)
StoredOnce ==
  Fits /\ crashes = 0 /\ up # "down" =>
    \A k \in DOMAIN users : Cardinality(Places(k)) = 1

(* Whenever the process ends, be it by a crash, there are as many records   *)
(* in users.db as .meta.bin says: load_user_db, which does not look at what *)
(* fread returns, never leaves entries without a name.                      *)
MetaNotAhead == up = "down" => meta <= Len(db)

(* A user that is registered comes to be saved while the server runs.       *)
EverySaved ==
  \A n \in Names : (Fits /\ ~dups /\ up = "up" /\ n \in Range(users))
                     ~> (n \in Range(db) \/ up # "up")

(* http_session.c, line 157: "return false; // unlock".  Whoever registers, *)
(* a request that logs in gets the lock at some time.                       *)
LoginAnswered == \A t \in Threads : (pc[t] = "login") ~> (pc[t] = "idle" \/ up = "down")
=============================================================================
