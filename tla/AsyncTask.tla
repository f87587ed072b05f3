------------------------------ MODULE AsyncTask ------------------------------
(***************************************************************************)
(* The asynchronous tasks of libs/async.c as the server uses them.  A task *)
(* is a function that a worker of the pool (module ThreadPool) runs on a   *)
(* stack of its own.  Its owner, the thread that called async(), awaits it *)
(* (http_server_stop, http_session_engine_stop) or detaches it at once     *)
(* (the listener, for every request).  Worker and owner settle by the      *)
(* state of the task which of them frees it.                               *)
(*                                                                         *)
(* Tasks do not suspend themselves: no function of the program does.       *)
(*                                                                         *)
(* A worker that goes on with a task that was freed, or on a stack that    *)
(* has a new user, is undefined behaviour: it faults, which ends the       *)
(* process (Faulted), or it is lucky and goes on.                          *)
(***************************************************************************)
EXTENDS Integers, FiniteSets

CONSTANTS
  Awaited,    (* the tasks that are awaited                                  *)
  Detached,   (* the tasks that are detached                                 *)
  Workers,    (* the threads of the pool                                     *)
  NoTask

Tasks == Awaited \cup Detached

ASSUME AsyncAssumption ==
  /\ IsFiniteSet(Tasks) /\ Awaited \cap Detached = {} /\ NoTask \notin Tasks

VARIABLES
  obj,        (* the asyncTask_t: "none", "live" or "freed"                  *)
  state,      (* asyncState_t: "Unborn", "Dead", "Running" or "Detached"      *)
  ret,        (* asyncTask_t.ret: the argument, then the result              *)
  sp,         (* the stack of each task, 0 before it has one                 *)
  stacks,     (* the free stacks: what sps of async_ctrl holds               *)
  mapped,     (* stacks_entries: the stacks there are                        *)
  jobs,       (* the tasks pushed to the pool and not yet taken              *)
  opc,        (* where the owner of each task is                             *)
  got,        (* what await returned to it                                   *)
  wpc, cur    (* where each worker is, and the task it is at work on         *)

taskVars   == <<obj, state, ret, sp>>
ownerVars  == <<opc, got>>
workerVars == <<wpc, cur>>
vars == <<obj, state, ret, sp, stacks, mapped, jobs, opc, got, wpc, cur>>

(* async_engine_start *)
Init ==
  /\ obj = [k \in Tasks |-> "none"] /\ state = [k \in Tasks |-> "Unborn"]
  /\ ret = [k \in Tasks |-> "arg"] /\ sp = [k \in Tasks |-> 0]
  /\ stacks = {1, 2} /\ mapped = 2 /\ jobs = {}
  /\ opc = [k \in Tasks |-> "create"] /\ got = [k \in Tasks |-> "nothing"]
  /\ wpc = [w \in Workers |-> "idle"] /\ cur = [w \in Workers |-> NoTask]

OwnerAt(k, to)  == opc' = [opc EXCEPT ![k] = to]
WorkerAt(w, to) == wpc' = [wpc EXCEPT ![w] = to]

(* A step of w at p, which needs the task to be there. *)
At(w, p) == wpc[w] = p /\ obj[cur[w]] = "live"

-----------------------------------------------------------------------------
(* Stacks, and asyncTask_clean. *)

(* Mutant: the stack stays in the table. *)
KeepStack(s) == UNCHANGED stacks

TakeStack(s) == stacks' = stacks \ {s}

(* async_get_stack: a free stack, or else the table doubles.  Stacks are    *)
(* numbered in the order they are mapped.                                   *)
GetStack(k) ==
  \/ \E s \in stacks :
       sp' = [sp EXCEPT ![k] = s] /\ TakeStack(s) /\ UNCHANGED mapped
  \/ /\ stacks = {}
     /\ sp' = [sp EXCEPT ![k] = mapped + 1]
     /\ stacks' = mapped + 2 .. 2 * mapped /\ mapped' = 2 * mapped

Clean(k) ==
  /\ stacks' = stacks \cup {sp[k]}
  /\ obj' = [obj EXCEPT ![k] = "freed"]

-----------------------------------------------------------------------------
(* The owner *)

(* async() *)
Create(k) ==
  /\ opc[k] = "create"
  /\ obj' = [obj EXCEPT ![k] = "live"]
  /\ jobs' = jobs \cup {k}
  /\ OwnerAt(k, IF k \in Awaited THEN "await" ELSE "detach")
  /\ UNCHANGED <<state, ret, sp, stacks, mapped, got, workerVars>>

(* await, which looks at the state without the lock. *)
Await(k) ==
  /\ opc[k] = "await"
  /\ \/ /\ state[k] = "Dead"
        /\ got' = [got EXCEPT ![k] = ret[k]]
        /\ Clean(k) /\ OwnerAt(k, "done")
     \/ state[k] # "Dead" /\ OwnerAt(k, "wait") /\ UNCHANGED <<obj, stacks, got>>
  /\ UNCHANGED <<state, ret, sp, mapped, jobs, workerVars>>

(* async_wait_suspend: under the lock, sleep if the task is running. *)
WaitSuspend(k) ==
  /\ opc[k] = "wait"
  /\ OwnerAt(k, IF state[k] = "Running" THEN "asleep" ELSE "await")
  /\ UNCHANGED <<taskVars, stacks, mapped, jobs, got, workerVars>>

(* Back from pthread_cond_wait; without a signal too, as POSIX allows.      *)
WokenUp(k) ==
  /\ opc[k] = "woken"
  /\ OwnerAt(k, "await")
  /\ UNCHANGED <<taskVars, stacks, mapped, jobs, got, workerVars>>

SpuriousWakeup(k) ==
  /\ opc[k] = "asleep" /\ OwnerAt(k, "woken")
  /\ UNCHANGED <<taskVars, stacks, mapped, jobs, got, workerVars>>

(* Mutant: a task that has not begun is freed as one that is dead. *)
OwnerFreesUnborn(k) == state[k] \in {"Dead", "Unborn"}

OwnerFrees(k) == state[k] = "Dead"

(* async_detach *)
Detach(k) ==
  /\ opc[k] = "detach"
  /\ \/ OwnerFrees(k) /\ Clean(k) /\ UNCHANGED state
     \/ /\ ~OwnerFrees(k)
        /\ state' = [state EXCEPT ![k] = "Detached"]
        /\ UNCHANGED <<obj, stacks>>
  /\ OwnerAt(k, "done")
  /\ UNCHANGED <<ret, sp, mapped, jobs, got, workerVars>>

-----------------------------------------------------------------------------
(* A worker: async_run, and async_entry on the stack of the task. *)

TakeRun(w) ==
  /\ wpc[w] = "idle"
  /\ \E k \in jobs : /\ obj[k] = "live"
                     /\ jobs' = jobs \ {k}
                     /\ GetStack(k)
                     /\ cur' = [cur EXCEPT ![w] = k]
  /\ WorkerAt(w, "entry")
  /\ UNCHANGED <<obj, state, ret, ownerVars>>

(* if(task->state != AsyncDetached) task->state = AsyncRunning, unlocked.   *)
Entry(w) ==
  /\ At(w, "entry")
  /\ WorkerAt(w, IF state[cur[w]] = "Detached" THEN "body" ELSE "born")
  /\ UNCHANGED <<taskVars, stacks, mapped, jobs, ownerVars, cur>>

Born(w) ==
  /\ At(w, "born")
  /\ state' = [state EXCEPT ![cur[w]] = "Running"]
  /\ WorkerAt(w, "body")
  /\ UNCHANGED <<obj, ret, sp, stacks, mapped, jobs, ownerVars, cur>>

FuncReturns(w) ==
  /\ At(w, "body")
  /\ ret' = [ret EXCEPT ![cur[w]] = "result"]
  /\ WorkerAt(w, "dead")
  /\ UNCHANGED <<obj, state, sp, stacks, mapped, jobs, ownerVars, cur>>

(* async_set_state(task, AsyncDead): the locked part, then the signal. *)
Dead(w) ==
  /\ At(w, "dead")
  /\ state' = [state EXCEPT ![cur[w]] = IF @ = "Detached" THEN "Detached" ELSE "Dead"]
  /\ WorkerAt(w, "signal")
  /\ UNCHANGED <<obj, ret, sp, stacks, mapped, jobs, ownerVars, cur>>

(* Mutant: the state is changed and nobody told. *)
WakeNobody(k) == UNCHANGED opc

Wake(k) == opc' = [opc EXCEPT ![k] = IF @ = "asleep" THEN "woken" ELSE @]

Signal(w) ==
  /\ At(w, "signal")
  /\ Wake(cur[w])
  /\ WorkerAt(w, "leave")
  /\ UNCHANGED <<taskVars, stacks, mapped, jobs, got, cur>>

(* setcontext: back to the stack of the worker. *)
Leave(w) ==
  /\ wpc[w] = "leave"
  /\ WorkerAt(w, "after_run")
  /\ UNCHANGED <<taskVars, stacks, mapped, jobs, ownerVars, cur>>

(* What async_run does then. *)
AfterRun(w) ==
  /\ At(w, "after_run")
  /\ \/ state[cur[w]] = "Detached" /\ Clean(cur[w])
     \/ state[cur[w]] = "Dead" /\ UNCHANGED <<obj, stacks>>
  /\ WorkerAt(w, "idle") /\ cur' = [cur EXCEPT ![w] = NoTask]
  /\ UNCHANGED <<state, ret, sp, mapped, jobs, ownerVars>>

(* The signal, or the look at the state, in a task that was freed. *)
UseAfterFree(w) ==
  /\ wpc[w] \notin {"idle", "leave", "fault"} /\ obj[cur[w]] = "freed"
  /\ \/ WorkerAt(w, "fault")
     \/ wpc[w] = "signal" /\ WorkerAt(w, "leave")
     \/ wpc[w] = "after_run" /\ WorkerAt(w, "idle")
  /\ UNCHANGED <<taskVars, stacks, mapped, jobs, ownerVars, cur>>

OnStack(w) == wpc[w] \in {"entry", "born", "body", "dead", "signal", "leave"}

(* w is still on a stack that was freed with its task and given to another. *)
StackOverwritten(w) ==
  /\ wpc[w] \in {"signal", "leave"}
  /\ \E v \in Workers \ {w} : OnStack(v) /\ sp[cur[v]] = sp[cur[w]]
  /\ WorkerAt(w, "fault")
  /\ UNCHANGED <<taskVars, stacks, mapped, jobs, ownerVars, cur>>

-----------------------------------------------------------------------------
Faulted == \E w \in Workers : wpc[w] = "fault"

Owner(k)  == Create(k) \/ Await(k) \/ WaitSuspend(k) \/ WokenUp(k) \/ Detach(k)
Worker(w) == \/ TakeRun(w) \/ Entry(w) \/ Born(w) \/ FuncReturns(w) \/ Dead(w) \/ Signal(w)
             \/ Leave(w) \/ AfterRun(w) \/ UseAfterFree(w) \/ StackOverwritten(w)

Next == /\ ~Faulted
        /\ \/ \E k \in Tasks : Owner(k) \/ SpuriousWakeup(k)
           \/ \E w \in Workers : Worker(w)

Spec == Init /\ [][Next]_vars

(* Threads run, and functions return. *)
FairSpec == /\ Spec
            /\ \A k \in Tasks : WF_vars(~Faulted /\ Owner(k))
            /\ \A w \in Workers : WF_vars(~Faulted /\ Worker(w))

-----------------------------------------------------------------------------
(* Properties *)

(* No two tasks that are not freed share a stack, and none has one that     *)
(* async_get_stack would give to another (async.c:28-61).                   *)
StacksExclusive ==
  \A k \in Tasks : obj[k] = "live" /\ sp[k] # 0 =>
    /\ sp[k] \notin stacks
    /\ \A j \in Tasks \ {k} : obj[j] = "live" => sp[j] # sp[k]

(* A task is not freed before its function has returned, though its owner   *)
(* may await or detach it at any time, and though the unlocked test and set *)
(* of the state as it starts may undo a detach (async.c:93, 108, 266, 287). *)
NotFreedEarly == \A k \in Tasks : obj[k] = "freed" => ret[k] = "result"

(* await comes to an end, with the result and not the argument that ret held*)
(* before: the state is changed before the signal and looked at under the   *)
(* lock, so that no signal is lost (async.c:63-82).                         *)
AwaitReturns ==
  \A k \in Awaited : (opc[k] = "await") ~> ((opc[k] = "done" /\ got[k] = "result") \/ Faulted)
=============================================================================
