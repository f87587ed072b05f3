---------------------------- MODULE AsyncTheorems ----------------------------
(***************************************************************************)
(* Proofs about AsyncTask, for any number of tasks and workers: no task is *)
(* freed before its function has returned, no two tasks that are not freed *)
(* share a stack, and await gives the result of the function.  All rest on *)
(* who may still free a task: its owner as long as it has not finished     *)
(* with it, and the worker only once the owner has detached it.            *)
(*                                                                         *)
(* And about Builder, which starts processes and waits for them as the     *)
(* engine does with tasks, for any sources, libraries and number of runs:  *)
(* nobody is left behind at its end, no two tools meet in a file, and the  *)
(* program of a run in which nothing failed is made from the sources as    *)
(* they are.  These rest on who waits for which child.  And --sync leaves  *)
(* the newer of two files, by an induction over those of the toolkit.      *)
(***************************************************************************)
EXTENDS AsyncTask, Builder, FiniteSetTheorems, WellFoundedInduction, TLAPS

WorkerPlaces ==
  {"idle", "entry", "born", "body", "dead", "signal", "leave", "after_run", "fault"}

OwnerPlaces == {"create", "detach", "await", "wait", "asleep", "woken", "done"}

(* The task of a worker has a value while the worker is at work.            *)
TypeOK ==
  /\ obj \in [Tasks -> {"none", "live", "freed"}]
  /\ state \in [Tasks -> {"Unborn", "Dead", "Running", "Detached"}]
  /\ ret \in [Tasks -> {"arg", "result"}]
  /\ sp \in [Tasks -> Nat]
  /\ mapped \in Nat /\ mapped >= 2 /\ stacks \subseteq 1..mapped
  /\ jobs \subseteq Tasks
  /\ opc \in [Tasks -> OwnerPlaces]
  /\ wpc \in [Workers -> WorkerPlaces]
  /\ DOMAIN cur = Workers
  /\ \A w \in Workers : wpc[w] # "idle" => cur[w] \in Tasks

(* A task that is not created has been through nothing, and one the owner   *)
(* has not finished with is not freed: the worker only frees a task that is *)
(* detached, and detaching it is the last the owner does.                   *)
OwnerHolds ==
  \A k \in Tasks :
    /\ opc[k] = "create" => state[k] = "Unborn" /\ sp[k] = 0 /\ obj[k] = "none"
    /\ opc[k] \notin {"create", "done"} => obj[k] = "live"
    /\ state[k] = "Detached" => opc[k] = "done"

(* Who is past the function: a worker that is to set the state or has set   *)
(* it, and every task whose state is Dead.                                  *)
DoneIsDone ==
  /\ \A w \in Workers :
       wpc[w] \in {"dead", "signal", "leave", "after_run"} => ret[cur[w]] = "result"
  /\ \A k \in Tasks : state[k] = "Dead" => ret[k] = "result"

(* A task has a stack from the moment a worker takes it.                    *)
StackTaken ==
  /\ \A k \in Tasks : sp[k] <= mapped
  /\ \A w \in Workers : wpc[w] # "idle" => sp[cur[w]] # 0
  /\ \A k \in Tasks : state[k] = "Dead" => sp[k] # 0

IInv == /\ TypeOK /\ OwnerHolds /\ DoneIsDone /\ StackTaken
        /\ NotFreedEarly /\ StacksExclusive

-----------------------------------------------------------------------------
(* The initial states: no task is created and both stacks are free.         *)
LEMMA InitIInv == Init => IInv
<1>. SUFFICES ASSUME Init PROVE IInv
  OBVIOUS
<1>1. TypeOK
  BY DEF Init, TypeOK, WorkerPlaces, OwnerPlaces
<1>2. OwnerHolds /\ DoneIsDone /\ StackTaken
  BY DEF Init, OwnerHolds, DoneIsDone, StackTaken
<1>3. NotFreedEarly /\ StacksExclusive
  BY DEF Init, NotFreedEarly, StacksExclusive
<1>. QED
  BY <1>1, <1>2, <1>3 DEF IInv

(* asyncTask_clean, called for a task that is there, has a stack and has    *)
(* returned: the stack it gives back is nobody else's.                      *)
LEMMA CleanIsSafe ==
  ASSUME IInv, NEW k \in Tasks, obj[k] = "live", sp[k] # 0, ret[k] = "result",
         Clean(k), UNCHANGED <<ret, sp, mapped>>
  PROVE  /\ obj' \in [Tasks -> {"none", "live", "freed"}]
         /\ stacks' \subseteq 1..mapped'
         /\ NotFreedEarly' /\ StacksExclusive'
<1>. USE DEF IInv
<1>1. sp[k] \in 1..mapped
  BY DEF TypeOK, StackTaken
<1>2. NotFreedEarly'
  BY DEF Clean, TypeOK, NotFreedEarly
<1>3. StacksExclusive'
  BY DEF Clean, TypeOK, StacksExclusive
<1>. QED
  BY <1>1, <1>2, <1>3 DEF Clean, TypeOK

(* async_get_stack: what it returns no task that is not freed has, whether  *)
(* it was free or is one of those that are newly mapped.                    *)
LEMMA StackIsNew ==
  ASSUME IInv, NEW k \in Tasks, GetStack(k)
  PROVE  /\ sp' \in [Tasks -> Nat] /\ mapped' \in Nat /\ mapped' >= mapped
         /\ stacks' \subseteq 1..mapped'
         /\ \A j \in Tasks : sp'[j] <= mapped'
         /\ sp'[k] # 0 /\ \A j \in Tasks \ {k} : sp'[j] = sp[j]
         /\ UNCHANGED obj => StacksExclusive'
<1>. USE DEF IInv
<1>1. CASE stacks # {}
  <2>1. PICK s \in stacks : /\ sp' = [sp EXCEPT ![k] = s]
                            /\ stacks' = stacks \ {s} /\ mapped' = mapped
    BY <1>1 DEF GetStack, TakeStack
  <2>2. s \in 1..mapped
    BY DEF TypeOK
  <2>3. UNCHANGED obj => StacksExclusive'
    BY <2>1, <2>2 DEF TypeOK, StacksExclusive
  <2>. QED
    BY <2>1, <2>2, <2>3 DEF TypeOK, StackTaken
<1>2. CASE stacks = {}
  <2>1. /\ sp' = [sp EXCEPT ![k] = mapped + 1]
        /\ stacks' = mapped + 2 .. 2 * mapped /\ mapped' = 2 * mapped
    BY <1>2 DEF GetStack, TakeStack
  <2>2. mapped + 1 <= mapped' /\ mapped' \in Nat /\ stacks' \subseteq 1..mapped'
    BY <2>1 DEF TypeOK
  <2>3. UNCHANGED obj => StacksExclusive'
    BY <2>1 DEF TypeOK, StackTaken, StacksExclusive
  <2>. QED
    BY <2>1, <2>2, <2>3 DEF TypeOK, StackTaken
<1>. QED
  BY <1>1, <1>2

-----------------------------------------------------------------------------
(* The owner *)

(* async(): a task that is created anew has no stack yet. *)
LEMMA CreateKeeps ==
  ASSUME IInv, NEW k \in Tasks, Create(k)
  PROVE  IInv'
<1>. USE DEF IInv, Create, TypeOK, OwnerPlaces, WorkerPlaces,
       OwnerAt, WorkerAt, taskVars, ownerVars, workerVars
<1>1. TypeOK'
  OBVIOUS
<1>2. OwnerHolds'
  BY DEF OwnerHolds
<1>3. DoneIsDone'
  BY DEF DoneIsDone
<1>4. StackTaken'
  BY DEF StackTaken
<1>5. NotFreedEarly'
  BY DEF NotFreedEarly
<1>6. StacksExclusive'
  BY DEF StacksExclusive, OwnerHolds
<1>. QED
  BY <1>1, <1>2, <1>3, <1>4, <1>5, <1>6

(* await: a task that is dead is cleaned by the owner that still holds it.   *)
LEMMA AwaitKeeps ==
  ASSUME IInv, NEW k \in Tasks, Await(k)
  PROVE  IInv'
<1>. USE DEF IInv, Await
<1>1. CASE state[k] = "Dead"
  <2>1. obj[k] = "live" /\ sp[k] # 0 /\ ret[k] = "result"
    BY <1>1 DEF OwnerHolds, StackTaken, DoneIsDone
  <2>2. Clean(k) /\ OwnerAt(k, "done") /\ UNCHANGED <<state, ret, sp, mapped, jobs, workerVars>>
    BY <1>1
  <2>3. /\ obj' \in [Tasks -> {"none", "live", "freed"}] /\ stacks' \subseteq 1..mapped'
        /\ NotFreedEarly' /\ StacksExclusive'
    BY <2>1, <2>2, CleanIsSafe
  <2>4. TypeOK'
    BY <2>2, <2>3 DEF TypeOK, OwnerAt, OwnerPlaces, workerVars
  <2>5. OwnerHolds'
    BY <2>2 DEF OwnerHolds, OwnerAt, Clean, TypeOK
  <2>6. DoneIsDone' /\ StackTaken'
    BY <2>2 DEF DoneIsDone, StackTaken, workerVars
  <2>. QED
    BY <2>3, <2>4, <2>5, <2>6
<1>2. CASE state[k] # "Dead"
  <2>1. OwnerAt(k, "wait") /\ UNCHANGED <<taskVars, stacks, mapped, jobs, got, workerVars>>
    BY <1>2 DEF taskVars
  <2>2. TypeOK' /\ OwnerHolds'
    BY <2>1 DEF TypeOK, OwnerHolds, OwnerAt, OwnerPlaces, taskVars, workerVars
  <2>3. DoneIsDone' /\ StackTaken' /\ NotFreedEarly' /\ StacksExclusive'
    BY <2>1 DEF DoneIsDone, StackTaken, NotFreedEarly, StacksExclusive, taskVars, workerVars
  <2>. QED
    BY <2>2, <2>3
<1>. QED
  BY <1>1, <1>2

(* async_wait_suspend, pthread_cond_wait and its return move the owner from *)
(* one place where it holds the task to another.                            *)
LEMMA WaitingKeeps ==
  ASSUME IInv, NEW k \in Tasks, WaitSuspend(k) \/ WokenUp(k) \/ SpuriousWakeup(k)
  PROVE  IInv'
<1>. USE DEF IInv, WaitSuspend, WokenUp, SpuriousWakeup
<1>1. PICK to \in {"asleep", "await", "woken"} :
        /\ opc[k] \in {"wait", "woken", "asleep"} /\ opc' = [opc EXCEPT ![k] = to]
        /\ UNCHANGED <<taskVars, stacks, mapped, jobs, workerVars>>
  BY DEF OwnerAt
<1>2. TypeOK' /\ OwnerHolds'
  BY <1>1 DEF TypeOK, OwnerHolds, OwnerPlaces, taskVars, workerVars
<1>3. DoneIsDone' /\ StackTaken' /\ NotFreedEarly' /\ StacksExclusive'
  BY <1>1 DEF DoneIsDone, StackTaken, NotFreedEarly, StacksExclusive, taskVars, workerVars
<1>. QED
  BY <1>2, <1>3

(* async_detach: the owner frees a task that is dead, or leaves it to the   *)
(* worker and has finished with it.                                         *)
LEMMA DetachKeeps ==
  ASSUME IInv, NEW k \in Tasks, Detach(k)
  PROVE  IInv'
<1>. USE DEF IInv
<1>1. CASE state[k] = "Dead"
  <2>1. obj[k] = "live" /\ sp[k] # 0 /\ ret[k] = "result"
    BY <1>1 DEF Detach, OwnerHolds, StackTaken, DoneIsDone
  <2>2. Clean(k) /\ OwnerAt(k, "done") /\ UNCHANGED <<state, ret, sp, mapped, jobs, workerVars>>
    BY <1>1 DEF Detach, OwnerFrees
  <2>3. /\ obj' \in [Tasks -> {"none", "live", "freed"}] /\ stacks' \subseteq 1..mapped'
        /\ NotFreedEarly' /\ StacksExclusive'
    BY <2>1, <2>2, CleanIsSafe
  <2>4. TypeOK'
    BY <2>2, <2>3 DEF TypeOK, OwnerAt, OwnerPlaces, workerVars
  <2>5. OwnerHolds'
    BY <2>2 DEF OwnerHolds, OwnerAt, Clean, TypeOK
  <2>6. DoneIsDone' /\ StackTaken'
    BY <2>2 DEF DoneIsDone, StackTaken, workerVars
  <2>. QED
    BY <2>3, <2>4, <2>5, <2>6
<1>2. CASE state[k] # "Dead"
  <2>1. /\ state' = [state EXCEPT ![k] = "Detached"] /\ OwnerAt(k, "done")
        /\ UNCHANGED <<obj, ret, sp, stacks, mapped, jobs, workerVars>>
    BY <1>2 DEF Detach, OwnerFrees
  <2>2. TypeOK' /\ OwnerHolds'
    BY <2>1 DEF TypeOK, OwnerHolds, OwnerAt, OwnerPlaces, workerVars
  <2>3. DoneIsDone' /\ StackTaken'
    BY <2>1 DEF DoneIsDone, StackTaken, TypeOK, workerVars
  <2>4. NotFreedEarly' /\ StacksExclusive'
    BY <2>1 DEF NotFreedEarly, StacksExclusive
  <2>. QED
    BY <2>2, <2>3, <2>4
<1>. QED
  BY <1>1, <1>2

-----------------------------------------------------------------------------
(* A worker *)

(* async_run takes a task: from here on it has a stack, and no other has it.*)
LEMMA TakeRunKeeps ==
  ASSUME IInv, NEW w \in Workers, TakeRun(w)
  PROVE  IInv'
<1>. USE DEF IInv
<1>1. PICK k \in jobs : /\ obj[k] = "live" /\ jobs' = jobs \ {k}
                        /\ GetStack(k) /\ cur' = [cur EXCEPT ![w] = k]
  BY DEF TakeRun
<1>2. k \in Tasks /\ WorkerAt(w, "entry") /\ UNCHANGED <<obj, state, ret, ownerVars>>
  BY DEF TakeRun, TypeOK
<1>3. /\ sp' \in [Tasks -> Nat] /\ mapped' \in Nat /\ mapped' >= mapped
      /\ stacks' \subseteq 1..mapped' /\ \A j \in Tasks : sp'[j] <= mapped'
      /\ sp'[k] # 0 /\ \A j \in Tasks \ {k} : sp'[j] = sp[j]
      /\ StacksExclusive'
  BY <1>1, <1>2, StackIsNew
<1>4. TypeOK'
  BY <1>1, <1>2, <1>3 DEF TypeOK, WorkerAt, WorkerPlaces, ownerVars
<1>5. OwnerHolds'
  BY <1>1, <1>2, <1>3 DEF OwnerHolds, ownerVars
<1>6. DoneIsDone' /\ NotFreedEarly'
  BY <1>1, <1>2 DEF DoneIsDone, NotFreedEarly, WorkerAt, TypeOK
<1>7. StackTaken'
  BY <1>1, <1>2, <1>3 DEF StackTaken, WorkerAt, TypeOK
<1>. QED
  BY <1>3, <1>4, <1>5, <1>6, <1>7

(* Steps that leave the tasks and the stacks alone, and the worker not past *)
(* the function unless it was: a look at the state, the switch of stacks,   *)
(* the signal, and whatever is done with a task or a stack that is gone.    *)
LEMMA LookingKeeps ==
  ASSUME IInv, NEW w \in Workers,
         Entry(w) \/ Signal(w) \/ Leave(w) \/ UseAfterFree(w) \/ StackOverwritten(w)
  PROVE  IInv'
<1>. USE DEF IInv
<1>1. PICK to \in WorkerPlaces :
        /\ wpc[w] # "idle" /\ wpc' = [wpc EXCEPT ![w] = to]
        /\ to \in {"dead", "signal", "leave", "after_run"} =>
             wpc[w] \in {"dead", "signal", "leave", "after_run"}
        /\ UNCHANGED <<taskVars, stacks, mapped, jobs, cur>>
  BY DEF Entry, Signal, Leave, UseAfterFree, StackOverwritten, At, WorkerAt, WorkerPlaces, TypeOK
<1>2. /\ opc' \in [Tasks -> OwnerPlaces]
      /\ \A k \in Tasks : opc'[k] = opc[k] \/ (opc[k] = "asleep" /\ opc'[k] = "woken")
  <2>1. CASE Signal(w)
    BY <2>1 DEF Signal, Wake, TypeOK, OwnerPlaces
  <2>2. CASE UNCHANGED opc
    BY <2>2 DEF TypeOK
  <2>. QED
    BY <2>1, <2>2 DEF Entry, Leave, UseAfterFree, StackOverwritten, ownerVars
<1>3. TypeOK' /\ DoneIsDone' /\ StackTaken'
  BY <1>1, <1>2 DEF TypeOK, DoneIsDone, StackTaken, taskVars
<1>4. OwnerHolds' /\ NotFreedEarly' /\ StacksExclusive'
  BY <1>1, <1>2 DEF OwnerHolds, NotFreedEarly, StacksExclusive, taskVars
<1>. QED
  BY <1>3, <1>4

(* The state becomes Running, which a detach may overwrite or be lost to.   *)
LEMMA BornKeeps ==
  ASSUME IInv, NEW w \in Workers, Born(w)
  PROVE  IInv'
<1>. USE DEF IInv, Born, At, TypeOK, OwnerPlaces, WorkerPlaces,
       OwnerAt, WorkerAt, taskVars, ownerVars, workerVars
<1>1. TypeOK'
  OBVIOUS
<1>2. OwnerHolds'
  BY DEF OwnerHolds
<1>3. DoneIsDone'
  BY DEF DoneIsDone
<1>4. StackTaken'
  BY DEF StackTaken
<1>5. NotFreedEarly'
  BY DEF NotFreedEarly
<1>6. StacksExclusive'
  BY DEF StacksExclusive
<1>. QED
  BY <1>1, <1>2, <1>3, <1>4, <1>5, <1>6

(* The function returns. *)
LEMMA FuncReturnsKeeps ==
  ASSUME IInv, NEW w \in Workers, FuncReturns(w)
  PROVE  IInv'
<1>. USE DEF IInv, FuncReturns, At, TypeOK, OwnerPlaces, WorkerPlaces,
       OwnerAt, WorkerAt, taskVars, ownerVars, workerVars
<1>1. TypeOK'
  OBVIOUS
<1>2. OwnerHolds'
  BY DEF OwnerHolds
<1>3. DoneIsDone'
  BY DEF DoneIsDone
<1>4. StackTaken'
  BY DEF StackTaken
<1>5. NotFreedEarly'
  BY DEF NotFreedEarly
<1>6. StacksExclusive'
  BY DEF StacksExclusive
<1>. QED
  BY <1>1, <1>2, <1>3, <1>4, <1>5, <1>6

(* async_set_state(task, AsyncDead), after the function. *)
LEMMA DeadKeeps ==
  ASSUME IInv, NEW w \in Workers, Dead(w)
  PROVE  IInv'
<1>. USE DEF IInv, Dead, At, TypeOK, OwnerPlaces, WorkerPlaces,
       OwnerAt, WorkerAt, taskVars, ownerVars, workerVars
<1>1. TypeOK'
  OBVIOUS
<1>2. OwnerHolds'
  BY DEF OwnerHolds
<1>3. DoneIsDone'
  BY DEF DoneIsDone
<1>4. StackTaken'
  BY DEF StackTaken
<1>5. NotFreedEarly'
  BY DEF NotFreedEarly
<1>6. StacksExclusive'
  BY DEF StacksExclusive
<1>. QED
  BY <1>1, <1>2, <1>3, <1>4, <1>5, <1>6

(* async_run, once the function is done: it frees a task that is detached,  *)
(* and so one its owner has finished with.                                  *)
LEMMA AfterRunKeeps ==
  ASSUME IInv, NEW w \in Workers, AfterRun(w)
  PROVE  IInv'
<1>. USE DEF IInv
<1>. DEFINE k == cur[w]
<1>1. /\ wpc[w] = "after_run" /\ obj[k] = "live"
      /\ WorkerAt(w, "idle") /\ cur' = [cur EXCEPT ![w] = NoTask]
      /\ UNCHANGED <<state, ret, sp, mapped, jobs, ownerVars>>
  BY DEF AfterRun, At
<1>2. k \in Tasks /\ ret[k] = "result" /\ sp[k] # 0
  BY <1>1 DEF TypeOK, DoneIsDone, StackTaken
<1>3. DoneIsDone' /\ StackTaken'
  BY <1>1 DEF DoneIsDone, StackTaken, WorkerAt, TypeOK
<1>4. CASE state[k] = "Detached" /\ Clean(k)
  <2>1. /\ obj' \in [Tasks -> {"none", "live", "freed"}] /\ stacks' \subseteq 1..mapped'
        /\ NotFreedEarly' /\ StacksExclusive'
    BY <1>1, <1>2, <1>4, CleanIsSafe
  <2>2. TypeOK'
    BY <1>1, <2>1 DEF TypeOK, WorkerAt, WorkerPlaces, ownerVars
  <2>3. OwnerHolds'
    BY <1>1, <1>2, <1>4 DEF OwnerHolds, Clean, TypeOK, ownerVars
  <2>. QED
    BY <1>3, <2>1, <2>2, <2>3
<1>5. CASE UNCHANGED <<obj, stacks>>
  <2>1. TypeOK'
    BY <1>1, <1>5 DEF TypeOK, WorkerAt, WorkerPlaces, ownerVars
  <2>2. OwnerHolds' /\ NotFreedEarly' /\ StacksExclusive'
    BY <1>1, <1>5 DEF OwnerHolds, NotFreedEarly, StacksExclusive, ownerVars
  <2>. QED
    BY <1>3, <2>1, <2>2
<1>. QED
  BY <1>4, <1>5 DEF AfterRun

-----------------------------------------------------------------------------
(* Every step keeps the invariant. *)
LEMMA NextIInv == IInv /\ [Next]_vars => IInv'
<1>. SUFFICES ASSUME IInv, [Next]_vars PROVE IInv'
  OBVIOUS
<1>1. ASSUME NEW k \in Tasks, Owner(k) \/ SpuriousWakeup(k) PROVE IInv'
  BY <1>1, CreateKeeps, AwaitKeeps, WaitingKeeps, DetachKeeps DEF Owner
<1>2. ASSUME NEW w \in Workers, Worker(w) PROVE IInv'
  BY <1>2, TakeRunKeeps, LookingKeeps, BornKeeps, FuncReturnsKeeps, DeadKeeps, AfterRunKeeps
     DEF Worker
<1>3. CASE UNCHANGED vars
  BY <1>3 DEF vars, IInv, TypeOK, OwnerHolds, DoneIsDone, StackTaken, NotFreedEarly, StacksExclusive
<1>. QED
  BY <1>1, <1>2, <1>3 DEF Next

(* The inductive invariant holds in every state. *)
LEMMA Safety == Spec => []IInv
BY InitIInv, NextIInv, PTL DEF Spec

(* A task is freed only after its function has returned, whatever the owner *)
(* and the worker do in between (async.c:93, 108, 266, 287).                *)
THEOREM FreedAfterReturn == Spec => []NotFreedEarly
<1>1. IInv => NotFreedEarly
  BY DEF IInv
<1>. QED
  BY <1>1, Safety, PTL

(* Two tasks that are not freed never have the same stack, and none has one *)
(* that async_get_stack may still give out (async.c:28-61).                 *)
THEOREM OneTaskPerStack == Spec => []StacksExclusive
<1>1. IInv => StacksExclusive
  BY DEF IInv
<1>. QED
  BY <1>1, Safety, PTL

-----------------------------------------------------------------------------
(* What await returns: the result of the function, never the argument that  *)
(* ret held before.                                                         *)
AwaitsResult == \A k \in Awaited : opc[k] = "done" => got[k] = "result"

(* An owner that awaits a task does not detach it. *)
AwaitOnly == DOMAIN got = Tasks /\ \A k \in Awaited : opc[k] # "detach"

(* Only await itself ends with the result in the hands of the owner. *)
LEMMA ResultKept ==
  ASSUME IInv, AwaitOnly, AwaitsResult, [Next]_vars
  PROVE  AwaitOnly' /\ AwaitsResult'
<1>. USE DEF AwaitOnly, AwaitsResult
<1>1. /\ opc \in [Tasks -> OwnerPlaces] /\ Tasks = Awaited \cup Detached
      /\ \A k \in Tasks : state[k] = "Dead" => ret[k] = "result"
  BY DEF IInv, TypeOK, DoneIsDone, Tasks
<1>2. ASSUME NEW k \in Tasks, Owner(k) \/ SpuriousWakeup(k)
      PROVE  AwaitOnly' /\ AwaitsResult'
  <2>1. CASE Create(k)
    BY <1>1, <2>1 DEF Create, OwnerAt
  <2>2. CASE Await(k)
    BY <1>1, <2>2 DEF Await, OwnerAt
  <2>3. CASE WaitSuspend(k) \/ WokenUp(k) \/ SpuriousWakeup(k)
    BY <1>1, <2>3 DEF WaitSuspend, WokenUp, SpuriousWakeup, OwnerAt
  <2>4. CASE Detach(k)
    BY <1>1, <2>4 DEF Detach, OwnerAt
  <2>. QED
    BY <1>2, <2>1, <2>2, <2>3, <2>4 DEF Owner
<1>3. ASSUME NEW w \in Workers, Worker(w)
      PROVE  AwaitOnly' /\ AwaitsResult'
  <2>1. CASE Signal(w)
    <3>1. got' = got /\ \A k \in Tasks : opc'[k] \in {opc[k], "woken"}
      BY <1>1, <2>1 DEF Signal, Wake
    <3>. QED
      BY <1>1, <3>1
  <2>2. CASE ~Signal(w)
    <3>1. UNCHANGED <<opc, got>>
      BY <1>3, <2>2 DEF Worker, TakeRun, Entry, Born, FuncReturns, Dead, Leave, AfterRun,
         UseAfterFree, StackOverwritten, ownerVars
    <3>. QED
      BY <3>1
  <2>. QED
    BY <2>1, <2>2
<1>4. CASE UNCHANGED vars
  BY <1>4 DEF vars
<1>. QED
  BY <1>2, <1>3, <1>4 DEF Next

(* await returns the result of the task and nothing else, though it looks at*)
(* the state without the lock and copies ret after that (async.c:256-270):  *)
(* the state is Dead only once ret is the result.                           *)
THEOREM AwaitGivesResult == Spec => []AwaitsResult
<1>1. Init => AwaitOnly /\ AwaitsResult
  BY DEF Init, AwaitOnly, AwaitsResult, Tasks
<1>2. IInv /\ AwaitOnly /\ AwaitsResult /\ [Next]_vars => (AwaitOnly /\ AwaitsResult)'
  BY ResultKept
<1>. QED
  BY <1>1, <1>2, Safety, PTL DEF Spec

-----------------------------------------------------------------------------
(* The build tool                                                          *)

Jobs   == Sources \cup {"async.a", "async.so", "server.a", "app"}
Pids   == {AnyPid} \cup (Builders \X Jobs)
Places == {"obj", "async.a", "server.a", "app"}

StepNames ==
  {"off", "sync", "libs", "ar", "so", "wait", "server", "server.a", "remove", "rest", "link", "run"}

(* What a step compiles, and the children it may have.                      *)
GroupOf(step) ==
  CASE step \in {"sync", "libs"} -> Libs
    [] step = "server"           -> Server
    [] step = "rest"             -> Rest
    [] OTHER                     -> {}

JobsAt(a) ==
  CASE a.step \in {"libs", "server", "rest"} -> GroupOf(a.step) \ a.todo
    [] a.step = "so"     -> {"async.a"}
    [] a.step = "wait"   -> {"async.a", "async.so"}
    [] a.step = "remove" -> {"server.a"}
    [] a.step = "run"    -> {"app"}
    [] OTHER             -> {}

BuilderStates ==
  {a \in [step : StepNames, todo : SUBSET Sources, pids : Seq(Pids)] : a.todo \subseteq GroupOf(a.step)}

BuilderTypeOK ==
  /\ at \in [Builders -> BuilderStates]
  /\ tools \subseteq Builders \X Jobs /\ zombies \subseteq Builders \X Jobs
  /\ second \in {NoPid} \cup ({1} \X Jobs)
  /\ tools \cap zombies = {} /\ second \notin tools \cup zombies
  /\ noExec \in BOOLEAN /\ failed \in BOOLEAN /\ clean \in BOOLEAN

(* Each child of a builder is waited for: by its pid after the two that run *)
(* side by side, and by being the only one everywhere else.                 *)
WaitsFor(a, children) ==
  /\ \A c \in children : c[2] \in JobsAt(a)
  /\ a.step \in {"so", "wait"} => \A c \in children : \E i \in DOMAIN a.pids : a.pids[i] = c
  /\ a.step \notin {"so", "wait"} =>
       \/ a.pids = <<>> /\ children = {}
       \/ a.pids = <<AnyPid>> /\ \E c \in children : children = {c}

(* The second builder is a child of the first, whose run has failed.        *)
SecondIsChild ==
  /\ at[2].step = "off" <=> second = NoPid
  /\ second # NoPid => noExec /\ failed

ChildrenIInv ==
  /\ BuilderTypeOK /\ SecondIsChild
  /\ \A b \in Builders : WaitsFor(at[b], Children(b))

-----------------------------------------------------------------------------
(* Without a pid to wait for there are no children.                         *)
LEMMA NoPidsNoChildren ==
  ASSUME NEW a, NEW children, WaitsFor(a, children), a.pids = <<>>
  PROVE  children = {}
<1>1. CASE a.step \in {"so", "wait"}
  <2>1. DOMAIN a.pids = {}
    OBVIOUS
  <2>. QED
    BY <1>1, <2>1 DEF WaitsFor
<1>2. CASE a.step \notin {"so", "wait"}
  <2>1. a.pids # <<AnyPid>>
    OBVIOUS
  <2>. QED
    BY <1>2, <2>1 DEF WaitsFor
<1>. QED
  BY <1>1, <1>2

(* Every child has one of the builders as its parent, so that with no       *)
(* children of either there are none.                                       *)
LEMMA ParentsAreBuilders ==
  ASSUME BuilderTypeOK
  PROVE  /\ \A p \in tools \cup zombies : p[1] \in Builders /\ p[2] \in Jobs /\ p \in Children(p[1])
         /\ second # NoPid => second[1] = 1 /\ second \in Children(1)
         /\ \A b \in Builders : \A c \in Children(b) :
              c \in Builders \X Jobs /\ c[1] = b /\ c # AnyPid /\ (b = 2 => c # second)
<1>1. /\ \A p \in Builders \X Jobs : p[1] \in Builders /\ p[2] \in Jobs /\ p # AnyPid
      /\ NoPid[1] = 0 /\ AnyPid[1] = 0 /\ 0 \notin Builders
      /\ second = NoPid \/ (second \in Builders \X Jobs /\ second[1] = 1)
  BY DEF Builders, NoPid, AnyPid, BuilderTypeOK
<1>2. tools \cup zombies \subseteq Builders \X Jobs
  BY DEF BuilderTypeOK
<1>. QED
  BY <1>1, <1>2 DEF Children

(* A builder goes on to a step in which it waits for the same children.     *)
LEMMA GoKeeps ==
  ASSUME ChildrenIInv, NEW b \in Builders, NEW to \in BuilderStates, Goes(b, to),
         at[b].step # "off", to.step # "off", WaitsFor(to, Children(b))
  PROVE  ChildrenIInv'
<1>1. /\ at' = [at EXCEPT ![b] = to]
      /\ UNCHANGED <<tools, zombies, second, clean, failed, noExec>>
  BY DEF Goes
<1>2. at'[b] = to /\ \A c \in Builders : c # b => at'[c] = at[c]
  BY <1>1 DEF ChildrenIInv, BuilderTypeOK
<1>3. \A c : Children(c)' = Children(c)
  BY <1>1 DEF Children
<1>4. BuilderTypeOK'
  BY <1>1 DEF ChildrenIInv, BuilderTypeOK
<1>5. SecondIsChild'
  BY <1>1, <1>2 DEF ChildrenIInv, SecondIsChild, Builders
<1>6. \A c \in Builders : WaitsFor(at'[c], Children(c)')
  BY <1>2, <1>3 DEF ChildrenIInv
<1>. QED
  BY <1>4, <1>5, <1>6 DEF ChildrenIInv

(* A builder forks: it waits for what it has started; if fork fails, or as  *)
(* the child of a failed execvp, it waits for what was there before.        *)
LEMMA ForkKeeps ==
  ASSUME ChildrenIInv, NEW b \in Builders, NEW job \in Jobs,
         NEW parent \in BuilderStates, NEW child \in BuilderStates,
         Fork(b, job, parent, child), at[b].step # "off",
         parent.step # "off", child.step # "off", <<b, job>> \notin Children(b),
         WaitsFor(parent, Children(b) \cup {<<b, job>>}),
         WaitsFor(child, Children(b)), WaitsFor(child, {})
  PROVE  ChildrenIInv'
<1>0. BuilderTypeOK /\ SecondIsChild /\ at \in [Builders -> BuilderStates] /\ Builders = {1, 2}
  BY DEF ChildrenIInv, BuilderTypeOK, Builders
<1>1. UNCHANGED <<zombies, clean>>
  BY DEF Fork
<1>. DEFINE pid == <<b, job>>
<1>2. pid[1] = b /\ pid[2] = job /\ pid \in Builders \X Jobs /\ pid \notin tools \cup zombies \cup {second}
  BY DEF Children
<1>. HIDE DEF pid
<1>3. CASE at' = [at EXCEPT ![b] = parent] /\ tools' = tools \cup {pid} /\ UNCHANGED <<second, failed, noExec>>
  <2>1. at'[b] = parent /\ \A c \in Builders : c # b => at'[c] = at[c]
    BY <1>0, <1>3
  <2>2. /\ Children(b)' = Children(b) \cup {pid}
        /\ \A c \in Builders : c # b => Children(c)' = Children(c)
    BY <1>1, <1>2, <1>3 DEF Children
  <2>3. BuilderTypeOK'
    BY <1>0, <1>1, <1>2, <1>3 DEF BuilderTypeOK
  <2>4. SecondIsChild'
    BY <1>0, <1>3, <2>1 DEF SecondIsChild
  <2>5. \A c \in Builders : WaitsFor(at'[c], Children(c)')
    BY <2>1, <2>2 DEF ChildrenIInv, pid
  <2>. QED
    BY <2>3, <2>4, <2>5 DEF ChildrenIInv
<1>4. CASE at' = [at EXCEPT ![b] = child] /\ failed' = TRUE /\ UNCHANGED <<tools, second, noExec>>
  <2>1. at'[b] = child /\ \A c \in Builders : c # b => at'[c] = at[c]
    BY <1>0, <1>4
  <2>2. \A c : Children(c)' = Children(c)
    BY <1>1, <1>4 DEF Children
  <2>3. BuilderTypeOK'
    BY <1>0, <1>1, <1>4 DEF BuilderTypeOK
  <2>4. SecondIsChild'
    BY <1>0, <1>4, <2>1 DEF SecondIsChild
  <2>5. \A c \in Builders : WaitsFor(at'[c], Children(c)')
    BY <2>1, <2>2 DEF ChildrenIInv
  <2>. QED
    BY <2>3, <2>4, <2>5 DEF ChildrenIInv
<1>5. CASE /\ ~noExec /\ noExec' = TRUE /\ failed' = TRUE /\ second' = pid
           /\ at' = [at EXCEPT ![b] = parent, ![2] = child] /\ UNCHANGED tools
  <2>1. second = NoPid /\ at[2].step = "off" /\ b = 1
    BY <1>0, <1>5 DEF SecondIsChild
  <2>2. at'[1] = parent /\ at'[2] = child
    BY <1>0, <1>5, <2>1
  <2>3. Children(1)' = Children(1) \cup {pid} /\ Children(2)' = Children(2)
    <3>1. NoPid[1] = 0
      BY DEF NoPid
    <3>. QED
      BY <1>1, <1>2, <1>5, <2>1, <3>1 DEF Children
  <2>4. Children(2) = {}
    BY <1>0, <2>1 DEF ChildrenIInv, WaitsFor, JobsAt
  <2>5. BuilderTypeOK'
    <3>1. second' \in {1} \X Jobs /\ second' \notin tools' \cup zombies'
      BY <1>1, <1>2, <1>5, <2>1 DEF pid
    <3>2. at' \in [Builders -> BuilderStates]
      BY <1>0, <1>5
    <3>. QED
      BY <1>0, <1>1, <1>5, <3>1, <3>2 DEF BuilderTypeOK
  <2>6. SecondIsChild'
    <3>1. second' # NoPid
      BY <1>2, <1>5 DEF NoPid, Builders
    <3>. QED
      BY <1>5, <2>2, <3>1 DEF SecondIsChild
  <2>7. \A c \in Builders : WaitsFor(at'[c], Children(c)')
    BY <1>0, <2>1, <2>2, <2>3, <2>4 DEF ChildrenIInv, pid
  <2>. QED
    BY <2>5, <2>6, <2>7 DEF ChildrenIInv
<1>. QED
  BY <1>3, <1>4, <1>5 DEF Fork, pid

(* To wait for other pids changes nothing else.                             *)
LEMMA DoingOthers ==
  \A step, todo, pids, others :
    [Doing(step, todo, pids) EXCEPT !.pids = others] = Doing(step, todo, others)
BY DEF Doing

(* To compile the sources of one step.                                      *)
LEMMA CompileAllKeeps ==
  ASSUME ChildrenIInv, NEW b \in Builders, NEW step \in {"libs", "server", "rest"},
         NEW next \in {"ar", "server.a", "link"},
         CompileAll(b, step, Doing(next, {}, <<>>))
  PROVE  ChildrenIInv'
<1>1. at[b].step = step /\ at[b].pids = <<>> /\ at[b].todo \subseteq GroupOf(step)
      /\ step \in StepNames /\ next \in StepNames
  BY DEF CompileAll, Does, ChildrenIInv, BuilderTypeOK, BuilderStates, StepNames
<1>2. Children(b) = {}
  BY <1>1, NoPidsNoChildren DEF ChildrenIInv
<1>3. <<>> \in Seq(Pids) /\ <<AnyPid>> \in Seq(Pids) /\ GroupOf(step) \subseteq Sources
  BY DEF Pids, GroupOf, Sources
<1>4. CASE at[b].todo = {} /\ Goes(b, Doing(next, {}, <<>>))
  <2>1. Doing(next, {}, <<>>) \in BuilderStates
    BY <1>1, <1>3 DEF Doing, BuilderStates
  <2>2. WaitsFor(Doing(next, {}, <<>>), {})
    BY DEF WaitsFor, Doing
  <2>. QED
    BY <1>1, <1>2, <1>4, <2>1, <2>2, GoKeeps DEF Doing
<1>5. ASSUME NEW s \in at[b].todo,
             IF Compiles(s) THEN Build(b, s, Doing(step, at[b].todo \ {s}, <<>>))
                            ELSE Goes(b, Doing(step, at[b].todo \ {s}, <<>>))
      PROVE  ChildrenIInv'
  <2>. DEFINE rest   == Doing(step, at[b].todo \ {s}, <<>>)
              parent == Doing(step, at[b].todo \ {s}, <<AnyPid>>)
  <2>1. rest \in BuilderStates /\ parent \in BuilderStates
        /\ parent = [rest EXCEPT !.pids = <<AnyPid>>]
    <3>1. at[b].todo \ {s} \subseteq GroupOf(step) /\ at[b].todo \ {s} \in SUBSET Sources
      BY <1>1, <1>3
    <3>2. rest \in BuilderStates
      BY <1>1, <1>3, <3>1 DEF Doing, BuilderStates
    <3>3. parent \in BuilderStates
      BY <1>1, <1>3, <3>1 DEF Doing, BuilderStates
    <3>4. parent = [rest EXCEPT !.pids = <<AnyPid>>]
      <4>1. \A todo : [Doing(step, todo, <<>>) EXCEPT !.pids = <<AnyPid>>] = Doing(step, todo, <<AnyPid>>)
        BY DoingOthers
      <4>. QED
        BY <4>1, Zenon
    <3>. QED
      BY <3>2, <3>3, <3>4
  <2>2. WaitsFor(rest, {})
    BY DEF WaitsFor, Doing
  <2>3. CASE Goes(b, rest)
    BY <1>1, <1>2, <2>1, <2>2, <2>3, GoKeeps DEF Doing
  <2>4. CASE Build(b, s, rest)
    <3>1. s \in JobsAt(parent) /\ s \in Jobs /\ s \in GroupOf(step)
      BY <1>1, <1>3 DEF JobsAt, Doing, Jobs
    <3>2. WaitsFor(parent, {<<b, s>>})
      BY <3>1 DEF WaitsFor, Doing
    <3>3. Fork(b, s, parent, rest)
      BY <2>1, <2>4 DEF Build
    <3>4. rest.step # "off" /\ parent.step # "off" /\ at[b].step # "off"
      BY <1>1 DEF Doing
    <3>. HIDE DEF rest, parent
    <3>5. WaitsFor(parent, Children(b) \cup {<<b, s>>}) /\ WaitsFor(rest, Children(b))
          /\ <<b, s>> \notin Children(b)
      BY <1>2, <2>2, <3>2
    <3>. QED
      BY <2>1, <2>2, <3>1, <3>3, <3>4, <3>5, ForkKeeps
  <2>. QED
    BY <1>5, <2>3, <2>4
<1>. QED
  BY <1>4, <1>5 DEF CompileAll

(* To build one archive, or the program, from what is there.                *)
LEMMA BuildKeeps ==
  ASSUME ChildrenIInv, NEW b \in Builders,
         \/ ArchiveServer(b)
         \/ Link(b)
  PROVE  ChildrenIInv'
<1>0. at[b] \in BuilderStates /\ WaitsFor(at[b], Children(b))
  BY DEF ChildrenIInv, BuilderTypeOK
<1>1. ASSUME NEW job \in {"server.a", "app"}, NEW next \in {"remove", "run"},
             (job = "server.a" /\ next = "remove") \/ (job = "app" /\ next = "run"),
             at[b].step # "off", at[b].pids = <<>>, Build(b, job, Doing(next, {}, <<>>))
      PROVE  ChildrenIInv'
  <2>. DEFINE child == Doing(next, {}, <<>>)
              parent == Doing(next, {}, <<AnyPid>>)
  <2>1. Children(b) = {}
    BY <1>0, <1>1, NoPidsNoChildren
  <2>2. child \in BuilderStates /\ parent \in BuilderStates
        /\ parent = [child EXCEPT !.pids = <<AnyPid>>]
    <3>1. <<>> \in Seq(Pids) /\ <<AnyPid>> \in Seq(Pids) /\ next \in StepNames
      BY <1>1 DEF Pids, StepNames
    <3>2. child \in BuilderStates
      BY <3>1 DEF Doing, BuilderStates
    <3>3. parent \in BuilderStates
      BY <3>1 DEF Doing, BuilderStates
    <3>4. parent = [child EXCEPT !.pids = <<AnyPid>>]
      BY DoingOthers
    <3>. QED
      BY <3>2, <3>3, <3>4
  <2>3. WaitsFor(child, {})
    BY DEF WaitsFor, Doing
  <2>4. job \in JobsAt(parent) /\ job \in Jobs
    BY <1>1 DEF JobsAt, Doing, Jobs
  <2>5. WaitsFor(parent, {<<b, job>>})
    BY <1>1, <2>4 DEF WaitsFor, Doing
  <2>6. Fork(b, job, parent, child) /\ child.step # "off" /\ parent.step # "off"
    BY <1>1, <2>2 DEF Build, Doing
  <2>. HIDE DEF child, parent
  <2>7. WaitsFor(parent, Children(b) \cup {<<b, job>>}) /\ WaitsFor(child, Children(b))
        /\ <<b, job>> \notin Children(b)
    BY <2>1, <2>3, <2>5
  <2>. QED
    BY <1>1, <2>2, <2>3, <2>4, <2>6, <2>7, ForkKeeps
<1>2. CASE ArchiveServer(b)
  BY <1>1, <1>2 DEF ArchiveServer, Does
<1>3. CASE Link(b)
  BY <1>1, <1>3 DEF Link, Does
<1>. QED
  BY <1>2, <1>3

(* To build the two that run side by side.                                  *)
LEMMA BuildAsyncKeeps ==
  ASSUME ChildrenIInv, NEW b \in Builders,
         \/ ArchiveLibs(b)
         \/ ShareLibs(b)
  PROVE  ChildrenIInv'
<1>0. at[b] \in BuilderStates /\ WaitsFor(at[b], Children(b)) /\ BuilderTypeOK
      /\ \A c \in Children(b) : c # AnyPid
  BY ParentsAreBuilders DEF ChildrenIInv, BuilderTypeOK
<1>1. ASSUME NEW job \in {"async.a", "async.so"}, NEW next \in {"so", "wait"},
             (job = "async.a" /\ next = "so") \/ (job = "async.so" /\ next = "wait"),
             at[b].step # "off", BuildAsync(b, job, next),
             \A c \in Children(b) : /\ c[2] \in JobsAt([step |-> next]) \ {job}
                                    /\ \E i \in DOMAIN at[b].pids : at[b].pids[i] = c
      PROVE  ChildrenIInv'
  <2>. DEFINE own    == <<b, job>>
              parent == Doing(next, {}, Append(at[b].pids, own))
              child  == Doing(next, {}, Append(at[b].pids, AnyPid))
  <2>1. at[b].pids \in Seq(Pids) /\ next \in StepNames /\ job \in Jobs /\ own \in Pids /\ AnyPid \in Pids
    BY <1>0, <1>1 DEF BuilderStates, StepNames, Jobs, Pids
  <2>2. parent \in BuilderStates /\ child \in BuilderStates
    BY <2>1 DEF Doing, BuilderStates
  <2>3. /\ \A p \in Pids : \A i \in DOMAIN at[b].pids :
             i \in DOMAIN Append(at[b].pids, p) /\ Append(at[b].pids, p)[i] = at[b].pids[i]
        /\ \A p \in Pids : \E i \in DOMAIN Append(at[b].pids, p) : Append(at[b].pids, p)[i] = p
    <3>. SUFFICES ASSUME NEW p \in Pids
                  PROVE  /\ \A i \in DOMAIN at[b].pids :
                              /\ i \in DOMAIN Append(at[b].pids, p)
                              /\ Append(at[b].pids, p)[i] = at[b].pids[i]
                         /\ \E i \in DOMAIN Append(at[b].pids, p) : Append(at[b].pids, p)[i] = p
      OBVIOUS
    <3>1. /\ Len(at[b].pids) + 1 \in DOMAIN Append(at[b].pids, p)
          /\ Append(at[b].pids, p)[Len(at[b].pids) + 1] = p
      BY <2>1
    <3>. QED
      BY <2>1, <3>1
  <2>4. WaitsFor(child, Children(b)) /\ WaitsFor(child, {})
    BY <1>1, <2>1, <2>3 DEF WaitsFor, Doing, JobsAt
  <2>5. WaitsFor(parent, Children(b) \cup {own})
    <3>1. parent.step \in {"so", "wait"} /\ own[2] \in JobsAt(parent)
      BY <1>1 DEF Doing, JobsAt
    <3>2. \A c \in Children(b) \cup {own} : c[2] \in JobsAt(parent)
      BY <1>1, <3>1 DEF Doing, JobsAt
    <3>3. parent.pids = Append(at[b].pids, own) /\ own \in Pids
      BY <2>1 DEF Doing
    <3>4. \A c \in Children(b) : \E i \in DOMAIN at[b].pids : at[b].pids[i] = c
      BY <1>1
    <3>5. \A c \in Children(b) \cup {own} : \E i \in DOMAIN parent.pids : parent.pids[i] = c
      <4>. HIDE DEF parent, own
      <4>. QED
        BY <2>3, <3>3, <3>4
    <3>. QED
      BY <3>1, <3>2, <3>5 DEF WaitsFor
  <2>6. own \notin Children(b)
    BY <1>1
  <2>7. Fork(b, job, parent, child) /\ parent.step # "off" /\ child.step # "off"
    BY <1>1 DEF BuildAsync, Doing
  <2>. HIDE DEF parent, child
  <2>. QED
    BY <1>1, <2>1, <2>2, <2>4, <2>5, <2>6, <2>7, ForkKeeps
<1>2. CASE ArchiveLibs(b)
  <2>1. Children(b) = {}
    BY <1>0, <1>2 DEF ArchiveLibs, WaitsFor, JobsAt
  <2>. QED
    BY <1>1, <1>2, <2>1 DEF ArchiveLibs
<1>3. CASE ShareLibs(b)
  <2>1. at[b].step = "so" /\ JobsAt(at[b]) = {"async.a"}
    BY <1>3 DEF ShareLibs, JobsAt
  <2>2. \A c \in Children(b) : /\ c[2] \in JobsAt([step |-> "wait"]) \ {"async.so"}
                               /\ \E i \in DOMAIN at[b].pids : at[b].pids[i] = c
    <3>1. JobsAt([step |-> "wait"]) = {"async.a", "async.so"}
      BY DEF JobsAt
    <3>. QED
      BY <1>0, <2>1, <3>1 DEF WaitsFor
  <2>. QED
    BY <1>1, <1>3, <2>1, <2>2 DEF ShareLibs
<1>. QED
  BY <1>2, <1>3

(* builds_wait returns, and objects are removed.                            *)
LEMMA PassKeeps ==
  ASSUME ChildrenIInv, NEW b \in Builders, BuildsWaited(b) \/ RemoveObjects(b)
  PROVE  ChildrenIInv'
<1>0. WaitsFor(at[b], Children(b))
  BY DEF ChildrenIInv
<1>1. PICK next \in {"server", "rest"} :
        at[b].step # "off" /\ at[b].pids = <<>> /\ Goes(b, Doing(next, GroupOf(next), <<>>))
  BY DEF BuildsWaited, RemoveObjects, AllWaited, Does, GroupOf
<1>2. Children(b) = {}
  BY <1>0, <1>1, NoPidsNoChildren
<1>3. Doing(next, GroupOf(next), <<>>) \in BuilderStates
  <2>1. <<>> \in Seq(Pids) /\ next \in StepNames /\ GroupOf(next) \subseteq Sources
    BY <1>1 DEF StepNames, GroupOf, Sources
  <2>. QED
    BY <2>1 DEF Doing, BuilderStates
<1>4. WaitsFor(Doing(next, GroupOf(next), <<>>), {})
  BY DEF WaitsFor, Doing
<1>. QED
  BY <1>1, <1>2, <1>3, <1>4, GoKeeps DEF Doing

(* A builder waits for a child of its own.                                  *)
LEMMA WaitKeeps ==
  ASSUME ChildrenIInv, NEW b \in Builders, Wait(b)
  PROVE  ChildrenIInv'
<1>. DEFINE pids == at[b].pids
            pid  == Head(pids)
            rest == Tail(pids)
            kids == Children(b)
<1>0. /\ BuilderTypeOK /\ SecondIsChild /\ WaitsFor(at[b], kids)
      /\ pids \in Seq(Pids) /\ pids # <<>> /\ at[b].step # "so"
      /\ \A c \in kids : c # AnyPid
  BY ParentsAreBuilders DEF ChildrenIInv, BuilderTypeOK, BuilderStates, Wait
<1>1. /\ at' = [at EXCEPT ![b].pids = rest]
      /\ UNCHANGED <<tools, second, clean, failed, noExec>>
  BY DEF Wait
<1>2. at[b].step # "off"
  <2>1. at[b].step = "off" => kids = {}
    BY <1>0 DEF WaitsFor, JobsAt
  <2>. QED
    BY <1>0, <2>1 DEF WaitsFor
<1>3. /\ at'[b] = [at[b] EXCEPT !.pids = rest] /\ rest \in Seq(Pids)
      /\ \A c \in Builders : c # b => at'[c] = at[c]
      /\ at' \in [Builders -> BuilderStates]
  <2>1. at \in [Builders -> BuilderStates] /\ rest \in Seq(Pids)
    BY <1>0 DEF BuilderTypeOK
  <2>2. at'[b] = [at[b] EXCEPT !.pids = rest] /\ \A c \in Builders : c # b => at'[c] = at[c]
    BY <1>1, <2>1
  <2>3. at'[b] \in BuilderStates
    BY <2>1, <2>2 DEF BuilderStates
  <2>. QED
    BY <1>1, <2>1, <2>2, <2>3
<1>4. \A c \in kids : (\E i \in DOMAIN pids : pids[i] = c) /\ c # pid => \E i \in DOMAIN rest : rest[i] = c
  <2>. SUFFICES ASSUME NEW c \in kids, NEW i \in DOMAIN pids, pids[i] = c, c # pid
                PROVE  \E j \in DOMAIN rest : rest[j] = c
    OBVIOUS
  <2>1. i # 1 /\ i \in 1 .. Len(pids)
    BY <1>0
  <2>2. i - 1 \in DOMAIN rest /\ rest[i - 1] = pids[i]
    BY <1>0, <2>1
  <2>. QED
    BY <2>2
<1>5. pids = <<AnyPid>> => rest = <<>> /\ pid = AnyPid
  OBVIOUS
<1>6. JobsAt(at'[b]) = JobsAt(at[b]) /\ at'[b].step = at[b].step /\ at'[b].pids = rest
  <2>1. at[b] \in BuilderStates
    BY <1>0 DEF BuilderTypeOK
  <2>2. at'[b].step = at[b].step /\ at'[b].pids = rest /\ at'[b].todo = at[b].todo
    BY <1>3, <2>1 DEF BuilderStates
  <2>. QED
    BY <2>2 DEF JobsAt
<1>. HIDE DEF rest, pid, pids, kids
<1>7. SecondIsChild'
  BY <1>0, <1>1, <1>3, <1>6 DEF SecondIsChild, Builders
<1>8. ASSUME NEW z \in zombies, z[1] = b, pid \in {z, AnyPid}, zombies' = zombies \ {z}
      PROVE  ChildrenIInv'
  <2>1. z \notin tools /\ z # second
    BY <1>0 DEF BuilderTypeOK
  <2>2. Children(b)' = kids \ {z} /\ \A c \in Builders : c # b => Children(c)' = Children(c)
    BY <1>1, <1>8, <2>1 DEF Children, kids
  <2>3. BuilderTypeOK'
    BY <1>0, <1>1, <1>3, <1>8 DEF BuilderTypeOK
  <2>4. WaitsFor(at'[b], kids \ {z})
    <3>1. z \in kids
      BY <1>8 DEF kids, Children
    <3>2. CASE at[b].step = "wait"
      <4>1. \A c \in kids \ {z} : c # pid /\ c # AnyPid
        BY <1>0, <1>8
      <4>2. \A c \in kids \ {z} : \E i \in DOMAIN rest : rest[i] = c
        BY <1>0, <1>4, <3>2, <4>1 DEF WaitsFor, pids
      <4>. QED
        BY <1>0, <1>6, <3>2, <4>2 DEF WaitsFor
    <3>3. CASE at[b].step # "wait"
      <4>1. pids = <<AnyPid>> /\ kids \ {z} = {}
        BY <1>0, <3>1, <3>3 DEF WaitsFor, pids
      <4>. QED
        BY <1>0, <1>5, <1>6, <3>3, <4>1 DEF WaitsFor
    <3>. QED
      BY <3>2, <3>3
  <2>5. \A c \in Builders : WaitsFor(at'[c], Children(c)')
    BY <1>3, <2>2, <2>4 DEF ChildrenIInv
  <2>. QED
    BY <1>7, <2>3, <2>5 DEF ChildrenIInv
<1>9. ASSUME ~Mine(b, pid), UNCHANGED zombies
      PROVE  ChildrenIInv'
  <2>1. \A c \in Builders : Children(c)' = Children(c)
    BY <1>1, <1>9 DEF Children
  <2>2. BuilderTypeOK'
    BY <1>0, <1>1, <1>3, <1>9 DEF BuilderTypeOK
  <2>3. WaitsFor(at'[b], kids)
    <3>1. \A c \in kids : c # pid
      BY <1>9 DEF Mine, kids
    <3>2. at[b].step = "wait"
      BY <1>0, <1>5, <1>9 DEF WaitsFor, Mine, kids, pids
    <3>3. \A c \in kids : \E i \in DOMAIN rest : rest[i] = c
      BY <1>0, <1>4, <3>1, <3>2 DEF WaitsFor, pids
    <3>. QED
      BY <1>0, <1>6, <3>2, <3>3 DEF WaitsFor
  <2>4. \A c \in Builders : WaitsFor(at'[c], Children(c)')
    BY <1>3, <2>1, <2>3 DEF ChildrenIInv, kids
  <2>. QED
    BY <1>7, <2>2, <2>4 DEF ChildrenIInv
<1>. QED
  BY <1>8, <1>9 DEF Wait, pid, pids

(* The end of a builder, whose children have all been waited for.           *)
LEMMA EndKeeps ==
  ASSUME ChildrenIInv, NEW b \in Builders, End(b)
  PROVE  ChildrenIInv'
<1>0. /\ BuilderTypeOK /\ SecondIsChild /\ at[b].step = "run" /\ at[b].pids = <<>>
      /\ at' = [at EXCEPT ![b] = Off] /\ at \in [Builders -> BuilderStates]
      /\ UNCHANGED <<tools, noExec>> /\ Builders = {1, 2}
  BY DEF ChildrenIInv, BuilderTypeOK, End, Does, Builders
<1>1. Children(b) = {}
  BY <1>0, NoPidsNoChildren DEF ChildrenIInv
<1>2. Off \in BuilderStates /\ WaitsFor(Off, {}) /\ Off.step = "off"
  <2>1. <<>> \in Seq(Pids) /\ "off" \in StepNames
    BY DEF StepNames
  <2>. QED
    BY <2>1 DEF Off, Doing, BuilderStates, WaitsFor
<1>3. at'[b] = Off /\ (\A c \in Builders : c # b => at'[c] = at[c]) /\ at' \in [Builders -> BuilderStates]
  BY <1>0, <1>2
<1>4. CASE b = 1
  <2>1. second = NoPid
    BY <1>0, <1>1, <1>4, ParentsAreBuilders
  <2>2. UNCHANGED <<zombies, second>> /\ failed' = FALSE /\ clean' = FALSE
    BY <1>4 DEF End
  <2>3. \A c : Children(c)' = Children(c)
    BY <1>0, <2>2 DEF Children
  <2>4. BuilderTypeOK'
    BY <1>0, <1>3, <2>2 DEF BuilderTypeOK
  <2>5. SecondIsChild'
    BY <1>0, <1>3, <1>4, <2>1, <2>2 DEF SecondIsChild
  <2>6. \A c \in Builders : WaitsFor(at'[c], Children(c)')
    BY <1>1, <1>2, <1>3, <2>3 DEF ChildrenIInv
  <2>. QED
    BY <2>4, <2>5, <2>6 DEF ChildrenIInv
<1>5. CASE b = 2
  <2>1. second # NoPid /\ second \in {1} \X Jobs
    BY <1>0, <1>5 DEF SecondIsChild, BuilderTypeOK
  <2>2. zombies' = zombies \cup {second} /\ second' = NoPid /\ UNCHANGED <<failed, clean>>
    BY <1>5 DEF End
  <2>3. NoPid[1] = 0 /\ second[1] = 1 /\ second \in Builders \X Jobs
    BY <1>0, <2>1 DEF NoPid
  <2>4. \A c \in Builders : Children(c)' = Children(c)
    BY <1>0, <2>2, <2>3 DEF Children
  <2>5. BuilderTypeOK'
    <3>1. tools' \cap zombies' = {} /\ zombies' \subseteq Builders \X Jobs
      BY <1>0, <2>2, <2>3 DEF BuilderTypeOK
    <3>2. second' \notin tools' \cup zombies'
      BY <1>0, <2>2, <2>3, ParentsAreBuilders DEF BuilderTypeOK
    <3>. QED
      BY <1>0, <1>3, <2>2, <3>1, <3>2 DEF BuilderTypeOK
  <2>6. SecondIsChild'
    BY <1>2, <1>3, <1>5, <2>2 DEF SecondIsChild
  <2>7. \A c \in Builders : WaitsFor(at'[c], Children(c)')
    BY <1>1, <1>2, <1>3, <2>4 DEF ChildrenIInv
  <2>. QED
    BY <2>5, <2>6, <2>7 DEF ChildrenIInv
<1>. QED
  BY <1>0, <1>4, <1>5

(* The steps of the builders.                                               *)
LEMMA BuildersKeep ==
  ASSUME ChildrenIInv, NEW b \in Builders, Steps(b)
  PROVE  ChildrenIInv'
<1>1. CASE CompileLibs(b)
  BY <1>1, CompileAllKeeps DEF CompileLibs
<1>2. CASE CompileServer(b)
  BY <1>2, CompileAllKeeps DEF CompileServer
<1>3. CASE CompileRest(b)
  BY <1>3, CompileAllKeeps DEF CompileRest
<1>4. CASE ArchiveLibs(b) \/ ShareLibs(b)
  BY <1>4, BuildAsyncKeeps
<1>5. CASE ArchiveServer(b) \/ Link(b)
  BY <1>5, BuildKeeps
<1>6. CASE BuildsWaited(b) \/ RemoveObjects(b)
  BY <1>6, PassKeeps
<1>7. CASE Wait(b)
  BY <1>7, WaitKeeps
<1>8. CASE End(b)
  BY <1>8, EndKeeps
<1>. QED
  BY <1>1, <1>2, <1>3, <1>4, <1>5, <1>6, <1>7, <1>8 DEF Steps

(* A builder that is off, or at --sync, has no children.                    *)
LEMMA NoneBefore ==
  ASSUME ChildrenIInv, at[1].step \in {"off", "sync"}
  PROVE  /\ Children(1) = {} /\ Children(2) = {} /\ second = NoPid /\ at[2].step = "off"
         /\ tools = {} /\ zombies = {}
<1>1. Children(1) = {}
  BY DEF ChildrenIInv, WaitsFor, JobsAt, Builders
<1>2. second = NoPid /\ at[2].step = "off"
  BY <1>1, ParentsAreBuilders DEF ChildrenIInv, SecondIsChild
<1>3. Children(2) = {}
  BY <1>2 DEF ChildrenIInv, WaitsFor, JobsAt, Builders
<1>. QED
  BY <1>1, <1>2, <1>3, ParentsAreBuilders DEF ChildrenIInv, Builders

(* The beginning of a run, and --sync.                                      *)
LEMMA StartKeeps ==
  ASSUME ChildrenIInv, Begin \/ SyncRepo
  PROVE  ChildrenIInv'
<1>0. at \in [Builders -> BuilderStates] /\ 1 \in Builders
  BY DEF ChildrenIInv, BuilderTypeOK, Builders
<1>1. PICK to \in {Doing("sync", Libs, <<>>), Doing("libs", Libs, <<>>), Off} :
        /\ at[1].step \in {"off", "sync"} /\ at' = [at EXCEPT ![1] = to]
        /\ UNCHANGED <<tools, zombies, second, noExec>>
        /\ clean' \in BOOLEAN /\ failed' \in BOOLEAN
  <2>1. CASE Begin
    <3>1. Off.step = "off"
      BY DEF Off, Doing
    <3>2. PICK step \in {"sync", "libs"} : at' = [at EXCEPT ![1] = Doing(step, Libs, <<>>)]
      BY <2>1 DEF Begin
    <3>3. Doing(step, Libs, <<>>) \in {Doing("sync", Libs, <<>>), Doing("libs", Libs, <<>>)}
      OBVIOUS
    <3>. QED
      BY <2>1, <3>1, <3>2, <3>3 DEF Begin
  <2>2. CASE SyncRepo
    BY <2>2 DEF SyncRepo, ChildrenIInv, BuilderTypeOK
  <2>. QED
    BY <2>1, <2>2
<1>2. to \in BuilderStates /\ WaitsFor(to, {})
  <2>1. <<>> \in Seq(Pids) /\ {"off", "sync", "libs"} \subseteq StepNames /\ Libs \subseteq Sources
    BY DEF StepNames, Sources
  <2>2. to.pids = <<>> /\ to.step \in {"off", "sync", "libs"}
        /\ to = [step |-> to.step, todo |-> to.todo, pids |-> to.pids]
        /\ to.todo \subseteq GroupOf(to.step) /\ to.todo \in SUBSET Sources
    BY <1>1, <2>1 DEF Off, Doing, GroupOf
  <2>3. to \in BuilderStates
    BY <2>1, <2>2 DEF BuilderStates
  <2>. QED
    BY <2>2, <2>3 DEF WaitsFor
<1>3. at'[1] = to /\ at'[2] = at[2] /\ at' \in [Builders -> BuilderStates]
  BY <1>0, <1>1, <1>2 DEF Builders
<1>4. BuilderTypeOK'
  BY <1>1, <1>3 DEF ChildrenIInv, BuilderTypeOK
<1>5. \A c : Children(c)' = Children(c)
  BY <1>1 DEF Children
<1>6. SecondIsChild'
  BY <1>1, <1>3, NoneBefore DEF SecondIsChild
<1>7. \A c \in Builders : WaitsFor(at'[c], Children(c)')
  BY <1>1, <1>2, <1>3, <1>5, NoneBefore DEF ChildrenIInv, Builders
<1>. QED
  BY <1>4, <1>6, <1>7 DEF ChildrenIInv

(* The end of a tool, whose pid is still waited for.                        *)
LEMMA ToolKeeps ==
  ASSUME ChildrenIInv, NEW p \in tools, ToolEnds(p)
  PROVE  ChildrenIInv'
<1>1. /\ tools' = tools \ {p} /\ zombies' = zombies \cup {p} /\ failed' \in BOOLEAN
      /\ (failed => failed') /\ UNCHANGED <<at, second, clean, noExec>>
  BY DEF ToolEnds, Exits, ChildrenIInv, BuilderTypeOK
<1>2. tools' \cup zombies' = tools \cup zombies
  BY <1>1
<1>3. \A c : Children(c)' = Children(c)
  BY <1>1, <1>2 DEF Children
<1>4. BuilderTypeOK'
  BY <1>1 DEF ChildrenIInv, BuilderTypeOK
<1>5. SecondIsChild'
  BY <1>1 DEF ChildrenIInv, SecondIsChild
<1>6. \A c \in Builders : WaitsFor(at'[c], Children(c)')
  BY <1>1, <1>3 DEF ChildrenIInv
<1>. QED
  BY <1>4, <1>5, <1>6 DEF ChildrenIInv

(* A builder that begins has no children (cb.h:426-504). *)
LEMMA ChildrenInit == BuilderInit => ChildrenIInv
<1>. SUFFICES ASSUME BuilderInit PROVE ChildrenIInv
  OBVIOUS
<1>1. \A b \in Builders : at[b] = Off /\ Children(b) = {}
  BY DEF BuilderInit, Children, NoPid, Builders
<1>2. Off \in BuilderStates /\ WaitsFor(Off, {}) /\ Off.step = "off"
  <2>1. <<>> \in Seq(Pids) /\ "off" \in StepNames
    BY DEF StepNames
  <2>. QED
    BY <2>1 DEF Off, Doing, BuilderStates, WaitsFor
<1>3. BuilderTypeOK
  BY <1>2 DEF BuilderInit, BuilderTypeOK
<1>4. SecondIsChild
  BY <1>1, <1>2 DEF BuilderInit, SecondIsChild, Builders
<1>. QED
  BY <1>1, <1>2, <1>3, <1>4 DEF ChildrenIInv

(* Every step of a builder and of the tools keeps who waits for whom. *)
LEMMA ChildrenNext == ChildrenIInv /\ [BuilderNext]_builderVars => ChildrenIInv'
<1>. SUFFICES ASSUME ChildrenIInv, [BuilderNext]_builderVars PROVE ChildrenIInv'
  OBVIOUS
<1>1. CASE UNCHANGED <<processVars, clean, failed>>
  <2>1. \A c : Children(c)' = Children(c)
    BY <1>1 DEF processVars, Children
  <2>2. BuilderTypeOK' /\ SecondIsChild'
    BY <1>1 DEF processVars, ChildrenIInv, BuilderTypeOK, SecondIsChild
  <2>3. \A c \in Builders : WaitsFor(at'[c], Children(c)')
    BY <1>1, <2>1 DEF processVars, ChildrenIInv
  <2>. QED
    BY <2>2, <2>3 DEF ChildrenIInv
<1>2. CASE UNCHANGED builderVars
  BY <1>1, <1>2 DEF builderVars
<1>3. CASE \E s \in Sources : Write(s) \/ Delete(s)
  BY <1>1, <1>3 DEF Write, Delete, Put
<1>4. CASE \E f \in Libs : WriteKit(f)
  BY <1>1, <1>4 DEF WriteKit
<1>5. CASE Begin \/ SyncRepo
  BY <1>5, StartKeeps
<1>6. CASE \E b \in Builders : Steps(b)
  BY <1>6, BuildersKeep
<1>7. CASE \E p \in tools : ToolEnds(p)
  BY <1>7, ToolKeeps
<1>. QED
  BY <1>2, <1>3, <1>4, <1>5, <1>6, <1>7 DEF BuilderNext

(* So it always holds who waits for whom. *)
LEMMA ChildrenSafety == BuilderSpec => []ChildrenIInv
BY ChildrenInit, ChildrenNext, PTL DEF BuilderSpec

(* When the build tool has ended, no tool and no second builder is at work  *)
(* and no child is left that was not waited for, whatever failed.           *)
NothingLeft ==
  at[1] = Off => tools = {} /\ zombies = {} /\ second = NoPid

(* So an exit of the build tool leaves nobody behind (cb.h:426-504). *)
THEOREM NobodyLeftBehind == BuilderSpec => []NothingLeft
<1>1. ChildrenIInv => NothingLeft
  <2>. SUFFICES ASSUME ChildrenIInv, at[1] = Off PROVE tools = {} /\ zombies = {} /\ second = NoPid
    BY DEF NothingLeft
  <2>1. at[1].step = "off"
    BY DEF Off, Doing
  <2>. QED
    BY <2>1, NoneBefore
<1>. QED
  BY <1>1, ChildrenSafety, PTL

(* No tool reads or writes a file that another one is writing, and the      *)
(* objects that are removed are used by none, as long as no child went on   *)
(* as a second builder (cb.h:426-504, cb.c:43-58, 86-93).                   *)
THEOREM ToolsDoNotRace == BuilderSpec => []NoToolRace
<1>1. ChildrenIInv => NoToolRace
  <2>. SUFFICES ASSUME ChildrenIInv, ~noExec PROVE NoToolRace
    BY DEF NoToolRace
  <2>1. at[2].step = "off" /\ Children(2) = {} /\ WaitsFor(at[1], Children(1))
    BY DEF ChildrenIInv, SecondIsChild, WaitsFor, JobsAt, Builders
  <2>2. \A p \in tools : p \in Children(1) /\ p = <<1, p[2]>> /\ p[2] \in JobsAt(at[1])
    <3>. SUFFICES ASSUME NEW p \in tools
                  PROVE  p \in Children(1) /\ p = <<1, p[2]>> /\ p[2] \in JobsAt(at[1])
      OBVIOUS
    <3>1. p \in Builders \X Jobs /\ p \in Children(p[1]) /\ p[1] \in Builders
      BY ParentsAreBuilders DEF ChildrenIInv, BuilderTypeOK
    <3>2. p[1] = 1
      BY <2>1, <3>1 DEF Builders
    <3>. QED
      BY <2>1, <3>1, <3>2 DEF WaitsFor
  <2>3. ASSUME NEW p \in tools, NEW q \in tools, p # q
        PROVE  Makes(p[2]) \notin Uses(q[2]) \cup {Makes(q[2])}
    <3>1. at[1].step \in {"so", "wait"}
      BY <2>1, <2>2, <2>3 DEF WaitsFor
    <3>2. p[2] \in {"async.a", "async.so"} /\ q[2] \in {"async.a", "async.so"} /\ p[2] # q[2]
      BY <2>2, <2>3, <3>1 DEF JobsAt
    <3>3. "async.a" \notin Sources /\ "async.so" \notin Sources
      BY BuilderAssumption DEF Sources
    <3>4. Makes(p[2]) = <<p[2], 0>> /\ Makes(q[2]) = <<q[2], 0>>
      BY <3>2, <3>3 DEF Makes
    <3>5. Uses(q[2]) = {<<"obj", s>> : s \in Libs}
      BY <3>2, <3>3 DEF Uses
    <3>6. <<p[2], 0>> \notin {<<"obj", s>> : s \in Libs} /\ <<p[2], 0>> # <<q[2], 0>>
      BY <3>2
    <3>. QED
      BY <3>4, <3>5, <3>6
  <2>4. at[1].step = "rest" /\ at[1].todo = Rest => <<1, "server.a">> \notin tools
    <3>. SUFFICES ASSUME at[1].step = "rest", at[1].todo = Rest, <<1, "server.a">> \in tools PROVE FALSE
      OBVIOUS
    <3>1. <<1, "server.a">>[2] \in JobsAt(at[1])
      BY <2>2
    <3>2. JobsAt(at[1]) = {}
      BY DEF JobsAt, GroupOf
    <3>. QED
      BY <3>1, <3>2
  <2>. QED
    BY <2>3, <2>4 DEF NoToolRace
<1>. QED
  BY <1>1, ChildrenSafety, PTL

-----------------------------------------------------------------------------
(* What the program is made of                                             *)

FilesOK == DOMAIN files = Places /\ \A p \in Places : DOMAIN files[p] = Sources

(* The objects of the server are removed in each run, and no builder makes  *)
(* them again before the next.                                              *)
ServerObjectsGone ==
  at[1].step \in {"off", "sync", "rest", "link", "run"} =>
    /\ \A s \in Server : files["obj"][s] = 0
    /\ at[2].step \in {"off", "rest", "link", "run"}

TextsHeld == at[1].step # "off" => \A s \in Sources : src[s].text \in held[s]

Fresh(s, text) == text \in held[s] \/ (s \notin Server /\ ~clean /\ 0 \in held[s])

ToServer  == {"sync", "libs", "ar", "so", "wait"}
FromThere == {"server", "server.a", "remove"}
Past      == {"rest", "link", "run"}

Uncompiled ==
  (IF at[1].step = "sync" THEN Libs ELSE at[1].todo)
    \cup (IF at[1].step \in ToServer THEN Server ELSE {})
    \cup (IF at[1].step \in ToServer \cup FromThere THEN Rest ELSE {})

(* In a run in which nothing has failed: what is compiled, and then put     *)
(* into the archives and the program, is fresh once the tool has ended.     *)
FreshSoFar ==
  /\ \A s \in Uncompiled : s \in Server \/ clean => files["obj"][s] = 0
  /\ \A s \in Sources \ Uncompiled :
       \/ s \in Server /\ at[1].step \in Past
       \/ <<1, s>> \in tools
       \/ Fresh(s, files["obj"][s])
  /\ at[1].step \in {"so", "wait"} =>
       <<1, "async.a">> \in tools \/ \A s \in Libs : Fresh(s, files["async.a"][s])
  /\ at[1].step \in FromThere \cup Past => \A s \in Libs : Fresh(s, files["async.a"][s])
  /\ at[1].step = "remove" =>
       <<1, "server.a">> \in tools \/ \A s \in Server : Fresh(s, files["server.a"][s])
  /\ at[1].step \in Past => \A s \in Server : Fresh(s, files["server.a"][s])
  /\ at[1].step = "run" => <<1, "app">> \in tools \/ \A s \in Sources : Fresh(s, files["app"][s])

FreshRun == at[1].step # "off" /\ ~failed => FreshSoFar

FreshIInv == ChildrenIInv /\ FilesOK /\ ServerObjectsGone /\ TextsHeld /\ FreshRun

-----------------------------------------------------------------------------
NextSteps(step) ==
  CASE step = "libs"     -> {"libs", "ar"}
    [] step = "ar"       -> {"so"}
    [] step = "so"       -> {"wait"}
    [] step = "wait"     -> {"wait", "server"}
    [] step = "server"   -> {"server", "server.a"}
    [] step = "server.a" -> {"remove"}
    [] step = "remove"   -> {"remove", "rest"}
    [] step = "rest"     -> {"rest", "link"}
    [] step = "link"     -> {"run"}
    [] OTHER             -> {"run", "off"}

(* What a fork leaves alone, and that only the first one gets a second.     *)
LEMMA ForkShape ==
  ASSUME ChildrenIInv, NEW b \in Builders, NEW job, NEW parent, NEW child,
         Fork(b, job, parent, child), at[b].step # "off"
  PROVE  /\ at'[b] \in {parent, child}
         /\ \A c \in Builders : c # b => at'[c] = at[c] \/ (b = 1 /\ at'[c] = child)
         /\ UNCHANGED <<src, held, files, clean>>
         /\ failed => failed'
         /\ ~failed' => at'[b] = parent /\ tools' = tools \cup {<<b, job>>}
<1>0. at \in [Builders -> BuilderStates] /\ Builders = {1, 2} /\ failed \in BOOLEAN
  BY DEF ChildrenIInv, BuilderTypeOK, Builders
<1>1. UNCHANGED <<src, held, files, clean>>
  BY DEF Fork, sourceVars
<1>2. CASE at' = [at EXCEPT ![b] = parent] /\ tools' = tools \cup {<<b, job>>} /\ UNCHANGED failed
  BY <1>0, <1>1, <1>2
<1>3. CASE at' = [at EXCEPT ![b] = child] /\ failed' = TRUE
  BY <1>0, <1>1, <1>3
<1>4. CASE ~noExec /\ failed' = TRUE /\ at' = [at EXCEPT ![b] = parent, ![2] = child]
  <2>1. b = 1
    BY <1>0, <1>4 DEF ChildrenIInv, SecondIsChild
  <2>. QED
    BY <1>0, <1>1, <1>4, <2>1
<1>. QED
  BY <1>2, <1>3, <1>4 DEF Fork

(* The order of the steps, and what they leave alone.                       *)
LEMMA StepShape ==
  ASSUME ChildrenIInv, NEW b \in Builders, Steps(b)
  PROVE  /\ at[b].step # "off" /\ at'[b].step \in NextSteps(at[b].step)
         /\ b = 2 => at'[1] = at[1] /\ (failed => failed')
         /\ b = 1 => at'[2] = at[2] \/ at'[2].step = at'[1].step
         /\ RemoveObjects(b) \/ (UNCHANGED files /\ (at[b].step = "remove" => at'[b].step = "remove"))
         /\ UNCHANGED src /\ (at'[1].step # "off" => UNCHANGED <<held, clean>>)
<1>0. /\ at \in [Builders -> BuilderStates] /\ Builders = {1, 2}
      /\ \A step, todo, pids : Doing(step, todo, pids).step = step
      /\ \A step, todo, pids, more : [Doing(step, todo, pids) EXCEPT !.pids = more].step = step
      /\ Off.step = "off"
  BY DEF ChildrenIInv, BuilderTypeOK, Builders, Doing, Off
<1>1. ASSUME NEW job, NEW parent, NEW child, Fork(b, job, parent, child), at[b].step # "off",
             parent.step = child.step, parent.step \in NextSteps(at[b].step),
             at[b].step = "remove" => parent.step = "remove", ~RemoveObjects(b)
      PROVE  /\ at'[b].step \in NextSteps(at[b].step)
             /\ b = 2 => at'[1] = at[1] /\ (failed => failed')
             /\ b = 1 => at'[2] = at[2] \/ at'[2].step = at'[1].step
             /\ UNCHANGED files /\ (at[b].step = "remove" => at'[b].step = "remove")
             /\ UNCHANGED src /\ UNCHANGED <<held, clean>>
  BY <1>0, <1>1, ForkShape
<1>2. ASSUME NEW to, Goes(b, to)
      PROVE  /\ at'[b] = to /\ \A c \in Builders : c # b => at'[c] = at[c]
             /\ UNCHANGED <<src, held, clean, failed>>
  BY <1>0, <1>2 DEF Goes, sourceVars
<1>3. ASSUME NEW step \in {"libs", "server", "rest"}, NEW next \in NextSteps(step),
             step \in NextSteps(step), CompileAll(b, step, Doing(next, {}, <<>>))
      PROVE  /\ at[b].step # "off" /\ at'[b].step \in NextSteps(at[b].step)
             /\ b = 2 => at'[1] = at[1] /\ (failed => failed')
             /\ b = 1 => at'[2] = at[2] \/ at'[2].step = at'[1].step
             /\ UNCHANGED files /\ at[b].step # "remove"
             /\ UNCHANGED src /\ UNCHANGED <<held, clean>>
  <2>1. at[b].step = step /\ at[b].step # "off" /\ at[b].step # "remove" /\ ~RemoveObjects(b)
    BY <1>3 DEF CompileAll, Does, RemoveObjects
  <2>2. CASE Goes(b, Doing(next, {}, <<>>)) /\ UNCHANGED files
    BY <1>0, <1>2, <1>3, <2>1, <2>2
  <2>3. ASSUME NEW s, Build(b, s, Doing(step, at[b].todo \ {s}, <<>>))
        PROVE  /\ at'[b].step \in NextSteps(at[b].step)
               /\ b = 2 => at'[1] = at[1] /\ (failed => failed')
               /\ b = 1 => at'[2] = at[2] \/ at'[2].step = at'[1].step
               /\ UNCHANGED files
               /\ UNCHANGED src /\ UNCHANGED <<held, clean>>
    <3>. DEFINE child == Doing(step, at[b].todo \ {s}, <<>>)
                parent == [child EXCEPT !.pids = <<AnyPid>>]
    <3>1. Fork(b, s, parent, child)
      BY <2>3 DEF Build
    <3>2. parent.step = step /\ child.step = step
      BY <1>0
    <3>. HIDE DEF parent, child
    <3>. QED
      BY <1>1, <1>3, <2>1, <3>1, <3>2
  <2>4. ASSUME NEW s, Goes(b, Doing(step, at[b].todo \ {s}, <<>>)), UNCHANGED files
        PROVE  /\ at'[b].step \in NextSteps(at[b].step)
               /\ b = 2 => at'[1] = at[1] /\ (failed => failed')
               /\ b = 1 => at'[2] = at[2] \/ at'[2].step = at'[1].step
               /\ UNCHANGED files
               /\ UNCHANGED src /\ UNCHANGED <<held, clean>>
    BY <1>0, <1>2, <1>3, <2>1, <2>4
  <2>. QED
    BY <1>3, <2>1, <2>2, <2>3, <2>4 DEF CompileAll
<1>4. CASE CompileLibs(b) \/ CompileServer(b) \/ CompileRest(b)
  BY <1>3, <1>4 DEF CompileLibs, CompileServer, CompileRest, NextSteps
<1>5. CASE ArchiveLibs(b) \/ ShareLibs(b)
  <2>1. PICK job, next : BuildAsync(b, job, next) /\ at[b].step \in {"ar", "so"} /\ next \in NextSteps(at[b].step)
    BY <1>5 DEF ArchiveLibs, ShareLibs, NextSteps
  <2>2. ~RemoveObjects(b) /\ at[b].step # "remove" /\ at[b].step # "off"
    BY <2>1 DEF RemoveObjects, Does
  <2>. QED
    BY <1>0, <1>1, <2>1, <2>2 DEF BuildAsync
<1>6. CASE ArchiveServer(b) \/ Link(b)
  <2>1. PICK job, next : /\ Build(b, job, Doing(next, {}, <<>>)) /\ at[b].step \in {"server.a", "link"}
                         /\ next \in NextSteps(at[b].step)
    BY <1>6 DEF ArchiveServer, Link, Does, NextSteps
  <2>2. ~RemoveObjects(b) /\ at[b].step # "remove" /\ at[b].step # "off"
    BY <2>1 DEF RemoveObjects, Does
  <2>. DEFINE child == Doing(next, {}, <<>>)
              parent == [child EXCEPT !.pids = <<AnyPid>>]
  <2>3. Fork(b, job, parent, child)
    BY <2>1 DEF Build
  <2>4. parent.step = next /\ child.step = next
    BY <1>0
  <2>. HIDE DEF parent, child
  <2>. QED
    BY <1>1, <2>1, <2>2, <2>3, <2>4
<1>7. CASE BuildsWaited(b)
  BY <1>0, <1>2, <1>7 DEF BuildsWaited, NextSteps
<1>8. CASE RemoveObjects(b)
  BY <1>0, <1>2, <1>8 DEF RemoveObjects, Does, NextSteps
<1>9. CASE Wait(b)
  <2>1. at[b].step # "off" /\ at[b].step # "so"
    <3>1. at[b].step = "off" => at[b].pids = <<>>
      BY DEF ChildrenIInv, WaitsFor, JobsAt
    <3>. QED
      BY <1>9, <3>1 DEF Wait
  <2>2. at[b].step \notin {"ar", "server.a", "link", "sync"}
    <3>1. at[b].step \in {"ar", "server.a", "link", "sync"} => at[b].pids = <<>>
      BY DEF ChildrenIInv, WaitsFor, JobsAt
    <3>. QED
      BY <1>9, <3>1 DEF Wait
  <2>3. at'[b].step = at[b].step /\ \A c \in Builders : c # b => at'[c] = at[c]
    BY <1>0, <1>9 DEF Wait, BuilderStates
  <2>4. at[b].step \in StepNames
    BY <1>0 DEF BuilderStates
  <2>5. at[b].step \in NextSteps(at[b].step)
    BY <2>1, <2>2, <2>4 DEF StepNames, NextSteps
  <2>. QED
    BY <1>0, <1>9, <2>1, <2>3, <2>5 DEF Wait, sourceVars
<1>10. CASE End(b)
  <2>1. at[b].step = "run" /\ at'[b] = Off /\ \A c \in Builders : c # b => at'[c] = at[c]
    BY <1>0, <1>10 DEF End, Does
  <2>. QED
    BY <1>0, <1>10, <2>1 DEF End, NextSteps
<1>. QED
  BY <1>4, <1>5, <1>6, <1>7, <1>8, <1>9, <1>10 DEF Steps

-----------------------------------------------------------------------------
(* What else the steps of the builders keep.                                *)
LEMMA StepsKeepFiles ==
  ASSUME ChildrenIInv, FilesOK, ServerObjectsGone, TextsHeld, NEW b \in Builders, Steps(b)
  PROVE  FilesOK' /\ ServerObjectsGone' /\ TextsHeld'
<1>0. Builders = {1, 2} /\ "obj" \in Places
  BY DEF Builders, Places
<1>1. FilesOK'
  BY <1>0, StepShape DEF FilesOK, RemoveObjects
<1>2. TextsHeld'
  <2>. SUFFICES ASSUME at'[1].step # "off" PROVE TextsHeld'
    BY DEF TextsHeld
  <2>1. UNCHANGED <<src, held>>
    BY StepShape
  <2>2. at[1].step # "off"
    BY <1>0, StepShape
  <2>. QED
    BY <2>1, <2>2 DEF TextsHeld
<1>3. ServerObjectsGone'
  <2>. DEFINE late == {"off", "sync", "rest", "link", "run"}
              lateOrOff == {"off", "rest", "link", "run"}
  <2>. SUFFICES ASSUME at'[1].step \in late
                PROVE  (\A s \in Server : files'["obj"][s] = 0) /\ at'[2].step \in lateOrOff
    BY DEF ServerObjectsGone
  <2>1. CASE b = 2
    <3>1. at'[1] = at[1] /\ at[2].step \in {"rest", "link", "run"} /\ \A s \in Server : files["obj"][s] = 0
      BY <2>1, StepShape DEF ServerObjectsGone
    <3>2. at'[2].step \in {"rest", "link", "run", "off"}
      BY <2>1, <3>1, StepShape DEF NextSteps
    <3>3. UNCHANGED files
      BY <2>1, <3>1, StepShape DEF RemoveObjects, Does
    <3>. QED
      BY <3>1, <3>2, <3>3
  <2>2. CASE b = 1 /\ RemoveObjects(1)
    <3>1. at[1].step = "remove" /\ at[1].pids = <<>>
      BY <2>2 DEF RemoveObjects, Does
    <3>2. Children(1) = {} /\ at[2].step = "off"
      <4>1. Children(1) = {}
        BY <1>0, <2>2, NoPidsNoChildren DEF ChildrenIInv, RemoveObjects, Does
      <4>2. second = NoPid
        BY <4>1, ParentsAreBuilders DEF ChildrenIInv
      <4>. QED
        BY <4>1, <4>2 DEF ChildrenIInv, SecondIsChild
    <3>3. at'[2] = at[2]
      BY <1>0, <2>2 DEF RemoveObjects, Goes, ChildrenIInv, BuilderTypeOK
    <3>4. \A s \in Server : files'["obj"][s] = 0
      BY <1>0, <2>2 DEF RemoveObjects, FilesOK, Sources
    <3>. QED
      BY <3>2, <3>3, <3>4
  <2>3. CASE b = 1 /\ ~RemoveObjects(1)
    <3>1. UNCHANGED files /\ at[1].step \in {"rest", "link", "run"} /\ at'[1].step \in lateOrOff
      <4>1. UNCHANGED files /\ (at[1].step = "remove" => at'[1].step = "remove")
        BY <2>3, StepShape
      <4>2. at'[1].step \in NextSteps(at[1].step) /\ at[1].step # "off"
        BY <2>3, StepShape
      <4>3. at[1].step # "sync"
        BY <2>3 DEF Steps, CompileLibs, CompileServer, CompileRest, CompileAll, ArchiveLibs, ShareLibs,
           BuildsWaited, ArchiveServer, RemoveObjects, Link, Wait, End, Does, ChildrenIInv, WaitsFor, JobsAt, Builders
      <4>4. at[1].step \in StepNames
        BY <1>0 DEF ChildrenIInv, BuilderTypeOK, BuilderStates
      <4>. QED
        BY <4>1, <4>2, <4>3, <4>4 DEF NextSteps, StepNames
    <3>2. at'[2] = at[2] \/ at'[2].step = at'[1].step
      BY <2>3, StepShape
    <3>. QED
      BY <3>1, <3>2 DEF ServerObjectsGone
  <2>. QED
    BY <1>0, <2>1, <2>2, <2>3
<1>. QED
  BY <1>1, <1>2, <1>3

(* A tool writes the objects of its own step only.                          *)
LEMMA ToolKeepsFiles ==
  ASSUME ChildrenIInv, FilesOK, ServerObjectsGone, TextsHeld, NEW p \in tools, ToolEnds(p)
  PROVE  FilesOK' /\ ServerObjectsGone' /\ TextsHeld'
<1>1. /\ p[1] \in Builders /\ p[2] \in Jobs /\ p[2] \in JobsAt(at[p[1]])
      /\ UNCHANGED <<src, held, at>>
  BY ParentsAreBuilders DEF ChildrenIInv, WaitsFor, ToolEnds, sourceVars
<1>2. "obj" \in Places /\ (p[2] \notin Sources => Place(p[2]) # "obj")
      /\ (p[2] \in Sources => Place(p[2]) = "obj")
  <2>1. p[2] \notin Sources => p[2] \in {"async.a", "async.so", "server.a", "app"}
    BY <1>1 DEF Jobs
  <2>. QED
    BY <2>1 DEF Place, Places
<1>3. DOMAIN Empty = Sources /\ \A s \in Sources : Empty[s] = 0
  BY DEF Empty
<1>4. PICK c : /\ DOMAIN c = Sources /\ (p[2] \in Sources => \A s \in Sources : s # p[2] => c[s] = files["obj"][s])
               /\ files' \in {files, [files EXCEPT ![Place(p[2])] = c]}
  <2>1. /\ DOMAIN Members(p[2]) = Sources \/ p[2] = "async.so"
        /\ p[2] \in Sources => \A s \in Sources : s # p[2] => Members(p[2])[s] = files["obj"][s]
    <3>1. CASE p[2] \in Sources
      <4>1. Members(p[2]) = [files["obj"] EXCEPT ![p[2]] = src[p[2]].text]
        <5>1. p[2] \notin {"async.a", "async.so", "server.a", "app"}
          BY <3>1, BuilderAssumption DEF Sources
        <5>. QED
          BY <3>1, <5>1 DEF Members
      <4>. QED
        BY <1>2, <4>1 DEF FilesOK
    <3>2. CASE p[2] \notin Sources
      <4>1. \A group : DOMAIN Of(group) = Sources
        BY DEF Of
      <4>2. p[2] = "app" => DOMAIN Members(p[2]) = Sources
        BY <3>2 DEF Members
      <4>3. p[2] \in {"async.a", "server.a"} => DOMAIN Members(p[2]) = Sources
        BY <3>2, <4>1 DEF Members
      <4>. QED
        BY <1>1, <3>2, <4>2, <4>3 DEF Jobs
    <3>. QED
      BY <3>1, <3>2
  <2>2. /\ DOMAIN Unmade(p[2]) = Sources
        /\ p[2] \in Sources => \A s \in Sources : s # p[2] => Unmade(p[2])[s] = files["obj"][s]
    BY <1>2, <1>3 DEF Unmade, FilesOK
  <2>3. \/ files' = files
        \/ p[2] # "async.so" /\ files' = [files EXCEPT ![Place(p[2])] = Members(p[2])]
        \/ files' = [files EXCEPT ![Place(p[2])] = Unmade(p[2])]
    BY DEF ToolEnds
  <2>. QED
    BY <2>1, <2>2, <2>3
<1>5. FilesOK'
  BY <1>4 DEF FilesOK
<1>6. ServerObjectsGone'
  <2>. SUFFICES ASSUME at[1].step \in {"off", "sync", "rest", "link", "run"}
                PROVE  (\A s \in Server : files'["obj"][s] = 0) /\ at[2].step \in {"off", "rest", "link", "run"}
    BY <1>1 DEF ServerObjectsGone
  <2>1. (\A s \in Server : files["obj"][s] = 0) /\ at[2].step \in {"off", "rest", "link", "run"}
    BY DEF ServerObjectsGone
  <2>2. p[2] \notin Server
    <3>1. at[p[1]].step \in {"off", "sync", "rest", "link", "run"}
      BY <1>1, <2>1 DEF Builders
    <3>2. p[2] \in Rest \cup {"app"}
      BY <1>1, <3>1 DEF JobsAt, GroupOf
    <3>. QED
      BY <3>2, BuilderAssumption
  <2>3. \A s \in Server : files'["obj"][s] = files["obj"][s]
    BY <1>2, <1>4, <2>2 DEF FilesOK, Sources
  <2>. QED
    BY <2>1, <2>3
<1>7. TextsHeld'
  BY <1>1 DEF TextsHeld
<1>. QED
  BY <1>5, <1>6, <1>7

(* The beginning of a run, --sync, and the changes of sources.              *)
LEMMA OthersKeepFiles ==
  ASSUME ChildrenIInv, FilesOK, ServerObjectsGone, TextsHeld,
         Begin \/ SyncRepo \/ (\E s \in Sources : Write(s) \/ Delete(s)) \/ (\E f \in Libs : WriteKit(f))
  PROVE  FilesOK' /\ ServerObjectsGone' /\ TextsHeld'
<1>0. at \in [Builders -> BuilderStates] /\ Builders = {1, 2} /\ "obj" \in Places
      /\ Off.step = "off" /\ \A step, todo, pids : Doing(step, todo, pids).step = step
  BY DEF ChildrenIInv, BuilderTypeOK, Builders, Off, Doing, Places
<1>1. CASE Begin
  <2>1. /\ at[1].step = "off" /\ at'[1].step \in {"sync", "libs"} /\ at'[2] = at[2]
        /\ held' = [s \in Sources |-> {src[s].text}] /\ UNCHANGED src
        /\ files' = files \/ files' = [p \in DOMAIN files |-> Empty]
    BY <1>0, <1>1 DEF Begin
  <2>2. FilesOK'
    BY <2>1 DEF FilesOK, Empty
  <2>3. \A s \in Server : files'["obj"][s] = 0
    BY <1>0, <2>1 DEF FilesOK, ServerObjectsGone, Empty, Sources
  <2>4. ServerObjectsGone'
    BY <2>1, <2>3 DEF ServerObjectsGone
  <2>5. TextsHeld'
    BY <2>1 DEF TextsHeld
  <2>. QED
    BY <2>2, <2>4, <2>5
<1>2. CASE SyncRepo
  <2>1. /\ at[1].step = "sync" /\ at'[1].step \in {"libs", "off"} /\ at'[2] = at[2]
        /\ UNCHANGED files /\ at[1] # Off
    BY <1>0, <1>2 DEF SyncRepo
  <2>2. held' = [s \in Sources |-> held[s] \cup {src'[s].text}]
    BY <1>2, <2>1 DEF SyncRepo, Holds
  <2>. QED
    BY <2>1, <2>2 DEF FilesOK, ServerObjectsGone, TextsHeld
<1>3. ASSUME NEW s \in Sources, NEW text, Put(s, text)
      PROVE  FilesOK' /\ ServerObjectsGone' /\ TextsHeld'
  <2>1. UNCHANGED <<files, at>>
    BY <1>3 DEF Put, processVars
  <2>2. at[1].step # "off" => held' = [r \in Sources |-> held[r] \cup {src'[r].text}]
    BY <1>0, <1>3 DEF Put, Holds
  <2>. QED
    BY <2>1, <2>2 DEF FilesOK, ServerObjectsGone, TextsHeld
<1>4. CASE \E s \in Sources : Write(s) \/ Delete(s)
  BY <1>3, <1>4 DEF Write, Delete
<1>5. CASE \E f \in Libs : WriteKit(f)
  BY <1>5 DEF WriteKit, processVars, FilesOK, ServerObjectsGone, TextsHeld
<1>. QED
  BY <1>1, <1>2, <1>4, <1>5

-----------------------------------------------------------------------------
(* As long as nothing has failed there is one builder, with its tools.      *)
LEMMA OneBuilder ==
  ASSUME ChildrenIInv, ~failed
  PROVE  /\ at[2].step = "off"
         /\ \A p \in tools : p = <<1, p[2]>> /\ p[2] \in JobsAt(at[1])
         /\ at[1].pids = <<>> => tools = {}
         /\ at[1].step \notin {"so", "wait"} => \A p, q \in tools : p = q
<1>1. at[2].step = "off" /\ Children(2) = {} /\ WaitsFor(at[1], Children(1))
  BY DEF ChildrenIInv, SecondIsChild, WaitsFor, JobsAt, Builders
<1>2. ASSUME NEW p \in tools PROVE p \in Children(1) /\ p = <<1, p[2]>> /\ p[2] \in JobsAt(at[1])
  <2>1. p \in Builders \X Jobs /\ p \in Children(p[1]) /\ p[1] \in Builders
    BY ParentsAreBuilders DEF ChildrenIInv, BuilderTypeOK
  <2>2. p[1] = 1
    BY <1>1, <2>1 DEF Builders
  <2>. QED
    BY <1>1, <2>1, <2>2 DEF WaitsFor
<1>3. at[1].pids = <<>> => tools = {}
  BY <1>1, <1>2, NoPidsNoChildren
<1>4. at[1].step \notin {"so", "wait"} => \A p, q \in tools : p = q
  BY <1>1, <1>2 DEF WaitsFor
<1>. QED
  BY <1>1, <1>2, <1>3, <1>4

(* What is fresh stays fresh, whatever is added to what a source was.       *)
LEMMA FreshStays ==
  ASSUME FreshSoFar, UNCHANGED <<files, tools, clean>>,
         \A s \in Sources : held[s] \subseteq held'[s],
         at'[1].step = at[1].step, at'[1].todo = at[1].todo
  PROVE  FreshSoFar'
<1>1. \A s \in Sources : \A text : Fresh(s, text) => Fresh(s, text)'
  BY DEF Fresh
<1>2. Uncompiled' = Uncompiled
  BY DEF Uncompiled
<1>3. Libs \subseteq Sources /\ Server \subseteq Sources
  BY DEF Sources
<1>. QED
  BY <1>1, <1>2, <1>3 DEF FreshSoFar

(* A source that is being compiled, or that there is none of, is no longer  *)
(* left to compile.                                                         *)
LEMMA CompileFresh ==
  ASSUME FreshIInv, NEW step \in {"libs", "server", "rest"}, NEW next,
         (step = "libs" /\ next = "ar") \/ (step = "server" /\ next = "server.a")
           \/ (step = "rest" /\ next = "link"),
         CompileAll(1, step, Doing(next, {}, <<>>)), ~failed'
  PROVE  FreshSoFar'
<1>0. /\ 1 \in Builders /\ at \in [Builders -> BuilderStates]
      /\ at[1].step = step /\ at[1].pids = <<>> /\ at[1].todo \subseteq GroupOf(step)
      /\ \A s, todo, pids : Doing(s, todo, pids).step = s /\ Doing(s, todo, pids).todo = todo
  BY DEF FreshIInv, ChildrenIInv, BuilderTypeOK, Builders, BuilderStates, CompileAll, Does, Doing
<1>1. UNCHANGED <<src, held, files, clean>> /\ ~failed
  <2>1. ASSUME NEW to, Goes(1, to), UNCHANGED files PROVE UNCHANGED <<src, held, files, clean, failed>>
    BY <2>1 DEF Goes, sourceVars
  <2>2. ASSUME NEW s, NEW after, Build(1, s, after)
        PROVE  UNCHANGED <<src, held, files, clean>> /\ (failed => failed')
    BY <1>0, <2>2, ForkShape DEF Build, FreshIInv
  <2>. QED
    BY <2>1, <2>2 DEF CompileAll
<1>2. FreshSoFar /\ tools = {} /\ TextsHeld
  BY <1>0, <1>1, OneBuilder DEF FreshIInv, FreshRun
<1>3. \A s, text : Fresh(s, text)' <=> Fresh(s, text)
  BY <1>1 DEF Fresh
<1>4. CASE at[1].todo = {} /\ Goes(1, Doing(next, {}, <<>>))
  <2>1. at'[1].step = next /\ at'[1].todo = {} /\ UNCHANGED tools
    BY <1>0, <1>4 DEF Goes
  <2>2. Uncompiled' = Uncompiled
    BY <1>0, <1>4, <2>1 DEF Uncompiled, ToServer, FromThere
  <2>. QED
    BY <1>0, <1>1, <1>2, <1>3, <2>1, <2>2 DEF FreshSoFar, ToServer, FromThere, Past
<1>5. ASSUME NEW s \in at[1].todo,
             IF Compiles(s) THEN Build(1, s, Doing(step, at[1].todo \ {s}, <<>>))
                            ELSE Goes(1, Doing(step, at[1].todo \ {s}, <<>>))
      PROVE  FreshSoFar'
  <2>. DEFINE rest   == Doing(step, at[1].todo \ {s}, <<>>)
              parent == [rest EXCEPT !.pids = <<AnyPid>>]
  <2>1. /\ rest.step = step /\ rest.todo = at[1].todo \ {s}
        /\ parent.step = step /\ parent.todo = at[1].todo \ {s}
    BY DEF Doing
  <2>2. at'[1].step = step /\ at'[1].todo = at[1].todo \ {s}
        /\ (Compiles(s) => <<1, s>> \in tools') /\ (~Compiles(s) => tools' = {})
    <3>1. CASE Compiles(s)
      <4>1. Fork(1, s, parent, rest)
        BY <1>5, <3>1 DEF Build
      <4>. HIDE DEF parent, rest
      <4>2. at'[1] = parent /\ tools' = tools \cup {<<1, s>>}
        BY <1>0, <4>1, ForkShape DEF FreshIInv
      <4>. QED
        BY <2>1, <3>1, <4>2
    <3>2. CASE ~Compiles(s)
      <4>1. Goes(1, rest)
        BY <1>5, <3>2
      <4>. HIDE DEF rest
      <4>2. at'[1] = rest /\ UNCHANGED tools
        BY <1>0, <4>1 DEF Goes
      <4>. QED
        BY <1>2, <2>1, <3>2, <4>2
    <3>. QED
      BY <3>1, <3>2
  <2>3. s \in Uncompiled /\ s \in Sources /\ Uncompiled' = Uncompiled \ {s}
    <3>1. s \in GroupOf(step)
      BY <1>0
    <3>. QED
      BY <1>0, <2>2, <3>1, BuilderAssumption DEF Uncompiled, ToServer, FromThere, GroupOf, Sources
  <2>4. <<1, s>> \in tools' \/ Fresh(s, files["obj"][s])
    <3>1. CASE Compiles(s)
      BY <2>2, <3>1
    <3>2. CASE ~Compiles(s)
      <4>1. src[s].text = 0 /\ 0 \in held[s]
        BY <1>0, <1>2, <2>3, <3>2 DEF Compiles, Known, TextsHeld
      <4>2. s \in Server \/ clean => files["obj"][s] = 0
        BY <1>2, <2>3 DEF FreshSoFar
      <4>. QED
        BY <4>1, <4>2 DEF Fresh
    <3>. QED
      BY <3>1, <3>2
  <2>. HIDE DEF rest, parent
  <2>5. \A r \in Uncompiled' : r \in Server \/ clean' => files'["obj"][r] = 0
    BY <1>1, <1>2, <2>3 DEF FreshSoFar
  <2>6. \A r \in Sources \ Uncompiled' :
          \/ r \in Server /\ at'[1].step \in Past
          \/ <<1, r>> \in tools'
          \/ Fresh(r, files["obj"][r])
    BY <1>0, <1>2, <2>2, <2>3, <2>4 DEF FreshSoFar
  <2>7. step \notin {"so", "wait", "remove", "run"}
    OBVIOUS
  <2>. QED
    BY <1>0, <1>1, <1>2, <1>3, <2>2, <2>5, <2>6, <2>7 DEF FreshSoFar
<1>. QED
  BY <1>4, <1>5 DEF CompileAll

(* The archives and the program: while the tool is at work there is nothing *)
(* to say of what it makes.                                                 *)
LEMMA BuildFresh ==
  ASSUME FreshIInv, ArchiveLibs(1) \/ ShareLibs(1) \/ ArchiveServer(1) \/ Link(1), ~failed'
  PROVE  FreshSoFar'
<1>0. /\ 1 \in Builders /\ at \in [Builders -> BuilderStates] /\ at[1].todo \subseteq GroupOf(at[1].step)
      /\ \A s, todo, pids : Doing(s, todo, pids).step = s /\ Doing(s, todo, pids).todo = todo
      /\ \A s, todo, pids, more : /\ [Doing(s, todo, pids) EXCEPT !.pids = more].step = s
                                  /\ [Doing(s, todo, pids) EXCEPT !.pids = more].todo = todo
  BY DEF FreshIInv, ChildrenIInv, BuilderTypeOK, Builders, BuilderStates, Doing
<1>1. ASSUME NEW job, NEW parent, NEW child, Fork(1, job, parent, child), parent.todo = {},
             \/ at[1].step = "ar" /\ job = "async.a" /\ parent.step = "so"
             \/ at[1].step = "so" /\ job = "async.so" /\ parent.step = "wait"
             \/ at[1].step = "server.a" /\ job = "server.a" /\ parent.step = "remove"
             \/ at[1].step = "link" /\ job = "app" /\ parent.step = "run"
      PROVE  FreshSoFar'
  <2>1. /\ UNCHANGED <<held, files, clean>> /\ ~failed
        /\ at'[1] = parent /\ tools' = tools \cup {<<1, job>>}
    BY <1>0, <1>1, ForkShape DEF FreshIInv
  <2>2. FreshSoFar /\ at[1].todo = {}
    BY <1>0, <1>1, <2>1 DEF FreshIInv, FreshRun, GroupOf
  <2>3. \A s, text : Fresh(s, text)' <=> Fresh(s, text)
    BY <2>1 DEF Fresh
  <2>4. Uncompiled' = Uncompiled
    BY <1>1, <2>1, <2>2 DEF Uncompiled, ToServer, FromThere
  <2>5. /\ \A s \in Uncompiled' : s \in Server \/ clean' => files'["obj"][s] = 0
        /\ \A s \in Sources \ Uncompiled' :
             \/ s \in Server /\ at'[1].step \in Past
             \/ <<1, s>> \in tools'
             \/ Fresh(s, files["obj"][s])
    BY <1>1, <2>1, <2>2, <2>4 DEF FreshSoFar, Past
  <2>6. at'[1].step \in {"so", "wait"} =>
          <<1, "async.a">> \in tools' \/ \A s \in Libs : Fresh(s, files["async.a"][s])
    BY <1>1, <2>1, <2>2 DEF FreshSoFar
  <2>7. /\ at'[1].step \in FromThere \cup Past => \A s \in Libs : Fresh(s, files["async.a"][s])
        /\ at'[1].step \in Past => \A s \in Server : Fresh(s, files["server.a"][s])
    BY <1>1, <2>1, <2>2 DEF FreshSoFar, FromThere, Past
  <2>8. /\ at'[1].step = "remove" => <<1, "server.a">> \in tools'
        /\ at'[1].step = "run" => <<1, "app">> \in tools'
    BY <1>1, <2>1
  <2>. QED
    BY <2>1, <2>3, <2>5, <2>6, <2>7, <2>8 DEF FreshSoFar
<1>2. CASE ArchiveLibs(1)
  <2>1. Fork(1, "async.a", Doing("so", {}, Append(at[1].pids, <<1, "async.a">>)),
                           Doing("so", {}, Append(at[1].pids, AnyPid))) /\ at[1].step = "ar"
    BY <1>2 DEF ArchiveLibs, BuildAsync
  <2>. QED
    BY <1>0, <1>1, <2>1
<1>3. CASE ShareLibs(1)
  <2>1. Fork(1, "async.so", Doing("wait", {}, Append(at[1].pids, <<1, "async.so">>)),
                            Doing("wait", {}, Append(at[1].pids, AnyPid))) /\ at[1].step = "so"
    BY <1>3 DEF ShareLibs, BuildAsync
  <2>. QED
    BY <1>0, <1>1, <2>1
<1>4. CASE ArchiveServer(1)
  <2>. DEFINE child  == Doing("remove", {}, <<>>)
              parent == [child EXCEPT !.pids = <<AnyPid>>]
  <2>1. Fork(1, "server.a", parent, child) /\ at[1].step = "server.a"
    BY <1>4 DEF ArchiveServer, Build, Does
  <2>2. parent.step = "remove" /\ parent.todo = {}
    BY <1>0
  <2>. HIDE DEF parent, child
  <2>. QED
    BY <1>1, <2>1, <2>2
<1>5. CASE Link(1)
  <2>. DEFINE child  == Doing("run", {}, <<>>)
              parent == [child EXCEPT !.pids = <<AnyPid>>]
  <2>1. Fork(1, "app", parent, child) /\ at[1].step = "link"
    BY <1>5 DEF Link, Build, Does
  <2>2. parent.step = "run" /\ parent.todo = {}
    BY <1>0
  <2>. HIDE DEF parent, child
  <2>. QED
    BY <1>1, <2>1, <2>2
<1>. QED
  BY <1>2, <1>3, <1>4, <1>5

(* What was waited for has been made, and what is removed is in an archive. *)
LEMMA PassFresh ==
  ASSUME FreshIInv, BuildsWaited(1) \/ RemoveObjects(1), ~failed'
  PROVE  FreshSoFar'
<1>0. /\ 1 \in Builders /\ at \in [Builders -> BuilderStates] /\ at[1].todo \subseteq GroupOf(at[1].step)
      /\ at[1].pids = <<>>
      /\ \A s, todo, pids : Doing(s, todo, pids).step = s /\ Doing(s, todo, pids).todo = todo
  BY DEF FreshIInv, ChildrenIInv, BuilderTypeOK, Builders, BuilderStates, Doing, BuildsWaited, AllWaited,
     RemoveObjects, Does
<1>1. UNCHANGED <<held, clean, failed, tools>> /\ at[1].step \in {"wait", "remove"}
  BY DEF BuildsWaited, RemoveObjects, Does, Goes, sourceVars
<1>2. FreshSoFar /\ tools = {} /\ at[1].todo = {}
  BY <1>0, <1>1, OneBuilder DEF FreshIInv, FreshRun, GroupOf
<1>3. \A s, text : Fresh(s, text)' <=> Fresh(s, text)
  BY <1>1 DEF Fresh
<1>4. CASE BuildsWaited(1)
  <2>1. at[1].step = "wait" /\ at'[1].step = "server" /\ at'[1].todo = Server /\ UNCHANGED files
    BY <1>0, <1>4 DEF BuildsWaited, Goes
  <2>2. Uncompiled' = Uncompiled
    BY <1>2, <2>1 DEF Uncompiled, ToServer, FromThere
  <2>. QED
    BY <1>1, <1>2, <1>3, <2>1, <2>2 DEF FreshSoFar, FromThere, Past
<1>5. CASE RemoveObjects(1)
  <2>1. /\ at[1].step = "remove" /\ at'[1].step = "rest" /\ at'[1].todo = Rest
        /\ files' = [files EXCEPT !["obj"] = [s \in Sources |-> IF s \in Server THEN 0 ELSE @[s]]]
    BY <1>0, <1>5 DEF RemoveObjects, Does, Goes
  <2>2. /\ \A s \in Sources : s \notin Server => files'["obj"][s] = files["obj"][s]
        /\ \A s \in Sources : s \in Server => files'["obj"][s] = 0
        /\ files'["async.a"] = files["async.a"] /\ files'["server.a"] = files["server.a"]
    <3>1. DOMAIN files = Places /\ "obj" \in Places
      BY DEF FreshIInv, FilesOK, Places
    <3>. QED
      BY <2>1, <3>1
  <2>3. Uncompiled' = Uncompiled /\ Uncompiled = Rest /\ Rest \subseteq Sources /\ Server \cap Rest = {}
    BY <1>2, <2>1, BuilderAssumption DEF Uncompiled, ToServer, FromThere, Sources
  <2>4. \A s \in Uncompiled' : s \in Server \/ clean' => files'["obj"][s] = 0
    BY <1>1, <1>2, <2>2, <2>3 DEF FreshSoFar
  <2>5. \A s \in Sources \ Uncompiled' :
          (s \in Server /\ at'[1].step \in Past) \/ Fresh(s, files'["obj"][s])
    BY <1>2, <2>1, <2>2, <2>3 DEF FreshSoFar, Past
  <2>6. /\ \A s \in Libs : Fresh(s, files'["async.a"][s])
        /\ \A s \in Server : Fresh(s, files'["server.a"][s])
    BY <1>2, <2>1, <2>2 DEF FreshSoFar, FromThere
  <2>. QED
    BY <1>3, <2>1, <2>4, <2>5, <2>6 DEF FreshSoFar
<1>. QED
  BY <1>4, <1>5

(* What a tool makes is as fresh as what it is made from.                   *)
LEMMA ToolFresh ==
  ASSUME FreshIInv, NEW p \in tools, ToolEnds(p), at'[1].step # "off", ~failed'
  PROVE  FreshSoFar'
<1>. DEFINE job == p[2]
<1>1. /\ UNCHANGED <<src, held, clean, at>> /\ tools' = tools \ {p} /\ ~failed
      /\ job = "async.so" => files' = files
      /\ job # "async.so" => files' = [files EXCEPT ![Place(job)] = Members(job)]
  BY DEF ToolEnds, Exits, sourceVars
<1>2. /\ FreshSoFar /\ p = <<1, job>> /\ job \in JobsAt(at[1])
      /\ \A q \in tools : q = <<1, q[2]>> /\ q[2] \in JobsAt(at[1])
      /\ at[1].step \notin {"so", "wait"} => tools = {p}
      /\ at[1].todo \subseteq GroupOf(at[1].step)
  BY <1>1, OneBuilder DEF FreshIInv, FreshRun, ChildrenIInv, BuilderTypeOK, BuilderStates, Builders
<1>3. \A s, text : Fresh(s, text)' <=> Fresh(s, text)
  BY <1>1 DEF Fresh
<1>4. Uncompiled' = Uncompiled /\ at'[1] = at[1]
  BY <1>1 DEF Uncompiled
<1>5. /\ DOMAIN files = Places /\ \A q \in Places : DOMAIN files[q] = Sources
      /\ {"obj", "async.a", "server.a", "app"} \subseteq Places
      /\ \A s \in Sources : s \notin {"async.a", "async.so", "server.a", "app"}
  BY BuilderAssumption DEF FreshIInv, FilesOK, Places, Sources
<1>6. /\ \A s \in Libs : s \in Sources /\ s \notin Server /\ s \notin Rest
      /\ \A s \in Server : s \in Sources /\ s \notin Rest /\ s \notin Libs
      /\ \A s \in Rest : s \in Sources
  BY BuilderAssumption DEF Sources
<1>. HIDE DEF job
<1>7. CASE job \in Sources
  <2>1. at[1].step \in {"libs", "server", "rest"} /\ job \in GroupOf(at[1].step) \ at[1].todo
    BY <1>2, <1>5, <1>7 DEF JobsAt
  <2>2. job \notin Uncompiled
    BY <1>6, <2>1 DEF Uncompiled, ToServer, FromThere, GroupOf
  <2>3. Members(job) = [files["obj"] EXCEPT ![job] = src[job].text] /\ Place(job) = "obj" /\ job # "async.so"
    BY <1>5, <1>7 DEF Members, Place
  <2>4. /\ files'["obj"][job] = src[job].text
        /\ \A s \in Sources : s # job => files'["obj"][s] = files["obj"][s]
        /\ files'["async.a"] = files["async.a"] /\ files'["server.a"] = files["server.a"]
    <3>1. files' = [files EXCEPT !["obj"] = [files["obj"] EXCEPT ![job] = src[job].text]]
      BY <1>1, <2>3
    <3>2. files'["obj"] = [files["obj"] EXCEPT ![job] = src[job].text]
      BY <1>5, <3>1
    <3>. QED
      BY <1>5, <1>7, <3>1, <3>2
  <2>5. tools = {p} /\ src[job].text \in held[job]
    BY <1>2, <1>7, <2>1 DEF FreshIInv, TextsHeld
  <2>6. \A s \in Uncompiled' : s \in Server \/ clean' => files'["obj"][s] = 0
    <3>1. Uncompiled \subseteq Sources
      BY <1>2, <1>6, <2>1 DEF Uncompiled, GroupOf
    <3>. QED
      BY <1>1, <1>2, <1>4, <2>2, <2>4, <3>1 DEF FreshSoFar
  <2>7. \A s \in Sources \ Uncompiled' :
          (s \in Server /\ at'[1].step \in Past) \/ Fresh(s, files'["obj"][s])
    <3>. SUFFICES ASSUME NEW s \in Sources \ Uncompiled
                  PROVE  (s \in Server /\ at[1].step \in Past) \/ Fresh(s, files'["obj"][s])
      BY <1>4
    <3>1. CASE s = job
      BY <2>4, <2>5, <3>1 DEF Fresh
    <3>2. CASE s # job
      <4>1. <<1, s>> \notin tools
        BY <1>2, <2>5, <3>2
      <4>. QED
        BY <1>2, <2>4, <3>2, <4>1 DEF FreshSoFar
    <3>. QED
      BY <3>1, <3>2
  <2>. QED
    BY <1>2, <1>3, <1>4, <2>1, <2>4, <2>6, <2>7 DEF FreshSoFar
<1>8. CASE job = "async.so"
  <2>1. at[1].step = "wait"
    BY <1>2, <1>5, <1>8 DEF JobsAt, GroupOf, Sources
  <2>2. \A q \in tools : q # p => q \in tools'
    BY <1>1
  <2>3. <<1, "async.a">> # p /\ \A s \in Sources : <<1, s>> # p
    BY <1>2, <1>5, <1>8
  <2>. QED
    BY <1>1, <1>2, <1>3, <1>4, <1>8, <2>1, <2>2, <2>3 DEF FreshSoFar, FromThere, Past
<1>9. CASE job = "async.a"
  <2>1. at[1].step \in {"so", "wait"} /\ at[1].todo = {}
    BY <1>2, <1>5, <1>9 DEF JobsAt, GroupOf, Sources
  <2>2. \A s \in Libs : files'["async.a"][s] = files["obj"][s]
    BY <1>1, <1>5, <1>6, <1>9 DEF Members, Place, Of
  <2>3. files'["obj"] = files["obj"]
    BY <1>1, <1>5, <1>9 DEF Place
  <2>4. \A s \in Sources : <<1, s>> \notin tools
    <3>1. JobsAt(at[1]) \subseteq {"async.a", "async.so"}
      BY <2>1 DEF JobsAt
    <3>. QED
      BY <1>2, <1>5, <3>1
  <2>5. \A s \in Libs : s \in Sources \ Uncompiled /\ s \notin Server
    BY <1>6, <2>1 DEF Uncompiled
  <2>6. \A s \in Libs : Fresh(s, files'["async.a"][s])
    BY <1>2, <2>2, <2>4, <2>5 DEF FreshSoFar
  <2>7. \A s \in Sources \ Uncompiled : (s \in Server /\ at[1].step \in Past) \/ Fresh(s, files["obj"][s])
    BY <1>2, <2>4 DEF FreshSoFar
  <2>8. \A s \in Uncompiled : s \in Server \/ clean => files["obj"][s] = 0
    BY <1>2 DEF FreshSoFar
  <2>. QED
    BY <1>1, <1>3, <1>4, <2>1, <2>3, <2>6, <2>7, <2>8 DEF FreshSoFar, FromThere, Past
<1>10. CASE job = "server.a"
  <2>1. at[1].step = "remove" /\ tools = {p} /\ at[1].todo = {}
    BY <1>2, <1>5, <1>10 DEF JobsAt, GroupOf, Sources
  <2>2. \A s \in Server : files'["server.a"][s] = files["obj"][s]
    BY <1>1, <1>5, <1>6, <1>10 DEF Members, Place, Of
  <2>3. files'["obj"] = files["obj"] /\ files'["async.a"] = files["async.a"]
    BY <1>1, <1>5, <1>10 DEF Place
  <2>4. \A s \in Sources : <<1, s>> \notin tools
    BY <1>2, <1>5, <1>10, <2>1
  <2>5. \A s \in Server : s \in Sources \ Uncompiled
    BY <1>6, <2>1 DEF Uncompiled, ToServer, FromThere
  <2>6. \A s \in Server : Fresh(s, files'["server.a"][s])
    BY <1>2, <2>1, <2>2, <2>4, <2>5 DEF FreshSoFar, Past
  <2>7. \A s \in Sources \ Uncompiled : (s \in Server /\ at[1].step \in Past) \/ Fresh(s, files["obj"][s])
    BY <1>2, <2>4 DEF FreshSoFar
  <2>8. /\ \A s \in Uncompiled : s \in Server \/ clean => files["obj"][s] = 0
        /\ \A s \in Libs : Fresh(s, files["async.a"][s])
    BY <1>2, <2>1 DEF FreshSoFar, FromThere
  <2>. QED
    BY <1>1, <1>3, <1>4, <2>1, <2>3, <2>6, <2>7, <2>8 DEF FreshSoFar, FromThere, Past
<1>11. CASE job = "app"
  <2>1. at[1].step = "run" /\ tools = {p} /\ at[1].todo = {}
    BY <1>2, <1>5, <1>11 DEF JobsAt, GroupOf, Sources
  <2>2. \A s \in Sources : files'["app"][s] = files[CASE s \in Libs   -> "async.a"
                                                      [] s \in Server -> "server.a"
                                                      [] OTHER        -> "obj"][s]
    <3>1. Members(job) = [s \in Sources |-> files[CASE s \in Libs   -> "async.a"
                                                    [] s \in Server -> "server.a"
                                                    [] OTHER        -> "obj"][s]]
      BY <1>5, <1>11 DEF Members
    <3>2. Place(job) = "app" /\ files'["app"] = Members(job)
      BY <1>1, <1>5, <1>11 DEF Place
    <3>. QED
      BY <3>1, <3>2
  <2>3. /\ \A s \in Libs : files'["app"][s] = files["async.a"][s]
        /\ \A s \in Server : files'["app"][s] = files["server.a"][s]
        /\ \A s \in Sources : s \notin Libs \cup Server => files'["app"][s] = files["obj"][s]
    BY <1>6, <2>2
  <2>4. files'["obj"] = files["obj"] /\ files'["async.a"] = files["async.a"] /\ files'["server.a"] = files["server.a"]
    BY <1>1, <1>5, <1>11 DEF Place
  <2>5. \A s \in Sources : <<1, s>> \notin tools
    BY <1>2, <1>5, <1>11, <2>1
  <2>6. /\ \A s \in Libs : Fresh(s, files["async.a"][s])
        /\ \A s \in Server : Fresh(s, files["server.a"][s])
        /\ \A s \in Sources : s \notin Server => Fresh(s, files["obj"][s])
    BY <1>2, <2>1, <2>5 DEF FreshSoFar, FromThere, Past, Uncompiled, ToServer
  <2>7. \A s \in Sources : Fresh(s, files'["app"][s])
    BY <2>3, <2>6
  <2>8. \A s \in Sources \ Uncompiled : (s \in Server /\ at[1].step \in Past) \/ Fresh(s, files["obj"][s])
    BY <1>2, <2>5 DEF FreshSoFar
  <2>9. \A s \in Uncompiled : s \in Server \/ clean => files["obj"][s] = 0
    BY <1>2 DEF FreshSoFar
  <2>. QED
    BY <1>1, <1>3, <1>4, <2>1, <2>4, <2>6, <2>7, <2>8, <2>9 DEF FreshSoFar, FromThere, Past
<1>12. job \in Jobs
  BY ParentsAreBuilders DEF FreshIInv, ChildrenIInv, job
<1>. QED
  BY <1>7, <1>8, <1>9, <1>10, <1>11, <1>12 DEF Jobs

(* The beginning of a run.                                                  *)
LEMMA BeginFresh ==
  ASSUME FreshIInv, Begin
  PROVE  FreshSoFar'
<1>1. /\ at[1].step = "off" /\ at'[1].step \in {"sync", "libs"} /\ at'[1].todo = Libs
      /\ files' = IF clean' THEN [p \in DOMAIN files |-> Empty] ELSE files
  <2>1. at \in [Builders -> BuilderStates] /\ 1 \in Builders
    BY DEF FreshIInv, ChildrenIInv, BuilderTypeOK, Builders
  <2>. QED
    BY <2>1 DEF Begin, Off, Doing
<1>2. Uncompiled' = Sources
  BY <1>1 DEF Uncompiled, ToServer, Sources
<1>3. "obj" \in DOMAIN files /\ \A s \in Server : s \in Sources /\ files["obj"][s] = 0
  BY <1>1 DEF FreshIInv, FilesOK, Places, ServerObjectsGone, Sources
<1>4. \A s \in Sources : s \in Server \/ clean' => files'["obj"][s] = 0
  <2>1. \A s \in Sources : Empty[s] = 0
    BY DEF Empty
  <2>. QED
    BY <1>1, <1>3, <2>1
<1>. QED
  BY <1>1, <1>2, <1>4 DEF FreshSoFar, FromThere, Past

(* What is true of the files before the first run. *)
LEMMA FreshInit == BuilderInit => FreshIInv
<1>. SUFFICES ASSUME BuilderInit PROVE FreshIInv
  OBVIOUS
<1>1. \A b \in Builders : at[b] = Off /\ Off.step = "off"
  BY DEF BuilderInit, Off, Doing
<1>2. FilesOK /\ \A s \in Sources : files["obj"][s] = 0
  BY DEF BuilderInit, FilesOK, Places, Empty
<1>3. ServerObjectsGone /\ TextsHeld /\ FreshRun
  BY <1>1, <1>2 DEF ServerObjectsGone, TextsHeld, FreshRun, Builders, Sources
<1>. QED
  BY <1>2, <1>3, ChildrenInit DEF FreshIInv

(* Every step keeps what is true of the files up to where the builder is. *)
LEMMA FreshNext == FreshIInv /\ [BuilderNext]_builderVars => FreshIInv'
<1>. SUFFICES ASSUME FreshIInv, [BuilderNext]_builderVars PROVE FreshIInv'
  OBVIOUS
<1>0. ChildrenIInv /\ FilesOK /\ ServerObjectsGone /\ TextsHeld /\ ChildrenIInv'
      /\ at \in [Builders -> BuilderStates] /\ Builders = {1, 2}
  BY ChildrenNext DEF FreshIInv, ChildrenIInv, BuilderTypeOK, Builders
<1>1. CASE UNCHANGED builderVars
  <2>1. UNCHANGED <<src, held, files, at, tools, clean, failed>>
    BY <1>1 DEF builderVars, sourceVars, processVars
  <2>2. FilesOK' /\ ServerObjectsGone' /\ TextsHeld'
    BY <1>0, <2>1 DEF FilesOK, ServerObjectsGone, TextsHeld
  <2>3. FreshRun'
    BY <2>1, FreshStays DEF FreshIInv, FreshRun
  <2>. QED
    BY <1>0, <2>2, <2>3 DEF FreshIInv
<1>2. CASE Begin
  BY <1>0, <1>2, BeginFresh, OthersKeepFiles DEF FreshIInv, FreshRun
<1>3. CASE SyncRepo
  <2>1. at[1].step = "sync" /\ UNCHANGED <<files, tools, clean, failed>>
        /\ at'[1].step \in {"libs", "off"} /\ (at'[1].step = "libs" => at'[1].todo = Libs)
    <3>1. PICK next \in {Doing("libs", Libs, <<>>), Off} : at' = [at EXCEPT ![1] = next]
      BY <1>3 DEF SyncRepo
    <3>2. at'[1] = next
      BY <1>0, <3>1
    <3>. QED
      BY <1>3, <3>1, <3>2 DEF SyncRepo, Off, Doing
  <2>2. ASSUME at'[1].step # "off", ~failed' PROVE FreshSoFar'
    <3>1. Uncompiled = Sources /\ Uncompiled' = Sources
      BY <2>1, <2>2 DEF Uncompiled, ToServer, Sources
    <3>2. \A s \in Sources : s \in Server \/ clean => files["obj"][s] = 0
      BY <2>1, <2>2, <3>1 DEF FreshIInv, FreshRun, FreshSoFar
    <3>. QED
      BY <2>1, <2>2, <3>1, <3>2 DEF FreshSoFar, FromThere, Past
  <2>. QED
    BY <1>0, <1>3, <2>2, OthersKeepFiles DEF FreshIInv, FreshRun
<1>4. ASSUME NEW s \in Sources, NEW text, Put(s, text) PROVE FreshRun'
  <2>1. UNCHANGED <<files, at, tools, clean, failed>>
    BY <1>4 DEF Put, processVars
  <2>2. ASSUME at'[1].step # "off", ~failed' PROVE FreshSoFar'
    <3>1. at[1] # Off
      BY <2>1, <2>2 DEF Off, Doing
    <3>2. held' = [r \in Sources |-> held[r] \cup {src'[r].text}]
      BY <1>4, <3>1 DEF Put, Holds
    <3>3. FreshSoFar /\ \A r \in Sources : held[r] \subseteq held'[r]
      BY <2>1, <2>2, <3>2 DEF FreshIInv, FreshRun
    <3>. QED
      BY <2>1, <3>3, FreshStays
  <2>. QED
    BY <2>2 DEF FreshRun
<1>5. CASE \E s \in Sources : Write(s) \/ Delete(s)
  <2>1. FreshRun'
    BY <1>4, <1>5 DEF Write, Delete
  <2>. QED
    BY <1>0, <1>5, <2>1, OthersKeepFiles DEF FreshIInv
<1>6. CASE \E f \in Libs : WriteKit(f)
  <2>1. FreshRun'
    BY <1>6 DEF WriteKit, processVars, FreshRun, Off, Doing
  <2>. QED
    BY <1>0, <1>6, <2>1, OthersKeepFiles DEF FreshIInv
<1>7. ASSUME NEW b \in Builders, Steps(b) PROVE FreshIInv'
  <2>1. ASSUME at'[1].step # "off", ~failed' PROVE FreshSoFar'
    <3>1. b = 1
      <4>1. b = 2 => failed
        BY <1>0, <1>7, StepShape DEF SecondIsChild, ChildrenIInv
      <4>2. b = 2 => (failed => failed')
        BY <1>0, <1>7, StepShape
      <4>. QED
        BY <1>0, <2>1, <4>1, <4>2
    <3>2. CASE CompileLibs(1)
      BY <2>1, <3>2, CompileFresh DEF CompileLibs
    <3>3. CASE CompileServer(1)
      BY <2>1, <3>3, CompileFresh DEF CompileServer
    <3>4. CASE CompileRest(1)
      BY <2>1, <3>4, CompileFresh DEF CompileRest
    <3>5. CASE ArchiveLibs(1) \/ ShareLibs(1) \/ ArchiveServer(1) \/ Link(1)
      BY <2>1, <3>5, BuildFresh
    <3>6. CASE BuildsWaited(1) \/ RemoveObjects(1)
      BY <2>1, <3>6, PassFresh
    <3>7. CASE Wait(1)
      <4>1. UNCHANGED <<held, files, tools, clean, failed>>
        BY <3>7 DEF Wait, sourceVars
      <4>2. at'[1].step = at[1].step /\ at'[1].todo = at[1].todo
        BY <1>0, <3>7 DEF Wait, BuilderStates
      <4>3. FreshSoFar /\ \A s \in Sources : held[s] \subseteq held'[s]
        BY <2>1, <4>1, <4>2 DEF FreshIInv, FreshRun
      <4>. QED
        BY <4>1, <4>2, <4>3, FreshStays
    <3>8. CASE End(1)
      <4>1. at'[1].step = "off"
        BY <1>0, <3>8 DEF End, Off, Doing
      <4>. QED
        BY <2>1, <4>1
    <3>. QED
      BY <1>7, <3>1, <3>2, <3>3, <3>4, <3>5, <3>6, <3>7, <3>8 DEF Steps
  <2>2. FilesOK' /\ ServerObjectsGone' /\ TextsHeld'
    BY <1>0, <1>7, StepsKeepFiles
  <2>. QED
    BY <1>0, <2>1, <2>2 DEF FreshIInv, FreshRun
<1>8. ASSUME NEW p \in tools, ToolEnds(p) PROVE FreshIInv'
  <2>1. FilesOK' /\ ServerObjectsGone' /\ TextsHeld'
    BY <1>0, <1>8, ToolKeepsFiles
  <2>2. FreshRun'
    BY <1>8, ToolFresh DEF FreshRun
  <2>. QED
    BY <1>0, <2>1, <2>2 DEF FreshIInv
<1>. QED
  BY <1>1, <1>2, <1>3, <1>5, <1>6, <1>7, <1>8 DEF BuilderNext

(* If no command of a run failed, the program holds each source as it was   *)
(* at some time of that run, whatever an earlier run left and whoever edits *)
(* meanwhile, but for the object of a source that is gone in a run without  *)
(* --clean (cb.c:33-123, cb.h:663-685, 525-547).                            *)
THEOREM ProgramIsFresh == BuilderSpec => []FreshBinary
<1>1. FreshIInv => FreshBinary
  <2>. SUFFICES ASSUME FreshIInv, at[1].step = "run", at[1].pids = <<>>, ~failed, NEW s \in Sources
                PROVE  \/ files["app"][s] \in held[s]
                       \/ s \notin Server /\ ~clean /\ 0 \in held[s]
    BY DEF FreshBinary
  <2>1. FreshSoFar /\ tools = {}
    BY OneBuilder DEF FreshIInv, FreshRun
  <2>2. Fresh(s, files["app"][s])
    BY <2>1 DEF FreshSoFar
  <2>. QED
    BY <2>2 DEF Fresh
<1>2. BuilderSpec => []FreshIInv
  BY FreshInit, FreshNext, PTL DEF BuilderSpec
<1>. QED
  BY <1>1, <1>2, PTL
-----------------------------------------------------------------------------
(* Numbers: induction and recursion up to a number, with sets instead of  *)
(* predicates.                                                             *)

(* A set of numbers that is not empty has a least one. *)
LEMMA LeastOf ==
  ASSUME NEW S, S \subseteq Nat, S # {}
  PROVE  \E m \in S : \A k \in S : m <= k
<1>. DEFINE R == OpToRel(<, Nat)
<1>1. IsWellFoundedOn(R, Nat)
  BY NatLessThanWellFounded
<1>2. PICK m \in S : \A k \in S : <<k, m>> \notin R
  <2>. HIDE DEF R
  <2>. QED
    BY <1>1, WFMin
<1>3. \A k \in S : ~(k < m)
  BY <1>2 DEF OpToRel
<1>. QED
  BY <1>3

(* A set that has 0, and the successor of each member below n, reaches n. *)
LEMMA Counting ==
  ASSUME NEW n \in Nat, NEW K, 0 \in K, \A k \in 0 .. n - 1 : k \in K => k + 1 \in K
  PROVE  \A k \in 0 .. n : k \in K
<1>. SUFFICES ASSUME NEW j \in 0 .. n, j \notin K PROVE FALSE
  OBVIOUS
<1>. DEFINE S == {k \in 0 .. n : k \notin K}
<1>1. S \subseteq Nat /\ S # {}
  OBVIOUS
<1>2. PICK m \in S : \A k \in S : m <= k
  <2>. HIDE DEF S
  <2>. QED
    BY <1>1, LeastOf
<1>3. m # 0 /\ m - 1 \in 0 .. n - 1 /\ m - 1 \notin S
  BY <1>2
<1>4. m - 1 \in K
  BY <1>3
<1>5. (m - 1) + 1 \in K
  BY <1>3, <1>4
<1>. QED
  BY <1>2, <1>5

(* Iterates(f, n, S, x, h): f starts at x and goes from k - 1 to k by h[k].     *)
Iterates(f, n, S, x, h) ==
  f \in [0 .. n -> S] /\ f[0] = x /\ \A k \in 1 .. n : f[k] = h[k][f[k - 1]]

(* What is computed from what came before is defined up to any number. *)
LEMMA Iterated ==
  ASSUME NEW n \in Nat, NEW S, NEW x \in S, NEW h \in [1 .. n -> [S -> S]]
  PROVE  \E f : Iterates(f, n, S, x, h)
<1>. USE DEF Iterates
<1>. DEFINE Good(f, m) == /\ f \in [0 .. m -> S] /\ f[0] = x
                          /\ \A k \in 1 .. m : f[k] = h[k][f[k - 1]]
            K == {m \in 0 .. n : \E f : Good(f, m)}
<1>1. 0 \in K
  <2>. DEFINE f == [k \in 0 .. 0 |-> x]
  <2>1. Good(f, 0)
    OBVIOUS
  <2>2. \E g : Good(g, 0)
    <3>. HIDE DEF Good, f
    <3>. QED
      BY <2>1
  <2>. HIDE DEF Good
  <2>. QED
    BY <2>2
<1>2. ASSUME NEW m \in 0 .. n - 1, m \in K PROVE m + 1 \in K
  <2>1. PICK f : Good(f, m)
    BY <1>2
  <2>. DEFINE g == [k \in 0 .. m + 1 |-> IF k = m + 1 THEN h[m + 1][f[m]] ELSE f[k]]
  <2>2. h[m + 1][f[m]] \in S
    BY <2>1
  <2>3. g \in [0 .. m + 1 -> S] /\ g[0] = x
    BY <2>1, <2>2
  <2>4. ASSUME NEW k \in 1 .. m + 1 PROVE g[k] = h[k][g[k - 1]]
    <3>1. g[k - 1] = f[k - 1]
      OBVIOUS
    <3>2. CASE k = m + 1
      BY <3>1, <3>2
    <3>3. CASE k # m + 1
      <4>1. k \in 1 .. m /\ g[k] = f[k]
        BY <3>3
      <4>. QED
        BY <2>1, <3>1, <4>1
    <3>. QED
      BY <3>2, <3>3
  <2>5. Good(g, m + 1)
    <3>. HIDE DEF g
    <3>. QED
      BY <2>3, <2>4
  <2>6. \E e : Good(e, m + 1)
    <3>. HIDE DEF Good, g
    <3>. QED
      BY <2>5
  <2>7. m + 1 \in 0 .. n
    OBVIOUS
  <2>. HIDE DEF Good
  <2>. QED
    BY <2>6, <2>7
<1>3. n \in K
  <2>. HIDE DEF K
  <2>1. \A k \in 0 .. n : k \in K
    BY <1>1, <1>2, Counting
  <2>. QED
    BY <2>1
<1>. QED
  BY <1>3
-----------------------------------------------------------------------------
(* What --sync fetches                                                      *)

Copy == [text : Nat, time : Nat]

(* The files of the sources and of the toolkit, each with its last change.  *)
CopiesOK == src \in [Sources -> Copy] /\ kit \in [Libs -> Copy] /\ clock \in Nat

(* What the loop of fetch_local_files leaves after each of the files.       *)
LEMMA FetchedUpToFacts ==
  ASSUME CopiesOK, NEW order \in Seq(Libs)
  PROVE  LET after == FetchedUpTo(order)
         IN  /\ after \in [0 .. Len(order) -> [libs : [Sources -> Copy], name : Libs \cup {NoFile}]]
             /\ after[0] = [libs |-> src, name |-> NoFile]
             /\ \A k \in 1 .. Len(order) : after[k] = Fetched(after[k - 1], order[k])
<1>. DEFINE n     == Len(order)
            P     == [libs : [Sources -> Copy], name : Libs \cup {NoFile}]
            first == [libs |-> src, name |-> NoFile]
            h     == [k \in 1 .. n |-> [y \in P |-> Fetched(y, order[k])]]
            Is(f) == f = [k \in 0 .. n |-> IF k = 0 THEN first ELSE Fetched(f[k - 1], order[k])]
            w     == FetchedUpTo(order)
            Held  == {k \in 0 .. n : w[k] \in P}
<1>1. n \in Nat
  OBVIOUS
<1>2. first \in P
  BY DEF CopiesOK
<1>3. ASSUME NEW was \in P, NEW f \in Libs PROVE Fetched(was, f) \in P
  <2>1. was.libs \in [Sources -> Copy] /\ was.name \in Libs \cup {NoFile}
    OBVIOUS
  <2>. DEFINE name == IF src[f].text # 0 \/ was.name = NoFile THEN f ELSE was.name
              new  == [text |-> kit[name].text, time |-> clock + 1]
  <2>2. name \in Libs
    BY <2>1
  <2>3. new \in Copy
    <3>. HIDE DEF name
    <3>1. kit[name] \in Copy
      BY <2>2 DEF CopiesOK
    <3>. QED
      BY <3>1 DEF Copy, CopiesOK
  <2>4. [was EXCEPT !.name = f] \in P
    BY <2>1
  <2>5. [libs |-> [was.libs EXCEPT ![name] = new], name |-> NoFile] \in P
    <3>. HIDE DEF new, name
    <3>. QED
      BY <2>1, <2>3
  <2>. QED
    BY <2>4, <2>5 DEF Fetched
<1>4. PICK f : Iterates(f, n, P, first, h)
  <2>1. h \in [1 .. n -> [P -> P]]
    <3>1. \A k \in 1 .. n : order[k] \in Libs
      OBVIOUS
    <3>. HIDE DEF P
    <3>. QED
      BY <1>3, <3>1
  <2>. HIDE DEF h, P, n, first
  <2>. QED
    BY <1>1, <1>2, <2>1, Iterated
<1>. HIDE DEF first
<1>5. Is(f)
  <2>. HIDE DEF P
  <2>1. ASSUME NEW k \in 0 .. n PROVE f[k] = IF k = 0 THEN first ELSE Fetched(f[k - 1], order[k])
    <3>1. CASE k = 0
      BY <3>1, <1>4 DEF Iterates
    <3>2. CASE k # 0
      <4>1. k \in 1 .. n /\ k - 1 \in 0 .. n
        BY <1>1, <3>2
      <4>2. f[k - 1] \in P /\ f[k] = h[k][f[k - 1]]
        BY <4>1, <1>4 DEF Iterates
      <4>. QED
        BY <3>2, <4>1, <4>2
    <3>. QED
      BY <3>1, <3>2
  <2>. HIDE DEF h
  <2>. QED
    BY <2>1, <1>4 DEF Iterates
<1>6. w = CHOOSE g : Is(g)
  BY DEF FetchedUpTo, first
<1>7. Is(w)
  <2>. HIDE DEF Is, w
  <2>. QED
    BY <1>5, <1>6
<1>8. /\ w[0] = first
      /\ \A k \in 1 .. n : w[k] = Fetched(w[k - 1], order[k])
  <2>. HIDE DEF w
  <2>1. \A k \in 0 .. n : w[k] = IF k = 0 THEN first ELSE Fetched(w[k - 1], order[k])
    BY <1>7
  <2>2. 0 \in 0 .. n /\ \A k \in 1 .. n : k \in 0 .. n /\ k # 0
    BY <1>1
  <2>. QED
    BY <2>1, <2>2
<1>9. \A k \in 0 .. n : k \in Held
  <2>. HIDE DEF P, w
  <2>1. 0 \in Held
    BY <1>1, <1>2, <1>8
  <2>2. ASSUME NEW k \in 0 .. n - 1, k \in Held PROVE k + 1 \in Held
    <3>1. k + 1 \in 1 .. n /\ (k + 1) - 1 = k
      BY <1>1
    <3>2. order[k + 1] \in Libs
      BY <3>1
    <3>. QED
      BY <3>1, <3>2, <2>2, <1>3, <1>8
  <2>. HIDE DEF Held
  <2>. QED
    BY <1>1, <2>1, <2>2, Counting
<1>10. w \in [0 .. n -> P]
  <2>1. w = [k \in 0 .. n |-> IF k = 0 THEN first ELSE Fetched(w[k - 1], order[k])]
    BY <1>7
  <2>. HIDE DEF w
  <2>2. w = [k \in 0 .. n |-> w[k]]
    BY <2>1
  <2>. QED
    BY <2>2, <1>9
<1>. QED
  BY <1>8, <1>10 DEF first

(* An order has every file of the toolkit once.                             *)
LEMMA OrderFacts ==
  ASSUME NEW order \in SetToSeqs(InKit)
  PROVE  /\ order \in Seq(Libs)
         /\ \A i, j \in 1 .. Len(order) : i # j => order[i] # order[j]
         /\ \A i \in 1 .. Len(order) : order[i] \in InKit
         /\ \A f \in InKit : \E i \in 1 .. Len(order) : f = order[i]
<1>. DEFINE n == Cardinality(InKit)
            D == 1 .. n
<1>1. IsFiniteSet(InKit) /\ n \in Nat
  <2>1. InKit \subseteq Libs
    BY DEF InKit
  <2>2. IsFiniteSet(InKit)
    BY <2>1, BuilderAssumption, FS_Subset
  <2>. QED
    BY <2>2, FS_CardinalityType
<1>2. order \in [D -> InKit] /\ \A i, j \in D : i # j => order[i] # order[j]
  BY DEF SetToSeqs
<1>3. IsFiniteSet(D) /\ Cardinality(D) = n
  BY <1>1, FS_Interval
<1>4. order \in Surjection(D, InKit)
  <2>1. order \in Injection(D, InKit)
    BY <1>2 DEF Injection, IsInjective
  <2>. QED
    BY <1>1, <1>3, <2>1, FS_Injection
<1>5. order \in Seq(InKit) /\ Len(order) = n
  <2>. HIDE DEF n
  <2>. QED
    BY <1>1, <1>2
<1>6. \A f \in InKit : \E i \in D : f = order[i]
  BY <1>4 DEF Surjection
<1>. QED
  BY <1>2, <1>5, <1>6 DEF InKit

(* One file after the other: a file that both have is replaced if the       *)
(* toolkit's is newer, and one that we have not is added under its own name *)
(* unless a name is left over, which takes a file that is not newer.        *)
LEMMA SyncFacts ==
  ASSUME CopiesOK, SyncRepo, KitNew = {} \/ KitOld = {}
  PROVE  \A f \in Libs : src'[f].text = IF f \in InKit \ KitOld THEN kit[f].text ELSE src[f].text
<1>1. PICK order \in SetToSeqs(InKit) : src' = FetchedUpTo(order)[Len(order)].libs
  BY DEF SyncRepo
<1>. DEFINE n    == Len(order)
            w    == FetchedUpTo(order)
            Upto(k) == {order[i] : i \in 1 .. k}
            Taken(k, f) == f \in Upto(k) /\ f \notin KitOld
            Right(k) == /\ KitOld = {} => w[k].name = NoFile
                        /\ \A f \in Libs : /\ Taken(k, f) => w[k].libs[f].text = kit[f].text
                                           /\ ~Taken(k, f) => w[k].libs[f] = src[f]
            K == {k \in 0 .. n : Right(k)}
<1>2. /\ order \in Seq(Libs)
      /\ \A i, j \in 1 .. n : i # j => order[i] # order[j]
      /\ \A i \in 1 .. n : order[i] \in InKit
      /\ \A f \in InKit : \E i \in 1 .. n : f = order[i]
  BY <1>1, OrderFacts
<1>3. n \in Nat
  BY <1>2
<1>4. /\ w \in [0 .. n -> [libs : [Sources -> Copy], name : Libs \cup {NoFile}]]
      /\ w[0] = [libs |-> src, name |-> NoFile]
      /\ \A k \in 1 .. n : w[k] = Fetched(w[k - 1], order[k])
  BY <1>2, FetchedUpToFacts
<1>. HIDE DEF w
<1>5. 0 \in K
  <2>1. Upto(0) = {} /\ 0 \in 0 .. n
    BY <1>3
  <2>. QED
    BY <1>4, <2>1
<1>6. ASSUME NEW k \in 0 .. n - 1, k \in K PROVE k + 1 \in K
  <2>. DEFINE f   == order[k + 1]
              was == w[k]
              ours == src[f].text # 0
              new == [text |-> kit[f].text, time |-> clock + 1]
  <2>1. /\ k + 1 \in 1 .. n /\ (k + 1) - 1 = k /\ k \in 0 .. n /\ k + 1 \in 0 .. n
        /\ 1 .. k + 1 = 1 .. k \cup {k + 1}
        /\ \A i \in 1 .. k : i \in 1 .. n /\ i # k + 1
    BY <1>3
  <2>2. f \in InKit /\ f \in Libs
    BY <1>2, <2>1
  <2>3. was.libs \in [Sources -> Copy] /\ f \in Sources /\ was \in [libs : [Sources -> Copy], name : Libs \cup {NoFile}]
    BY <1>4, <2>1, <2>2 DEF Sources
  <2>4. Right(k)
    BY <1>6
  <2>5. f \notin Upto(k) /\ Upto(k + 1) = Upto(k) \cup {f}
    <3>1. \A i \in 1 .. k : order[i] # f
      BY <1>2, <2>1
    <3>2. Upto(k + 1) = {order[i] : i \in 1 .. k} \cup {order[k + 1]}
      BY <2>1
    <3>. QED
      BY <3>1, <3>2
  <2>6. was.libs[f] = src[f]
    BY <2>2, <2>4, <2>5
  <2>7. w[k + 1] = Fetched(was, f)
    BY <1>4, <2>1
  <2>8. kit[f].time \in Nat /\ src[f].time \in Nat
    BY <2>2, <2>3 DEF CopiesOK, Copy
  <2>9. Newer(f, was.libs) <=> ~(kit[f].time <= src[f].time)
    <3>. HIDE DEF f, was
    <3>. QED
      BY <2>6, <2>8 DEF Newer
  <2>10. f \in KitOld <=> ours /\ ~Newer(f, was.libs)
    BY <2>2, <2>9 DEF KitOld, KitNew, Known
  <2>11. ~ours => was.name = NoFile
    <3>1. ~ours => f \in KitNew
      BY <2>2 DEF KitNew, Known
    <3>. QED
      BY <2>4, <3>1
  <2>. HIDE DEF f, was, ours
  <2>12. CASE f \in KitOld
    <3>1. w[k + 1] = [was EXCEPT !.name = f]
      BY <2>7, <2>10, <2>12 DEF Fetched, ours
    <3>2. w[k + 1].libs = was.libs
      BY <2>3, <3>1
    <3>3. \A g \in Libs : Taken(k + 1, g) <=> Taken(k, g)
      BY <2>5, <2>12
    <3>. QED
      BY <2>1, <2>4, <2>12, <3>2, <3>3 DEF was
  <2>13. CASE f \notin KitOld
    <3>1. w[k + 1] = [libs |-> [was.libs EXCEPT ![f] = new], name |-> NoFile]
      BY <2>7, <2>10, <2>11, <2>13 DEF Fetched, ours
    <3>2. /\ w[k + 1].name = NoFile
          /\ w[k + 1].libs[f].text = kit[f].text
          /\ \A g \in Libs : g # f => w[k + 1].libs[g] = was.libs[g]
      BY <2>3, <3>1
    <3>3. \A g \in Libs : g # f => (Taken(k + 1, g) <=> Taken(k, g))
      BY <2>5
    <3>4. Taken(k + 1, f)
      BY <2>5, <2>13
    <3>5. Right(k + 1)
      <4>1. \A g \in Libs : g # f =>
               /\ Taken(k + 1, g) => w[k + 1].libs[g].text = kit[g].text
               /\ ~Taken(k + 1, g) => w[k + 1].libs[g] = src[g]
        <5>. HIDE DEF Taken
        <5>. QED
          BY <2>4, <3>2, <3>3 DEF was
      <4>. HIDE DEF Taken
      <4>. QED
        BY <3>2, <3>4, <4>1
    <3>. HIDE DEF Right
    <3>. QED
      BY <2>1, <3>5
  <2>. QED
    BY <2>12, <2>13
<1>7. Right(n)
  <2>1. \A k \in 0 .. n : k \in K
    <3>. HIDE DEF K
    <3>. QED
      BY <1>3, <1>5, <1>6, Counting
  <2>. HIDE DEF Right
  <2>. QED
    BY <1>3, <2>1
<1>8. Upto(n) = InKit
  BY <1>2
<1>9. src' = w[n].libs
  BY <1>1 DEF w
<1>. SUFFICES ASSUME NEW f \in Libs
              PROVE  src'[f].text = IF f \in InKit \ KitOld THEN kit[f].text ELSE src[f].text
  OBVIOUS
<1>10. CASE f \in InKit \ KitOld
  BY <1>7, <1>8, <1>9, <1>10
<1>11. CASE f \notin InKit \ KitOld
  BY <1>7, <1>8, <1>9, <1>11
<1>. QED
  BY <1>10, <1>11

(* The sources, the toolkit and the clock keep their types.                 *)
LEMMA CopiesInit == BuilderInit => CopiesOK
<1>. SUFFICES ASSUME BuilderInit PROVE CopiesOK
  OBVIOUS
<1>1. Nowhere \in Copy /\ [text |-> 1, time |-> 1] \in Copy
  BY DEF Nowhere, Copy
<1>. QED
  BY <1>1 DEF BuilderInit, CopiesOK

(* Every step keeps them: people write what they write with the time, and   *)
(* --sync copies what the toolkit has.                                      *)
LEMMA CopiesNext == CopiesOK /\ [BuilderNext]_builderVars => CopiesOK'
<1>. SUFFICES ASSUME CopiesOK, [BuilderNext]_builderVars PROVE CopiesOK'
  OBVIOUS
<1>1. CASE UNCHANGED <<src, kit, clock>>
  BY <1>1 DEF CopiesOK
<1>2. CASE SyncRepo
  <2>1. PICK order \in SetToSeqs(InKit) : src' = FetchedUpTo(order)[Len(order)].libs
    BY <1>2 DEF SyncRepo
  <2>2. order \in Seq(Libs)
    BY OrderFacts
  <2>3. Len(order) \in 0 .. Len(order)
    BY <2>2
  <2>4. FetchedUpTo(order)[Len(order)] \in [libs : [Sources -> Copy], name : Libs \cup {NoFile}]
    BY <2>2, <2>3, FetchedUpToFacts
  <2>5. src' \in [Sources -> Copy]
    BY <2>1, <2>4
  <2>6. kit' = kit /\ clock' \in Nat
    BY <1>2 DEF SyncRepo, CopiesOK
  <2>. QED
    BY <2>5, <2>6 DEF CopiesOK
<1>3. ASSUME NEW s \in Sources, Write(s) \/ Delete(s) PROVE CopiesOK'
  <2>1. PICK text \in {clock + 1, 0} : Put(s, text)
    BY <1>3 DEF Write, Delete
  <2>2. clock' = clock + 1 /\ kit' = kit /\ src' = [src EXCEPT ![s] = [text |-> text, time |-> clock']]
    BY <2>1 DEF Put
  <2>3. [text |-> text, time |-> clock'] \in Copy /\ clock' \in Nat
    BY <2>2 DEF CopiesOK, Copy
  <2>. QED
    BY <2>2, <2>3 DEF CopiesOK
<1>4. ASSUME NEW f \in Libs, WriteKit(f) PROVE CopiesOK'
  <2>1. clock' = clock + 1 /\ src' = src /\ kit' = [kit EXCEPT ![f] = [text |-> clock', time |-> clock']]
    BY <1>4 DEF WriteKit
  <2>2. [text |-> clock', time |-> clock'] \in Copy /\ clock' \in Nat
    BY <2>1 DEF CopiesOK, Copy
  <2>. QED
    BY <2>1, <2>2 DEF CopiesOK
<1>5. Begin => UNCHANGED <<src, kit, clock>>
  BY DEF Begin
<1>6. ASSUME NEW b \in Builders, Steps(b) PROVE UNCHANGED <<src, kit, clock>>
  <2>1. \A job, parent, child : Fork(b, job, parent, child) => UNCHANGED <<src, kit, clock>>
    BY DEF Fork, sourceVars
  <2>2. \A to : Goes(b, to) => UNCHANGED <<src, kit, clock>>
    BY DEF Goes, sourceVars
  <2>3. \A job, more : Build(b, job, more) \/ BuildAsync(b, job, more) => UNCHANGED <<src, kit, clock>>
    BY <2>1 DEF Build, BuildAsync
  <2>4. CompileLibs(b) \/ CompileServer(b) \/ CompileRest(b) => UNCHANGED <<src, kit, clock>>
    BY <2>2, <2>3 DEF CompileLibs, CompileServer, CompileRest, CompileAll
  <2>5. ArchiveLibs(b) \/ ShareLibs(b) \/ ArchiveServer(b) \/ Link(b) => UNCHANGED <<src, kit, clock>>
    BY <2>3 DEF ArchiveLibs, ShareLibs, ArchiveServer, Link
  <2>6. BuildsWaited(b) \/ RemoveObjects(b) => UNCHANGED <<src, kit, clock>>
    BY <2>2 DEF BuildsWaited, RemoveObjects
  <2>7. Wait(b) \/ End(b) => UNCHANGED <<src, kit, clock>>
    BY DEF Wait, End, sourceVars
  <2>. QED
    BY <1>6, <2>4, <2>5, <2>6, <2>7 DEF Steps
<1>7. \A p \in tools : ToolEnds(p) => UNCHANGED <<src, kit, clock>>
  BY DEF ToolEnds, sourceVars
<1>8. CASE UNCHANGED builderVars
  BY <1>1, <1>8 DEF builderVars, sourceVars
<1>. QED
  BY <1>1, <1>2, <1>3, <1>4, <1>5, <1>6, <1>7, <1>8 DEF BuilderNext

(* Only the step that fetches leaves "sync".                                *)
LEMMA SyncIsLeft ==
  ASSUME ChildrenIInv, [BuilderNext]_builderVars, at[1].step = "sync", at'[1].step # "sync"
  PROVE  SyncRepo
<1>0. at \in [Builders -> BuilderStates] /\ 1 \in Builders /\ Builders = {1, 2}
  BY DEF ChildrenIInv, BuilderTypeOK, Builders
<1>1. at'[1] # at[1]
  OBVIOUS
<1>2. ~Begin
  BY DEF Begin, Off, Doing
<1>3. \A s \in Sources : ~Write(s) /\ ~Delete(s)
  BY <1>1 DEF Write, Delete, Put, processVars
<1>4. \A f \in Libs : ~WriteKit(f)
  BY <1>1 DEF WriteKit, processVars
<1>5. \A p \in tools : ~ToolEnds(p)
  BY <1>1 DEF ToolEnds
<1>6. ASSUME NEW b \in Builders, Steps(b) PROVE FALSE
  <2>1. CASE b = 2
    BY <1>0, <1>1, <1>6, <2>1, StepShape
  <2>2. CASE b = 1
    <3>1. CASE Wait(1)
      BY <1>0, <3>1 DEF Wait, BuilderStates
    <3>2. CASE ~Wait(1)
      BY <1>6, <2>2, <3>2 DEF Steps, CompileLibs, CompileServer, CompileRest, CompileAll, ArchiveLibs, ShareLibs,
           BuildsWaited, ArchiveServer, RemoveObjects, Link, End, Does
    <3>. QED
      BY <3>1, <3>2
  <2>. QED
    BY <1>0, <2>1, <2>2
<1>7. ~UNCHANGED builderVars
  BY <1>1 DEF builderVars, processVars
<1>. QED
  BY <1>2, <1>3, <1>4, <1>5, <1>6, <1>7 DEF BuilderNext

(* --sync leaves in libs/ the newer of the two files wherever both have one,*)
(* and adds what only the toolkit has, in whatever order the directory is   *)
(* read, unless there are files of both kinds (cb.h:770-864).               *)
THEOREM SyncFetchesTheNewer == BuilderSpec => SyncSound
<1>1. CopiesOK /\ ChildrenIInv /\ [BuilderNext]_builderVars =>
        (at[1].step = "sync" /\ at'[1].step # "sync" /\ (KitNew = {} \/ KitOld = {}) =>
           \A f \in Libs : src'[f].text = IF f \in InKit \ KitOld THEN kit[f].text ELSE src[f].text)
  BY SyncIsLeft, SyncFacts
<1>2. BuilderSpec => []CopiesOK
  BY CopiesInit, CopiesNext, PTL DEF BuilderSpec
<1>. QED
  BY <1>1, <1>2, ChildrenSafety, PTL DEF SyncSound, BuilderSpec
=============================================================================
