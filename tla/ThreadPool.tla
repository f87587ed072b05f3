----------------------------- MODULE ThreadPool -----------------------------
(***************************************************************************)
(* threadPool_t of libs/threadpool.c: Size task records travel between two *)
(* queues, the free ones in tasksQueue and those with work in workQueue.   *)
(* threadPool_pushWork takes a free record, fills it in and queues it; the *)
(* workers run it, clear it and give it back.                              *)
(*                                                                         *)
(* pop() and push() are single steps here, as module Queue and its         *)
(* refinement of BoundedFifo justify; a caller that finds the queue empty  *)
(* (full) is asleep in it until it finds an item (room).                   *)
(*                                                                         *)
(* Callers of pushWork are threads of the program (main) and workers in    *)
(* the middle of a job: the listener of server/http.c, itself a job, hands *)
(* every request to the pool.                                              *)
(***************************************************************************)
EXTENDS Ring, FiniteSets

CONSTANTS
  Workers,    (* threads[], the threads of the pool                         *)
  Clients,    (* other threads that call threadPool_pushWork                *)
  Jobs,       (* calls func(arg) to be made, each of them submitted once    *)
  LongJobs,   (* jobs that run until the program is told to stop            *)
  Spawners    (* jobs that submit jobs                                      *)

Threads == Workers \cup Clients
Tasks   == 1 .. Size      (* &pool->tasks[t - 1] *)

ASSUME PoolAssumption ==
  /\ IsFiniteSet(Threads)
  /\ Workers \cap Clients = {}
  /\ Spawners \subseteq LongJobs /\ LongJobs \subseteq Jobs
  /\ NULL \notin Jobs /\ NULL \notin Tasks

VARIABLES
  tasks,      (* tasksQueue: the free task records                          *)
  work,       (* workQueue: the task records with work                      *)
  func,       (* func and arg of each task record                           *)
  pool,       (* the stage of threadPool_destroy; "up" before it            *)
  wpc, wtask, (* thread_entry: where each worker is, and its local task     *)
  cpc,        (* threadPool_pushWork: where each caller is,                 *)
  cjob, ctask,(* its argument, and its local task                           *)
  joined,     (* the workers threadPool_destroy has cancelled and joined    *)
  stop,       (* the flags that end the long jobs are set                   *)
  submitted,  (* history: the jobs in the order their records were queued   *)
  started,    (* history: the jobs in the order workers took them           *)
  finished    (* history: the jobs whose func returned                      *)

callVars == <<cpc, cjob, ctask>>
workVars == <<wpc, wtask>>
vars == <<tasks, work, func, pool, wpc, wtask, cpc, cjob, ctask, joined, stop,
          submitted, started, finished>>

(* "running" is cleared before tasksQueue and then workQueue are destroyed; *)
(* destroying a queue ends with its pointer set to NULL.                    *)
Running    == pool = "up"
TasksOpen  == pool \in {"up", "not_running"}
TasksThere == TasksOpen \/ pool = "tasks_closed"
WorkOpen   == pool \in {"up", "not_running", "tasks_closed", "tasks_gone"}
WorkThere  == WorkOpen \/ pool = "work_closed"

(* threadPool_create pushes every record, and threadPool_dispach starts the *)
(* threads, before any work comes.                                          *)
Init ==
  /\ tasks = [head |-> 0, tail |-> 0, array |-> [i \in Slots |-> i + 1]]
  /\ work = NewRing
  /\ func = [t \in Tasks |-> NULL]
  /\ pool = "up"
  /\ wpc = [w \in Workers |-> "loop"]
  /\ wtask = [w \in Workers |-> NULL]
  /\ cpc = [p \in Threads |-> "idle"]
  /\ cjob = [p \in Threads |-> NULL]
  /\ ctask = [p \in Threads |-> NULL]
  /\ joined = {}
  /\ stop = FALSE
  /\ submitted = <<>> /\ started = <<>> /\ finished = {}

WorkerAt(w, to) == wpc' = [wpc EXCEPT ![w] = to]
CallerAt(p, to) == cpc' = [cpc EXCEPT ![p] = to]

-----------------------------------------------------------------------------
(* thread_entry *)

CheckRunning(w) ==
  /\ wpc[w] = "loop"
  /\ WorkerAt(w, IF Running THEN "pop" ELSE "done")
  /\ UNCHANGED <<tasks, work, func, pool, wtask, callVars, joined, stop,
                 submitted, started, finished>>

(* Mutant: destroying workQueue does not wake the workers asleep in it. *)
PopGivesUpAwake(w) == pool = "work_closed" /\ wpc[w] = "pop"

PopGivesUp(w) == pool = "work_closed"

(* pop(workQueue); a queue that is being destroyed may answer NULL, which   *)
(* ends the loop, and a worker that read running before it was cleared may  *)
(* find the pointer gone.                                                   *)
PopWork(w) ==
  /\ wpc[w] \in {"pop", "asleep"}
  /\ \/ /\ WorkThere /\ ~PopBlocked(work)
        /\ wtask' = [wtask EXCEPT ![w] = Front(work)]
        /\ work' = AfterPop(work)
        /\ started' = Append(started, func[Front(work)])
        /\ WorkerAt(w, "run")
     \/ /\ WorkOpen /\ PopBlocked(work) /\ wpc[w] = "pop"
        /\ WorkerAt(w, "asleep")
        /\ UNCHANGED <<work, wtask, started>>
     \/ /\ PopGivesUp(w)
        /\ WorkerAt(w, "done")
        /\ UNCHANGED <<work, wtask, started>>
     \/ /\ ~WorkThere
        /\ WorkerAt(w, "fault")
        /\ UNCHANGED <<work, wtask, started>>
  /\ UNCHANGED <<tasks, func, pool, callVars, joined, stop, submitted, finished>>

(* func(arg) returns: a long job once it is told to, a spawner not in the   *)
(* middle of a call.                                                        *)
FuncReturns(w) ==
  /\ wpc[w] = "run" /\ cpc[w] = "idle"
  /\ func[wtask[w]] \in LongJobs => stop
  /\ finished' = finished \cup {func[wtask[w]]}
  /\ WorkerAt(w, "clear")
  /\ UNCHANGED <<tasks, work, func, pool, wtask, callVars, joined, stop,
                 submitted, started>>

ClearTask(w) ==
  /\ wpc[w] = "clear" /\ pool # "freed"
  /\ func' = [func EXCEPT ![wtask[w]] = NULL]
  /\ WorkerAt(w, "return")
  /\ UNCHANGED <<tasks, work, pool, wtask, callVars, joined, stop,
                 submitted, started, finished>>

(* if(pool->running) *)
CheckReturn(w) ==
  /\ wpc[w] = "return"
  /\ WorkerAt(w, IF Running THEN "push" ELSE "loop")
  /\ wtask' = [wtask EXCEPT ![w] = IF Running THEN @ ELSE NULL]
  /\ UNCHANGED <<tasks, work, func, pool, callVars, joined, stop,
                 submitted, started, finished>>

(* Mutant: a worker does not give the record back. *)
GiveBackNothing(w) == UNCHANGED tasks

GiveBack(w) == tasks' = AfterPush(tasks, wtask[w])

(* push(tasksQueue, task) *)
ReturnTask(w) ==
  /\ wpc[w] = "push"
  /\ \/ /\ TasksOpen /\ ~PushBlocked(tasks)
        /\ GiveBack(w)
        /\ WorkerAt(w, "loop")
     \/ /\ pool = "tasks_closed"
        /\ WorkerAt(w, "loop")
        /\ UNCHANGED tasks
     \/ /\ ~TasksThere
        /\ WorkerAt(w, "fault")
        /\ UNCHANGED tasks
  /\ wtask' = [wtask EXCEPT ![w] = NULL]
  /\ UNCHANGED <<work, func, pool, callVars, joined, stop,
                 submitted, started, finished>>

-----------------------------------------------------------------------------
(* threadPool_pushWork *)

InFlight == {cjob[p] : p \in Threads} \ {NULL}
JobsOf(s) == {s[i] : i \in DOMAIN s}

(* main, or a worker that runs a spawner, has a new job. *)
PushWork(p) ==
  /\ cpc[p] = "idle" /\ pool = "up"
  /\ p \in Workers => wpc[p] = "run" /\ func[wtask[p]] \in Spawners
  /\ p \in Clients => ~stop
  /\ \E j \in Jobs \ (JobsOf(submitted) \cup InFlight) :
        cjob' = [cjob EXCEPT ![p] = j]
  /\ CallerAt(p, "get")
  /\ UNCHANGED <<tasks, work, func, pool, workVars, ctask, joined, stop,
                 submitted, started, finished>>

(* Mutant: the record is not filled in. *)
FillInNothing(p) == UNCHANGED func

FillIn(p) == func' = [func EXCEPT ![Front(tasks)] = cjob[p]]

(* threadPool_getTask, and the two assignments that fill the record in.     *)
(* pushWork does not test for the NULL of a queue that is being destroyed;  *)
(* NoLateCaller is why it need not.                                         *)
GetTask(p) ==
  /\ cpc[p] \in {"get", "asleep"} /\ TasksOpen
  /\ \/ /\ ~PopBlocked(tasks)
        /\ ctask' = [ctask EXCEPT ![p] = Front(tasks)]
        /\ tasks' = AfterPop(tasks)
        /\ FillIn(p)
        /\ CallerAt(p, "put")
     \/ /\ PopBlocked(tasks) /\ cpc[p] = "get"
        /\ CallerAt(p, "asleep")
        /\ UNCHANGED <<tasks, func, ctask>>
  /\ UNCHANGED <<work, pool, workVars, cjob, joined, stop, submitted, started, finished>>

(* threadPool_pushTask *)
PutTask(p) ==
  /\ cpc[p] = "put" /\ WorkOpen /\ ~PushBlocked(work)
  /\ work' = AfterPush(work, ctask[p])
  /\ submitted' = Append(submitted, cjob[p])
  /\ CallerAt(p, "idle")
  /\ cjob' = [cjob EXCEPT ![p] = NULL]
  /\ ctask' = [ctask EXCEPT ![p] = NULL]
  /\ UNCHANGED <<tasks, func, pool, workVars, joined, stop, started, finished>>

-----------------------------------------------------------------------------
(* Shutdown *)

(* main of server/server.c sets the flags of the long jobs and waits for    *)
(* them before it stops the engine.                                         *)
Stop ==
  /\ ~stop /\ \A p \in Clients : cpc[p] = "idle"
  /\ stop' = TRUE
  /\ UNCHANGED <<tasks, work, func, pool, workVars, callVars, joined,
                 submitted, started, finished>>

(* Mutant: the engine is stopped before the long jobs have ended. *)
LongJobsTold == stop

LongJobsDone == JobsOf(submitted) \cap LongJobs \subseteq finished

(* threadPool_destroy up to the loop over the threads.  queue_destroy       *)
(* leaves when nobody is asleep in the queue.                               *)
DestroyStep ==
  /\ \/ /\ pool = "up" /\ stop
        /\ LongJobsDone
        /\ pool' = "not_running"
     \/ pool = "not_running" /\ pool' = "tasks_closed"
     \/ pool = "tasks_closed" /\ (\A p \in Threads : cpc[p] # "asleep") /\ pool' = "tasks_gone"
     \/ pool = "tasks_gone" /\ pool' = "work_closed"
     \/ pool = "work_closed" /\ (\A w \in Workers : wpc[w] # "asleep") /\ pool' = "joining"
  /\ UNCHANGED <<tasks, work, func, workVars, callVars, joined, stop,
                 submitted, started, finished>>

(* pthread_cancel takes effect at a call the job makes that is a            *)
(* cancellation point (poll, read, write, usleep, a condition wait); the    *)
(* loop cancels one thread and joins it before it turns to the next.        *)
Cancel(w) ==
  /\ pool = "joining" /\ w \notin joined /\ wpc[w] = "run"
  /\ WorkerAt(w, "cancelled")
  /\ wtask' = [wtask EXCEPT ![w] = NULL]
  /\ UNCHANGED <<tasks, work, func, pool, callVars, joined, stop,
                 submitted, started, finished>>

Join(w) ==
  /\ pool = "joining" /\ w \notin joined /\ wpc[w] \in {"done", "cancelled"}
  /\ joined' = joined \cup {w}
  /\ UNCHANGED <<tasks, work, func, pool, workVars, callVars, stop,
                 submitted, started, finished>>

FreePool ==
  /\ pool = "joining" /\ joined = Workers
  /\ pool' = "freed"
  /\ UNCHANGED <<tasks, work, func, workVars, callVars, joined, stop,
                 submitted, started, finished>>

-----------------------------------------------------------------------------
(* A fault ends the process. *)
Faulted == \E w \in Workers : wpc[w] = "fault"

Worker(w) == \/ CheckRunning(w) \/ PopWork(w) \/ FuncReturns(w)
             \/ ClearTask(w) \/ CheckReturn(w) \/ ReturnTask(w)
Caller(p) == PushWork(p) \/ GetTask(p) \/ PutTask(p)
Destroyer == DestroyStep \/ FreePool \/ \E w \in Workers : Cancel(w) \/ Join(w)

Next == /\ ~Faulted
        /\ \/ \E w \in Workers : Worker(w)
           \/ \E p \in Threads : Caller(p)
           \/ Stop
           \/ Destroyer

Spec == Init /\ [][Next]_vars

(* The scheduler runs every thread, and a job that is not a long one        *)
(* returns.  Nobody has to submit a job or to stop the program.             *)
FairSpec == /\ Spec
            /\ \A w \in Workers : WF_vars(~Faulted /\ Worker(w))
            /\ \A p \in Threads : WF_vars(~Faulted /\ (GetTask(p) \/ PutTask(p)))
            /\ WF_vars(~Faulted /\ Destroyer)

-----------------------------------------------------------------------------
(* Properties *)

(* Where a task record can be found. *)
Places(t) == {<<"free", i>> : i \in {i \in Slots : tasks.array[i] = t}}
        \cup {<<"queued", i>> : i \in {i \in Slots : work.array[i] = t}}
        \cup {<<"worker", w>> : w \in {w \in Workers : wtask[w] = t}}
        \cup {<<"caller", p>> : p \in {p \in Threads : ctask[p] = t}}

(* While the pool is up no task record is lost and none is in two hands:    *)
(* two threads never fill in, run or clear the same record.                 *)
OneOwner == pool = "up" => \A t \in Tasks : Cardinality(Places(t)) = 1

(* Workers take the jobs in the order pushWork queued them, each exactly    *)
(* once, and the record still says what its submitter wrote: the clearing   *)
(* of a record never overtakes the next use of it.                          *)
JobsInOrder ==
  submitted = started \o [k \in DOMAIN Contents(work) |-> func[Contents(work)[k]]]

(* Nobody is inside pushWork, which would dereference the NULL it gets from *)
(* a queue that is being destroyed, once the engine is going down.          *)
NoLateCaller == pool # "up" => \A p \in Threads : cpc[p] = "idle"

(* A submitted job is started in the end, unless the program stops first.   *)
EveryJobStarts ==
  \A j \in Jobs : (\E p \in Threads : cjob[p] = j) ~> (j \in JobsOf(started) \/ stop)

(* Told to stop, the program gets to the end of threadPool_destroy (or hits *)
(* a queue that is gone).                                                   *)
DestroyReturns == stop ~> (pool = "freed" \/ Faulted)
=============================================================================
