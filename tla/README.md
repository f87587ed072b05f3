# Verification of Tiny-Https-Server

TLA+ specifications of the server, of the application that comes with it and of
its build tool, TLC configurations that check them on small instances, and TLAPS
proofs about all of them, for every size. Paths below are relative to the
repository.

    tlc -config MCQueue.cfg MCQueue.tla      # and likewise for every MC*.cfg
    tlapm QueueTheorems.tla                  # and likewise for every *Theorems.tla

## 1. The system

One process, written in C with pthreads. `server/server.c` starts an async
engine (a pool of threads), the application, and the server; waits for SIGINT;
stops the server, the application and the engine, in that order.

| part | state | operations | hard behaviours | what makes it correct |
|---|---|---|---|---|
| queue (`libs/queue.c`) | ring of pointers, `head`, `tail`, `pending`, `alive`, a mutex and two condition variables | `push`, `pop`, `empty`, create, destroy | signals after the unlock, waiters that are overtaken, spurious wake-ups, destruction with sleepers inside, `head = tail` for full and for empty | a bounded FIFO; no lost wake-up; `queue_destroy` returns and leaves nobody asleep |
| locks (`libs/lock.h`) | - | wrappers of pthreads that ignore results | - | used as part of the other modules |
| thread pool (`libs/threadpool.c`) | task records, a queue of free ones and one of work, threads | `pushWork`, `thread_entry`, create, destroy | records that travel between threads, jobs that submit jobs, cancellation, pointers set to NULL while workers run | each record has one owner; jobs run once, in order; nobody is left behind at the end |
| async tasks (`libs/async.c`) | task (state, result, stack), table of stacks | `async`, `await`, `async_detach`, the worker's `async_run` and `async_entry` | worker and owner decide by an unlocked look at the state who frees the task and its stack | a stack has one user; nothing is freed early; `await` returns the result |
| listener (`server/http.c:438-526, 631-648`) | `pfds[]`, `connections[]`, `nfds` | poll, read, accept, close, time out, stop | entries that are closed, reused and polled in one turn; `nfds` that shrinks by one at most | the tables agree; every open connection is polled, timed out and closed at the end |
| connection (`server/http.c:331-436, 466-505`) | `running`, `requests`, `lock`, the SSL object | the listener hands blocks over; a task parses, answers, continues or ends | `running` tested under the lock and set outside; a close under the task's feet | one task at a time; requests answered once and in order; nothing stranded |
| router (`server/http.c:116-210, 650-699`) | tree of names with a handler for each method | register, resolve, dispatch | names that begin one another, slashes repeated, the order of registration, paths of several new names, pointers never cleared | a path keeps its handler; a request goes to the longest registered path |
| sessions (`http_libs/http_session.c`) | table of sessions, counters `entries`, `last` | login, lookup, logout, user name, expiry by the session task | ids written outside the lock, entries found under one hold of the lock and used under another, `realloc` | an entry in use is not taken; an id names its user; sessions expire |
| users (`http_libs/http_session.c`) | table of users, work queue, `users.db`, `.meta.bin` | register, `user_get`, the session task's writing, load, start, stop | a lock that is not given back, two files written one after the other, the end racing the last registrations, crashes | every user is written exactly once and comes to be saved |
| application (`app/app.c`) | paths of its directories | handlers, `app_start`, `app_stop` | call the parts above and below, in requests that run in parallel | - |
| back end (`app/backend/`) | a directory for each user, one CSV file for each coin | make the directory, list coins, list and append transactions | read-number-append by parallel requests, a file created twice, a directory not there yet | what was posted alone is kept, in order; no request fails for want of a directory after the registration |
| program (`server/server.c`, `http.c:530-648`) | where main is; who has which thread and record | start, SIGINT, stop in order | long jobs and requests on one pool, connections and tables taken away under tasks | harm comes to a task only by a close under it; a stop ends and leaves nothing open |
| build tool (`cb.c`, `cb.h`) | files below `build/`, child processes | fetch libraries, compile, archive, link, wait | commands that fail unnoticed, a child that goes on as a second builder, parallel commands, edits meanwhile | the binary is fresh; no two tools meet in a file; nothing is left running |
| response helpers (`http.c:701-750`), views | - | strings of one response; files | none | not modelled |

How they interact: the listener is a job of the pool and starts a detached
async task, again a job of the pool, for a connection that has none; listener
and task share the connection's queue, flag and lock. Handlers run inside those
tasks and share the tables of sessions and users with each other and with the
session task, a long job of the pool. Main awaits the listener
(`http_server_stop`) and the session task (`http_session_engine_stop`) before
the pool is destroyed. The application registers its paths before the listener
starts; every request is routed by the tree, which no one changes any more.

## 2. Modules

| module | models | instance |
|---|---|---|
| `Ring` | the array of a `queue_t`: `IsEmpty`, `PopBlocked`, `Front`, `AfterPop`, `AfterPush` ..., as operators on a record | used by the four modules that hold a queue |
| `BoundedFifo` | abstract: what a queue promises | refined by `Queue` |
| `Queue` | `queue_t` with every step between lock, wait, unlock and signal | `MCQueue` |
| `ThreadPool` | `threadpool.c`, and the order in which main stops things | `MCThreadPool` |
| `AsyncTask` | `async.c` as the server uses it | `MCAsyncTask` |
| `Listener` | the poll loop and `http_server_stop` | `MCListener` |
| `Connection` | the hand-over between listener and task for one connection | `MCConnection` |
| `Session` | sessions: login, lookup, logout, user name, expiry | `MCSession` |
| `UserStore` | users: registration, the writing of the files, load, start, stop, crash | `MCUserStore` |
| `Router` | the tree of paths and the dispatch of a request | `MCRouter` |
| `Portfolio` | the directory of a user and the file of a coin, under parallel requests | `MCPortfolio` |
| `Server` | main, and all jobs of the pool with what they need of each other: threads, records, connections, tables | `MCServer` |
| `Builder` | the build tool and the tools it runs | `MCBuilder` |
| `RingTheorems` | lemmas on the ring that does not hold NULL | used by the proofs on `Queue`, `ThreadPool` and `Connection` |
| `QueueTheorems`, `ThreadPoolTheorems`, `SessionTheorems` | the proofs about the module of that name | |
| `ListenerTheorems`, `ServerTheorems`, `UserStoreTheorems`, `AsyncTheorems` | the proofs about the module of that name and about `Router`, `Connection`, `Portfolio` and `Builder`, in that order | |

Conventions. One action per operation, or per stretch of an operation between
two points where another thread can come in: a stretch under a lock is one
step, what the code does before or after, without the lock, is a step of its
own. Program counters (`pc`, `wpc`, `tpc`, ...) say where a thread is. Variables
marked *external* are the environment (clients, the operating system); those
marked *history* are only read by properties. Undefined behaviour is a choice:
the step faults, which ends the behaviour, or has one of its harmless outcomes.
Operators introduced by "Mutant:" are no part of a specification. Each is the
definition that follows it with a plausible mistake; put in its place, TLC
finds a property violated, which shows that the property depends on the code.

### Correspondence, where it is not one to one

* `Queue`: `PopEnter`, `PopResume` are the loop of `pop()` from the first lock,
  and from the return of `pthread_cond_wait`; `Unlock` and `PopSignal` the two
  halves of `unlock_signal`. `UseAfterFree` is a caller that passed the test of
  `alive` before the queue was freed.
* `ThreadPool`: `push()` and `pop()` are single steps, as the refinement of
  `BoundedFifo` justifies. `pool` is the progress of `threadPool_destroy`.
* `AsyncTask`: the tasks' own suspension (`suspend`, `resume`, the yields) is
  left out; nothing in the program calls it. `stacks`, `mapped` are the table
  `sps` that doubles.
* `Listener`: `pos` is `i` of the scan. A handshake is one step and may fail.
  `poll()` is level-triggered: an entry whose peer has left (`gone`) and that is
  polled (`AtEnd`) is ready every time, until it is closed, so that
  `PollTimeout` has to wait for that.
* `Connection`: bytes are blocks; which blocks end a request (`ends`) is chosen
  at the start, so that all groupings are explored. A block belongs to one
  request: what the code makes of two requests that one `SSL_read` returns is
  outside the model. `window` bounds the blocks a client has unanswered.
* `Session`: ids are drawn in the order 1, 2, ...; what holds only while the
  activities on one session do not overlap is stated for behaviours with
  `orderly`, and the others for all. An entry that a logout, the session task or
  a handler finds closed makes it use `users[INVALID_USER_ID]`: `MayFault` lets
  the behaviour end there, or go on with all the rest of what the function does.
  `overtaken` remembers that the session task has done so.
* `UserStore`: entries are pushed as pointers, so that entry 0 is NULL in the
  ring: the module instantiates `Ring` with `NULL = 0`. `RegisterTaken` is the
  return at `http_session.c:157`, with the lock held. `SkipRound` are the rounds
  of the session task that do not look at the queue.

* `Router`: characters are kept, as a name may begin another; a handler is named
  by the path it was registered for. `Round` is a round of the loop of
  `http_resolve_path`, `Walk` the loop, `Resolve` what it returns and leaves in
  `remaining`; `NamesFrom` is the loop of `http_register_method`, `Grown` the
  nodes it makes. `StartServer` is `app_start` being done. `Segments`, which
  the properties compare with, is no code: it reads a path from left to right. `POST` behaves as `GET`, and `PATCH` and
  `DELETE` as `PUT`, whose pointer `http_create_url_path` does not clear
  (`Junk`): a registration may find it free or taken, a request may fault.
* `Portfolio`: a file is a sequence of cells (heading, lines, zeros beyond an
  old end). `Load`, `Create`, `WriteHeading`, `Seek`, `AppendLine` are the calls
  of `Coin_addTransacation` that read or write the file; what happens between
  `fseek` and `fflush` is another thread's.
* `Server`: listener, session task and requests are jobs. What the modules above
  say of each is cut down to what they take from one another. `at[c]` is where
  the request of a client is, `handing` the listener in `pushWork`. `Cancel`
  stands for the joining of a thread that still works. A task that uses what
  was taken away sets `harm`, which ends the behaviour. `leaked` is that the
  lock of the users was left locked (`http_session.c:157`, in `Handle`),
  `waiting` who sleeps in it (`Wait`): a handler, or the session task in its
  round (lines 93, 109), which then does not come to look at its flag.
* `Builder`: an object, an archive and the program are the texts of the sources
  they were made from. `Build` waits for any child, as `build()` does with
  `wait`, `BuildAsync` gathers a pid for `builds_wait`. The child of a failed
  `execvp` returns from both: it is builder 2. The tools, which succeed or fail
  (leaving their output or removing it), and the people who edit are external.

## 3. Runs

| run | bounds | checks | shows |
|---|---|---|---|
| `queue` | 2 slots, 3 threads (a popper, a pusher, one that does both), 2 items, destruction at any time | `NoLostWakeup`, `PendingIsSleepers`, `ImplementsFifo`, `DestroyReturns`, `ItemsAreTaken` | wraps, full and empty rings, poppers overtaking each other, sleepers at destruction |
| `pool` | 2 workers, main, the listener's job and its requests | `OneOwner`, `JobsInOrder`, `NoLateCaller`, `EveryJobStarts`, `DestroyReturns` | records run out, a job submits jobs, the stop comes at any time |
| `async` | 1 awaited and 2 detached tasks, 2 workers | `StacksExclusive`, `NotFreedEarly`, `AwaitReturns` | owner and worker meet in every order; the table of stacks doubles |
| `listener` | 3 entries beside the socket, 4 descriptors, time-out of 2 polls | `TablesAgree`, `EveryConnectionPolled`, `StopClosesAll`, `IdleConnectionsClosed` | holes in the table, reuse, more clients than entries, peers that leave while their task waits for more |
| `connection` | queue of 4, 6 blocks, windows of 3 and 6 | `InOrder`, `NothingLostOnLeave`, `RequestsAnswered` | tasks that follow each other, clients that leave, closes at any step, a full queue |
| `session` | 2 threads, 2 users, 3 logins, 2 entries at first, time-out of 2 | `TableSound`, `RefsCount`, `IdNamesItsUser`, `SessionsExpire` | reuse of an entry, a doubling under a login's feet, overlapping logouts, and expiry of what was closed or reused meanwhile |
| `users` | 2 threads, 3 names, queue of 4, 3 starts, 1 crash | `StoredOnce`, `MetaNotAhead`, `EverySaved` | stops and a crash at every step |
| `router` | any 3 registrations of 7 paths and 2 methods, then one of 14 urls | `RoutesFound`, `LongestPrefix`, `HandlerOfPrefix` | nested paths, names that begin another, `//`, no leading slash, several new names at once |
| `portfolio` | 3 requests at a time, 3 transactions, one registration | `KeptInOrder`, `AloneIsKept`, `SafeOnceRegistered` | lines overwritten, files created twice, a directory made by another request |
| `server` | 3 clients, 2 entries, 1 to 3 threads, with and without `--root`, requests whole or in two parts, SIGINT at any time | `HarmNeedsOvertaking`, `CleanExit`, `StopReturns` | entries reused under a task, records and threads run out, requests in flight at a stop, jobs asleep in the lock of the users |
| `builder` | 2 runs, 1 change of a source or the toolkit, 5 sources, 1 failure of itself in a run | `FreshBinary`, `NoToolRace`, `SyncSound`, `EndsAlone` | edits during a run, objects of earlier runs, a failed fork, exec or tool, a second builder |

One run shows where the code departs from what it says of itself; it checks one
property that TLC finds violated:

| run | property | what happens |
|---|---|---|
| `users_lock` | `LoginAnswered` | Registering a name that is taken leaves the users locked (`http_session.c:157`, "// unlock"): a login of another thread waits for good. |

### What the properties except

Where the code does not keep what a property would like to say in general, the
property states the condition under which it does. The run explores the rest
too, unless it is said below that it does not. These conditions are what a user
of the code should know:

* *Full queues* (`Fits` in `Connection`, `UserStore`). `empty()` takes a full
  queue for an empty one: a task ends although there is work (`http.c:419`), the
  session task does not save (`http_session.c:106`). And `push()` waits for room
  with the lock held that the task needs (`http.c:472`). The run `connection`
  fills its queue; in `users` it does not come to it (three users at a time for
  four slots), so that there `Fits` matters to the proofs only.
* *Overlapping logouts* (`orderly` in `Session`). A logout acts on an entry that
  may have been closed or reused since it was found (`http_session.c:251`).
* *Expiry after a logout* (`overtaken` in `Session`). The session task lists the
  entries that ran out, and removes them under another hold of the lock; one
  that a logout has closed in between is removed again. It counts down a
  reference before the first user, goes on, and may bring `last` to 0 while a
  session is open (`http_session.c:87-99`). The next login then takes the entry
  of that session, whose user keeps a reference too many. The run reaches the
  open session above `last`; the login that takes its entry would be a fourth,
  which the run does not have. The theorems cover it.
* *A peer that leaves in the middle of a request* (`HeldOpen` in `Listener`).
  Its task waits in `pop()` for the rest (`http.c:272`), its entry is not closed
  while `running` is set (`http.c:489`), and `poll()` finds it ready at once,
  again and again: no poll ever answers 0, so that no idle connection is timed
  out any more, and the listener spins.
* *A name that is taken* (`waiting` in `Server`, `dups` in
  `UserStore`). The registration leaves the lock of the users locked for good
  (`http_session.c:157`). Handlers that need it hold their threads for ever, and
  a session task that needs it never ends, so that neither does a stop.
  `SessionsExpire` leaves this lock out.
* *The last users* (`EverySaved`). Users handed over since the last round of the
  session task are not saved by a stop (`http_session.c:63`).
* *Small pools* (`RoomForAll` in `Server`). Listener and session task have a
  thread each: with `--tasks 1` the listener never starts, with `--tasks 2` no
  request is served; in both a stop can wait for ever, as it does when requests
  that come in parts hold all records while the listener waits for one
  (`http.c:479`, `threadpool.c:89`).
* *Connections closed under a task* (`overtaken` in `Server`): before the task
  of its request has used it for the last time, which is after the answer
  (`http.c:423`). Timeouts, hang-ups and the stop do not look at `running`. The task then answers another client or uses
  freed memory, and one that waits for the rest of a request takes a NULL from
  `pop()` (`http.c:272`). Without `--root` the stop itself crashes.
* *The limit on connections*. The table of `max_connections` entries holds the
  socket too; what is accepted when it is full is given to no entry and never
  closed (`http.c:510`; `Accept` of `Listener` does the same).
* *Paths of several new names* (`OneAtATime` in `Router`): their first node is
  called by all of what is left (`http.c:664`), so that they are found again as
  a whole but not by their parts.
* *Transactions posted at one time* (`raced` in `Portfolio`) may overwrite one
  another's line or be numbered alike; a file created by two requests may be
  emptied (`csv.c:7`, `csv.c:99`).
* *Failed commands* (`failed`, `noExec` in `Builder`). The tool goes on, links
  what an earlier run left and ends with 0; without `--clean` the object of a
  source that was removed is linked as well. A child that cannot execute its
  tool goes on as a builder; a tool that is never there doubles the builders at
  each command.
* *New files in the toolkit beside files we have newer* (`SyncSound`): the names
  left over from the last file that was looked at are used for the new one
  (`cb.h:845`), so that it is not fetched and ours is overwritten.

### Bounds

Threads: every hazard listed in `PROJECT.json` is between two actors, or two
and a destructor; two workers beside main or the task cover the pairs, three
threads are needed where one overtakes another that was woken (queue), or comes
between two that create a file (portfolio). Rings have 2 to 4 slots: enough to
wrap, to be full, and to be full with the head in the middle. `MaxLogins`,
`Burst`, `MaxStarts`, `MaxCrashes`, `MaxCalls`, `MaxRuns`, `MaxTime` and the
finite sets of jobs, blocks, items and names bound what would grow for ever. In
`server` two entries and three clients make an entry change hands, and with one
to three threads the pool is too small, just too small, and large enough. Three
registrations are the fewest in which a node is split from, passed by, and
registered again. In `builder` two runs are needed for what an earlier one
left, two libraries for one that is here and one that is in the toolkit; a
change takes a second of the clock, the grain of `st_mtime`.

Deadlock is not checked: all of these systems stop, when the queue is freed,
the program has ended, the clients have left or a bound is reached. That nobody
waits for ever is what the liveness properties say.

## 4. Fairness

* Threads run: weak fairness of each thread's steps, for the code hands no
  thread control over another. Weak fairness of a step that takes a mutex says
  that a mutex held for a bounded time is obtained.
* `ItemsAreTaken` needs poppers that keep calling, as the workers do in their
  loop. Nobody has to push.
* Handlers and jobs return, except the listener and the session task, which
  return when they are told to; nobody has to stop the program.
* `Connection`: a client that has begun a request sends the rest of it. It need
  not send more, leave or be timed out.
* `Listener`: `SSL_read` does not find more data for ever (`ReadDone`), and
  `IdleConnectionsClosed` starts when all peers have fallen silent. That a task
  ends is not assumed: the property is conditioned on each peer that left being
  rid of its task again and again.
* `UserStore`: strong fairness of `Round`, as the counter of the session task
  comes to 0 once in twenty rounds. `FairLockSpec` adds that a thread gets a
  lock that is free again and again; it makes the violation of `LoginAnswered`
  one in which the lock stays held.
* `Server`: threads run, the two long jobs look at their flags between rounds,
  a client that began a request sends the rest. A job that sleeps in the lock
  of the users does none of this (`waiting`); whether it is woken is left open,
  and `StopReturns` is conditioned on it. Nobody has to connect, to be timed out
  or to interrupt.
* `Builder`: builders run and tools end, with or without success.
* `Router` and `Portfolio` state safety only.
* Steps that model the environment (spurious wake-ups, clients that arrive or
  leave, crashes, stops) have none.

## 5. Proofs

Every safety property of every module is proved for all values of the constants
that satisfy the assumptions below: the runs show it on one instance. Each proof
has one inductive invariant `IInv` (`ConnectionIInv`, `PortfolioIInv`,
`ChildrenIInv` with `FreshIInv` on top of it, and `RInv` with `PathInv` on top
of it, in a module that holds two; `CopiesOK`, a type, for `SyncSound`), a lemma
for each action (or group of actions) that says it keeps `IInv`, and a theorem
for each property. What `IInv` has beside the type of the variables and the
properties themselves is what makes them inductive.

| theorem | property | why it holds |
|---|---|---|
| `QueueTheorems!TypeCorrect`, `PendingCounts`, `NoWakeupLost` | `TypeOK`, `PendingIsSleepers`, `NoLostWakeup` | counting, see below |
| `QueueTheorems!Refinement` | `ImplementsFifo` | each step of `Queue` is a step of `BoundedFifo` or a stutter, by the ring lemmas |
| `ThreadPoolTheorems!OneOwnerAlways`, `JobsAlwaysInOrder`, `NoCallerIsLate` | `OneOwner`, `JobsInOrder`, `NoLateCaller` | together only, see below |
| `AsyncTheorems!FreedAfterReturn`, `OneTaskPerStack` | `NotFreedEarly`, `StacksExclusive` | until its owner has finished a task is live (`OwnerHolds`); a worker past the function has the result (`DoneIsDone`); a stack is taken before the task is first looked at (`StackTaken`) |
| `AsyncTheorems!AwaitGivesResult` | the safety half of `AwaitReturns` | a state is Dead only when `ret` is the result, and only `await` ends with it |
| `ListenerTheorems!TablesAlwaysAgree`, `NoConnectionForgotten`, `StopLeavesNothing` | `TablesAgree`, `EveryConnectionPolled`, `StopClosesAll` | an event not yet looked at is of an open connection, and a read is of a polled entry (`EventsOfOpen`); `http_server_stop` goes on after the loop has ended (`StopInOrder`) |
| `ListenerTheorems!EveryRouteIsFound` | `RoutesFound` | a walk that found its end in the smaller tree finds it in the larger (`Extends`, `SameNode`), and one that stopped before it goes on to the node that was made for it (`NewNode`), see below |
| `ListenerTheorems!HandlersAreWhereTheyBelong` | `HandlerOfPrefix` | a handler is at a node whose names begin with those of its path (`Slotted`), and a walk reads the names of the node it comes to (`WalkReads`) |
| `ListenerTheorems!TheLongestPathAnswers` | `LongestPrefix` | a node for each path that was registered and no two for the same names (`Single`), and no child that fits where the walk ends (`NoneFits`) |
| `SessionTheorems!TableAlwaysSound`, `RefsAlwaysCount` | `TableSound`, `RefsCount` | entries are taken and given up under one hold of the lock, and `last` comes to 0 only when all that is open is removed; whatever requests do at one time, but in full only until the session task was `overtaken` |
| `SessionTheorems!IdsNameTheirUsers` | `IdNamesItsUser` | on `orderly` behaviours a thread has its entry to itself (`WorkApart`), and the id it is to write is nobody else's (`IdsApart`, from `IdsDrawn`: ids are drawn once) |
| `UserStoreTheorems!MetaNeverAhead` | `MetaNotAhead` | `base + new <= Len(db)` (`MetaBehind`), crashes included |
| `UserStoreTheorems!StoredExactlyOnce` | `StoredOnce` | one user for each place and one place for each user, see below |
| `ServerTheorems!HarmOnlyWhenOvertaken` | `HarmNeedsOvertaking` | a request has its connection unless it was overtaken (`HasConnection`), and has one job (`OneJobEach`) |
| `ServerTheorems!ExitIsClean` | `CleanExit`, an action property | each part of `main`'s stop has what the ones before took down (`TakenDown`) |
| `ServerTheorems!AnsweredInOrder`, `LeavingLosesNothing` | `InOrder`, `NothingLostOnLeave` (an action property) | one task at a time (`OneTask`), and what it holds and what is queued are the blocks read since the last answer (`InSequence`), see below |
| `UserStoreTheorems!DirectoryAfterRegistration` | `SafeOnceRegistered` | the directory is there when the registration is answered, and for every request that begins later (`DirectoryThere`) |
| `UserStoreTheorems!AloneIsNeverLost` | `AloneIsKept` | whoever is to write has a place behind each line that was posted alone (`AloneSafe`), see below |
| `UserStoreTheorems!TransactionsInOrder` | `KeptInOrder` | the one writer has counted all lines and is to write at the end (`InOrderSoFar`) |
| `AsyncTheorems!NobodyLeftBehind` | the safety half of `EndsAlone` | a builder waits for each of its children (`WaitsFor`), see below |
| `AsyncTheorems!ToolsDoNotRace` | `NoToolRace` | no child went on as a builder, so that all tools are of builder 1 and of one step |
| `AsyncTheorems!ProgramIsFresh` | `FreshBinary` | what each step of a run has made by then (`FreshSoFar`) |
| `AsyncTheorems!SyncFetchesTheNewer` | `SyncSound`, an action property | induction over the files of the toolkit, each of which is taken once (`OrderFacts`) |

*The ring.* A ring that is `WellFormed` (its used slots are those from head up
to tail) has a `Count` that agrees with `PopBlocked` and `PushBlocked`,
`AfterPush` appends to `Contents` and `AfterPop` removes its head, and both keep
it well formed. Items are not NULL there. `UserStore` pushes entry 0, which is
NULL: a slot in use may look free, and a full ring looks empty. Its proof
therefore tells the slots in use by `head` and `tail` alone (`Used`), which is
sound while the ring is not full, and `Fits` says that it never is.

*Queue.* `IInv` adds that a thread on its way into `push()` holds an item and
not NULL, and that `alive` and `freed` say where the destructor is.
`NoLostWakeup` is inductive because it counts: the items in the ring are no more
than the threads awake, or about to be woken, to take one. `push` adds an item
and a signaller; a signal turns a sleeper and a signaller into a woken thread,
or finds nobody asleep; a popper that takes an item takes one from both sides
or, as an outsider, from the items alone. `OneMoves` and `TwoMove` say what a
step does to the number of threads at a place.

*Thread pool.* `In(x)` is the record in place `x`: a slot of either queue, a
worker, a caller. `Apart` says that no record is in two places, `NoneLost` that
each is in one; every step moves one record from one place to another that was
empty. `OneOwner`, which counts places, follows. What a submitter wrote stays in
the record because nobody else has the record, hence `JobsInOrder`. Each job is
submitted, started and run once (`EachOnce`), so that a long job that has
finished is running nowhere; the only threads that could be inside
`threadPool_pushWork` when `threadPool_destroy` begins are workers in such a
job, or clients, and these have been told to stop (`ClientsIdle`):
`NoLateCaller`. It rests on the order of `main`, which awaits the long jobs
before it destroys the pool.

*Users.* The same argument on names: the places are the records of `users.db`,
the slots in use, the requests in `push()` and the session task. `InStep` says
that `.meta.bin` is `base`, that `base + new` records are in the file, and that
`new` is 0 when the session task may end; so a stop leaves a file that the next
start loads whole. All of this is under `Fits` and without a crash, as in the
property; `Files`, from which `MetaNotAhead` follows, has neither condition.

*Connection.* The listener has a block in hand only while the connection is open
(`InHand`). The rest needs `Fits`. While the connection is open
(`InStepWhileOpen`) there is at most one live task, and there is one
whenever `running` is set (`OneTask`); the blocks of the ring, after the one in the
task's hands, are consecutive and end with the last that was read
(`InSequence`); the ring has room for what the client may still send
(`RoomLeft`), so that an empty ring is an empty one and a push never waits. A
task that finds the ring empty clears `running` under the lock, and the listener
pushes under the same lock before it looks at `running`: whichever comes first,
the block has a task. What the task has taken since the last answer is not yet
a whole request (`TaskHolds`). After the listener has closed the connection
only `AnsweredSorted` and `AnsweredAll` are claimed, which say that the answers
so far are the requests up to the last of them, each once and in order.

*Router.* `Walk`, `NamesFrom` and `Reading` are recursive functions of a
position. The induction theorems of the library take a predicate, which the
provers cannot instantiate; so a predicate is a set of numbers here: `Counting`
says that one that has 0, and the successor of each member, has all, by the
least number outside it (`LeastOf`), and `Iterated` that a function from step to
step exists, so that what is recursive equals what its definition says
(`WalkFacts`, `NamesFromFacts`, `ReadingFacts`). `RInv` is that `nodes` is a tree
and `RoutesFound`. A registration keeps every node with its name and appends to
the children of one of them (`Extends`). The new child comes after those that
were there, so that it is never the first that fits where one of them did
(`SameFit`): only a walk that found no child may go on in the larger tree, and a
walk to a route has nothing left to go on with. `PathInv` gives each node the
names it stands for (`Named`): those of its parent and those of its own string.
That a walk reads these (`WalkReads`) is an induction over its rounds, each of
which takes the slashes (`ReadingSkips`) and one child's string
(`ReadingSplits`). With one name for each node, no two nodes that stand for the
same names (`Single`, kept since a node is made only where no child fits) and a
node for each beginning of its names (`ParentOf`), the node the walk ends at is
the longest that there is (`LongestIsFound`).

*Portfolio.* `Lines` picks the lines from the cells of a file, and `Ranks` says
that counting the members of a set of numbers up to each one numbers them from
1, which gives what appending and overwriting a cell do to `Lines`. A file
never ends with zeros (`NoZerosAtEnds`): they are only written over by a line
beyond them. A transaction that is posted alone is written at the end of a file
nobody else is to write to; one that is posted later seeks the end after it,
and a request that was to create the file, or write its heading, would have
been at work at the time. That is `AloneSafe`.

*Builder.* `wait` takes any child and `builds_wait` a pid, so that waiting for
as many as were started is not obviously waiting for those. `WaitsFor` says for
each step of a builder that its children are those whose pids it has, or, where
it waits for any, that it has one. It holds through failed forks, failed
commands and for the second builder, which is itself a child of the first
(`SecondIsChild`), waited for like a tool that failed. Hence `NobodyLeftBehind`,
and hence `NoToolRace`: the tools at work are those of one step, or the two that
pack the library side by side; they make different files and use none that
another makes, as each source has an object of its own and no source has the
name of an archive. `FreshSoFar` then follows the
run step by step: what of the objects, archives and the program is made by now
holds for each source a text it has had since the run began (`TextsHeld`:
`held` grows with each edit), if nothing has failed. It uses
`ServerObjectsGone`, that between the removal and the next run nobody makes the
objects of the server again. `SyncFacts` goes through the files that --sync
looks at: a file is taken if it is new or newer, and under its own name, since a
name is left over only by a file that is not newer and used only by a file that
is new, and the property is about toolkits that do not have both.

Assumptions. Each module names its own and TLC evaluates them on its run:
`RingAssumption` (`Size` positive), `QueueAssumption`, `PoolAssumption`,
`AsyncAssumption`, `ListenerAssumption`, `SessionAssumption`, `StoreAssumption`,
`ServerAssumption`, `ConnectionAssumption`, `RouterAssumption`,
`PortfolioAssumption`, `BuilderAssumption`. They say that threads, tasks,
clients and library files are finitely many, that bounds are natural numbers,
that paths and urls are sequences, that stand-ins such as `NULL`, `NoFd` and
`NoFile` are not among what they stand beside, in `UserStore`, that the queue
has twice as many slots as the base capacity (`http_session.c:347`), and, in
`Builder`, that no file is a source of two parts of the program, that no source
is named like an archive or the program (sources end with `.c`), and that the
file with `main` is none of a library's.

Only model-checked:

* all liveness (`DestroyReturns`, `ItemsAreTaken`, `EveryJobStarts`,
  `AwaitReturns`, `IdleConnectionsClosed`, `RequestsAnswered`, `SessionsExpire`,
  `EverySaved`, `LoginAnswered`, `StopReturns`, `EndsAlone`): it rests on
  fairness, and so on `ENABLED`, which the prover does not handle.

`AwaitGivesResult` and `NobodyLeftBehind` prove what `AwaitReturns` and
`EndsAlone` say beside that something ends.

## 6. Not modelled

* Formatting and parsing of HTTP, JSON and CSV, and the bytes of a block (the
  first block of fewer than four bytes, `http.c:251`); the helpers for cookies,
  header entries and responses, which work on the memory of one request; the
  sums in `Coin_getInfo`.
* TLS beyond "a read returns a block, nothing, or fails"; the time a handshake
  takes, during which the listener serves nobody.
* Suspension of async tasks and `lock_timedwait`, and `CSV_getLineById`,
  `CSV_removeLineById`, `CSV_print`: nobody calls them.
* The heap: the overrun of the `memset` at `http_session.c:170`, which takes
  the size from the wrong table, and what becomes of memory written after it
  was freed; a text without an end, which `PortfolioGetCoinsList` returns for a
  user with no coin (`portfolio.c:84`).
* In the build tool: `rebuild_c_builder` (one command, on the builder itself),
  what `--run` executes, and the containers of `cb.h`. A transaction type of
  four letters that is no `Sell`, which counts as a purchase (`coin.c:17-30`).
* Parsing of options (`server.c`, `app.c`), views.
