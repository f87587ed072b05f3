-------------------------------- MODULE Server --------------------------------
(***************************************************************************)
(* The program as a whole: main of server/server.c starts and stops the    *)
(* engine, the application and the listener, and all that runs beside it   *)
(* are jobs of the pool: the listener, the session task, and a task for    *)
(* each request.  What each of them does in detail is in modules ThreadPool,*)
(* Listener, Connection, Session; here it is what they need of each other: *)
(* threads, task records, connections, the tables of the sessions.         *)
(*                                                                         *)
(* There are as many threads as --tasks says and twice as many records.    *)
(* An entry of the table of connections may be closed by the listener      *)
(* (timeout, hang-up) under the feet of a task, and be given to another    *)
(* client.  A task that then uses it, or a table that was freed, is        *)
(* harmed: the process dies, or one client gets what is another's.  What   *)
(* follows is not followed up.                                             *)
(***************************************************************************)
EXTENDS Integers, Sequences, FiniteSets

CONSTANTS
  Clients,    (* each connects once and sends one request                    *)
  Entries,    (* connections[1 ..]                                           *)
  MaxTasks,   (* a bound: the threads of the pool are 1 .. MaxTasks          *)
  Listener, SessionTask,  (* the two long jobs                               *)
  Nobody

ASSUME ServerAssumption ==
  /\ IsFiniteSet(Clients) /\ IsFiniteSet(Entries) /\ MaxTasks \in Nat \ {0}
  /\ Listener # SessionTask /\ {Listener, SessionTask} \cap Clients = {}
  /\ Nobody \notin Clients \cup Entries

VARIABLES
  tasks,      (* external: --tasks                                           *)
  root,       (* external: --root was given                                  *)
  split,      (* external: requests may come in two parts                    *)
  main,       (* where main is                                               *)
  work, busy, (* the jobs queued in the pool, and those that threads run     *)
  con,        (* whose connection each entry is                              *)
  entry,      (* the entry each client was given                             *)
  at,         (* where the request of each client is                         *)
  whole,      (* all of it has arrived                                       *)
  handing,    (* the client whose request the listener hands to the pool     *)
  leaked,     (* user_manager.lock is held by a thread that no longer looks  *)
              (* after it (http_session.c:157)                               *)
  waiting,    (* the jobs that sleep in that lock                            *)
  harm,       (* a task was harmed                                           *)
  overtaken   (* history: a connection was closed while a task had its       *)
              (* request, before its last use of the connection (http.c:423) *)

inputVars  == <<tasks, root, split>>
poolVars   == <<work, busy>>
clientVars == <<con, entry, at, whole, handing>>
lockVars   == <<leaked, waiting>>
vars == <<inputVars, main, poolVars, clientVars, lockVars, harm, overtaken>>

Init ==
  /\ tasks \in 1 .. MaxTasks /\ root \in BOOLEAN /\ split \in BOOLEAN
  /\ main = "init" /\ work = <<>> /\ busy = {}
  /\ con = [e \in Entries |-> Nobody] /\ entry = [c \in Clients |-> Nobody]
  /\ at = [c \in Clients |-> "away"] /\ whole = [c \in Clients |-> FALSE]
  /\ leaked = FALSE /\ waiting = {}
  /\ handing = Nobody /\ harm = FALSE /\ overtaken = FALSE

At(c, from, to) == at[c] = from /\ at' = [at EXCEPT ![c] = to]
Main(from, to)  == main = from /\ main' = to

Active == main \in {"start", "run"}             (* http_server_t.active      *)
SessionsRun == main \notin {"await_sessions", "stop_engine", "join", "exit"}
TablesThere == main \notin {"stop_engine", "join", "exit"}
PoolRuns    == main \notin {"join", "exit"}
Gone        == main \in {"exit", "killed"}

Queued(j) == \E i \in DOMAIN work : work[i] = j

(* Mutant: a record for each thread. *)
RecordsOfThreads == tasks

Records == 2 * tasks
Free == Len(work) + Cardinality(busy) < Records        (* a record is free  *)
Ends(j) == busy' = busy \ {j} /\ UNCHANGED work

-----------------------------------------------------------------------------
(* main *)

(* http_server_init starts the engine; app_start the session task, unless   *)
(* no root was given.                                                       *)
AppStart ==
  /\ Main("init", "start")
  /\ work' = IF root THEN <<SessionTask>> ELSE <<>>
  /\ UNCHANGED <<inputVars, busy, clientVars, harm, overtaken, lockVars>>

(* The socket cannot be had: main returns.                                  *)
StartFails ==
  /\ Main("start", "exit")
  /\ UNCHANGED <<inputVars, poolVars, clientVars, harm, overtaken, lockVars>>

StartServer ==
  /\ Main("start", "run")
  /\ work' = Append(work, Listener)
  /\ UNCHANGED <<inputVars, busy, clientVars, harm, overtaken, lockVars>>

(* SIGINT.  The threads of the pool were made before main blocked it, so    *)
(* that it ends the process whenever main is not in sigwait.                *)
Interrupt ==
  /\ ~Gone /\ main' = IF main = "run" THEN "await_listener" ELSE "killed"
  /\ UNCHANGED <<inputVars, poolVars, clientVars, harm, overtaken, lockVars>>

(* Mutant: main does not wait for the listener. *)
ListenerIsOutAlways == TRUE

ListenerIsOut == Listener \notin busy /\ ~Queued(Listener)

AwaitListener ==
  /\ Main("await_listener", "close") /\ ListenerIsOut
  /\ UNCHANGED <<inputVars, poolVars, clientVars, harm, overtaken, lockVars>>

(* http_close_connection; a task that sleeps in the queue of the connection *)
(* gets a NULL from it, which it dereferences.                              *)
Close(e) ==
  LET c == con[e]
  IN  /\ c # Nobody /\ con' = [con EXCEPT ![e] = Nobody]
      /\ overtaken' = (overtaken \/ at[c] \notin {"idle", "answered"})
      /\ harm' = (harm \/ at[c] = "wait")

StopServer ==
  /\ \/ \E e \in Entries : Close(e) /\ main = "close" /\ UNCHANGED main
     \/ /\ Main("close", "stop_app") /\ \A e \in Entries : con[e] = Nobody
        /\ UNCHANGED <<con, harm, overtaken>>
  /\ UNCHANGED <<inputVars, poolVars, entry, at, whole, handing, lockVars>>

(* app_stop: without a root there is no task to await, and await takes the  *)
(* state of a NULL.                                                         *)
StopApp ==
  /\ Main("stop_app", "await_sessions")
  /\ harm' = (harm \/ ~root)
  /\ UNCHANGED <<inputVars, poolVars, clientVars, overtaken, lockVars>>

FreeTables ==
  /\ Main("await_sessions", "stop_engine")
  /\ SessionTask \notin busy /\ ~Queued(SessionTask)
  /\ UNCHANGED <<inputVars, poolVars, clientVars, harm, overtaken, lockVars>>

(* http_server_clean: threadPool_destroy cancels and joins what still runs; *)
(* a thread that sleeps in a lock cannot be cancelled.                      *)
StopEngine ==
  /\ Main("stop_engine", "join")
  /\ UNCHANGED <<inputVars, poolVars, clientVars, harm, overtaken, lockVars>>

Cancel(c) ==
  /\ main = "join" /\ c \in busy \ waiting /\ Ends(c)
  /\ at' = [at EXCEPT ![c] = "cancelled"]
  /\ UNCHANGED <<inputVars, main, con, entry, whole, handing, harm, overtaken, lockVars>>

Clean ==
  /\ Main("join", "exit") /\ busy = {}
  /\ UNCHANGED <<inputVars, poolVars, clientVars, harm, overtaken, lockVars>>

-----------------------------------------------------------------------------
(* Threads of the pool *)

Take ==
  /\ PoolRuns /\ work # <<>> /\ Cardinality(busy) < tasks
  /\ work' = Tail(work) /\ busy' = busy \cup {Head(work)}
  /\ at' = [c \in Clients |-> IF c = Head(work) THEN "run" ELSE at[c]]
  /\ UNCHANGED <<inputVars, main, con, entry, whole, handing, harm, overtaken, lockVars>>

(* The round under way, which reads the tables, and the look at the flag.   *)
SessionTaskEnds ==
  /\ SessionTask \in busy \ waiting /\ ~SessionsRun /\ Ends(SessionTask)
  /\ harm' = (harm \/ ~TablesThere)
  /\ UNCHANGED <<inputVars, main, clientVars, overtaken, lockVars>>

-----------------------------------------------------------------------------
(* The listener.  It looks at the flag between two rounds only, so that it   *)
(* may receive, accept and close when main already waits for it.            *)

Listening == Listener \in busy /\ handing = Nobody

(* Mutant: an entry is taken that has a connection. *)
VacantAlways(e) == TRUE

Vacant(e) == con[e] = Nobody

Accept(c, e) ==
  /\ Listening /\ Vacant(e) /\ At(c, "away", "idle")
  /\ con' = [con EXCEPT ![e] = c] /\ entry' = [entry EXCEPT ![c] = e]
  /\ UNCHANGED <<inputVars, main, poolVars, whole, handing, harm, overtaken, lockVars>>

(* The request, or the first part of it; async() needs a record for it.     *)
Receive(c) ==
  /\ Listening /\ entry[c] # Nobody /\ con[entry[c]] = c
  /\ At(c, "idle", "handed") /\ handing' = c
  /\ \E all \in {TRUE} \cup {~split} : whole' = [whole EXCEPT ![c] = all]
  /\ UNCHANGED <<inputVars, main, poolVars, con, entry, harm, overtaken, lockVars>>

HandOver ==
  /\ handing # Nobody /\ Free
  /\ work' = Append(work, handing) /\ handing' = Nobody
  /\ at' = [at EXCEPT ![handing] = "queued"]
  /\ UNCHANGED <<inputVars, main, busy, con, entry, whole, harm, overtaken, lockVars>>

(* The second part, which goes to the queue of the connection.              *)
ReceiveRest(c) ==
  /\ Listening /\ ~whole[c] /\ at[c] \in {"queued", "run", "wait"}
  /\ con[entry[c]] = c
  /\ whole' = [whole EXCEPT ![c] = TRUE]
  /\ UNCHANGED <<inputVars, main, poolVars, con, entry, at, handing, harm, overtaken, lockVars>>

(* A timeout, an error or a hang-up. *)
Drop(e) ==
  /\ Listening /\ Close(e)
  /\ UNCHANGED <<inputVars, main, poolVars, entry, at, whole, handing, lockVars>>

ListenerEnds ==
  /\ Listening /\ ~Active /\ Ends(Listener)
  /\ UNCHANGED <<inputVars, main, clientVars, harm, overtaken, lockVars>>

-----------------------------------------------------------------------------
(* http_process_request for the request of c *)

Mine(c) == con[entry[c]] = c

(* The header and the body, which pop() what is missing from the queue of   *)
(* the connection.                                                          *)
ReadRequest(c) ==
  /\ at[c] \in {"run", "wait"}
  /\ \/ whole[c] /\ at' = [at EXCEPT ![c] = "handler"] /\ UNCHANGED harm
     \/ ~whole[c] /\ Mine(c) /\ At(c, "run", "wait") /\ UNCHANGED harm
     \/ ~whole[c] /\ ~Mine(c) /\ at[c] = "run" /\ harm' = TRUE /\ UNCHANGED at
  /\ UNCHANGED <<inputVars, main, poolVars, con, entry, whole, handing, overtaken, lockVars>>

(* The handler looks for the session, among others.  If it registers a name *)
(* that is taken it leaves user_manager.lock locked; if it is run by the    *)
(* thread that left it so, it gets past the lock and gives it up in the end *)
(* (EDEADLK), and all who sleep in it go on.  Which thread runs what is     *)
(* left out: either may be the case of any handler.                         *)
Handle(c) ==
  /\ At(c, "handler", "reply") /\ c \notin waiting
  /\ \E h \in {FALSE} \cup {root /\ ~TablesThere} : harm' = (harm \/ h)
  /\ leaked' \in {FALSE, root}
  /\ waiting' = IF leaked' THEN waiting ELSE {}
  /\ UNCHANGED <<inputVars, main, poolVars, con, entry, whole, handing, overtaken>>

(* A handler, or a round of the session task, that needs user_manager.lock. *)
Wait(j) ==
  /\ leaked /\ j \in busy \ waiting
  /\ j \in Clients => at[j] = "handler"
  /\ waiting' = waiting \cup {j}
  /\ UNCHANGED <<inputVars, main, poolVars, clientVars, leaked, harm, overtaken>>

(* SSL_write and the look at the queue of the connection.                   *)
Reply(c) ==
  /\ At(c, "reply", "answered")
  /\ harm' = (harm \/ ~Mine(c)) /\ Ends(c)
  /\ UNCHANGED <<inputVars, main, con, entry, whole, handing, overtaken, lockVars>>

-----------------------------------------------------------------------------
MainSteps     == \/ AppStart \/ StartServer \/ AwaitListener \/ StopServer \/ StopApp
                 \/ FreeTables \/ StopEngine \/ Clean \/ \E c \in Clients : Cancel(c)
TaskSteps(c)  == c \in busy /\ (ReadRequest(c) \/ Handle(c) \/ Reply(c))
ListenerSteps == HandOver \/ ListenerEnds

Going == ~harm /\ ~Gone

Next == /\ Going
        /\ \/ MainSteps \/ StartFails \/ Interrupt
           \/ Take \/ SessionTaskEnds \/ ListenerSteps
           \/ \E c \in Clients : \/ \E e \in Entries : Accept(c, e)
                                 \/ Receive(c) \/ ReceiveRest(c) \/ TaskSteps(c)
           \/ \E e \in Entries : Drop(e)
           \/ \E j \in Clients \cup {SessionTask} : Wait(j)

Spec == Init /\ [][Next]_vars

(* Threads run, the session task and the listener look at their flags, and  *)
(* clients send the rest of what they began.                                *)
FairSpec ==
  /\ Spec
  /\ WF_vars(Going /\ MainSteps) /\ WF_vars(Going /\ Take)
  /\ WF_vars(Going /\ SessionTaskEnds) /\ WF_vars(Going /\ ListenerSteps)
  /\ \A c \in Clients : /\ WF_vars(Going /\ TaskSteps(c))
                        /\ WF_vars(Going /\ ReceiveRest(c))

-----------------------------------------------------------------------------
(* Properties *)

(* A task is harmed - its connection, or a table it reads, is taken away or *)
(* is another client's - only after some connection was closed before the   *)
(* task of its request used it for the last time (http.c:423), which the    *)
(* listener does on a timeout or a hang-up and main when it stops; else     *)
(* only for the want of --root (http.c:631-648, 486, 519,                   *)
(* http_session.c:356-373, app.c:405-407).                                  *)
HarmNeedsOvertaking == harm => overtaken \/ ~root

(* When main returns after a stop, no connection is left open and no        *)
(* request in the hands of the listener, however late it accepted or        *)
(* received: main waits for it before it closes what it finds               *)
(* (http.c:552-567, 631-648).                                               *)
CleanExit ==
  [][main = "join" /\ main' = "exit" =>
       handing = Nobody /\ \A e \in Entries : con[e] = Nobody]_vars

(* What --tasks must leave room for. *)
RoomForAll == tasks >= 3 /\ (~split \/ Cardinality(Entries) <= 2 * tasks - 2)

(* With three threads or more - two of them are never free for requests -   *)
(* and no more open connections than leave the listener a record, a stop    *)
(* ends: no thread is waited for that waits for the listener or for a       *)
(* record itself (http.c:480, 631-636, threadpool.c:88-93, server.c:104).   *)
(* Only a thread that sleeps for ever in the lock that a registration of a  *)
(* taken name leaves locked (http_session.c:157) holds the stop up.         *)
StopReturns ==
  []<>(waiting = {}) => (main = "await_listener" /\ RoomForAll ~> Gone \/ harm)
=============================================================================
