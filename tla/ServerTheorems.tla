---------------------------- MODULE ServerTheorems ----------------------------
(***************************************************************************)
(* Proofs about Server, for any number of clients, connections and threads:*)
(* a task is harmed only after a connection was closed before the task of  *)
(* its request used it for the last time, or for the want of --root, and a *)
(* stop leaves nothing open behind.                                        *)
(*                                                                         *)
(* The argument follows the order in which main takes the parts down.  Once*)
(* the listener is out nobody opens a connection; once every connection is *)
(* closed a request that is still in the hands of a task was overtaken;    *)
(* and the session task is gone before its tables are.                     *)
(*                                                                         *)
(* And about Connection, the hand-over from the listener to the task of a  *)
(* connection, for a queue of any size: requests are answered once and in  *)
(* order, and a task that leaves leaves nothing in the queue.              *)
(***************************************************************************)
EXTENDS Server, Connection, RingTheorems, TLAPS

Jobs == Clients \cup {Listener, SessionTask}

InTask   == {"run", "wait", "handler", "reply"}
Received == {"handed", "queued"} \cup InTask
Stages   == {"away", "idle", "answered", "cancelled"} \cup Received

ListenerOut   == {"close", "stop_app", "await_sessions", "stop_engine", "join"}
AllClosed     == {"stop_app", "await_sessions", "stop_engine", "join"}
SessionsOut   == {"stop_engine", "join"}
MainPlaces    == {"init", "start", "run", "await_listener", "exit", "killed"} \cup ListenerOut

TypeOK ==
  /\ root \in BOOLEAN /\ main \in MainPlaces
  /\ work \in Seq(Jobs) /\ busy \subseteq Jobs
  /\ con \in [Entries -> Clients \cup {Nobody}]
  /\ entry \in [Clients -> Entries \cup {Nobody}]
  /\ at \in [Clients -> Stages]
  /\ handing \in Clients \cup {Nobody}
  /\ harm \in BOOLEAN /\ overtaken \in BOOLEAN

(* No request is queued twice. *)
QueuedOnce == \A i, j \in DOMAIN work : work[i] = work[j] /\ work[i] \in Clients => i = j

(* A client's request is once in the queue of the pool, or with one thread, *)
(* or in the hands of the listener, which runs.                             *)
OneJobEach ==
  /\ \A c \in Clients : Queued(c) => at[c] = "queued"
  /\ QueuedOnce
  /\ \A c \in Clients : c \in busy => at[c] \in InTask
  /\ handing # Nobody => at[handing] = "handed" /\ Listener \in busy

(* A request that is received and not answered has its connection, unless   *)
(* it was overtaken.                                                        *)
HasConnection ==
  \A c \in Clients : at[c] \in Received /\ ~overtaken => entry[c] \in Entries /\ Mine(c)

(* What is over by the time main is where it is.                            *)
TakenDown ==
  /\ main \in ListenerOut => Listener \notin busy /\ ~Queued(Listener)
  /\ main \in AllClosed => \A e \in Entries : con[e] = Nobody
  /\ main \in SessionsOut => SessionTask \notin busy /\ ~Queued(SessionTask)

IInv == TypeOK /\ OneJobEach /\ HasConnection /\ TakenDown /\ HarmNeedsOvertaking

-----------------------------------------------------------------------------
(* The queue of the pool *)

(* A job that is pushed comes to those that are queued. *)
LEMMA PushQueues ==
  ASSUME NEW j \in Jobs, work \in Seq(Jobs), work' = Append(work, j)
  PROVE  /\ work' \in Seq(Jobs)
         /\ \A k : Queued(k)' <=> Queued(k) \/ k = j
         /\ QueuedOnce /\ (j \in Clients => ~Queued(j)) => QueuedOnce'
<1>1. /\ Len(work') = Len(work) + 1 /\ DOMAIN work = 1..Len(work) /\ DOMAIN work' = 1..Len(work')
      /\ work'[Len(work')] = j /\ \A i \in DOMAIN work : work'[i] = work[i]
      /\ work' \in Seq(Jobs) /\ Len(work) \in Nat
  OBVIOUS
<1>2. \A k : Queued(k)' <=> Queued(k) \/ k = j
  <2>. SUFFICES ASSUME NEW k PROVE Queued(k)' <=> Queued(k) \/ k = j
    OBVIOUS
  <2>1. Queued(k)' => Queued(k) \/ k = j
    BY <1>1 DEF Queued
  <2>2. Queued(k) => Queued(k)'
    BY <1>1 DEF Queued
  <2>3. k = j => Queued(k)'
    BY <1>1 DEF Queued
  <2>. QED
    BY <2>1, <2>2, <2>3
<1>3. ASSUME QueuedOnce, j \in Clients => ~Queued(j) PROVE QueuedOnce'
  <2>. SUFFICES ASSUME NEW i \in DOMAIN work', NEW k \in DOMAIN work',
                       work'[i] = work'[k], work'[i] \in Clients
                PROVE  i = k
    BY DEF QueuedOnce
  <2>1. \A n \in DOMAIN work : work[n] = j => Queued(j)
    BY DEF Queued
  <2>2. \A n \in DOMAIN work' : n \in DOMAIN work \/ (n = Len(work') /\ work'[n] = j)
    BY <1>1
  <2>. QED
    BY <1>1, <1>3, <2>1, <2>2 DEF QueuedOnce
<1>. QED
  BY <1>1, <1>2, <1>3

(* The job that is taken was queued, and those that stay were too.          *)
LEMMA TakeUnqueues ==
  ASSUME NEW h, h = Head(work), work \in Seq(Jobs), work # <<>>, work' = Tail(work)
  PROVE  /\ work' \in Seq(Jobs) /\ h \in Jobs /\ Queued(h)
         /\ \A k : Queued(k)' => Queued(k)
         /\ QueuedOnce => QueuedOnce' /\ (h \in Clients => ~Queued(h)')
<1>1. /\ Len(work') = Len(work) - 1 /\ DOMAIN work = 1..Len(work) /\ DOMAIN work' = 1..Len(work')
      /\ Len(work) \in Nat \ {0} /\ h = work[1]
      /\ \A i \in DOMAIN work' : work'[i] = work[i + 1] /\ i + 1 \in DOMAIN work
      /\ work' \in Seq(Jobs) /\ h \in Jobs
  OBVIOUS
<1>2. Queued(h) /\ \A k : Queued(k)' => Queued(k)
  BY <1>1 DEF Queued
<1>3. QueuedOnce => QueuedOnce'
  BY <1>1 DEF QueuedOnce
<1>4. QueuedOnce /\ h \in Clients => ~Queued(h)'
  BY <1>1 DEF QueuedOnce, Queued
<1>. QED
  BY <1>1, <1>2, <1>3, <1>4

-----------------------------------------------------------------------------
(* Before the program starts nothing is queued, open or received.           *)
LEMMA InitIInv == Init => IInv
<1>. SUFFICES ASSUME Init PROVE IInv
  OBVIOUS
<1>1. work = <<>> /\ busy = {} /\ \A j : ~Queued(j)
  BY DEF Init, Queued
<1>2. TypeOK
  <2>1. work \in Seq(Jobs) /\ busy \subseteq Jobs
    BY <1>1
  <2>2. /\ con \in [Entries -> Clients \cup {Nobody}]
        /\ entry \in [Clients -> Entries \cup {Nobody}]
        /\ at \in [Clients -> Stages] /\ handing \in Clients \cup {Nobody}
    BY DEF Init, Stages
  <2>3. root \in BOOLEAN /\ main \in MainPlaces /\ harm \in BOOLEAN /\ overtaken \in BOOLEAN
    BY DEF Init, MainPlaces
  <2>. QED
    BY <2>1, <2>2, <2>3 DEF TypeOK
<1>3. OneJobEach /\ HasConnection
  BY <1>1 DEF Init, OneJobEach, QueuedOnce, HasConnection, Received, InTask
<1>4. TakenDown /\ HarmNeedsOvertaking
  BY DEF Init, TakenDown, HarmNeedsOvertaking, ListenerOut, AllClosed, SessionsOut
<1>. QED
  BY <1>2, <1>3, <1>4 DEF IInv

-----------------------------------------------------------------------------
(* main *)

(* app_start and http_server_start push the two long jobs. *)
LEMMA StartsKeep ==
  ASSUME IInv, AppStart \/ StartServer
  PROVE  IInv'
<1>. USE DEF IInv
<1>1. /\ UNCHANGED <<inputVars, busy, clientVars, harm, overtaken>>
      /\ main' \in {"start", "run"}
  BY DEF AppStart, StartServer, Main
<1>2. /\ work' \in Seq(Jobs) /\ QueuedOnce'
      /\ \A c \in Clients : Queued(c)' => Queued(c)
  <2>1. CASE StartServer
    <3>1. work' = Append(work, Listener) /\ Listener \in Jobs /\ Listener \notin Clients
      BY <2>1, ServerAssumption DEF StartServer, Jobs
    <3>. QED
      BY <3>1, PushQueues DEF TypeOK, OneJobEach
  <2>2. CASE AppStart
    <3>1. work' = <<SessionTask>> \/ work' = <<>>
      BY <2>2 DEF AppStart
    <3>2. CASE work' = <<>>
      BY <3>2 DEF QueuedOnce, Queued
    <3>3. CASE work' = <<SessionTask>>
      <4>1. DOMAIN work' = {1} /\ work'[1] = SessionTask /\ SessionTask \notin Clients
        BY <3>3, ServerAssumption
      <4>2. work' \in Seq(Jobs)
        BY <3>3 DEF Jobs
      <4>. QED
        BY <4>1, <4>2 DEF QueuedOnce, Queued
    <3>. QED
      BY <3>1, <3>2, <3>3
  <2>. QED
    BY <2>1, <2>2
<1>3. TypeOK'
  BY <1>1, <1>2 DEF TypeOK, MainPlaces, inputVars, clientVars
<1>4. OneJobEach'
  BY <1>1, <1>2 DEF OneJobEach, clientVars
<1>5. HasConnection'
  BY <1>1 DEF HasConnection, Mine, clientVars
<1>6. TakenDown' /\ HarmNeedsOvertaking'
  BY <1>1 DEF TakenDown, ListenerOut, AllClosed, SessionsOut, HarmNeedsOvertaking, inputVars
<1>. QED
  BY <1>3, <1>4, <1>5, <1>6

(* The steps in which main only goes on: it has waited for what it takes    *)
(* down next.                                                               *)
LEMMA GoingOnKeeps ==
  ASSUME IInv, \/ StartFails \/ Interrupt \/ AwaitListener \/ StopApp
               \/ FreeTables \/ StopEngine \/ Clean
  PROVE  IInv'
<1>. USE DEF IInv
<1>1. UNCHANGED <<inputVars, poolVars, clientVars, overtaken>>
  BY DEF StartFails, Interrupt, AwaitListener, StopApp, FreeTables, StopEngine, Clean
<1>2. TypeOK'
  <2>1. main' \in MainPlaces
    BY DEF StartFails, Interrupt, AwaitListener, StopApp, FreeTables, StopEngine, Clean,
           Main, MainPlaces, ListenerOut
  <2>2. harm' \in BOOLEAN
    BY DEF StartFails, Interrupt, AwaitListener, StopApp, FreeTables, StopEngine, Clean, TypeOK
  <2>. QED
    BY <1>1, <2>1, <2>2 DEF TypeOK, inputVars, poolVars, clientVars
<1>3. OneJobEach' /\ HasConnection'
  BY <1>1 DEF OneJobEach, QueuedOnce, Queued, HasConnection, Mine, poolVars, clientVars
<1>4. TakenDown'
  <2>1. \A j : Queued(j)' <=> Queued(j)
    BY <1>1 DEF Queued, poolVars
  <2>2. /\ main' \in ListenerOut => main \in ListenerOut \/ ListenerIsOut
        /\ main' \in AllClosed => main \in AllClosed
        /\ main' \in SessionsOut => main \in SessionsOut \/ (SessionTask \notin busy /\ ~Queued(SessionTask))
    BY DEF StartFails, Interrupt, AwaitListener, StopApp, FreeTables, StopEngine, Clean,
           Main, ListenerOut, AllClosed, SessionsOut
  <2>. QED
    BY <1>1, <2>1, <2>2 DEF TakenDown, ListenerIsOut, poolVars, clientVars
<1>5. HarmNeedsOvertaking'
  BY <1>1 DEF StartFails, Interrupt, AwaitListener, StopApp, FreeTables, StopEngine, Clean,
              HarmNeedsOvertaking, inputVars
<1>. QED
  BY <1>2, <1>3, <1>4, <1>5

(* A connection that is closed under a request leaves it overtaken, and the *)
(* task that sleeps on it is one of these.                                  *)
LEMMA CloseKeeps ==
  ASSUME IInv, NEW e \in Entries, Close(e),
         UNCHANGED <<inputVars, main, poolVars, entry, at, whole, handing>>
  PROVE  IInv'
<1>. USE DEF IInv
<1>. DEFINE c == con[e]
<1>1. /\ c \in Clients /\ con' = [con EXCEPT ![e] = Nobody]
      /\ overtaken' = (overtaken \/ at[c] \notin {"idle", "answered"})
      /\ harm' = (harm \/ at[c] = "wait")
  BY DEF Close, TypeOK
<1>2. TypeOK'
  BY <1>1 DEF TypeOK, inputVars, poolVars
<1>3. OneJobEach'
  BY DEF OneJobEach, QueuedOnce, Queued, poolVars
<1>4. HasConnection'
  <2>. SUFFICES ASSUME NEW d \in Clients, at[d] \in Received, ~overtaken'
                PROVE  entry[d] \in Entries /\ con'[entry[d]] = d
    BY DEF HasConnection, Mine
  <2>1. entry[d] \in Entries /\ con[entry[d]] = d
    BY <1>1 DEF HasConnection, Mine
  <2>2. entry[d] # e
    BY <1>1, <2>1 DEF Received, InTask
  <2>. QED
    BY <1>1, <2>1, <2>2 DEF TypeOK
<1>5. TakenDown'
  BY <1>1 DEF TakenDown, Queued, poolVars, TypeOK
<1>6. HarmNeedsOvertaking'
  BY <1>1 DEF HarmNeedsOvertaking, inputVars, TypeOK
<1>. QED
  BY <1>2, <1>3, <1>4, <1>5, <1>6

(* http_server_stop closes connections until none is left. *)
LEMMA StopServerKeeps == ASSUME IInv, StopServer PROVE IInv'
<1>. USE DEF IInv
<1>1. CASE \E e \in Entries : Close(e) /\ main = "close" /\ UNCHANGED main
  BY <1>1, CloseKeeps DEF StopServer, inputVars, poolVars
<1>2. CASE Main("close", "stop_app") /\ (\A e \in Entries : con[e] = Nobody)
           /\ UNCHANGED <<con, harm, overtaken>>
  <2>1. /\ main = "close" /\ main' = "stop_app"
        /\ UNCHANGED <<inputVars, poolVars, clientVars, harm, overtaken>>
    BY <1>2 DEF StopServer, Main, clientVars
  <2>2. TypeOK'
    BY <2>1 DEF TypeOK, MainPlaces, ListenerOut, inputVars, poolVars, clientVars
  <2>3. OneJobEach' /\ HasConnection'
    BY <2>1 DEF OneJobEach, QueuedOnce, Queued, HasConnection, Mine, poolVars, clientVars
  <2>4. TakenDown' /\ HarmNeedsOvertaking'
    BY <1>2, <2>1 DEF TakenDown, Queued, HarmNeedsOvertaking, ListenerOut, AllClosed, SessionsOut,
                      inputVars, poolVars, clientVars
  <2>. QED
    BY <2>2, <2>3, <2>4
<1>. QED
  BY <1>1, <1>2 DEF StopServer

(* threadPool_destroy ends a task wherever it is. *)
LEMMA CancelKeeps ==
  ASSUME IInv, NEW c \in Clients, Cancel(c)
  PROVE  IInv'
<1>. USE DEF IInv
<1>1. /\ main = "join" /\ c \in busy /\ busy' = busy \ {c}
      /\ at' = [at EXCEPT ![c] = "cancelled"]
      /\ UNCHANGED <<inputVars, main, work, con, entry, whole, handing, harm, overtaken>>
  BY DEF Cancel, Ends
<1>2. TypeOK'
  BY <1>1 DEF TypeOK, Stages, inputVars
<1>3. at[c] \in InTask /\ ~Queued(c) /\ c # Listener /\ handing # c
  BY <1>1, ServerAssumption DEF OneJobEach, InTask
<1>4. OneJobEach'
  BY <1>1, <1>3 DEF OneJobEach, QueuedOnce, Queued, TypeOK
<1>5. HasConnection'
  BY <1>1 DEF HasConnection, Mine, Received, InTask, TypeOK
<1>6. TakenDown' /\ HarmNeedsOvertaking'
  BY <1>1 DEF TakenDown, Queued, HarmNeedsOvertaking, inputVars
<1>. QED
  BY <1>2, <1>4, <1>5, <1>6

-----------------------------------------------------------------------------
(* The threads of the pool and the listener *)

(* A thread takes the first job.  *)
LEMMA TakeKeeps == ASSUME IInv, Take PROVE IInv'
<1>. USE DEF IInv
<1>1. PICK h : h = Head(work)
  OBVIOUS
<1>2. /\ work # <<>> /\ work' = Tail(work) /\ busy' = busy \cup {h}
      /\ at' = [c \in Clients |-> IF c = h THEN "run" ELSE at[c]]
      /\ UNCHANGED <<inputVars, main, con, entry, whole, handing, harm, overtaken>>
  BY <1>1 DEF Take
<1>3. /\ work' \in Seq(Jobs) /\ h \in Jobs /\ Queued(h)
      /\ \A k : Queued(k)' => Queued(k)
      /\ QueuedOnce' /\ (h \in Clients => ~Queued(h)')
  BY <1>1, <1>2, TakeUnqueues DEF TypeOK, OneJobEach
<1>4. TypeOK'
  BY <1>2, <1>3 DEF TypeOK, Stages, Received, InTask, inputVars
<1>5. OneJobEach'
  <2>1. \A c \in Clients : Queued(c)' => at'[c] = "queued"
    BY <1>2, <1>3 DEF OneJobEach
  <2>2. \A c \in Clients : c \in busy' => at'[c] \in InTask
    BY <1>2 DEF OneJobEach, InTask
  <2>3. handing # Nobody => at'[handing] = "handed" /\ Listener \in busy'
    <3>. SUFFICES ASSUME handing # Nobody PROVE at'[handing] = "handed" /\ Listener \in busy'
      OBVIOUS
    <3>1. handing \in Clients /\ at[handing] = "handed" /\ Listener \in busy
      BY DEF TypeOK, OneJobEach
    <3>2. handing # h
      BY <1>3, <3>1 DEF OneJobEach
    <3>. QED
      BY <1>2, <3>1, <3>2
  <2>. QED
    BY <1>2, <1>3, <2>1, <2>2, <2>3 DEF OneJobEach
<1>6. HasConnection'
  <2>1. h \in Clients => at[h] \in Received
    BY <1>3 DEF OneJobEach, Received
  <2>. QED
    BY <1>2, <2>1 DEF HasConnection, Mine, Received, InTask
<1>7. TakenDown' /\ HarmNeedsOvertaking'
  BY <1>2, <1>3 DEF TakenDown, HarmNeedsOvertaking, inputVars
<1>. QED
  BY <1>4, <1>5, <1>6, <1>7

(* The session task and the listener return.  While the tables are gone the *)
(* session task no longer runs; what the listener handed out is pushed.     *)
LEMMA LongJobsEnd ==
  ASSUME IInv, Going, SessionTaskEnds \/ ListenerEnds
  PROVE  IInv'
<1>. USE DEF IInv
<1>1. PICK j \in {Listener, SessionTask} :
        /\ busy' = busy \ {j} /\ (j = Listener => handing = Nobody)
        /\ UNCHANGED <<inputVars, main, work, clientVars, overtaken>>
  <2>1. CASE SessionTaskEnds
    BY <2>1, ServerAssumption DEF SessionTaskEnds, Ends
  <2>2. CASE ListenerEnds
    BY <2>2 DEF ListenerEnds, Listening, Ends
  <2>. QED
    BY <2>1, <2>2
<1>2. harm' = harm \/ (SessionTask \in busy /\ harm' = (harm \/ ~TablesThere))
  BY DEF SessionTaskEnds, ListenerEnds
<1>3. TypeOK'
  BY <1>1, <1>2 DEF TypeOK, inputVars, clientVars
<1>4. OneJobEach' /\ HasConnection' /\ TakenDown'
  BY <1>1, ServerAssumption DEF OneJobEach, QueuedOnce, Queued, HasConnection, Mine, TakenDown,
                                clientVars
<1>5. SessionTask \in busy => TablesThere
  BY DEF Going, Gone, TablesThere, TakenDown, SessionsOut
<1>6. HarmNeedsOvertaking'
  BY <1>1, <1>2, <1>5 DEF HarmNeedsOvertaking, inputVars, Going
<1>. QED
  BY <1>3, <1>4, <1>6

(* A client is given an entry that nobody has, so that no request loses its *)
(* own; and the listener, which does it, is not out.                        *)
LEMMA AcceptKeeps ==
  ASSUME IInv, NEW c \in Clients, NEW e \in Entries, Accept(c, e)
  PROVE  IInv'
<1>. USE DEF IInv
<1>1. /\ Listener \in busy /\ con[e] = Nobody /\ at[c] = "away" /\ at' = [at EXCEPT ![c] = "idle"]
      /\ con' = [con EXCEPT ![e] = c] /\ entry' = [entry EXCEPT ![c] = e]
      /\ UNCHANGED <<inputVars, main, poolVars, whole, handing, harm, overtaken>>
  BY DEF Accept, Listening, Vacant, At
<1>2. TypeOK'
  BY <1>1 DEF TypeOK, Stages, inputVars, poolVars
<1>3. OneJobEach'
  BY <1>1 DEF OneJobEach, QueuedOnce, Queued, InTask, TypeOK, poolVars
<1>4. HasConnection'
  <2>. SUFFICES ASSUME NEW d \in Clients, at'[d] \in Received, ~overtaken
                PROVE  entry'[d] \in Entries /\ con'[entry'[d]] = d
    BY <1>1 DEF HasConnection, Mine
  <2>1. d # c /\ at[d] \in Received
    BY <1>1 DEF Received, InTask, TypeOK
  <2>2. entry'[d] = entry[d] /\ entry[d] \in Entries /\ con[entry[d]] = d
    BY <1>1, <2>1 DEF HasConnection, Mine, TypeOK
  <2>3. entry[d] # e
    BY <1>1, <2>2, ServerAssumption
  <2>. QED
    BY <1>1, <2>2, <2>3 DEF TypeOK
<1>5. TakenDown' /\ HarmNeedsOvertaking'
  BY <1>1 DEF TakenDown, Queued, HarmNeedsOvertaking, ListenerOut, AllClosed, inputVars, poolVars
<1>. QED
  BY <1>2, <1>3, <1>4, <1>5

(* A request is received on the connection its client has. *)
LEMMA ReceiveKeeps ==
  ASSUME IInv, NEW c \in Clients, Receive(c)
  PROVE  IInv'
<1>. USE DEF IInv
<1>1. /\ Listener \in busy /\ entry[c] # Nobody /\ con[entry[c]] = c
      /\ at[c] = "idle" /\ at' = [at EXCEPT ![c] = "handed"] /\ handing' = c
      /\ UNCHANGED <<inputVars, main, poolVars, con, entry, harm, overtaken>>
  BY DEF Receive, Listening, At
<1>2. TypeOK'
  BY <1>1 DEF TypeOK, Stages, Received, inputVars, poolVars
<1>3. OneJobEach'
  BY <1>1 DEF OneJobEach, QueuedOnce, Queued, InTask, TypeOK, poolVars
<1>4. HasConnection'
  BY <1>1 DEF HasConnection, Mine, Received, TypeOK
<1>5. TakenDown' /\ HarmNeedsOvertaking'
  BY <1>1 DEF TakenDown, Queued, HarmNeedsOvertaking, inputVars, poolVars
<1>. QED
  BY <1>2, <1>3, <1>4, <1>5

(* The rest of a request goes to the queue of the connection. *)
LEMMA ReceiveRestKeeps ==
  ASSUME IInv, NEW c \in Clients, ReceiveRest(c)
  PROVE  IInv'
<1>. USE DEF IInv
<1>1. UNCHANGED <<inputVars, main, poolVars, con, entry, at, handing, harm, overtaken>>
  BY DEF ReceiveRest
<1>2. TypeOK' /\ HarmNeedsOvertaking'
  BY <1>1 DEF TypeOK, HarmNeedsOvertaking, inputVars, poolVars
<1>3. OneJobEach' /\ HasConnection' /\ TakenDown'
  BY <1>1 DEF OneJobEach, QueuedOnce, Queued, HasConnection, Mine, TakenDown, poolVars
<1>. QED
  BY <1>2, <1>3

(* async() pushes the task of a request that was not queued. *)
LEMMA HandOverKeeps == ASSUME IInv, HandOver PROVE IInv'
<1>. USE DEF IInv
<1>. DEFINE c == handing
<1>1. /\ c # Nobody /\ work' = Append(work, c) /\ handing' = Nobody
      /\ at' = [at EXCEPT ![c] = "queued"]
      /\ UNCHANGED <<inputVars, main, busy, con, entry, whole, harm, overtaken>>
  BY DEF HandOver
<1>2. PICK d \in Clients : d = c /\ at[d] = "handed" /\ Listener \in busy
  BY <1>1 DEF TypeOK, OneJobEach
<1>3. ~Queued(d) /\ d \notin busy /\ d # Listener /\ d # SessionTask /\ d \in Jobs
  BY <1>2, ServerAssumption DEF OneJobEach, InTask, Jobs
<1>4. work' \in Seq(Jobs) /\ QueuedOnce' /\ \A k : Queued(k)' <=> Queued(k) \/ k = d
  BY <1>1, <1>2, <1>3, PushQueues DEF TypeOK, OneJobEach
<1>5. TypeOK'
  BY <1>1, <1>4 DEF TypeOK, Stages, Received, inputVars
<1>6. OneJobEach'
  BY <1>1, <1>2, <1>3, <1>4 DEF OneJobEach, TypeOK
<1>7. HasConnection'
  BY <1>1, <1>2 DEF HasConnection, Mine, Received, TypeOK
<1>8. TakenDown' /\ HarmNeedsOvertaking'
  BY <1>1, <1>3, <1>4 DEF TakenDown, HarmNeedsOvertaking, inputVars
<1>. QED
  BY <1>5, <1>6, <1>7, <1>8

-----------------------------------------------------------------------------
(* The tasks *)

(* What a task reads is not there any more only if its connection was       *)
(* overtaken.                                                               *)
LEMMA TaskKeeps ==
  ASSUME IInv, Going, NEW c \in Clients, TaskSteps(c)
  PROVE  IInv'
<1>. USE DEF IInv
<1>1. PICK to \in {"wait", "handler", "reply", "answered"} :
        /\ c \in busy /\ at[c] \in InTask
        /\ at' = at \/ at' = [at EXCEPT ![c] = to]
        /\ busy' = IF at[c] = "reply" THEN busy \ {c} ELSE busy
        /\ at[c] = "reply" => at' = [at EXCEPT ![c] = "answered"]
        /\ at[c] # "reply" => to # "answered"
        /\ UNCHANGED <<inputVars, main, work, con, entry, whole, handing, overtaken>>
  <2>1. CASE ReadRequest(c)
    BY <2>1 DEF TaskSteps, ReadRequest, At, InTask, poolVars
  <2>2. CASE Handle(c)
    BY <2>2 DEF TaskSteps, Handle, At, InTask, poolVars
  <2>3. CASE Reply(c)
    BY <2>3 DEF TaskSteps, Reply, At, Ends, InTask
  <2>. QED
    BY <2>1, <2>2, <2>3 DEF TaskSteps
<1>2. harm' \in BOOLEAN /\ (harm' => ~Mine(c) \/ ~TablesThere \/ harm)
  <2>1. CASE ReadRequest(c)
    <3>1. UNCHANGED harm \/ (harm' = TRUE /\ ~Mine(c))
      BY <2>1 DEF ReadRequest
    <3>2. CASE UNCHANGED harm
      BY <3>2 DEF TypeOK
    <3>3. CASE harm' = TRUE /\ ~Mine(c)
      BY <3>3
    <3>. QED
      BY <3>1, <3>2, <3>3
  <2>2. CASE Handle(c)
    <3>1. PICK h \in {FALSE} \cup {root /\ ~TablesThere} : harm' = (harm \/ h)
      BY <2>2 DEF Handle
    <3>. QED
      BY <3>1 DEF TypeOK
  <2>3. CASE Reply(c)
    <3>1. harm' = (harm \/ ~Mine(c))
      BY <2>3 DEF Reply
    <3>. QED
      BY <3>1 DEF TypeOK
  <2>. QED
    BY <2>1, <2>2, <2>3 DEF TaskSteps
<1>3. c # Listener /\ c # SessionTask /\ c # Nobody /\ ~Queued(c) /\ handing # c
  BY <1>1, ServerAssumption DEF OneJobEach, InTask
<1>4. TypeOK'
  BY <1>1, <1>2 DEF TypeOK, Stages, Received, InTask, inputVars
<1>5. OneJobEach'
  BY <1>1, <1>3 DEF OneJobEach, QueuedOnce, Queued, InTask, TypeOK
<1>6. HasConnection'
  BY <1>1 DEF HasConnection, Mine, Received, InTask, TypeOK
<1>7. TakenDown'
  BY <1>1 DEF TakenDown, Queued
<1>8. HarmNeedsOvertaking'
  <2>1. ~overtaken => Mine(c) /\ entry[c] \in Entries
    BY <1>1 DEF HasConnection, Received
  <2>2. ~TablesThere => \A e \in Entries : con[e] = Nobody
    BY DEF Going, Gone, TablesThere, TakenDown, AllClosed
  <2>3. ~overtaken => Mine(c) /\ TablesThere
    BY <1>3, <2>1, <2>2 DEF Mine
  <2>. QED
    BY <1>1, <1>2, <2>3 DEF HarmNeedsOvertaking, Going
<1>. QED
  BY <1>4, <1>5, <1>6, <1>7, <1>8

(* A job that goes to sleep in the lock of the users leaves all else alone. *)
LEMMA WaitKeeps ==
  ASSUME IInv, NEW j \in Clients \cup {SessionTask}, Wait(j)
  PROVE  IInv'
<1>1. UNCHANGED <<tasks, root, main, work, busy, con, entry, at, handing, harm, overtaken>>
  BY DEF Wait, inputVars, poolVars, clientVars
<1>. QED
  BY <1>1 DEF IInv, TypeOK, OneJobEach, QueuedOnce, Queued, HasConnection, Mine, TakenDown,
              HarmNeedsOvertaking

-----------------------------------------------------------------------------
(* Every step keeps the invariant. *)
LEMMA NextIInv == IInv /\ [Next]_vars => IInv'
<1>. SUFFICES ASSUME IInv, [Next]_vars PROVE IInv'
  OBVIOUS
<1>1. CASE Next
  <2>1. Going
    BY <1>1 DEF Next
  <2>2. CASE MainSteps \/ StartFails \/ Interrupt
    BY <2>2, StartsKeep, GoingOnKeeps, StopServerKeeps, CancelKeeps DEF MainSteps
  <2>3. CASE Take \/ SessionTaskEnds \/ ListenerSteps
    BY <2>1, <2>3, TakeKeeps, LongJobsEnd, HandOverKeeps DEF ListenerSteps
  <2>4. ASSUME NEW c \in Clients,
               \/ \E e \in Entries : Accept(c, e)
               \/ Receive(c) \/ ReceiveRest(c) \/ TaskSteps(c)
        PROVE  IInv'
    BY <2>1, <2>4, AcceptKeeps, ReceiveKeeps, ReceiveRestKeeps, TaskKeeps
  <2>5. ASSUME NEW e \in Entries, Drop(e) PROVE IInv'
    BY <2>5, CloseKeeps DEF Drop, inputVars, poolVars
  <2>6. ASSUME NEW j \in Clients \cup {SessionTask}, Wait(j) PROVE IInv'
    BY <2>6, WaitKeeps
  <2>. QED
    BY <1>1, <2>2, <2>3, <2>4, <2>5, <2>6 DEF Next
<1>2. CASE UNCHANGED vars
  <2>1. UNCHANGED <<tasks, root, split, main, work, busy, con, entry, at, whole, handing, harm, overtaken>>
    BY <1>2 DEF vars, inputVars, poolVars, clientVars
  <2>. QED
    BY <2>1 DEF IInv, TypeOK, OneJobEach, QueuedOnce, Queued, HasConnection, Mine, TakenDown,
                HarmNeedsOvertaking
<1>. QED
  BY <1>1, <1>2

(* The inductive invariant holds in every state. *)
LEMMA Safety == Spec => []IInv
BY InitIInv, NextIInv, PTL DEF Spec

(* No task is harmed while every connection is left to its request, except  *)
(* for the want of --root (http.c:631-648, 486, 519, http_session.c:356-373,*)
(* app.c:405-407).                                                          *)
THEOREM HarmOnlyWhenOvertaken == Spec => []HarmNeedsOvertaking
<1>1. IInv => HarmNeedsOvertaking
  BY DEF IInv
<1>. QED
  BY <1>1, Safety, PTL

(* When main has joined the pool and returns, nothing is left open and no   *)
(* request is in the hands of the listener (http.c:552-567, 631-648).       *)
THEOREM ExitIsClean == Spec => CleanExit
<1>1. IInv => (main = "join" /\ main' = "exit" =>
                 handing = Nobody /\ \A e \in Entries : con[e] = Nobody)
  BY DEF IInv, TakenDown, OneJobEach, ListenerOut, AllClosed
<1>. QED
  BY <1>1, Safety, PTL DEF CleanExit, Spec

-----------------------------------------------------------------------------
(* One connection                                                          *)

TaskPlaces == {"none", "queued", "parse", "finish", "next", "leave", "done", "fault"}

ConnectionTypeOK ==
  /\ window \in Windows /\ ends \in [Block -> BOOLEAN]
  /\ sent \in 0 .. Blocks /\ read \in 0 .. sent
  /\ lpc \in {"poll", "lock", "full", "spawn"} /\ running \in BOOLEAN /\ open \in BOOLEAN
  /\ RingType(requests, Block) /\ WellFormed(requests)
  /\ tpc \in [Block -> TaskPlaces] /\ data \in [Block -> Block \cup {NULL}]
  /\ \A t \in Block : tpc[t] # "none" => data[t] \in Block
  /\ answered \in Seq(Block)

(* The listener has a block in hand only while the connection is open.      *)
InHand == lpc # "poll" => open /\ read >= 1

(* The last block that went to the queue or to a new task, and the last one *)
(* that a task has taken.                                                   *)
Passed == IF lpc \in {"lock", "spawn"} THEN read - 1 ELSE read
Taken  == Passed - Count(requests)

(* The queue holds the blocks that come next.                               *)
InSequence == \A k \in 1 .. Count(requests) : Contents(requests)[k] = Taken + k

(* There is one task at most, and running says whether there is one.        *)
OneTask ==
  /\ \A t, u \in Live : t = u
  /\ running <=> Live # {}
  /\ lpc = "spawn" => ~running

(* What the task has put together since the last answer is no request yet,  *)
(* but for its last block; without a task nothing is left to do.            *)
TaskHolds ==
  /\ \A t \in Live :
       /\ data[t] = Taken
       /\ tpc[t] \in {"queued", "parse"} =>
            data[t] > Answered /\ \A b \in Block : Answered < b /\ b < data[t] => ~ends[b]
       /\ tpc[t] \in {"finish", "next"} => data[t] = Answered
  /\ Live = {} => Count(requests) = 0 /\ Taken = Answered

(* The queue never fills up, so that the listener does not wait for room.   *)
RoomLeft == sent - Answered <= window /\ lpc # "full"

(* What is answered are the requests up to the last answer, each once.      *)
AnsweredSorted == \A i, j \in DOMAIN answered : i < j => answered[i] < answered[j]
AnsweredAll ==
  \A b \in Block : (\E i \in DOMAIN answered : answered[i] = b) <=> ends[b] /\ b <= Answered

InStepWhileOpen == open => InSequence /\ OneTask /\ TaskHolds /\ RoomLeft

ConnectionIInv ==
  /\ ConnectionTypeOK /\ InHand
  /\ Fits => InStepWhileOpen /\ AnsweredSorted /\ AnsweredAll

(* Where the last answer is.                                                *)
LEMMA AnsweredFacts ==
  ASSUME answered \in Seq(Block)
  PROVE  /\ Answered \in 0 .. Blocks
         /\ answered # <<>> => Len(answered) \in DOMAIN answered /\ Answered = answered[Len(answered)]
BY ConnectionAssumption DEF Answered, Block

(* The queue of the connection, item by item: a block that is pushed comes  *)
(* last, and what is popped is the first one.                               *)
LEMMA QueueFacts ==
  ASSUME RingType(requests, Block), WellFormed(requests)
  PROVE  /\ Count(requests) \in 0 .. Size /\ Size \in Nat
         /\ PopBlocked(requests) <=> Count(requests) = 0
         /\ PushBlocked(requests) <=> Count(requests) = Size
         /\ Count(requests) < Size => (IsEmpty(requests) <=> Count(requests) = 0)
<1>1. /\ Count(requests) \in 0 .. Size /\ Size \in Nat
      /\ PopBlocked(requests) <=> Count(requests) = 0
      /\ PushBlocked(requests) <=> Count(requests) = Size
  BY CountProperties, RingAssumption
<1>2. IsEmpty(requests) <=> PopBlocked(requests) \/ PushBlocked(requests)
  BY DEF IsEmpty, PopBlocked, PushBlocked
<1>. QED
  BY <1>1, <1>2

(* What push() does to the blocks of a connection. *)
LEMMA PushFacts ==
  ASSUME RingType(requests, Block), WellFormed(requests), ~PushBlocked(requests),
         NEW d \in Block, requests' = AfterPush(requests, d)
  PROVE  /\ RingType(requests, Block)' /\ WellFormed(requests)'
         /\ Count(requests)' = Count(requests) + 1
         /\ \A k \in 1 .. Count(requests) : Contents(requests)'[k] = Contents(requests)[k]
         /\ Contents(requests)'[Count(requests) + 1] = d
<1>1. d # NULL
  BY ConnectionAssumption DEF Block
<1>2. /\ RingType(requests', Block) /\ WellFormed(requests')
      /\ Count(requests') = Count(requests) + 1
      /\ Contents(requests') = Append(Contents(requests), d)
  BY <1>1, PushAppends
<1>3. Contents(requests) \in Seq(Block) /\ Len(Contents(requests)) = Count(requests)
  BY ContentsType
<1>. QED
  BY <1>2, <1>3

(* What pop() does to the blocks of a connection. *)
LEMMA PopFacts ==
  ASSUME RingType(requests, Block), WellFormed(requests), ~PopBlocked(requests),
         requests' = AfterPop(requests)
  PROVE  /\ RingType(requests, Block)' /\ WellFormed(requests)'
         /\ Count(requests) > 0 /\ Count(requests)' = Count(requests) - 1
         /\ Front(requests) \in Block /\ Front(requests) = Contents(requests)[1]
         /\ \A k \in 1 .. Count(requests) - 1 :
              Contents(requests)'[k] = Contents(requests)[k + 1]
<1>1. /\ RingType(requests', Block) /\ WellFormed(requests')
      /\ Count(requests') = Count(requests) - 1
      /\ Contents(requests) # <<>>
      /\ Front(requests) = Head(Contents(requests))
      /\ Contents(requests') = Tail(Contents(requests))
  BY PopRemovesHead
<1>2. Contents(requests) \in Seq(Block) /\ Len(Contents(requests)) = Count(requests)
  BY ContentsType
<1>3. Count(requests) \in Nat \ {0}
  BY <1>1, <1>2
<1>4. Head(Contents(requests)) \in Block /\ Head(Contents(requests)) = Contents(requests)[1]
  BY <1>1, <1>2
<1>5. \A k \in 1 .. Count(requests) - 1 : Tail(Contents(requests))[k] = Contents(requests)[k + 1]
  BY <1>1, <1>2
<1>6. \A k \in 1 .. Count(requests) - 1 : Contents(requests')[k] = Contents(requests)[k + 1]
  BY <1>1, <1>5
<1>7. Front(requests) \in Block /\ Front(requests) = Contents(requests)[1]
  BY <1>1, <1>4
<1>8. Count(requests) > 0
  BY <1>3
<1>. QED
  BY <1>1, <1>6, <1>7, <1>8

-----------------------------------------------------------------------------
(* A new connection has no task and nothing to hand over.                   *)
LEMMA ConnectionInitIInv == ConnectionInit => ConnectionIInv
<1>. SUFFICES ASSUME ConnectionInit PROVE ConnectionIInv
  OBVIOUS
<1>1. RingType(requests, Block) /\ WellFormed(requests) /\ Count(requests) = 0
  BY NewRingWellFormed DEF ConnectionInit
<1>2. ConnectionTypeOK /\ InHand
  <2>1. sent = 0 /\ read = 0 /\ answered = <<>> /\ Blocks \in Nat
    BY ConnectionAssumption DEF ConnectionInit
  <2>2. /\ tpc \in [Block -> TaskPlaces] /\ data \in [Block -> Block \cup {NULL}]
        /\ \A t \in Block : tpc[t] = "none"
    BY DEF ConnectionInit, TaskPlaces
  <2>3. /\ window \in Windows /\ ends \in [Block -> BOOLEAN]
        /\ lpc = "poll" /\ running \in BOOLEAN /\ open \in BOOLEAN
    BY DEF ConnectionInit
  <2>4. sent \in 0 .. Blocks /\ read \in 0 .. sent /\ answered \in Seq(Block)
    BY <2>1
  <2>. QED
    BY <1>1, <2>2, <2>3, <2>4 DEF ConnectionTypeOK, InHand
<1>3. Live = {} /\ Answered = 0 /\ Taken = 0 /\ DOMAIN answered = {} /\ Passed = 0
  BY <1>1 DEF ConnectionInit, Live, Answered, Taken, Passed
<1>4. InSequence
  BY <1>1 DEF InSequence
<1>5. OneTask /\ TaskHolds
  BY <1>1, <1>3 DEF ConnectionInit, OneTask, TaskHolds
<1>6. RoomLeft
  BY <1>3, ConnectionAssumption DEF ConnectionInit, RoomLeft
<1>7. AnsweredSorted /\ AnsweredAll
  BY <1>3 DEF AnsweredSorted, AnsweredAll, Block
<1>. QED
  BY <1>2, <1>4, <1>5, <1>6, <1>7 DEF ConnectionIInv, InStepWhileOpen

(* What a step leaves alone of the tasks and of the answers stays true.     *)
LEMMA AnswersStay ==
  ASSUME UNCHANGED <<answered, ends>>
  PROVE  /\ Answered' = Answered
         /\ AnsweredSorted => AnsweredSorted'
         /\ AnsweredAll => AnsweredAll'
<1>1. Answered' = Answered
  BY DEF Answered
<1>. QED
  BY <1>1 DEF AnsweredSorted, AnsweredAll

(* A step that touches neither tasks nor blocks leaves each task its blocks. *)
LEMMA TasksStay ==
  ASSUME UNCHANGED <<tpc, data, answered, ends>>, Taken' = Taken,
         Count(requests) = 0 /\ Live = {} => Count(requests)' = 0
  PROVE  Live' = Live /\ (TaskHolds => TaskHolds')
<1>1. Live' = Live /\ Answered' = Answered
  BY DEF Live, Answered
<1>. QED
  BY <1>1 DEF TaskHolds

-----------------------------------------------------------------------------
(* The client sends while its window allows, and leaves when it likes.      *)
LEMMA ClientKeeps ==
  ASSUME ConnectionIInv, Client
  PROVE  ConnectionIInv'
<1>1. /\ UNCHANGED <<window, ends, read, lpc, lock, running, requests, open, tpc, data, answered>>
      /\ sent' = sent \/ (sent' = sent + 1 /\ sent < Blocks /\ sent - Answered < window)
  BY DEF Client, Send, Leave, taskVars
<1>2. ConnectionTypeOK' /\ InHand'
  BY <1>1, ConnectionAssumption DEF ConnectionIInv, ConnectionTypeOK, InHand, TaskPlaces
<1>3. Taken' = Taken /\ (InSequence => InSequence')
  BY <1>1 DEF Taken, Passed, InSequence
<1>4. Live' = Live /\ (TaskHolds => TaskHolds') /\ (OneTask => OneTask')
  BY <1>1, <1>3, TasksStay DEF OneTask
<1>5. ConnectionTypeOK => (RoomLeft => RoomLeft')
  BY <1>1, AnswersStay, AnsweredFacts, ConnectionAssumption DEF RoomLeft, ConnectionTypeOK
<1>6. Fits' = Fits /\ open' = open
  BY <1>1 DEF Fits
<1>. QED
  BY <1>1, <1>2, <1>3, <1>4, <1>5, <1>6, AnswersStay DEF ConnectionIInv, InStepWhileOpen

-----------------------------------------------------------------------------
(* The listener takes the next block in hand.                               *)
LEMMA ReadKeeps ==
  ASSUME ConnectionIInv, Read
  PROVE  ConnectionIInv'
<1>1. /\ UNCHANGED <<window, ends, sent, lock, running, requests, open, tpc, data, answered>>
      /\ lpc = "poll" /\ lpc' = "lock" /\ open /\ read < sent /\ read' = read + 1
  BY DEF Read, peerVars, taskVars
<1>2. ConnectionTypeOK' /\ InHand'
  BY <1>1, ConnectionAssumption DEF ConnectionIInv, ConnectionTypeOK, InHand, TaskPlaces
<1>3. Taken' = Taken
  BY <1>1 DEF Taken, Passed, ConnectionIInv, ConnectionTypeOK
<1>4. InSequence => InSequence'
  BY <1>1, <1>3 DEF InSequence
<1>5. Live' = Live /\ (TaskHolds => TaskHolds') /\ (OneTask => OneTask')
  BY <1>1, <1>3, TasksStay DEF OneTask
<1>6. RoomLeft => RoomLeft'
  BY <1>1, AnswersStay DEF RoomLeft
<1>7. Fits' = Fits /\ open' = open
  BY <1>1 DEF Fits
<1>. QED
  BY <1>1, <1>2, <1>4, <1>5, <1>6, <1>7, AnswersStay DEF ConnectionIInv, InStepWhileOpen

(* No task is behind the last answer, so that the queue holds only blocks   *)
(* that were sent and not answered: it is never full.                       *)
LEMMA NeverFull ==
  ASSUME ConnectionIInv, Fits, open
  PROVE  Taken \in Int /\ Taken >= Answered /\ Count(requests) < Size
<1>1. /\ ConnectionTypeOK /\ TaskHolds /\ RoomLeft
  BY DEF ConnectionIInv, InStepWhileOpen
<1>2. /\ Answered \in 0 .. Blocks /\ Count(requests) \in 0 .. Size /\ Size \in Nat
      /\ window \in Nat /\ sent \in Nat /\ read \in Nat /\ read <= sent
  BY <1>1, AnsweredFacts, QueueFacts, ConnectionAssumption DEF ConnectionTypeOK
<1>3. Passed \in Int /\ Passed <= read /\ Taken = Passed - Count(requests)
  BY <1>2 DEF Passed, Taken
<1>4. Taken >= Answered
  <2>1. CASE Live = {}
    BY <1>1, <1>2, <1>3, <2>1 DEF TaskHolds
  <2>2. ASSUME NEW t \in Live PROVE Taken >= Answered
    <3>1. tpc[t] \in {"queued", "parse", "finish", "next"}
      BY DEF Live
    <3>. QED
      BY <1>1, <1>2, <1>3, <3>1 DEF TaskHolds
  <2>. QED
    BY <2>1, <2>2
<1>. QED
  BY <1>1, <1>2, <1>3, <1>4 DEF RoomLeft, Fits

(* The listener hands the block over to the task that there is, or decides  *)
(* to start one.                                                            *)
LEMMA DispatchKeeps ==
  ASSUME ConnectionIInv, Dispatch \/ PushLater
  PROVE  ConnectionIInv'
<1>0. /\ UNCHANGED <<window, ends, sent, read, running, open, tpc, data, answered>>
      /\ lpc \in {"lock", "full"} /\ open
  BY DEF Dispatch, PushLater, peerVars, taskVars, ConnectionIInv, InHand
<1>1. ConnectionTypeOK /\ read \in Block
  BY <1>0, ConnectionAssumption DEF ConnectionIInv, ConnectionTypeOK, InHand, Block
<1>2. Fits' = Fits /\ open' = open /\ Answered' = Answered
  BY <1>0 DEF Fits, Answered
<1>3. ASSUME ~PushBlocked(requests), requests' = AfterPush(requests, read), lpc' = "poll",
             lpc = "lock" => running
      PROVE  ConnectionIInv'
  <2>1. /\ RingType(requests, Block)' /\ WellFormed(requests)'
        /\ Count(requests)' = Count(requests) + 1
        /\ \A k \in 1 .. Count(requests) : Contents(requests)'[k] = Contents(requests)[k]
        /\ Contents(requests)'[Count(requests) + 1] = read
    BY <1>1, <1>3, PushFacts DEF ConnectionTypeOK
  <2>2. ConnectionTypeOK' /\ InHand'
    BY <1>0, <1>1, <1>3, <2>1 DEF ConnectionTypeOK, InHand, TaskPlaces
  <2>3. ASSUME Fits PROVE InStepWhileOpen' /\ AnsweredSorted' /\ AnsweredAll'
    <3>1. /\ InSequence /\ OneTask /\ TaskHolds /\ RoomLeft
          /\ AnsweredSorted /\ AnsweredAll
      BY <1>0, <2>3 DEF ConnectionIInv, InStepWhileOpen
    <3>2. lpc = "lock" /\ running /\ Live # {}
      BY <1>0, <1>3, <3>1 DEF RoomLeft, OneTask
    <3>3. /\ Count(requests) \in Nat /\ read \in Int
          /\ Taken = read - 1 - Count(requests)
          /\ Taken' = read - Count(requests)'
      BY <1>0, <1>1, <1>3, <3>2, QueueFacts DEF Taken, Passed, ConnectionTypeOK
    <3>4. Taken' = Taken
      BY <2>1, <3>3
    <3>5. InSequence'
      BY <2>1, <3>1, <3>3, <3>4 DEF InSequence
    <3>6. Live' = Live /\ TaskHolds'
      BY <1>0, <3>1, <3>2, <3>4, TasksStay
    <3>7. OneTask' /\ RoomLeft'
      BY <1>0, <1>2, <1>3, <3>1, <3>6 DEF OneTask, RoomLeft
    <3>. QED
      BY <1>0, <3>1, <3>5, <3>6, <3>7, AnswersStay DEF InStepWhileOpen
  <2>. QED
    BY <1>2, <2>2, <2>3 DEF ConnectionIInv
<1>4. ASSUME lpc = "lock", running, PushBlocked(requests), UNCHANGED requests, lpc' = "full"
      PROVE  ConnectionIInv'
  <2>1. ConnectionTypeOK' /\ InHand'
    BY <1>0, <1>1, <1>4 DEF ConnectionTypeOK, InHand, TaskPlaces, Block
  <2>2. ~Fits
    BY <1>0, <1>1, <1>4, NeverFull, QueueFacts DEF ConnectionTypeOK
  <2>. QED
    BY <1>2, <2>1, <2>2 DEF ConnectionIInv
<1>5. ASSUME lpc = "lock", ~running, UNCHANGED requests, lpc' = "spawn"
      PROVE  ConnectionIInv'
  <2>1. ConnectionTypeOK' /\ InHand'
    BY <1>0, <1>1, <1>5 DEF ConnectionTypeOK, InHand, TaskPlaces, Block
  <2>2. Taken' = Taken /\ (InSequence => InSequence')
    BY <1>0, <1>5 DEF Taken, Passed, InSequence
  <2>3. Live' = Live /\ (TaskHolds => TaskHolds')
    BY <1>0, <1>5, <2>2, TasksStay
  <2>4. (OneTask => OneTask') /\ (RoomLeft => RoomLeft')
    BY <1>0, <1>2, <1>5, <2>3 DEF OneTask, RoomLeft
  <2>. QED
    BY <1>0, <1>2, <2>1, <2>2, <2>3, <2>4, AnswersStay DEF ConnectionIInv, InStepWhileOpen
<1>6. CASE Dispatch
  BY <1>3, <1>4, <1>5, <1>6 DEF Dispatch, Served
<1>7. CASE PushLater
  BY <1>3, <1>7 DEF PushLater
<1>. QED
  BY <1>6, <1>7

(* The new task holds the only block that is not answered.                  *)
LEMMA SpawnKeeps ==
  ASSUME ConnectionIInv, Spawn
  PROVE  ConnectionIInv'
<1>1. /\ UNCHANGED <<window, ends, sent, read, requests, open, answered>>
      /\ lpc = "spawn" /\ lpc' = "poll" /\ running' = TRUE
      /\ tpc' = [tpc EXCEPT ![read] = "queued"] /\ data' = [data EXCEPT ![read] = read]
  BY DEF Spawn, TaskAt, peerVars
<1>2. ConnectionTypeOK /\ open /\ read \in Block
  BY <1>1, ConnectionAssumption DEF ConnectionIInv, ConnectionTypeOK, InHand, Block
<1>3. /\ tpc'[read] = "queued" /\ data'[read] = read
      /\ \A t \in Block : t # read => tpc'[t] = tpc[t]
  BY <1>1, <1>2 DEF ConnectionTypeOK
<1>4. ConnectionTypeOK' /\ InHand'
  BY <1>1, <1>2 DEF ConnectionTypeOK, InHand, TaskPlaces
<1>5. Fits' = Fits /\ open' = open /\ Answered' = Answered
  BY <1>1 DEF Fits, Answered
<1>6. ASSUME Fits PROVE InStepWhileOpen' /\ AnsweredSorted' /\ AnsweredAll'
  <2>1. /\ InSequence /\ OneTask /\ TaskHolds /\ RoomLeft
        /\ AnsweredSorted /\ AnsweredAll
    BY <1>2, <1>6 DEF ConnectionIInv, InStepWhileOpen
  <2>2. Live = {} /\ Count(requests) = 0 /\ Taken = Answered
    BY <1>1, <2>1 DEF OneTask, TaskHolds
  <2>3. Live' = {read}
    BY <1>3, <1>2, <2>2 DEF Live
  <2>4. /\ read \in Int /\ Answered \in Int /\ Answered = read - 1
        /\ Count(requests)' = 0 /\ Taken' = read
    BY <1>1, <1>2, <2>2, AnsweredFacts, ConnectionAssumption DEF Taken, Passed, Block, ConnectionTypeOK
  <2>5. InSequence'
    BY <2>4 DEF InSequence
  <2>6. OneTask'
    BY <1>1, <2>3 DEF OneTask
  <2>7. \A b \in Block : ~(Answered < b /\ b < read)
    BY <2>4, ConnectionAssumption DEF Block
  <2>8. TaskHolds'
    BY <1>3, <1>5, <2>3, <2>4, <2>7 DEF TaskHolds
  <2>9. RoomLeft'
    BY <1>1, <1>5, <2>1 DEF RoomLeft
  <2>. QED
    BY <1>1, <2>1, <2>5, <2>6, <2>8, <2>9, AnswersStay DEF InStepWhileOpen
<1>. QED
  BY <1>4, <1>5, <1>6 DEF ConnectionIInv

(* A closed connection takes no blocks and gives no answers.                *)
LEMMA CloseConnectionKeeps ==
  ASSUME ConnectionIInv, ReadFails \/ CloseAbruptly
  PROVE  ConnectionIInv'
<1>1. /\ UNCHANGED <<window, ends, sent, read, lpc, running, tpc, data, answered>>
      /\ lpc = "poll" /\ open' = FALSE /\ requests' = NewRing
  BY DEF ReadFails, CloseAbruptly, CloseConnection, peerVars, taskVars
<1>2. RingType(requests, Block)' /\ WellFormed(requests)'
  BY <1>1, NewRingWellFormed
<1>3. ConnectionTypeOK' /\ InHand'
  BY <1>1, <1>2 DEF ConnectionIInv, ConnectionTypeOK, InHand, TaskPlaces
<1>. QED
  BY <1>1, <1>3, AnswersStay DEF ConnectionIInv, InStepWhileOpen, Fits

-----------------------------------------------------------------------------
(* A task that goes on without a block or an answer still is the one task.  *)
LEMMA TaskMovesKeep ==
  ASSUME ConnectionIInv, NEW t \in Block, NEW to \in TaskPlaces \ {"none"},
         tpc' = [tpc EXCEPT ![t] = to], tpc[t] # "none",
         UNCHANGED <<window, ends, sent, read, lpc, running, requests, open, data, answered>>,
         open => <<tpc[t], to>> \in {<<"queued", "parse">>, <<"finish", "next">>, <<"leave", "done">>}
  PROVE  ConnectionIInv'
<1>1. ConnectionTypeOK' /\ InHand'
  BY DEF ConnectionIInv, ConnectionTypeOK, InHand
<1>2. tpc'[t] = to /\ \A u \in Block : u # t => tpc'[u] = tpc[u]
  BY DEF ConnectionIInv, ConnectionTypeOK
<1>3. Taken' = Taken /\ (InSequence => InSequence') /\ Answered' = Answered
  BY DEF Taken, Passed, InSequence, Answered
<1>4. ASSUME Fits, open PROVE InStepWhileOpen'
  <2>1. InSequence /\ OneTask /\ TaskHolds /\ RoomLeft
    BY <1>4 DEF ConnectionIInv, InStepWhileOpen
  <2>2. Live' = Live
    BY <1>2, <1>4 DEF Live
  <2>3. OneTask' /\ RoomLeft'
    BY <1>3, <2>1, <2>2 DEF OneTask, RoomLeft
  <2>4. TaskHolds'
    BY <1>2, <1>3, <1>4, <2>1, <2>2 DEF TaskHolds
  <2>. QED
    BY <1>3, <2>1, <2>3, <2>4 DEF InStepWhileOpen
<1>. QED
  BY <1>1, <1>4, AnswersStay DEF ConnectionIInv, InStepWhileOpen, Fits

(* The task takes the next block: the one before it was no last one, or is  *)
(* answered.                                                                *)
LEMMA PopKeeps ==
  ASSUME ConnectionIInv, NEW t \in Block, open, ~PopBlocked(requests),
         tpc[t] = "next" \/ (tpc[t] = "parse" /\ ~ends[data[t]]),
         tpc' = [tpc EXCEPT ![t] = "parse"], data' = [data EXCEPT ![t] = Front(requests)],
         requests' = AfterPop(requests),
         UNCHANGED <<window, ends, sent, read, lpc, running, open, answered>>
  PROVE  ConnectionIInv'
<1>1. ConnectionTypeOK
  BY DEF ConnectionIInv
<1>2. /\ RingType(requests, Block)' /\ WellFormed(requests)'
      /\ Count(requests) > 0 /\ Count(requests)' = Count(requests) - 1
      /\ Front(requests) \in Block /\ Front(requests) = Contents(requests)[1]
      /\ \A k \in 1 .. Count(requests) - 1 :
           Contents(requests)'[k] = Contents(requests)[k + 1]
  BY <1>1, PopFacts DEF ConnectionTypeOK
<1>3. /\ tpc'[t] = "parse" /\ data'[t] = Front(requests)
      /\ \A u \in Block : u # t => tpc'[u] = tpc[u] /\ data'[u] = data[u]
  BY <1>1 DEF ConnectionTypeOK
<1>4. ConnectionTypeOK' /\ InHand'
  BY <1>1, <1>2 DEF ConnectionIInv, ConnectionTypeOK, InHand, TaskPlaces
<1>5. Fits' = Fits /\ Answered' = Answered
  BY DEF Fits, Answered
<1>6. ASSUME Fits PROVE InStepWhileOpen'
  <2>1. InSequence /\ OneTask /\ TaskHolds /\ RoomLeft
    BY <1>6 DEF ConnectionIInv, InStepWhileOpen
  <2>2. /\ Count(requests) \in Nat /\ Taken \in Int /\ Passed' = Passed
        /\ Answered \in Nat /\ Taken >= Answered
    BY <1>1, <1>6, QueueFacts, NeverFull, AnsweredFacts DEF ConnectionTypeOK, Passed
  <2>3. Passed \in Int
    BY <1>1, ConnectionAssumption DEF ConnectionTypeOK, Passed
  <2>4. Taken' = Taken + 1
    BY <1>2, <2>2, <2>3 DEF Taken
  <2>5. InSequence'
    <3>. SUFFICES ASSUME NEW k \in 1 .. Count(requests) - 1
                  PROVE  Contents(requests)'[k] = Taken' + k
      BY <1>2 DEF InSequence
    <3>1. k + 1 \in 1 .. Count(requests) /\ k \in Int
      BY <2>2
    <3>2. Contents(requests)[k + 1] = Taken + (k + 1)
      BY <2>1, <3>1 DEF InSequence
    <3>. QED
      BY <1>2, <2>2, <2>4, <3>1, <3>2
  <2>6. Front(requests) = Taken + 1
    BY <1>2, <2>1, <2>2 DEF InSequence
  <2>7. t \in Live /\ Live' = Live
    BY <1>3 DEF Live
  <2>8. \A u \in Live : u = t
    BY <2>1, <2>7 DEF OneTask
  <2>9. data[t] = Taken /\ (tpc[t] = "next" => data[t] = Answered)
    BY <2>1, <2>7 DEF TaskHolds
  <2>10. \A b \in Block : Answered < b /\ b < Taken + 1 => ~ends[b]
    <3>. SUFFICES ASSUME NEW b \in Block, Answered < b, b < Taken + 1 PROVE ~ends[b]
      OBVIOUS
    <3>1. b \in Int
      BY ConnectionAssumption DEF Block
    <3>2. tpc[t] = "parse" /\ ~ends[data[t]]
      BY <2>2, <2>9, <3>1
    <3>3. b = Taken \/ b < Taken
      BY <2>2, <3>1
    <3>. QED
      BY <2>1, <2>7, <2>9, <3>2, <3>3 DEF TaskHolds
  <2>11. TaskHolds'
    <3>1. \A u \in Live' : data'[u] = Taken' /\ tpc'[u] = "parse"
      BY <1>3, <2>4, <2>6, <2>7, <2>8
    <3>2. Taken' > Answered'
      BY <1>5, <2>2, <2>4
    <3>3. \A b \in Block : Answered' < b /\ b < Taken' => ~ends'[b]
      BY <1>5, <2>4, <2>10
    <3>. QED
      BY <2>7, <3>1, <3>2, <3>3 DEF TaskHolds
  <2>12. OneTask' /\ RoomLeft'
    BY <1>5, <2>1, <2>7 DEF OneTask, RoomLeft
  <2>. QED
    BY <2>5, <2>11, <2>12 DEF InStepWhileOpen
<1>. QED
  BY <1>4, <1>5, <1>6, AnswersStay DEF ConnectionIInv

(* The request that is answered is the next one: what is between the last   *)
(* answer and its last block ends no request.                               *)
LEMMA AnswerKeeps ==
  ASSUME ConnectionIInv, NEW t \in Block, open, tpc[t] = "parse", ends[data[t]],
         answered' = Append(answered, data[t]), tpc' = [tpc EXCEPT ![t] = "finish"],
         UNCHANGED <<window, ends, sent, read, lpc, running, requests, open, data>>
  PROVE  ConnectionIInv'
<1>1. ConnectionTypeOK /\ data[t] \in Block
  BY DEF ConnectionIInv, ConnectionTypeOK
<1>2. tpc'[t] = "finish" /\ \A u \in Block : u # t => tpc'[u] = tpc[u]
  BY <1>1 DEF ConnectionTypeOK
<1>3. /\ answered' \in Seq(Block) /\ Len(answered') = Len(answered) + 1 /\ Len(answered) \in Nat
      /\ DOMAIN answered = 1 .. Len(answered) /\ DOMAIN answered' = 1 .. Len(answered')
      /\ answered'[Len(answered) + 1] = data[t]
      /\ \A i \in DOMAIN answered : answered'[i] = answered[i] /\ answered[i] \in Block
  BY <1>1 DEF ConnectionTypeOK
<1>4. ConnectionTypeOK' /\ InHand'
  BY <1>1, <1>3 DEF ConnectionIInv, ConnectionTypeOK, InHand, TaskPlaces
<1>5. Fits' = Fits /\ Answered' = data[t] /\ Taken' = Taken
  <2>1. answered' # <<>>
    BY <1>3
  <2>2. Answered' = data[t]
    BY <1>3, <2>1 DEF Answered
  <2>. QED
    BY <2>2 DEF Fits, Taken, Passed
<1>6. ASSUME Fits PROVE InStepWhileOpen' /\ AnsweredSorted' /\ AnsweredAll'
  <2>1. /\ InSequence /\ OneTask /\ TaskHolds /\ RoomLeft
        /\ AnsweredSorted /\ AnsweredAll
    BY <1>6 DEF ConnectionIInv, InStepWhileOpen
  <2>2. t \in Live /\ Live' = Live
    BY <1>2 DEF Live
  <2>3. \A u \in Live : u = t
    BY <2>1, <2>2 DEF OneTask
  <2>4. /\ data[t] = Taken /\ data[t] > Answered
        /\ \A b \in Block : Answered < b /\ b < data[t] => ~ends[b]
    BY <2>1, <2>2 DEF TaskHolds
  <2>5. /\ Answered \in Int /\ data[t] \in Int /\ sent \in Int /\ window \in Int
        /\ \A b \in Block : b \in Int
    BY <1>1, AnsweredFacts, ConnectionAssumption DEF ConnectionTypeOK, Block
  <2>6. InSequence'
    BY <1>5, <2>1 DEF InSequence
  <2>7. OneTask' /\ RoomLeft'
    BY <1>5, <2>1, <2>2, <2>4, <2>5 DEF OneTask, RoomLeft
  <2>8. TaskHolds'
    BY <1>2, <1>5, <2>2, <2>3, <2>4 DEF TaskHolds
  <2>9. \A i \in DOMAIN answered : answered[i] < data[t]
    <3>. SUFFICES ASSUME NEW i \in DOMAIN answered PROVE answered[i] < data[t]
      OBVIOUS
    <3>1. answered[i] \in Block
      BY <1>3
    <3>2. answered[i] <= Answered
      BY <2>1, <3>1 DEF AnsweredAll
    <3>. QED
      BY <2>4, <2>5, <3>1, <3>2
  <2>10. \A i \in DOMAIN answered' : i \in DOMAIN answered \/ i = Len(answered) + 1
    BY <1>3
  <2>11. AnsweredSorted'
    <3>. SUFFICES ASSUME NEW i \in DOMAIN answered', NEW j \in DOMAIN answered', i < j
                  PROVE  answered'[i] < answered'[j]
      BY DEF AnsweredSorted
    <3>1. i \in DOMAIN answered
      BY <1>3, <2>10
    <3>. QED
      BY <1>3, <2>1, <2>9, <2>10, <3>1 DEF AnsweredSorted
  <2>12. AnsweredAll'
    <3>. SUFFICES ASSUME NEW b \in Block
                  PROVE  (\E i \in DOMAIN answered' : answered'[i] = b) <=> ends[b] /\ b <= data[t]
      BY <1>5 DEF AnsweredAll
    <3>1. (\E i \in DOMAIN answered' : answered'[i] = b)
            <=> (\E i \in DOMAIN answered : answered[i] = b) \/ b = data[t]
      BY <1>3, <2>10
    <3>2. ends[b] /\ b <= data[t] <=> (ends[b] /\ b <= Answered) \/ b = data[t]
      BY <2>4, <2>5
    <3>. QED
      BY <2>1, <3>1, <3>2 DEF AnsweredAll
  <2>. QED
    BY <2>6, <2>7, <2>8, <2>11, <2>12 DEF InStepWhileOpen
<1>. QED
  BY <1>4, <1>5, <1>6 DEF ConnectionIInv

(* A task that finds the queue empty, which is not full, has answered all.  *)
LEMMA FinishKeeps ==
  ASSUME ConnectionIInv, NEW t \in Block, open, tpc[t] = "finish", IsEmpty(requests),
         running' = FALSE, tpc' = [tpc EXCEPT ![t] = "leave"],
         UNCHANGED <<window, ends, sent, read, lpc, requests, open, data, answered>>
  PROVE  ConnectionIInv'
<1>1. ConnectionTypeOK
  BY DEF ConnectionIInv
<1>2. tpc'[t] = "leave" /\ \A u \in Block : u # t => tpc'[u] = tpc[u]
  BY <1>1 DEF ConnectionTypeOK
<1>3. ConnectionTypeOK' /\ InHand'
  BY <1>1 DEF ConnectionIInv, ConnectionTypeOK, InHand, TaskPlaces
<1>4. Fits' = Fits /\ Answered' = Answered /\ Taken' = Taken /\ (InSequence => InSequence')
  BY DEF Fits, Answered, Taken, Passed, InSequence
<1>5. ASSUME Fits PROVE InStepWhileOpen'
  <2>1. InSequence /\ OneTask /\ TaskHolds /\ RoomLeft
    BY <1>5 DEF ConnectionIInv, InStepWhileOpen
  <2>2. t \in Live /\ \A u \in Live : u = t
    BY <2>1 DEF Live, OneTask
  <2>3. Live' = {}
    BY <1>2, <2>2 DEF Live
  <2>4. Count(requests) = 0
    BY <1>1, <1>5, NeverFull, QueueFacts DEF ConnectionTypeOK
  <2>5. Taken = Answered
    BY <2>1, <2>2 DEF TaskHolds
  <2>6. TaskHolds'
    BY <1>4, <2>3, <2>4, <2>5 DEF TaskHolds
  <2>7. OneTask' /\ RoomLeft'
    BY <1>4, <2>1, <2>3 DEF OneTask, RoomLeft
  <2>. QED
    BY <1>4, <2>1, <2>6, <2>7 DEF InStepWhileOpen
<1>. QED
  BY <1>3, <1>4, <1>5, AnswersStay DEF ConnectionIInv

(* Every step of a task keeps the invariant.                                *)
LEMMA ConnectionTaskKeeps ==
  ASSUME ConnectionIInv, NEW t \in Block, Task(t)
  PROVE  ConnectionIInv'
<1>. USE DEF TaskAt, TaskPlaces, peerVars
<1>0. tpc \in [Block -> TaskPlaces]
  BY DEF ConnectionIInv, ConnectionTypeOK
<1>1. CASE Start(t)
  BY <1>1, TaskMovesKeep DEF Start
<1>2. CASE Parse(t)
  <2>1. tpc[t] = "parse" /\ UNCHANGED <<window, ends, sent, read, lpc, running, open>>
    BY <1>2 DEF Parse
  <2>2. CASE open /\ ~ends[data[t]] /\ ~PopBlocked(requests)
             /\ data' = [data EXCEPT ![t] = Front(requests)]
             /\ requests' = AfterPop(requests) /\ UNCHANGED <<tpc, answered>>
    <3>1. tpc' = [tpc EXCEPT ![t] = "parse"]
      BY <1>0, <2>1, <2>2
    <3>. QED
      BY <2>1, <2>2, <3>1, PopKeeps
  <2>3. CASE open /\ ends[data[t]] /\ answered' = Append(answered, data[t])
             /\ TaskAt(t, "finish") /\ UNCHANGED <<data, requests>>
    BY <2>1, <2>3, AnswerKeeps
  <2>4. CASE ~open /\ TaskAt(t, "fault") /\ UNCHANGED <<data, requests, answered>>
    BY <2>1, <2>4, TaskMovesKeep
  <2>. QED
    BY <1>2, <2>2, <2>3, <2>4 DEF Parse
<1>3. CASE Finish(t)
  <2>1. tpc[t] = "finish" /\ UNCHANGED <<window, ends, sent, read, lpc, requests, open, data, answered>>
    BY <1>3 DEF Finish
  <2>2. CASE open /\ NoPending /\ running' = FALSE /\ TaskAt(t, "leave")
    BY <2>1, <2>2, FinishKeeps DEF NoPending
  <2>3. CASE open /\ TaskAt(t, "next") /\ UNCHANGED running
    BY <2>1, <2>3, TaskMovesKeep
  <2>4. CASE ~open /\ TaskAt(t, "fault") /\ UNCHANGED running
    BY <2>1, <2>4, TaskMovesKeep
  <2>. QED
    BY <1>3, <2>2, <2>3, <2>4 DEF Finish
<1>4. CASE Unlock(t)
  BY <1>4, TaskMovesKeep DEF Unlock
<1>5. CASE NextBlock(t)
  <2>1. tpc[t] = "next" /\ UNCHANGED <<window, ends, sent, read, lpc, running, open, answered>>
    BY <1>5 DEF NextBlock
  <2>2. CASE open /\ ~PopBlocked(requests) /\ data' = [data EXCEPT ![t] = Front(requests)]
             /\ requests' = AfterPop(requests) /\ TaskAt(t, "parse")
    BY <2>1, <2>2, PopKeeps
  <2>3. CASE ~open /\ TaskAt(t, "fault") /\ UNCHANGED <<data, requests>>
    BY <2>1, <2>3, TaskMovesKeep
  <2>. QED
    BY <1>5, <2>2, <2>3 DEF NextBlock
<1>. QED
  BY <1>1, <1>2, <1>3, <1>4, <1>5 DEF Task

-----------------------------------------------------------------------------
(* Every step of a connection keeps the invariant.                          *)
LEMMA ConnectionNextIInv == ConnectionIInv /\ [ConnectionNext]_connectionVars => ConnectionIInv'
<1>. SUFFICES ASSUME ConnectionIInv, [ConnectionNext]_connectionVars PROVE ConnectionIInv'
  OBVIOUS
<1>1. CASE Client \/ Listen
  BY <1>1, ClientKeeps, ReadKeeps, DispatchKeeps, SpawnKeeps, CloseConnectionKeeps DEF Listen
<1>2. ASSUME NEW t \in Block, Task(t) PROVE ConnectionIInv'
  BY <1>2, ConnectionTaskKeeps
<1>3. CASE UNCHANGED connectionVars
  <2>1. UNCHANGED <<window, ends, sent, gone, read, lpc, lock, running, requests, open, tpc, data, answered>>
    BY <1>3 DEF connectionVars
  <2>2. UNCHANGED <<ConnectionTypeOK, InHand, Fits, open>>
    BY <2>1 DEF ConnectionTypeOK, InHand, Fits
  <2>3. UNCHANGED <<InSequence, OneTask, TaskHolds, RoomLeft, AnsweredSorted, AnsweredAll>>
    BY <2>1 DEF InSequence, OneTask, TaskHolds, RoomLeft, AnsweredSorted, AnsweredAll, Live, Taken,
                Passed, Answered
  <2>. QED
    BY <2>2, <2>3 DEF ConnectionIInv, InStepWhileOpen
<1>. QED
  BY <1>1, <1>2, <1>3 DEF ConnectionNext

(* The hand-over between listener and task keeps its invariant. *)
LEMMA ConnectionSafety == ConnectionSpec => []ConnectionIInv
BY ConnectionInitIInv, ConnectionNextIInv, PTL DEF ConnectionSpec

(* As long as the client never has as many blocks on the way as the queue   *)
(* has slots, every request of a connection is answered in the order it     *)
(* arrived, once, however the blocks are cut and whenever tasks end and are *)
(* started (http.c:473-482, 416-431).                                       *)
THEOREM AnsweredInOrder == ConnectionSpec => []InOrder
<1>1. ConnectionIInv => InOrder
  <2>. SUFFICES ASSUME ConnectionIInv, Fits, NEW k \in DOMAIN answered
                PROVE  /\ ends[answered[k]]
                       /\ \A b \in Block : ends[b] =>
                            (b < answered[k] <=> \E i \in 1 .. k - 1 : answered[i] = b)
    BY DEF InOrder
  <2>1. /\ answered \in Seq(Block) /\ AnsweredSorted /\ AnsweredAll
        /\ DOMAIN answered = 1 .. Len(answered) /\ Len(answered) \in Nat
        /\ \A i \in DOMAIN answered : answered[i] \in Block
        /\ \A b \in Block : b \in Int
    BY ConnectionAssumption DEF ConnectionIInv, ConnectionTypeOK, Block
  <2>2. ends[answered[k]] /\ answered[k] <= Answered
    BY <2>1 DEF AnsweredAll
  <2>3. ASSUME NEW b \in Block, ends[b], b < answered[k]
        PROVE  \E i \in 1 .. k - 1 : answered[i] = b
    <3>1. Answered \in Int
      BY <2>1, AnsweredFacts, ConnectionAssumption
    <3>2. b <= Answered
      BY <2>1, <2>2, <2>3, <3>1
    <3>3. PICK i \in DOMAIN answered : answered[i] = b
      BY <2>1, <2>3, <3>2 DEF AnsweredAll
    <3>4. ~(k < i) /\ k # i
      BY <2>1, <2>3, <3>3 DEF AnsweredSorted
    <3>. QED
      BY <2>1, <3>3, <3>4
  <2>4. \A i \in 1 .. k - 1 : answered[i] < answered[k]
    BY <2>1 DEF AnsweredSorted
  <2>. QED
    BY <2>2, <2>3, <2>4
<1>. QED
  BY <1>1, ConnectionSafety, PTL

(* When the listener closes a connection that its client has left, every    *)
(* block it read was part of a request that was answered (http.c:488-496).  *)
THEOREM LeavingLosesNothing == ConnectionSpec => NothingLostOnLeave
<1>1. ConnectionIInv => (Fits /\ ReadFails => Count(requests) = 0 /\ Live = {} /\ Answered = read)
  BY DEF ConnectionIInv, InStepWhileOpen, OneTask, TaskHolds, ReadFails, Closable, Taken, Passed,
         ConnectionTypeOK
<1>. QED
  BY <1>1, ConnectionSafety, PTL DEF NothingLostOnLeave, ConnectionSpec

=============================================================================
