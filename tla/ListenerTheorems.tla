--------------------------- MODULE ListenerTheorems ---------------------------
(***************************************************************************)
(* Proofs about two parts of server/http.c, Listener and Router.           *)
(*                                                                         *)
(* Listener, for a table of any size and any timeout: pfds[] and           *)
(* connections[] agree, every open connection is polled, and               *)
(* http_server_stop leaves none open.  The argument: a connection is       *)
(* closed only while the listener looks at it, so that an event it has     *)
(* still to look at is one of a connection that is open; and accept()      *)
(* fills holes below nfds before it adds to the end, so that the end never *)
(* runs ahead.                                                             *)
(*                                                                         *)
(* Router, for all paths and urls and any number of registrations: a route *)
(* is found again, a handler runs for the urls it was registered for, and  *)
(* the longest path answers.  The argument: the walk along a url in a tree *)
(* that grew takes the steps it took before, or leaves them only where it  *)
(* stopped; and every node stands for a list of names, of which the walk   *)
(* reads as many as it has gone down.                                      *)
(***************************************************************************)
EXTENDS Listener, Router, WellFoundedInduction, SequenceTheorems, TLAPS

Connection == [fd : Fds \cup {NoFd}, timeout : Int, ssl : BOOLEAN]

TypeOK ==
  /\ pfd \in [Entries -> Fds \cup {NoFd}]
  /\ con \in [Entries -> Connection]
  /\ running \in [Entries -> BOOLEAN]
  /\ nfds \in 1..MaxConnections
  /\ revents \in [Entries -> {"none", "in", "hup"}]
  /\ lpc \in {"poll", "scan", "more", "done"}
  /\ pos \in Nat \ {0}
  /\ active \in BOOLEAN /\ silent \in BOOLEAN
  /\ main \in {"serving", "stopping", "stopped"}
  /\ live \subseteq Fds

(* What the listener has still to look at is open, and what it reads is an  *)
(* entry that it polled.                                                    *)
EventsOfOpen ==
  /\ lpc \in {"scan", "more"} =>
       \A i \in Entries : i >= pos /\ revents[i] # "none" => pfd[i] # NoFd
  /\ lpc = "more" => pos < nfds /\ revents[pos] = "in"

(* http_server_stop goes on only when the listener has seen the flag.       *)
StopInOrder ==
  /\ active <=> main = "serving"
  /\ lpc = "done" => ~active
  /\ main = "stopped" => lpc = "done"

IInv == /\ TypeOK /\ EventsOfOpen /\ StopInOrder
        /\ TablesAgree /\ EveryConnectionPolled /\ StopClosesAll

-----------------------------------------------------------------------------
(* http_server_start: nothing is open. *)
LEMMA InitIInv == Init => IInv
<1>. SUFFICES ASSUME Init PROVE IInv
  OBVIOUS
<1>1. 1 \in 1..MaxConnections
  BY ListenerAssumption
<1>2. TypeOK
  <2>1. ClosedCon \in Connection
    BY DEF ClosedCon, Connection
  <2>2. con \in [Entries -> Connection]
    BY <2>1 DEF Init
  <2>3. /\ pfd \in [Entries -> Fds \cup {NoFd}] /\ running \in [Entries -> BOOLEAN]
        /\ revents \in [Entries -> {"none", "in", "hup"}]
    BY DEF Init
  <2>4. nfds \in 1..MaxConnections /\ pos \in Nat \ {0} /\ live \subseteq Fds
    BY <1>1 DEF Init
  <2>5. /\ lpc \in {"poll", "scan", "more", "done"}
        /\ active \in BOOLEAN /\ silent \in BOOLEAN
        /\ main \in {"serving", "stopping", "stopped"}
    BY DEF Init
  <2>. QED
    BY <2>2, <2>3, <2>4, <2>5 DEF TypeOK
<1>3. EventsOfOpen /\ StopInOrder /\ StopClosesAll
  BY DEF Init, EventsOfOpen, StopInOrder, StopClosesAll
<1>4. TablesAgree /\ EveryConnectionPolled
  BY DEF Init, TablesAgree, EveryConnectionPolled, ClosedCon
<1>. QED
  BY <1>2, <1>3, <1>4 DEF IInv

(* Closing any set of polled connections, in a table c that is the old one  *)
(* but for its timeouts, keeps the two tables in agreement, and nfds shrinks *)
(* only past an entry that was closed.                                      *)
LEMMA ClosingAgrees ==
  ASSUME IInv, main # "stopped", UNCHANGED main,
         NEW S \in SUBSET Polled, NEW c \in [Entries -> Connection],
         \A i \in Entries \ S :
           /\ c[i].fd = con[i].fd /\ c[i].ssl = con[i].ssl
           /\ con[i] = ClosedCon => c[i] = ClosedCon
           /\ pfd[i] # NoFd => c[i].timeout >= 1,
         CloseConnections(S, c)
  PROVE  /\ pfd' \in [Entries -> Fds \cup {NoFd}] /\ con' \in [Entries -> Connection]
         /\ nfds' \in 1..MaxConnections /\ live' \subseteq Fds
         /\ \A i \in Entries \ S : pfd'[i] = pfd[i]
         /\ TablesAgree' /\ EveryConnectionPolled' /\ StopClosesAll'
<1>. USE DEF IInv
<1>1. /\ con' = [i \in Entries |-> IF i \in S THEN ClosedCon ELSE c[i]]
      /\ pfd' = [i \in Entries |-> IF i \in S THEN NoFd ELSE pfd[i]]
      /\ live' = live \ {con[i].fd : i \in S}
      /\ nfds' = IF nfds - 1 \in S THEN nfds - 1 ELSE nfds
  BY DEF CloseConnections, ClearFd, Shrunk
<1>2. S \subseteq Entries /\ \A i \in S : i < nfds
  BY ListenerAssumption DEF TypeOK, Polled, Entries
<1>3. nfds' \in 1..MaxConnections
  BY <1>1, <1>2, ListenerAssumption DEF TypeOK, Entries
<1>4. /\ pfd' \in [Entries -> Fds \cup {NoFd}] /\ con' \in [Entries -> Connection]
      /\ live' \subseteq Fds
  BY <1>1 DEF TypeOK, Connection, ClosedCon
<1>5. TablesAgree'
  <2>. SUFFICES ASSUME NEW i \in Entries
                PROVE  /\ con'[i].fd = pfd'[i]
                       /\ pfd'[i] # NoFd => con'[i].ssl /\ con'[i].timeout >= 1 /\ pfd'[i] \in live'
                       /\ pfd'[i] = NoFd => con'[i] = ClosedCon
                       /\ \A j \in Entries \ {i} : pfd'[i] # NoFd => pfd'[i] # pfd'[j]
    BY DEF TablesAgree
  <2>1. CASE i \in S
    BY <1>1, <2>1 DEF ClosedCon
  <2>2. CASE i \notin S
    <3>1. con'[i] = c[i] /\ pfd'[i] = pfd[i]
      BY <1>1, <2>2
    <3>2. \A j \in S : con[j].fd = pfd[j] /\ (pfd[i] # NoFd => pfd[i] # pfd[j])
      BY <1>2, <2>2 DEF TablesAgree
    <3>3. pfd[i] # NoFd => pfd[i] \in live'
      BY <1>1, <3>2 DEF TablesAgree
    <3>4. pfd[i] # NoFd => c[i].ssl /\ c[i].timeout >= 1
      BY <2>2 DEF TablesAgree
    <3>5. c[i].fd = pfd[i] /\ (pfd[i] = NoFd => c[i] = ClosedCon)
      BY <2>2 DEF TablesAgree
    <3>6. \A j \in Entries \ {i} : pfd[i] # NoFd => pfd[i] # pfd'[j]
      BY <1>1 DEF TablesAgree
    <3>. QED
      BY <3>1, <3>3, <3>4, <3>5, <3>6
  <2>. QED
    BY <2>1, <2>2
<1>6. EveryConnectionPolled'
  <2>. SUFFICES ASSUME NEW i \in Entries, con'[i].ssl PROVE i < nfds'
    BY DEF EveryConnectionPolled
  <2>1. i \notin S /\ con[i].ssl
    BY <1>1 DEF ClosedCon
  <2>2. i < nfds
    BY <2>1 DEF EveryConnectionPolled
  <2>. QED
    BY <1>1, <2>1, <2>2 DEF TypeOK, Entries
<1>. QED
  BY <1>1, <1>3, <1>4, <1>5, <1>6 DEF StopClosesAll

-----------------------------------------------------------------------------
(* poll() *)

(* A poll() that times out brings every open connection nearer to its end   *)
(* and closes those that have reached it: the others have polls left.       *)
LEMMA PollTimeoutKeeps == ASSUME IInv, PollTimeout PROVE IInv'
<1>. USE DEF IInv
<1>. DEFINE c == [i \in Entries |-> IF i \in Polled /\ con[i].timeout # -1
                                   THEN [con[i] EXCEPT !.timeout = @ - 1] ELSE con[i]]
<1>1. /\ lpc = "poll" /\ active /\ CloseConnections(Due, c)
      /\ UNCHANGED <<running, revents, lpc, pos, active, main, silent>>
  BY DEF PollTimeout
<1>2. main # "stopped"
  BY <1>1 DEF StopInOrder
<1>3. Due \in SUBSET Polled
  BY DEF Due
<1>4. c \in [Entries -> Connection]
  BY DEF TypeOK, Connection
<1>5. ASSUME NEW i \in Entries \ Due
      PROVE  /\ c[i].fd = con[i].fd /\ c[i].ssl = con[i].ssl
             /\ con[i] = ClosedCon => c[i] = ClosedCon
             /\ pfd[i] # NoFd => c[i].timeout >= 1
  <2>1. c[i].fd = con[i].fd /\ c[i].ssl = con[i].ssl
    BY DEF TypeOK, Connection
  <2>2. con[i] = ClosedCon => c[i] = ClosedCon
    BY DEF ClosedCon
  <2>3. ASSUME pfd[i] # NoFd PROVE c[i].timeout >= 1
    <3>1. con[i].timeout >= 1 /\ con[i].ssl
      BY <1>2, <2>3 DEF TablesAgree
    <3>2. i \in Polled
      BY <3>1 DEF EveryConnectionPolled, Polled, TypeOK, Entries
    <3>3. con[i].timeout # 1
      BY <3>2 DEF Due
    <3>. QED
      BY <3>1, <3>2, <3>3 DEF TypeOK, Connection
  <2>. QED
    BY <2>1, <2>2, <2>3
<1>. HIDE DEF c
<1>6. /\ pfd' \in [Entries -> Fds \cup {NoFd}] /\ con' \in [Entries -> Connection]
      /\ nfds' \in 1..MaxConnections /\ live' \subseteq Fds
      /\ TablesAgree' /\ EveryConnectionPolled' /\ StopClosesAll'
  BY <1>1, <1>2, <1>3, <1>4, <1>5, ClosingAgrees
<1>7. TypeOK' /\ EventsOfOpen' /\ StopInOrder'
  BY <1>1, <1>6 DEF TypeOK, EventsOfOpen, StopInOrder
<1>. QED
  BY <1>6, <1>7

(* A poll() that answers reports events of open connections only.           *)
LEMMA PollReadyKeeps == ASSUME IInv, PollReady PROVE IInv'
<1>. USE DEF IInv, PollReady
<1>1. TypeOK' /\ EventsOfOpen' /\ StopInOrder'
  BY DEF TypeOK, EventsOfOpen, StopInOrder
<1>2. TablesAgree' /\ EveryConnectionPolled' /\ StopClosesAll'
  BY DEF TablesAgree, EveryConnectionPolled, StopClosesAll
<1>. QED
  BY <1>1, <1>2

-----------------------------------------------------------------------------
(* The loop over the entries *)

(* Entries without an event, data that is read, and the end of the loop     *)
(* leave the tables as they are.                                            *)
LEMMA LoopKeeps == ASSUME IInv, Skip \/ ReadData \/ ScanDone PROVE IInv'
<1>. USE DEF IInv
<1>1. /\ UNCHANGED <<pfd, con, nfds, active, main, live, silent>>
      /\ lpc' \in {"poll", "scan", "more"} /\ lpc \in {"scan", "more"}
  BY DEF Skip, ReadData, ScanDone, LoopEnds
<1>2. TypeOK' /\ StopInOrder'
  <2>1. running' \in [Entries -> BOOLEAN] /\ revents' \in [Entries -> {"none", "in", "hup"}]
    BY DEF Skip, ReadData, ScanDone, LoopEnds, TypeOK
  <2>2. pos' \in Nat \ {0}
    BY DEF Skip, ReadData, ScanDone, LoopEnds, TypeOK
  <2>. QED
    BY <1>1, <2>1, <2>2 DEF TypeOK, StopInOrder
<1>3. EventsOfOpen'
  <2>1. CASE Skip
    BY <2>1 DEF Skip, EventsOfOpen, TypeOK, Entries
  <2>2. CASE ReadData
    BY <2>2 DEF ReadData, EventsOfOpen
  <2>3. CASE ScanDone
    BY <2>3 DEF ScanDone, LoopEnds, EventsOfOpen
  <2>. QED
    BY <2>1, <2>2, <2>3
<1>4. TablesAgree' /\ EveryConnectionPolled' /\ StopClosesAll'
  BY <1>1 DEF TablesAgree, EveryConnectionPolled, StopClosesAll
<1>. QED
  BY <1>2, <1>3, <1>4

(* The connection whose timeout starts anew is open: it was when poll()     *)
(* reported it, and nothing has closed it since.                            *)
LEMMA ReadDoneKeeps == ASSUME IInv, ReadDone PROVE IInv'
<1>. USE DEF IInv
<1>1. /\ lpc = "more" /\ con' = [con EXCEPT ![pos].timeout = Timeout]
      /\ lpc' = "scan" /\ pos' = pos + 1
      /\ revents' = [revents EXCEPT ![pos] = "none"]
      /\ UNCHANGED <<pfd, running, nfds, active, main, live, silent>>
  BY DEF ReadDone, Looked
<1>2. pos \in Entries /\ revents[pos] = "in"
  BY <1>1, ListenerAssumption DEF EventsOfOpen, TypeOK, Entries
<1>3. pfd[pos] # NoFd
  BY <1>1, <1>2 DEF EventsOfOpen, TypeOK, Entries
<1>4. Timeout \in Int /\ Timeout >= 1
  BY ListenerAssumption
<1>5. TypeOK' /\ EventsOfOpen' /\ StopInOrder'
  <2>1. con' \in [Entries -> Connection]
    BY <1>1, <1>4 DEF TypeOK, Connection
  <2>2. EventsOfOpen'
    BY <1>1 DEF EventsOfOpen, TypeOK, Entries
  <2>. QED
    BY <1>1, <2>1, <2>2 DEF TypeOK, StopInOrder
<1>6. \A i \in Entries : con'[i].fd = con[i].fd /\ con'[i].ssl = con[i].ssl
  BY <1>1 DEF TypeOK, Connection
<1>7. TablesAgree'
  <2>1. con'[pos].timeout = Timeout /\ \A i \in Entries \ {pos} : con'[i] = con[i]
    BY <1>1, <1>2 DEF TypeOK, Connection
  <2>. QED
    BY <1>1, <1>3, <1>4, <1>6, <2>1 DEF TablesAgree
<1>8. EveryConnectionPolled' /\ StopClosesAll'
  BY <1>1, <1>6 DEF EveryConnectionPolled, StopClosesAll
<1>. QED
  BY <1>5, <1>7, <1>8

(* A read that fails and a hang-up close at most the connection looked at.  *)
LEMMA CloseOneKeeps == ASSUME IInv, ReadFails \/ HangUp PROVE IInv'
<1>. USE DEF IInv
<1>1. /\ lpc \in {"scan", "more"} /\ pos < nfds /\ lpc' = "scan" /\ pos' = pos + 1
      /\ revents' = [revents EXCEPT ![pos] = "none"]
      /\ UNCHANGED <<running, active, main, silent>>
      /\ UNCHANGED <<con, pfd, live, nfds>> \/ CloseConnections({pos}, con)
  BY DEF ReadFails, HangUp, Looked
<1>2. main # "stopped"
  BY <1>1 DEF StopInOrder
<1>0. /\ revents' \in [Entries -> {"none", "in", "hup"}] /\ pos \in Nat \ {0} /\ pos' \in Nat \ {0}
      /\ \A i \in Entries : i >= pos' /\ revents'[i] # "none" => i >= pos /\ revents[i] # "none"
  <2>1. pos \in Nat \ {0} /\ pos' = pos + 1 /\ pos' \in Nat \ {0}
    BY <1>1 DEF TypeOK
  <2>2. revents' \in [Entries -> {"none", "in", "hup"}]
    BY <1>1 DEF TypeOK
  <2>3. ASSUME NEW i \in Entries, i >= pos', revents'[i] # "none"
        PROVE  i >= pos /\ revents[i] # "none"
    <3>1. i \in Int
      BY DEF Entries
    <3>2. i >= pos /\ i # pos
      BY <2>1, <2>3, <3>1
    <3>3. revents'[i] = revents[i]
      BY <1>1, <3>2 DEF TypeOK
    <3>. QED
      BY <2>3, <3>2, <3>3
  <2>. QED
    BY <2>1, <2>2, <2>3
<1>3. CASE UNCHANGED <<con, pfd, live, nfds>>
  <2>1. TypeOK' /\ EventsOfOpen' /\ StopInOrder'
    <3>1. TypeOK'
      BY <1>0, <1>1, <1>3 DEF TypeOK
    <3>2. EventsOfOpen'
      BY <1>0, <1>1, <1>3 DEF EventsOfOpen
    <3>. QED
      BY <1>1, <3>1, <3>2 DEF StopInOrder
  <2>2. TablesAgree' /\ EveryConnectionPolled' /\ StopClosesAll'
    BY <1>1, <1>3 DEF TablesAgree, EveryConnectionPolled, StopClosesAll
  <2>. QED
    BY <2>1, <2>2
<1>4. CASE CloseConnections({pos}, con)
  <2>1. {pos} \in SUBSET Polled
    BY <1>1 DEF TypeOK, Polled
  <2>2. \A i \in Entries \ {pos} : pfd[i] # NoFd => con[i].timeout >= 1
    BY <1>2 DEF TablesAgree
  <2>3. /\ pfd' \in [Entries -> Fds \cup {NoFd}] /\ con' \in [Entries -> Connection]
        /\ nfds' \in 1..MaxConnections /\ live' \subseteq Fds
        /\ \A i \in Entries \ {pos} : pfd'[i] = pfd[i]
        /\ TablesAgree' /\ EveryConnectionPolled' /\ StopClosesAll'
    BY <1>1, <1>2, <1>4, <2>1, <2>2, ClosingAgrees DEF TypeOK
  <2>4. EventsOfOpen'
    BY <1>1, <2>3 DEF EventsOfOpen, TypeOK, Entries
  <2>5. TypeOK' /\ StopInOrder'
    BY <1>0, <1>1, <2>3 DEF TypeOK, StopInOrder
  <2>. QED
    BY <2>3, <2>4, <2>5
<1>. QED
  BY <1>1, <1>3, <1>4

(* accept() takes the first free entry: below nfds, or nfds itself, since   *)
(* no entry above is in use.                                                *)
LEMMA AcceptKeeps == ASSUME IInv, Accept PROVE IInv'
<1>. USE DEF IInv
<1>1. /\ lpc = "scan" /\ lpc' = "poll" /\ pos' = 1
      /\ revents' = [i \in Entries |-> "none"] /\ UNCHANGED <<active, main, silent>>
  BY DEF Accept, LoopEnds
<1>2. main # "stopped"
  BY <1>1 DEF StopInOrder
<1>3. EventsOfOpen' /\ StopInOrder' /\ StopClosesAll'
  BY <1>1, <1>2 DEF EventsOfOpen, StopInOrder, StopClosesAll
<1>4. PICK fd \in Fds \ live :
       \/ \E i \in FreeEntries :
            /\ \A j \in FreeEntries : i <= j
            /\ con' = [con EXCEPT ![i] = [fd |-> fd, timeout |-> Timeout, ssl |-> TRUE]]
            /\ running' = [running EXCEPT ![i] = FALSE]
            /\ pfd' = [pfd EXCEPT ![i] = fd]
            /\ nfds' = IF i >= nfds THEN nfds + 1 ELSE nfds
            /\ live' = live \cup {fd}
       \/ UNCHANGED <<con, running, pfd, nfds>> /\ live' \in {live, live \cup {fd}}
  BY DEF Accept
<1>5. CASE UNCHANGED <<con, running, pfd, nfds>> /\ live' \in {live, live \cup {fd}}
  <2>1. TypeOK'
    BY <1>1, <1>5 DEF TypeOK
  <2>2. TablesAgree' /\ EveryConnectionPolled'
    BY <1>1, <1>5 DEF TablesAgree, EveryConnectionPolled
  <2>. QED
    BY <1>3, <2>1, <2>2
<1>6. ASSUME NEW i \in FreeEntries,
             \A j \in FreeEntries : i <= j,
             con' = [con EXCEPT ![i] = [fd |-> fd, timeout |-> Timeout, ssl |-> TRUE]],
             running' = [running EXCEPT ![i] = FALSE],
             pfd' = [pfd EXCEPT ![i] = fd],
             nfds' = IF i >= nfds THEN nfds + 1 ELSE nfds,
             live' = live \cup {fd}
      PROVE  IInv'
  <2>1. i \in Entries /\ pfd[i] = NoFd
    BY DEF FreeEntries
  <2>2. Timeout \in Int /\ Timeout >= 1 /\ fd # NoFd
    BY ListenerAssumption
  <2>3. i <= nfds
    <3>1. SUFFICES ASSUME nfds < i PROVE FALSE
      BY <2>1 DEF TypeOK, Entries
    <3>2. nfds \in Entries
      BY <2>1, <3>1, ListenerAssumption DEF TypeOK, Entries
    <3>3. pfd[nfds] = NoFd
      BY <1>2, <3>2 DEF TablesAgree, EveryConnectionPolled, TypeOK
    <3>. QED
      BY <1>6, <3>1, <3>2, <3>3 DEF FreeEntries, TypeOK, Entries
  <2>4. TypeOK'
    <3>1. nfds' \in 1..MaxConnections
      BY <1>6, <2>1, <2>3, ListenerAssumption DEF TypeOK, Entries
    <3>2. con' \in [Entries -> Connection]
      BY <1>6, <2>2 DEF TypeOK, Connection
    <3>. QED
      BY <1>1, <1>6, <3>1, <3>2 DEF TypeOK
  <2>5. /\ con'[i] = [fd |-> fd, timeout |-> Timeout, ssl |-> TRUE] /\ pfd'[i] = fd
        /\ \A j \in Entries \ {i} : con'[j] = con[j] /\ pfd'[j] = pfd[j]
    BY <1>6, <2>1 DEF TypeOK
  <2>6. \A j \in Entries : pfd[j] # fd
    BY <1>2, <2>2 DEF TablesAgree
  <2>7. TablesAgree'
    BY <1>2, <1>6, <2>1, <2>2, <2>5, <2>6 DEF TablesAgree
  <2>8. EveryConnectionPolled'
    BY <1>6, <2>1, <2>3, <2>5 DEF EveryConnectionPolled, TypeOK, Entries
  <2>. QED
    BY <1>3, <2>4, <2>7, <2>8
<1>. QED
  BY <1>4, <1>5, <1>6

-----------------------------------------------------------------------------
(* http_server_stop and the tasks *)

(* The end of the listener, of a task, of the peers, and the flag that      *)
(* http_server_stop sets.                                                   *)
LEMMA EndsKeep ==
  ASSUME IInv, \/ Exit \/ PeersFallSilent \/ StopListener
               \/ \E i \in Entries : TaskDone(i) \/ PeerCloses(i)
  PROVE  IInv'
<1>. USE DEF IInv
<1>1. UNCHANGED <<pfd, con, nfds, revents, pos, live>>
  BY DEF Exit, PeersFallSilent, StopListener, TaskDone, PeerCloses
<1>2. TypeOK'
  <2>1. running' \in [Entries -> BOOLEAN]
    BY DEF Exit, PeersFallSilent, StopListener, TaskDone, PeerCloses, TypeOK
  <2>2. /\ lpc' \in {"poll", "scan", "more", "done"}
        /\ active' \in BOOLEAN /\ silent' \in BOOLEAN
        /\ main' \in {"serving", "stopping", "stopped"}
    BY DEF Exit, PeersFallSilent, StopListener, TaskDone, PeerCloses, TypeOK
  <2>. QED
    BY <1>1, <2>1, <2>2 DEF TypeOK
<1>3. StopInOrder' /\ StopClosesAll'
  BY <1>1 DEF Exit, PeersFallSilent, StopListener, TaskDone, PeerCloses, StopInOrder, StopClosesAll
<1>4. EventsOfOpen'
  BY <1>1 DEF Exit, PeersFallSilent, StopListener, TaskDone, PeerCloses, EventsOfOpen
<1>5. TablesAgree' /\ EveryConnectionPolled'
  BY <1>1 DEF Exit, PeersFallSilent, StopListener, TaskDone, PeerCloses, TablesAgree, EveryConnectionPolled
<1>. QED
  BY <1>2, <1>3, <1>4, <1>5

(* http_server_stop closes every polled entry, and so every open one.       *)
LEMMA CloseAllKeeps == ASSUME IInv, CloseAll PROVE IInv'
<1>. USE DEF IInv
<1>. DEFINE S == {i \in Polled : con[i].ssl}
<1>1. /\ main = "stopping" /\ lpc = "done" /\ main' = "stopped"
      /\ con' = [i \in Entries |-> IF i \in S THEN ClosedCon ELSE con[i]]
      /\ live' \subseteq live
      /\ UNCHANGED <<pfd, running, nfds, revents, lpc, pos, active, silent>>
  BY DEF CloseAll
<1>2. \A i \in Entries : con[i].ssl => i \in S
  BY DEF EveryConnectionPolled, Polled, TypeOK, Entries
<1>3. \A i \in Entries : ~con'[i].ssl
  BY <1>1, <1>2 DEF ClosedCon
<1>4. TypeOK'
  <2>1. con' \in [Entries -> Connection]
    BY <1>1 DEF TypeOK, Connection, ClosedCon
  <2>. QED
    BY <1>1, <2>1 DEF TypeOK
<1>5. EventsOfOpen' /\ StopInOrder' /\ TablesAgree'
  BY <1>1 DEF EventsOfOpen, StopInOrder, TablesAgree
<1>. QED
  BY <1>3, <1>4, <1>5 DEF EveryConnectionPolled, StopClosesAll

-----------------------------------------------------------------------------
(* Every step keeps the invariant. *)
LEMMA NextIInv == IInv /\ [Next]_vars => IInv'
<1>. SUFFICES ASSUME IInv, [Next]_vars PROVE IInv'
  OBVIOUS
<1>1. CASE PollTimeout
  BY <1>1, PollTimeoutKeeps
<1>2. CASE PollReady
  BY <1>2, PollReadyKeeps
<1>3. CASE Scan
  BY <1>3, LoopKeeps, ReadDoneKeeps, CloseOneKeeps, AcceptKeeps DEF Scan
<1>4. CASE Exit \/ PeersFallSilent \/ StopListener \/ \E i \in Entries : TaskDone(i) \/ PeerCloses(i)
  BY <1>4, EndsKeep
<1>5. CASE CloseAll
  BY <1>5, CloseAllKeeps
<1>6. CASE UNCHANGED vars
  BY <1>6 DEF vars, IInv, TypeOK, EventsOfOpen, StopInOrder, TablesAgree,
              EveryConnectionPolled, StopClosesAll
<1>. QED
  BY <1>1, <1>2, <1>3, <1>4, <1>5, <1>6 DEF Next

(* The inductive invariant holds in every state. *)
LEMMA Safety == Spec => []IInv
BY InitIInv, NextIInv, PTL DEF Spec

(* pfds[] and connections[] agree on every entry, and no descriptor is in   *)
(* two of them, until http_server_stop takes the tables down.               *)
THEOREM TablesAlwaysAgree == Spec => []TablesAgree
<1>1. IInv => TablesAgree
  BY DEF IInv
<1>. QED
  BY <1>1, Safety, PTL

(* Every open connection is below nfds, though nfds shrinks by one at most. *)
THEOREM NoConnectionForgotten == Spec => []EveryConnectionPolled
<1>1. IInv => EveryConnectionPolled
  BY DEF IInv
<1>. QED
  BY <1>1, Safety, PTL

(* http_server_stop, which looks at the polled entries only, leaves nothing *)
(* open.                                                                    *)
THEOREM StopLeavesNothing == Spec => []StopClosesAll
<1>1. IInv => StopClosesAll
  BY DEF IInv
<1>. QED
  BY <1>1, Safety, PTL
-----------------------------------------------------------------------------
(* Numbers: induction and recursion up to a number, with sets instead of  *)
(* predicates.                                                             *)

(* A set of numbers that is not empty has a least one. *)
LEMMA LeastOf ==
  ASSUME NEW S, S \subseteq Nat, S # {}
  PROVE  \E m \in S : \A k \in S : m <= k
<1>. DEFINE R == OpToRel(<, Nat)
<1>1. IsWellFoundedOn(R, Nat)
  BY NatLessThanWellFounded
<1>2. PICK m \in S : \A k \in S : <<k, m>> \notin R
  <2>. HIDE DEF R
  <2>. QED
    BY <1>1, WFMin
<1>3. \A k \in S : ~(k < m)
  BY <1>2 DEF OpToRel
<1>. QED
  BY <1>3

(* A set that has 0, and the successor of each member below n, reaches n. *)
LEMMA Counting ==
  ASSUME NEW n \in Nat, NEW K, 0 \in K, \A k \in 0 .. n - 1 : k \in K => k + 1 \in K
  PROVE  \A k \in 0 .. n : k \in K
<1>. SUFFICES ASSUME NEW j \in 0 .. n, j \notin K PROVE FALSE
  OBVIOUS
<1>. DEFINE S == {k \in 0 .. n : k \notin K}
<1>1. S \subseteq Nat /\ S # {}
  OBVIOUS
<1>2. PICK m \in S : \A k \in S : m <= k
  <2>. HIDE DEF S
  <2>. QED
    BY <1>1, LeastOf
<1>3. m # 0 /\ m - 1 \in 0 .. n - 1 /\ m - 1 \notin S
  BY <1>2
<1>4. m - 1 \in K
  BY <1>3
<1>5. (m - 1) + 1 \in K
  BY <1>3, <1>4
<1>. QED
  BY <1>2, <1>5

(* Steps(f, n, S, x, h): f starts at x and goes from k - 1 to k by h[k].     *)
Steps(f, n, S, x, h) ==
  f \in [0 .. n -> S] /\ f[0] = x /\ \A k \in 1 .. n : f[k] = h[k][f[k - 1]]

(* What is computed from what came before is defined up to any number. *)
LEMMA Iterated ==
  ASSUME NEW n \in Nat, NEW S, NEW x \in S, NEW h \in [1 .. n -> [S -> S]]
  PROVE  \E f : Steps(f, n, S, x, h)
<1>. USE DEF Steps
<1>. DEFINE Good(f, m) == /\ f \in [0 .. m -> S] /\ f[0] = x
                          /\ \A k \in 1 .. m : f[k] = h[k][f[k - 1]]
            K == {m \in 0 .. n : \E f : Good(f, m)}
<1>1. 0 \in K
  <2>. DEFINE f == [k \in 0 .. 0 |-> x]
  <2>1. Good(f, 0)
    OBVIOUS
  <2>2. \E g : Good(g, 0)
    <3>. HIDE DEF Good, f
    <3>. QED
      BY <2>1
  <2>. HIDE DEF Good
  <2>. QED
    BY <2>2
<1>2. ASSUME NEW m \in 0 .. n - 1, m \in K PROVE m + 1 \in K
  <2>1. PICK f : Good(f, m)
    BY <1>2
  <2>. DEFINE g == [k \in 0 .. m + 1 |-> IF k = m + 1 THEN h[m + 1][f[m]] ELSE f[k]]
  <2>2. h[m + 1][f[m]] \in S
    BY <2>1
  <2>3. g \in [0 .. m + 1 -> S] /\ g[0] = x
    BY <2>1, <2>2
  <2>4. ASSUME NEW k \in 1 .. m + 1 PROVE g[k] = h[k][g[k - 1]]
    <3>1. g[k - 1] = f[k - 1]
      OBVIOUS
    <3>2. CASE k = m + 1
      BY <3>1, <3>2
    <3>3. CASE k # m + 1
      <4>1. k \in 1 .. m /\ g[k] = f[k]
        BY <3>3
      <4>. QED
        BY <2>1, <3>1, <4>1
    <3>. QED
      BY <3>2, <3>3
  <2>5. Good(g, m + 1)
    <3>. HIDE DEF g
    <3>. QED
      BY <2>3, <2>4
  <2>6. \E e : Good(e, m + 1)
    <3>. HIDE DEF Good, g
    <3>. QED
      BY <2>5
  <2>7. m + 1 \in 0 .. n
    OBVIOUS
  <2>. HIDE DEF Good
  <2>. QED
    BY <2>6, <2>7
<1>3. n \in K
  <2>. HIDE DEF K
  <2>1. \A k \in 0 .. n : k \in K
    BY <1>1, <1>2, Counting
  <2>. QED
    BY <2>1
<1>. QED
  BY <1>3
-----------------------------------------------------------------------------
(* The walk along a path                                                    *)

Chars   == UNION {Range(p) : p \in Paths \cup Urls}
Strings == Seq(Chars)

Slot == [is : {"null", "junk", "set"}, of : Strings]
Node == [path : Strings, kids : Seq(Nat), slots : [Types -> Slot]]

(* A tree of pathname_t's: the names are not empty and begin with a         *)
(* character that is no slash, and children are nodes other than the root.  *)
IsTree(tree) ==
  /\ tree \in Seq(Node) /\ Len(tree) >= 1
  /\ \A n \in 2 .. Len(tree) : tree[n].path # <<>> /\ tree[n].path[1] # Slash
  /\ \A n \in 1 .. Len(tree) : \A i \in DOMAIN tree[n].kids : tree[n].kids[i] \in 2 .. Len(tree)

Places(tree, s) == [node : 1 .. Len(tree), pos : 1 .. Len(s) + 1, search : BOOLEAN]

Fit(tree, s, n, p) ==
  {i \in DOMAIN tree[n].kids : Matches(tree[tree[n].kids[i]].path, From(s, p))}

FirstFit(tree, s, n, p) ==
  tree[n].kids[CHOOSE i \in Fit(tree, s, n, p) : \A j \in Fit(tree, s, n, p) : i <= j]

(* A round ends the walk, at the place Halt, or goes on to the place Onward. *)
Halts(tree, s, at) ==
  at.search /\ (SkipSlashes(s, at.pos) > Len(s) \/ Fit(tree, s, at.node, SkipSlashes(s, at.pos)) = {})

Halt(s, at) == [node |-> at.node, pos |-> SkipSlashes(s, at.pos), search |-> FALSE]

Onward(tree, s, at) ==
  LET kid == FirstFit(tree, s, at.node, SkipSlashes(s, at.pos))
  IN  [node |-> kid, pos |-> SkipSlashes(s, at.pos) + Len(tree[kid].path), search |-> TRUE]

(* Paths and urls are strings. *)
LEMMA PathsAreStrings == Paths \subseteq Strings /\ Urls \subseteq Strings
<1>. SUFFICES ASSUME NEW p \in Paths \cup Urls PROVE p \in Strings
  OBVIOUS
<1>1. p \in Seq(Range(p)) /\ Range(p) \subseteq Chars
  BY RouterAssumption DEF Chars
<1>. QED
  BY <1>1 DEF Strings

(* What is left of a string from a position on. *)
LEMMA FromFacts ==
  ASSUME NEW C, NEW s \in Seq(C), NEW p \in 1 .. Len(s) + 1
  PROVE  /\ From(s, p) \in Seq(C) /\ Len(From(s, p)) = Len(s) - p + 1
         /\ \A i \in 1 .. Len(s) - p + 1 : From(s, p)[i] = s[p + i - 1]
         /\ From(s, p) = <<>> <=> p = Len(s) + 1
<1>1. /\ Len(s) \in Nat /\ p \in Int /\ p >= 1 /\ p <= Len(s) + 1
  OBVIOUS
<1>2. /\ From(s, p) \in Seq(C)
      /\ Len(From(s, p)) = IF p <= Len(s) THEN Len(s) - p + 1 ELSE 0
      /\ \A i \in 1 .. Len(s) - p + 1 : From(s, p)[i] = s[p + i - 1]
  BY <1>1, SubSeqProperties DEF From
<1>3. Len(From(s, p)) = Len(s) - p + 1
  BY <1>1, <1>2
<1>4. From(s, p) = <<>> <=> Len(From(s, p)) = 0
  BY <1>2
<1>. QED
  BY <1>1, <1>2, <1>3, <1>4

(* The loop over the slashes ends at the first other character. *)
LEMMA SkipFacts ==
  ASSUME NEW s \in Strings, NEW p \in 1 .. Len(s) + 1
  PROVE  /\ SkipSlashes(s, p) \in p .. Len(s) + 1
         /\ SkipSlashes(s, p) <= Len(s) => s[SkipSlashes(s, p)] # Slash
         /\ \A i \in p .. SkipSlashes(s, p) - 1 : s[i] = Slash
<1>. DEFINE E == {q \in p .. Len(s) + 1 : q <= Len(s) => s[q] # Slash}
<1>1. Len(s) \in Nat /\ E \subseteq Nat /\ Len(s) + 1 \in E
  BY DEF Strings
<1>2. PICK q \in E : \A k \in E : q <= k
  <2>. HIDE DEF E
  <2>. QED
    BY <1>1, LeastOf
<1>3. \A i \in p .. q - 1 : s[i] = Slash
  BY <1>1, <1>2
<1>4. \E q1 \in p .. Len(s) + 1 : /\ q1 <= Len(s) => s[q1] # Slash
                                  /\ \A i \in p .. q1 - 1 : s[i] = Slash
  BY <1>2, <1>3
<1>. QED
  BY <1>4 DEF SkipSlashes

(* What the nodes of a tree are made of. *)
LEMMA NodeFacts ==
  ASSUME NEW tree, IsTree(tree), NEW n \in 1 .. Len(tree)
  PROVE  /\ tree[n] \in Node /\ tree[n].path \in Strings /\ tree[n].kids \in Seq(Nat)
         /\ tree[n].slots \in [Types -> Slot]
         /\ \A i \in DOMAIN tree[n].kids : tree[n].kids[i] \in 2 .. Len(tree)
         /\ n # 1 => tree[n].path # <<>> /\ tree[n].path[1] # Slash
<1>1. tree[n] \in Node
  BY DEF IsTree
<1>2. tree[n].path \in Strings /\ tree[n].kids \in Seq(Nat) /\ tree[n].slots \in [Types -> Slot]
  BY <1>1 DEF Node
<1>3. \A i \in DOMAIN tree[n].kids : tree[n].kids[i] \in 2 .. Len(tree)
  BY DEF IsTree
<1>4. n # 1 => n \in 2 .. Len(tree)
  BY DEF IsTree
<1>5. n # 1 => tree[n].path # <<>> /\ tree[n].path[1] # Slash
  BY <1>4 DEF IsTree
<1>. QED
  BY <1>1, <1>2, <1>3, <1>5

(* The first child that fits is a child, fits, and is no longer than what   *)
(* is left.                                                                 *)
LEMMA FirstFitFacts ==
  ASSUME NEW tree, IsTree(tree), NEW s \in Strings, NEW n \in 1 .. Len(tree),
         NEW p \in 1 .. Len(s) + 1, Fit(tree, s, n, p) # {}
  PROVE  LET kid == FirstFit(tree, s, n, p)
         IN  /\ \E i \in DOMAIN tree[n].kids :
                  /\ kid = tree[n].kids[i] /\ i \in Fit(tree, s, n, p)
                  /\ \A j \in Fit(tree, s, n, p) : i <= j
             /\ kid \in 2 .. Len(tree) /\ tree[kid].path \in Strings
             /\ Matches(tree[kid].path, From(s, p))
             /\ Len(tree[kid].path) >= 1 /\ p + Len(tree[kid].path) <= Len(s) + 1
<1>. DEFINE F == Fit(tree, s, n, p)
<1>1. tree[n] \in Node /\ tree[n].kids \in Seq(Nat)
  BY NodeFacts
<1>2. F \subseteq DOMAIN tree[n].kids /\ F \subseteq Nat /\ F # {}
  BY <1>1 DEF Fit
<1>3. \E i \in F : \A j \in F : i <= j
  <2>. HIDE DEF F
  <2>. QED
    BY <1>2, LeastOf
<1>4. PICK i \in F : i = (CHOOSE k \in F : \A j \in F : k <= j) /\ \A j \in F : i <= j
  BY <1>3
<1>. DEFINE kid == tree[n].kids[i]
<1>5. FirstFit(tree, s, n, p) = kid
  BY <1>4 DEF FirstFit
<1>6. kid \in 2 .. Len(tree) /\ Matches(tree[kid].path, From(s, p))
  BY <1>2 DEF IsTree, Fit
<1>7. tree[kid].path \in Seq(Chars) /\ tree[kid].path # <<>>
  <2>1. kid \in 1 .. Len(tree) /\ kid # 1
    BY <1>6 DEF IsTree
  <2>. HIDE DEF kid
  <2>. QED
    BY <2>1, NodeFacts DEF Strings
<1>8. Len(tree[kid].path) \in Nat /\ Len(tree[kid].path) >= 1
  BY <1>7
<1>9. Len(tree[kid].path) <= Len(s) - p + 1
  BY <1>6, FromFacts DEF Matches, IsPrefix, Strings
<1>10. /\ Len(s) \in Nat /\ p \in Int
  BY DEF Strings
<1>11. p + Len(tree[kid].path) <= Len(s) + 1
  BY <1>8, <1>9, <1>10
<1>. QED
  BY <1>2, <1>4, <1>5, <1>6, <1>7, <1>8, <1>11 DEF Strings
(* A round stays where it is, ends the walk or goes on to a child; it never *)
(* goes back.                                                               *)
LEMMA RoundFacts ==
  ASSUME NEW tree, IsTree(tree), NEW s \in Strings, NEW at \in Places(tree, s)
  PROVE  /\ Round(tree, s, at) \in Places(tree, s)
         /\ SkipSlashes(s, at.pos) \in at.pos .. Len(s) + 1
         /\ ~at.search => Round(tree, s, at) = at
         /\ Halts(tree, s, at) => Round(tree, s, at) = Halt(s, at)
         /\ at.search /\ ~Halts(tree, s, at) =>
              Round(tree, s, at) = Onward(tree, s, at) /\ Round(tree, s, at).pos > at.pos
<1>. DEFINE p   == SkipSlashes(s, at.pos)
            kid == FirstFit(tree, s, at.node, p)
            fit == Fit(tree, s, at.node, p)
<1>1. /\ at.node \in 1 .. Len(tree) /\ at.pos \in 1 .. Len(s) + 1 /\ at.search \in BOOLEAN
      /\ Len(s) \in Nat
  BY DEF Places, Strings
<1>2. p \in at.pos .. Len(s) + 1
  <2>. HIDE DEF p
  <2>. QED
    BY <1>1, SkipFacts DEF p
<1>3. p \in 1 .. Len(s) + 1
  <2>. HIDE DEF p
  <2>. QED
    BY <1>1, <1>2
<1>4. ~at.search => Round(tree, s, at) = at
  BY DEF Round
<1>5. Halts(tree, s, at) => Round(tree, s, at) = Halt(s, at)
  BY DEF Round, Fit, Halts, Halt
<1>6. at.search /\ ~Halts(tree, s, at) => Round(tree, s, at) = Onward(tree, s, at)
  BY DEF Round, Fit, FirstFit, Halts, Onward
<1>7. fit # {} => /\ kid \in 2 .. Len(tree) /\ Len(tree[kid].path) >= 1 /\ Len(tree[kid].path) \in Nat
                  /\ p + Len(tree[kid].path) <= Len(s) + 1
  <2>. SUFFICES ASSUME fit # {}
                PROVE  /\ kid \in 2 .. Len(tree) /\ Len(tree[kid].path) >= 1
                       /\ Len(tree[kid].path) \in Nat
                       /\ p + Len(tree[kid].path) <= Len(s) + 1
    OBVIOUS
  <2>. HIDE DEF p
  <2>1. /\ kid \in 2 .. Len(tree) /\ Len(tree[kid].path) >= 1 /\ tree[kid].path \in Strings
        /\ p + Len(tree[kid].path) <= Len(s) + 1
    BY <1>1, <1>3, FirstFitFacts
  <2>. HIDE DEF kid
  <2>. QED
    BY <2>1 DEF Strings
<1>8. Halt(s, at) \in Places(tree, s)
  <2>. HIDE DEF p
  <2>1. [node |-> at.node, pos |-> p, search |-> FALSE] \in Places(tree, s)
    BY <1>1, <1>3 DEF Places
  <2>. QED
    BY <2>1 DEF Halt, p
<1>9. at.search /\ ~Halts(tree, s, at) => fit # {} /\ p <= Len(s)
  <2>. HIDE DEF p
  <2>. QED
    BY <1>1, <1>3 DEF Halts, p, fit
<1>10. fit # {} => Onward(tree, s, at) \in Places(tree, s) /\ Onward(tree, s, at).pos > at.pos
  <2>. SUFFICES ASSUME fit # {}
                PROVE  Onward(tree, s, at) \in Places(tree, s) /\ Onward(tree, s, at).pos > at.pos
    OBVIOUS
  <2>. HIDE DEF p, kid, fit
  <2>1. kid \in 1 .. Len(tree) /\ Len(tree) \in Nat
    BY <1>7 DEF IsTree
  <2>2. p + Len(tree[kid].path) \in 1 .. Len(s) + 1 /\ p + Len(tree[kid].path) > at.pos
    BY <1>1, <1>2, <1>3, <1>7
  <2>3. [node |-> kid, pos |-> p + Len(tree[kid].path), search |-> TRUE] \in Places(tree, s)
    BY <2>1, <2>2 DEF Places
  <2>4. Onward(tree, s, at) = [node |-> kid, pos |-> p + Len(tree[kid].path), search |-> TRUE]
    BY DEF Onward, kid, p
  <2>. QED
    BY <2>2, <2>3, <2>4
<1>11. Round(tree, s, at) \in Places(tree, s)
  <2>. HIDE DEF p, kid, fit
  <2>. QED
    BY <1>1, <1>4, <1>5, <1>6, <1>8, <1>9, <1>10
<1>12. at.search /\ ~Halts(tree, s, at) => Round(tree, s, at).pos > at.pos
  <2>. HIDE DEF p, kid, fit
  <2>. QED
    BY <1>6, <1>9, <1>10
<1>. QED
  BY <1>2, <1>4, <1>5, <1>6, <1>11, <1>12

(* The walk goes from round to round. *)
LEMMA WalkFacts ==
  ASSUME NEW tree, IsTree(tree), NEW s \in Strings
  PROVE  /\ Walk(tree, s) \in [0 .. Len(s) + 1 -> Places(tree, s)]
         /\ Walk(tree, s)[0] = Start
         /\ \A k \in 1 .. Len(s) + 1 : Walk(tree, s)[k] = Round(tree, s, Walk(tree, s)[k - 1])
<1>. DEFINE n == Len(s) + 1
            P == Places(tree, s)
            h == [k \in 1 .. n |-> [y \in P |-> Round(tree, s, y)]]
            Is(f) == f = [k \in 0 .. n |-> IF k = 0 THEN Start ELSE Round(tree, s, f[k - 1])]
<1>1. n \in Nat /\ Len(s) \in Nat /\ Len(tree) \in Nat /\ Len(tree) >= 1
  BY DEF Strings, IsTree
<1>2. Start \in P
  BY <1>1 DEF Start, Places
<1>3. \A k \in 1 .. n, y \in P : h[k][y] = Round(tree, s, y)
  OBVIOUS
<1>4. \A y \in P : Round(tree, s, y) \in P
  BY RoundFacts
<1>5. \E f \in [0 .. n -> P] : f[0] = Start /\ \A k \in 1 .. n : f[k] = h[k][f[k - 1]]
  <2>1. h \in [1 .. n -> [P -> P]]
    BY <1>4
  <2>2. n \in Nat
    BY <1>1
  <2>3. \E f : Steps(f, n, P, Start, h)
    <3>. HIDE DEF h, P, n
    <3>. QED
      BY <2>2, <1>2, <2>1, Iterated
  <2>. HIDE DEF h, P, n
  <2>. QED
    BY <2>3 DEF Steps
<1>6. PICK f \in [0 .. n -> P] : f[0] = Start /\ \A k \in 1 .. n : f[k] = h[k][f[k - 1]]
  BY <1>5
<1>. HIDE DEF P, h
<1>7. ASSUME NEW k \in 1 .. n PROVE f[k - 1] \in P /\ f[k] = Round(tree, s, f[k - 1])
  <2>1. k - 1 \in 0 .. n
    BY <1>1
  <2>2. f[k - 1] \in P
    BY <2>1
  <2>. QED
    BY <2>2, <1>3, <1>6
<1>8. Is(f)
  <2>1. ASSUME NEW k \in 0 .. n
        PROVE  f[k] = IF k = 0 THEN Start ELSE Round(tree, s, f[k - 1])
    <3>1. k # 0 => k \in 1 .. n
      BY <1>1
    <3>. QED
      BY <3>1, <1>6, <1>7
  <2>. QED
    BY <1>6, <2>1
<1>9. Walk(tree, s) = CHOOSE g : Is(g)
  BY DEF Walk
<1>10. Is(Walk(tree, s))
  <2>. HIDE DEF Is
  <2>. QED
    BY <1>8, <1>9
<1>. DEFINE w == Walk(tree, s)
            Same == {k \in 0 .. n : w[k] = f[k]}
<1>11. /\ w[0] = Start /\ DOMAIN w = 0 .. n
       /\ \A k \in 1 .. n : w[k] = Round(tree, s, w[k - 1])
  <2>1. w = [k \in 0 .. n |-> IF k = 0 THEN Start ELSE Round(tree, s, w[k - 1])]
    BY <1>10
  <2>. HIDE DEF w
  <2>2. \A k \in 0 .. n : w[k] = IF k = 0 THEN Start ELSE Round(tree, s, w[k - 1])
    BY <2>1
  <2>3. 0 \in 0 .. n /\ \A k \in 1 .. n : k \in 0 .. n /\ k # 0
    BY <1>1
  <2>4. DOMAIN w = 0 .. n
    BY <2>1
  <2>. QED
    BY <2>2, <2>3, <2>4
<1>. HIDE DEF w
<1>12. 0 \in Same
  BY <1>1, <1>6, <1>11
<1>13. ASSUME NEW k \in 0 .. n - 1, k \in Same PROVE k + 1 \in Same
  <2>1. k + 1 \in 1 .. n /\ (k + 1) - 1 = k
    BY <1>1
  <2>. QED
    BY <2>1, <1>1, <1>7, <1>11, <1>13
<1>14. \A k \in 0 .. n : w[k] = f[k]
  <2>. HIDE DEF Same
  <2>1. \A k \in 0 .. n : k \in Same
    BY <1>1, <1>12, <1>13, Counting
  <2>. QED
    BY <2>1 DEF Same
<1>15. w \in [0 .. n -> P]
  <2>1. w = [k \in 0 .. n |-> w[k]]
    BY <1>10 DEF w
  <2>. QED
    BY <2>1, <1>6, <1>14
<1>. QED
  BY <1>11, <1>15 DEF w, P

(* What holds at the start and after every round holds at the end. *)
LEMMA AlongTheWalk ==
  ASSUME NEW tree, IsTree(tree), NEW s \in Strings, NEW K, Start \in K,
         \A at \in Places(tree, s) : at \in K => Round(tree, s, at) \in K
  PROVE  Walk(tree, s)[Len(s) + 1] \in K
<1>. DEFINE w == Walk(tree, s)
            n == Len(s) + 1
            Held == {k \in 0 .. n : w[k] \in K}
<1>1. n \in Nat /\ Len(s) \in Nat
  BY DEF Strings
<1>2. /\ w \in [0 .. n -> Places(tree, s)] /\ w[0] = Start
      /\ \A k \in 1 .. n : w[k] = Round(tree, s, w[k - 1])
  BY WalkFacts
<1>. HIDE DEF w
<1>3. 0 \in Held
  BY <1>1, <1>2
<1>4. ASSUME NEW k \in 0 .. n - 1, k \in Held PROVE k + 1 \in Held
  <2>1. k + 1 \in 1 .. n /\ (k + 1) - 1 = k /\ k \in 0 .. n
    BY <1>1
  <2>2. w[k] \in Places(tree, s) /\ w[k] \in K
    BY <2>1, <1>2, <1>4
  <2>3. Round(tree, s, w[k]) \in K
    BY <2>2
  <2>. QED
    BY <2>1, <2>3, <1>2
<1>5. n \in Held
  <2>. HIDE DEF Held
  <2>1. \A k \in 0 .. n : k \in Held
    BY <1>1, <1>3, <1>4, Counting
  <2>. QED
    BY <2>1, <1>1
<1>. QED
  BY <1>5 DEF w

(* The walk ends: at the end of the path, or at a name that no child has.   *)
LEMMA EndFacts ==
  ASSUME NEW tree, IsTree(tree), NEW s \in Strings
  PROVE  LET end == Walk(tree, s)[Len(s) + 1]
         IN  /\ end \in Places(tree, s) /\ ~end.search
             /\ end.pos <= Len(s) => s[end.pos] # Slash /\ Fit(tree, s, end.node, end.pos) = {}
<1>. DEFINE w == Walk(tree, s)
            n == Len(s) + 1
            end == w[n]
            P == Places(tree, s)
            Stop == {at \in P : ~at.search /\ at.pos <= Len(s) =>
                                  s[at.pos] # Slash /\ Fit(tree, s, at.node, at.pos) = {}}
            Far == {k \in 0 .. n : w[k].search => w[k].pos >= k + 1}
<1>1. n \in Nat /\ Len(s) \in Nat /\ Len(tree) \in Nat /\ Len(tree) >= 1
  BY DEF Strings, IsTree
<1>2. /\ w \in [0 .. n -> Places(tree, s)] /\ w[0] = Start
      /\ \A k \in 1 .. n : w[k] = Round(tree, s, w[k - 1])
  BY WalkFacts
<1>3. Start \in Stop
  BY <1>1 DEF Start, Places
<1>4. ASSUME NEW at \in P, at \in Stop PROVE Round(tree, s, at) \in Stop
  <2>1. at.pos \in 1 .. Len(s) + 1 /\ at.search \in BOOLEAN
    BY DEF Places
  <2>2. CASE ~at.search
    <3>1. Round(tree, s, at) = at
      BY <2>2, RoundFacts
    <3>. QED
      BY <3>1, <1>4
  <2>3. CASE Halts(tree, s, at)
    <3>. DEFINE p == SkipSlashes(s, at.pos)
    <3>1. p \in 1 .. Len(s) + 1 /\ (p <= Len(s) => s[p] # Slash)
      <4>. HIDE DEF p
      <4>. QED
        BY <1>1, <2>1, SkipFacts DEF p
    <3>2. Round(tree, s, at) = [node |-> at.node, pos |-> p, search |-> FALSE]
      <4>1. Round(tree, s, at) = Halt(s, at)
        BY <2>3, RoundFacts
      <4>. QED
        BY <4>1 DEF Halt
    <3>3. p > Len(s) \/ Fit(tree, s, at.node, p) = {}
      BY <2>3 DEF Halts
    <3>4. Round(tree, s, at) \in P
      BY RoundFacts
    <3>. HIDE DEF p, P
    <3>. QED
      BY <1>1, <3>1, <3>2, <3>3, <3>4
  <2>4. CASE at.search /\ ~Halts(tree, s, at)
    <3>1. Round(tree, s, at) = Onward(tree, s, at) /\ Round(tree, s, at) \in P
      BY <2>4, RoundFacts
    <3>2. Onward(tree, s, at).search
      BY DEF Onward
    <3>. HIDE DEF P
    <3>. QED
      BY <3>1, <3>2
  <2>. QED
    BY <2>1, <2>2, <2>3, <2>4
<1>5. end \in Stop
  <2>. HIDE DEF Stop
  <2>. QED
    BY <1>3, <1>4, AlongTheWalk
<1>6. 0 \in Far
  BY <1>1, <1>2 DEF Start
<1>7. ASSUME NEW k \in 0 .. n - 1, k \in Far PROVE k + 1 \in Far
  <2>. HIDE DEF w
  <2>1. k + 1 \in 1 .. n /\ (k + 1) - 1 = k /\ k \in 0 .. n
    BY <1>1
  <2>2. w[k] \in P /\ w[k + 1] = Round(tree, s, w[k])
    BY <2>1, <1>2
  <2>3. w[k].pos \in 1 .. Len(s) + 1 /\ w[k].search \in BOOLEAN
    BY <2>2 DEF Places
  <2>4. ASSUME NEW at \in P
        PROVE  Round(tree, s, at).search => at.search /\ Round(tree, s, at).pos > at.pos
    <3>1. CASE ~at.search
      <4>1. Round(tree, s, at) = at
        BY <3>1, RoundFacts
      <4>. QED
        BY <3>1, <4>1
    <3>2. CASE Halts(tree, s, at)
      <4>1. Round(tree, s, at) = Halt(s, at)
        BY <3>2, RoundFacts
      <4>2. ~Halt(s, at).search
        BY DEF Halt
      <4>. QED
        BY <4>1, <4>2
    <3>3. CASE at.search /\ ~Halts(tree, s, at)
      <4>1. Round(tree, s, at).pos > at.pos
        BY <3>3, RoundFacts
      <4>. QED
        BY <3>3, <4>1
    <3>. QED
      BY <3>1, <3>2, <3>3
  <2>5. w[k + 1].pos \in 1 .. Len(s) + 1
    <3>1. w[k + 1] \in Places(tree, s)
      BY <2>1, <1>1, <1>2
    <3>. QED
      BY <3>1 DEF Places
  <2>. QED
    BY <2>1, <2>2, <2>3, <2>4, <2>5, <1>7
<1>8. n \in Far
  <2>. HIDE DEF Far
  <2>1. \A k \in 0 .. n : k \in Far
    BY <1>1, <1>6, <1>7, Counting
  <2>. QED
    BY <2>1, <1>1
<1>9. end \in P
  BY <1>1, <1>2
<1>10. ~end.search
  <2>. HIDE DEF w
  <2>1. end.pos \in 1 .. Len(s) + 1
    BY <1>9 DEF Places
  <2>. QED
    BY <2>1, <1>1, <1>8
<1>. QED
  BY <1>5, <1>9, <1>10
-----------------------------------------------------------------------------
(* A tree that has grown                                                    *)

Extends(tree, tree2) ==
  /\ Len(tree) <= Len(tree2)
  /\ \A n \in 1 .. Len(tree) :
       /\ tree2[n].path = tree[n].path
       /\ Len(tree[n].kids) <= Len(tree2[n].kids)
       /\ \A i \in DOMAIN tree[n].kids : tree2[n].kids[i] = tree[n].kids[i]

(* A child that is added later never fits before one that was there.        *)
LEMMA SameFit ==
  ASSUME NEW tree, IsTree(tree), NEW tree2, IsTree(tree2), Extends(tree, tree2),
         NEW s \in Strings, NEW n \in 1 .. Len(tree), NEW p \in 1 .. Len(s) + 1
  PROVE  /\ Fit(tree, s, n, p) = Fit(tree2, s, n, p) \cap DOMAIN tree[n].kids
         /\ Fit(tree, s, n, p) # {} =>
              /\ Fit(tree2, s, n, p) # {}
              /\ FirstFit(tree2, s, n, p) = FirstFit(tree, s, n, p)
<1>1. /\ Len(tree) \in Nat /\ Len(tree2) \in Nat /\ n \in 1 .. Len(tree2)
  BY DEF IsTree, Extends
<1>2. /\ tree[n].kids \in Seq(Nat) /\ tree2[n].kids \in Seq(Nat)
      /\ \A i \in DOMAIN tree[n].kids : tree[n].kids[i] \in 2 .. Len(tree)
  BY <1>1, NodeFacts
<1>. DEFINE A == DOMAIN tree[n].kids
            B == DOMAIN tree2[n].kids
            F == Fit(tree, s, n, p)
            G == Fit(tree2, s, n, p)
<1>3. A \subseteq B /\ A = 1 .. Len(tree[n].kids) /\ Len(tree[n].kids) \in Nat
      /\ B = 1 .. Len(tree2[n].kids)
  BY <1>2, SMTT(30) DEF Extends
<1>4. \A i \in A : /\ tree2[n].kids[i] = tree[n].kids[i]
                   /\ tree2[tree2[n].kids[i]].path = tree[tree[n].kids[i]].path
  <2>1. ASSUME NEW i \in A
        PROVE  tree2[n].kids[i] = tree[n].kids[i] /\ tree[n].kids[i] \in 1 .. Len(tree)
    <3>1. tree[n].kids[i] \in 2 .. Len(tree)
      BY <1>2
    <3>2. tree[n].kids[i] \in 1 .. Len(tree)
      BY <1>1, <3>1
    <3>. QED
      BY <3>2 DEF Extends
  <2>. QED
    BY <2>1 DEF Extends
<1>5. F = G \cap A
  BY <1>3, <1>4 DEF Fit
<1>6. ASSUME F # {} PROVE G # {} /\ FirstFit(tree2, s, n, p) = FirstFit(tree, s, n, p)
  <2>1. G # {}
    BY <1>5, <1>6
  <2>2. PICK i \in A : /\ FirstFit(tree, s, n, p) = tree[n].kids[i] /\ i \in F
                       /\ \A j \in F : i <= j
    <3>. HIDE DEF A
    <3>. QED
      BY <1>6, FirstFitFacts DEF A
  <2>3. PICK k \in B : /\ FirstFit(tree2, s, n, p) = tree2[n].kids[k] /\ k \in G
                       /\ \A j \in G : k <= j
    BY <1>1, <2>1, FirstFitFacts
  <2>4. k <= i
    BY <1>5, <2>2, <2>3
  <2>5. k \in A
    <3>1. k \in Nat /\ k >= 1 /\ i \in Nat /\ i <= Len(tree[n].kids)
      BY <1>3
    <3>. HIDE DEF F, G, A, B
    <3>. QED
      BY <1>3, <2>4, <3>1
  <2>6. i <= k
    BY <1>5, <2>2, <2>3, <2>5
  <2>7. i = k
    BY <1>3, <2>4, <2>5, <2>6
  <2>. QED
    BY <2>1, <2>2, <2>3, <2>7, <1>4
<1>. QED
  BY <1>5, <1>6

(* Only a round that finds no child may find one in a larger tree.          *)
LEMMA SameRound ==
  ASSUME NEW tree, IsTree(tree), NEW tree2, IsTree(tree2), Extends(tree, tree2),
         NEW s \in Strings, NEW at \in Places(tree, s)
  PROVE  /\ at \in Places(tree2, s)
         /\ \/ Round(tree2, s, at) = Round(tree, s, at)
            \/ /\ at.search /\ SkipSlashes(s, at.pos) <= Len(s)
               /\ Round(tree, s, at) = Halt(s, at)
               /\ Fit(tree, s, at.node, SkipSlashes(s, at.pos)) = {}
<1>. DEFINE p == SkipSlashes(s, at.pos)
<1>1. /\ at.node \in 1 .. Len(tree) /\ at.pos \in 1 .. Len(s) + 1 /\ at.search \in BOOLEAN
      /\ Len(s) \in Nat /\ Len(tree) \in Nat /\ Len(tree2) \in Nat /\ Len(tree) <= Len(tree2)
  BY DEF Places, Strings, IsTree, Extends
<1>2. at \in Places(tree2, s)
  <2>1. at.node \in 1 .. Len(tree2)
    BY <1>1
  <2>. QED
    BY <2>1 DEF Places
<1>3. p \in 1 .. Len(s) + 1
  <2>. HIDE DEF p
  <2>1. p \in at.pos .. Len(s) + 1
    BY RoundFacts DEF p
  <2>. QED
    BY <1>1, <2>1
<1>. DEFINE F == Fit(tree, s, at.node, p)
            G == Fit(tree2, s, at.node, p)
<1>4. F # {} => G # {} /\ FirstFit(tree2, s, at.node, p) = FirstFit(tree, s, at.node, p)
  <2>. HIDE DEF p
  <2>. QED
    BY <1>1, <1>3, SameFit
<1>5. CASE ~at.search
  <2>1. Round(tree, s, at) = at /\ Round(tree2, s, at) = at
    BY <1>2, <1>5, RoundFacts
  <2>. QED
    BY <1>2, <2>1
<1>6. CASE at.search /\ p > Len(s)
  <2>1. Halts(tree, s, at) /\ Halts(tree2, s, at)
    BY <1>6 DEF Halts
  <2>2. Round(tree, s, at) = Halt(s, at) /\ Round(tree2, s, at) = Halt(s, at)
    BY <1>2, <2>1, RoundFacts
  <2>. QED
    BY <1>2, <2>2
<1>7. CASE at.search /\ p <= Len(s) /\ F = {}
  <2>1. Halts(tree, s, at)
    BY <1>7 DEF Halts
  <2>2. Round(tree, s, at) = Halt(s, at)
    BY <2>1, RoundFacts
  <2>. QED
    BY <1>2, <1>7, <2>2
<1>8. CASE at.search /\ p <= Len(s) /\ F # {}
  <2>. DEFINE kid == FirstFit(tree, s, at.node, p)
  <2>1. ~Halts(tree, s, at) /\ ~Halts(tree2, s, at)
    <3>. HIDE DEF p
    <3>. QED
      BY <1>1, <1>3, <1>4, <1>8 DEF Halts, p
  <2>2. Round(tree, s, at) = Onward(tree, s, at) /\ Round(tree2, s, at) = Onward(tree2, s, at)
    BY <1>2, <1>8, <2>1, RoundFacts
  <2>3. kid \in 1 .. Len(tree)
    <3>1. kid \in 2 .. Len(tree)
      <4>. HIDE DEF p
      <4>. QED
        BY <1>1, <1>3, <1>8, FirstFitFacts
    <3>. QED
      BY <3>1, <1>1
  <2>4. tree2[kid].path = tree[kid].path
    <3>. HIDE DEF kid
    <3>. QED
      BY <2>3 DEF Extends
  <2>5. Onward(tree2, s, at) = Onward(tree, s, at)
    BY <1>4, <1>8, <2>4 DEF Onward
  <2>. QED
    BY <1>2, <2>2, <2>5
<1>9. p > Len(s) \/ p <= Len(s)
  <2>. HIDE DEF p
  <2>. QED
    BY <1>1, <1>3
<1>. QED
  BY <1>1, <1>5, <1>6, <1>7, <1>8, <1>9

(* A path that was found is found at the same node in a tree that has grown. *)
LEMMA SameNode ==
  ASSUME NEW tree, IsTree(tree), NEW tree2, IsTree(tree2), Extends(tree, tree2),
         NEW s \in Strings, Resolve(tree, s).rest = <<>>
  PROVE  Resolve(tree2, s) = Resolve(tree, s) /\ Resolve(tree, s).node \in 1 .. Len(tree)
<1>. DEFINE w == Walk(tree, s)
            v == Walk(tree2, s)
            n == Len(s) + 1
            K == {k \in 0 .. n : v[k] = w[k] \/ (~w[k].search /\ w[k].pos <= Len(s))}
<1>1. n \in Nat /\ Len(s) \in Nat
  BY DEF Strings
<1>2. /\ w \in [0 .. n -> Places(tree, s)] /\ w[0] = Start
      /\ \A k \in 1 .. n : w[k] = Round(tree, s, w[k - 1])
  BY WalkFacts
<1>3. /\ v \in [0 .. n -> Places(tree2, s)] /\ v[0] = Start
      /\ \A k \in 1 .. n : v[k] = Round(tree2, s, v[k - 1])
  BY WalkFacts
<1>4. w[n].pos = Len(s) + 1 /\ w[n].node \in 1 .. Len(tree)
  <2>1. w[n] \in Places(tree, s)
    BY <1>1, <1>2
  <2>2. From(s, w[n].pos) = <<>>
    BY DEF Resolve
  <2>. HIDE DEF w
  <2>3. w[n].pos \in 1 .. Len(s) + 1 /\ w[n].node \in 1 .. Len(tree)
    BY <2>1 DEF Places
  <2>. QED
    BY <2>2, <2>3, FromFacts DEF Strings
<1>. HIDE DEF w, v
<1>5. 0 \in K
  BY <1>1, <1>2, <1>3
<1>6. ASSUME NEW k \in 0 .. n - 1, k \in K PROVE k + 1 \in K
  <2>1. k + 1 \in 0 .. n /\ k + 1 \in 1 .. n /\ (k + 1) - 1 = k /\ k \in 0 .. n
    BY <1>1
  <2>. DEFINE at == w[k]
  <2>2. at \in Places(tree, s) /\ w[k + 1] = Round(tree, s, at)
    BY <2>1, <1>2
  <2>3. CASE v[k] = at
    <3>1. v[k + 1] = Round(tree2, s, at)
      BY <2>1, <2>3, <1>3
    <3>. HIDE DEF at
    <3>2. CASE Round(tree2, s, at) = Round(tree, s, at)
      BY <2>1, <2>2, <3>1, <3>2
    <3>3. CASE SkipSlashes(s, at.pos) <= Len(s) /\ Round(tree, s, at) = Halt(s, at)
      <4>1. ~w[k + 1].search /\ w[k + 1].pos <= Len(s)
        BY <2>2, <3>3 DEF Halt
      <4>. QED
        BY <2>1, <4>1
    <3>. QED
      BY <2>2, <3>2, <3>3, SameRound
  <2>4. CASE ~at.search /\ at.pos <= Len(s)
    <3>. HIDE DEF at
    <3>1. w[k + 1] = at
      BY <2>2, <2>4, RoundFacts
    <3>. QED
      BY <2>1, <2>4, <3>1
  <2>. QED
    BY <1>6, <2>3, <2>4
<1>7. n \in K
  <2>. HIDE DEF K
  <2>1. \A k \in 0 .. n : k \in K
    BY <1>1, <1>5, <1>6, Counting
  <2>. QED
    BY <2>1, <1>1
<1>8. v[n] = w[n]
  BY <1>1, <1>4, <1>7
<1>. QED
  BY <1>4, <1>8 DEF Resolve, w, v

(* A path that ends at a name no child has is found at the child that is    *)
(* made for the rest of it.                                                 *)
LEMMA NewNode ==
  ASSUME NEW tree, IsTree(tree), NEW tree2, IsTree(tree2), Extends(tree, tree2),
         NEW s \in Strings, NEW new \in 1 .. Len(tree2), Resolve(tree, s).rest # <<>>,
         tree2[Resolve(tree, s).node].kids = Append(tree[Resolve(tree, s).node].kids, new),
         tree2[new].path = Resolve(tree, s).rest
  PROVE  Resolve(tree2, s) = [node |-> new, rest |-> <<>>]
<1>. DEFINE w == Walk(tree, s)
            v == Walk(tree2, s)
            n == Len(s) + 1
            end == w[n]
            K == {k \in 0 .. n : \/ v[k] = w[k] /\ w[k].search
                                 \/ w[k] = end /\ v[k].node = new /\ v[k].pos = Len(s) + 1
                                 \/ ~w[k].search /\ w[k] # end}
<1>1. n \in Nat /\ Len(s) \in Nat /\ s \in Seq(Chars)
  BY DEF Strings
<1>2. /\ w \in [0 .. n -> Places(tree, s)] /\ w[0] = Start
      /\ \A k \in 1 .. n : w[k] = Round(tree, s, w[k - 1])
  BY WalkFacts
<1>3. /\ v \in [0 .. n -> Places(tree2, s)] /\ v[0] = Start
      /\ \A k \in 1 .. n : v[k] = Round(tree2, s, v[k - 1])
  BY WalkFacts
<1>4. /\ end \in Places(tree, s) /\ ~end.search
      /\ end.pos <= Len(s) => s[end.pos] # Slash /\ Fit(tree, s, end.node, end.pos) = {}
  BY EndFacts
<1>5. /\ Resolve(tree, s).node = end.node /\ Resolve(tree, s).rest = From(s, end.pos)
  BY DEF Resolve
<1>. HIDE DEF w, v
<1>6. end.pos \in 1 .. Len(s) + 1 /\ end.node \in 1 .. Len(tree)
  BY <1>4 DEF Places
<1>7. end.pos <= Len(s)
  BY <1>1, <1>5, <1>6, FromFacts
<1>8. 0 \in K
  <2>1. v[0] = w[0] /\ w[0].search /\ 0 \in 0 .. n
    BY <1>1, <1>2, <1>3 DEF Start
  <2>. QED
    BY <2>1
<1>9. ASSUME NEW k \in 0 .. n - 1, k \in K PROVE k + 1 \in K
  <2>1. k + 1 \in 0 .. n /\ k + 1 \in 1 .. n /\ (k + 1) - 1 = k /\ k \in 0 .. n
    BY <1>1
  <2>. DEFINE at == w[k]
              to == v[k]
  <2>2. at \in Places(tree, s) /\ w[k + 1] = Round(tree, s, at)
    BY <2>1, <1>2
  <2>3. to \in Places(tree2, s) /\ v[k + 1] = Round(tree2, s, to)
    BY <2>1, <1>3
  <2>. HIDE DEF at, to
  <2>4. CASE to = at /\ at.search
    <3>. DEFINE p == SkipSlashes(s, at.pos)
    <3>1. p \in 1 .. Len(s) + 1
      <4>1. p \in at.pos .. Len(s) + 1 /\ at.pos \in 1 .. Len(s) + 1
        <5>. HIDE DEF p
        <5>1. p \in at.pos .. Len(s) + 1
          BY <2>2, RoundFacts DEF p
        <5>. QED
          BY <5>1, <2>2 DEF Places
      <4>. HIDE DEF p
      <4>. QED
        BY <4>1, <1>1
    <3>2. CASE ~Halts(tree, s, at)
      <4>1. w[k + 1] = Onward(tree, s, at)
        BY <2>2, <2>4, <3>2, RoundFacts
      <4>2. w[k + 1].search
        BY <4>1 DEF Onward
      <4>3. Round(tree, s, at) # Halt(s, at)
        BY <2>2, <4>2 DEF Halt
      <4>4. Round(tree2, s, at) = Round(tree, s, at)
        BY <2>2, <4>3, SameRound
      <4>5. v[k + 1] = w[k + 1]
        BY <2>2, <2>3, <2>4, <4>4
      <4>. QED
        BY <2>1, <4>2, <4>5
    <3>3. CASE Halts(tree, s, at) /\ Halt(s, at) # end
      <4>1. w[k + 1] = Halt(s, at)
        BY <2>2, <3>3, RoundFacts
      <4>2. ~w[k + 1].search /\ w[k + 1] # end
        BY <3>3, <4>1 DEF Halt
      <4>. QED
        BY <2>1, <4>2
    <3>4. CASE Halts(tree, s, at) /\ Halt(s, at) = end
      <4>1. w[k + 1] = end
        BY <2>2, <3>4, RoundFacts
      <4>2. end.node = at.node /\ end.pos = p
        BY <3>4 DEF Halt
      <4>. DEFINE F == Fit(tree, s, at.node, p)
                  G == Fit(tree2, s, at.node, p)
                  kids == tree[at.node].kids
                  more == tree2[at.node].kids
      <4>3. at.node \in 1 .. Len(tree) /\ kids \in Seq(Nat)
        <5>1. at.node \in 1 .. Len(tree)
          BY <2>2 DEF Places
        <5>. QED
          BY <5>1, NodeFacts
      <4>4. /\ more = Append(kids, new) /\ Len(more) = Len(kids) + 1 /\ more[Len(kids) + 1] = new
            /\ Len(kids) \in Nat /\ more \in Seq(Nat)
        <5>1. more = Append(kids, new)
          BY <1>5, <4>2
        <5>2. Len(tree2) \in Nat
          BY DEF IsTree
        <5>. HIDE DEF more, kids
        <5>. QED
          BY <4>3, <5>1, <5>2
      <4>5. F = {} /\ F = G \cap DOMAIN kids
        <5>1. F = {}
          BY <1>4, <1>7, <4>2
        <5>2. F = G \cap DOMAIN kids
          <6>. HIDE DEF p
          <6>. QED
            BY <3>1, <4>3, SameFit
        <5>. QED
          BY <5>1, <5>2
      <4>6. Len(kids) + 1 \in G
        <5>1. tree2[more[Len(kids) + 1]].path = From(s, p)
          BY <1>5, <4>2, <4>4
        <5>2. From(s, p) \in Seq(Chars)
          <6>. HIDE DEF p
          <6>. QED
            BY <1>1, <3>1, FromFacts
        <5>3. Matches(From(s, p), From(s, p))
          <6>. DEFINE r == From(s, p)
          <6>. HIDE DEF r
          <6>. QED
            BY <5>2 DEF Matches, IsPrefix, r
        <5>4. Len(kids) + 1 \in DOMAIN more
          <6>. HIDE DEF more, kids
          <6>. QED
            BY <4>4
        <5>. QED
          BY <5>1, <5>3, <5>4 DEF Fit
      <4>7. G # {} /\ \A i \in G : i = Len(kids) + 1
        <5>1. G \subseteq DOMAIN more
          BY DEF Fit
        <5>. HIDE DEF G, more, kids
        <5>. QED
          BY <4>4, <4>5, <4>6, <4>3, <5>1
      <4>8. FirstFit(tree2, s, at.node, p) = new
        <5>1. FirstFit(tree2, s, at.node, p) = more[CHOOSE i \in G : \A j \in G : i <= j]
          BY DEF FirstFit
        <5>2. (CHOOSE i \in G : \A j \in G : i <= j) = Len(kids) + 1
          <6>. HIDE DEF G, kids
          <6>. QED
            BY <4>4, <4>6, <4>7
        <5>. QED
          BY <4>4, <5>1, <5>2
      <4>9. ~Halts(tree2, s, at) /\ at \in Places(tree2, s)
        <5>1. at \in Places(tree2, s)
          BY <2>3, <2>4
        <5>. HIDE DEF p
        <5>. QED
          BY <1>1, <1>7, <3>1, <4>2, <4>7, <5>1 DEF Halts, p
      <4>10. v[k + 1] = Onward(tree2, s, at)
        BY <2>3, <2>4, <4>9, RoundFacts
      <4>11. Onward(tree2, s, at).node = new /\ Onward(tree2, s, at).pos = p + Len(tree2[new].path)
        BY <4>8 DEF Onward
      <4>12. Len(tree2[new].path) = Len(s) - p + 1
        <5>. HIDE DEF p
        <5>. QED
          BY <1>1, <1>5, <3>1, <4>2, FromFacts
      <4>13. p + Len(tree2[new].path) = Len(s) + 1
        <5>. HIDE DEF p
        <5>. QED
          BY <1>1, <3>1, <4>12
      <4>. QED
        BY <2>1, <4>1, <4>10, <4>11, <4>13
    <3>. QED
      BY <3>2, <3>3, <3>4
  <2>5. CASE at = end /\ to.node = new /\ to.pos = Len(s) + 1
    <3>1. w[k + 1] = end
      BY <1>4, <2>2, <2>5, RoundFacts
    <3>2. SkipSlashes(s, to.pos) = Len(s) + 1
      <4>. DEFINE p == SkipSlashes(s, to.pos)
      <4>1. p \in to.pos .. Len(s) + 1
        BY <2>3, RoundFacts
      <4>. HIDE DEF p
      <4>2. p = Len(s) + 1
        BY <1>1, <2>5, <4>1
      <4>. QED
        BY <4>2 DEF p
    <3>3. v[k + 1].node = new /\ v[k + 1].pos = Len(s) + 1
      <4>1. CASE ~to.search
        <5>1. v[k + 1] = to
          BY <2>3, <4>1, RoundFacts
        <5>. QED
          BY <2>5, <5>1
      <4>2. CASE to.search
        <5>1. Halts(tree2, s, to)
          BY <1>1, <3>2, <4>2 DEF Halts
        <5>2. v[k + 1] = Halt(s, to)
          BY <2>3, <5>1, RoundFacts
        <5>. QED
          BY <2>5, <3>2, <5>2 DEF Halt
      <4>. QED
        BY <4>1, <4>2
    <3>. QED
      BY <2>1, <3>1, <3>3
  <2>6. CASE ~at.search /\ at # end
    <3>1. w[k + 1] = at
      BY <2>2, <2>6, RoundFacts
    <3>. QED
      BY <2>1, <2>6, <3>1
  <2>. QED
    BY <1>9, <2>4, <2>5, <2>6 DEF at, to
<1>10. n \in K
  <2>. HIDE DEF K
  <2>1. \A k \in 0 .. n : k \in K
    BY <1>1, <1>8, <1>9, Counting
  <2>. QED
    BY <2>1, <1>1
<1>11. v[n].node = new /\ v[n].pos = Len(s) + 1
  BY <1>4, <1>10
<1>12. From(s, Len(s) + 1) = <<>>
  BY <1>1, FromFacts
<1>. QED
  BY <1>11, <1>12 DEF Resolve, v
-----------------------------------------------------------------------------
(* The names of a path                                                      *)

(* The names are put together one by one, from left to right.               *)
LEMMA NamesFromFacts ==
  ASSUME NEW r \in Strings
  PROVE  /\ NamesFrom(r) \in [0 .. Len(r) -> Seq(Strings)]
         /\ NamesFrom(r)[0] = <<>>
         /\ \A k \in 1 .. Len(r) :
              NamesFrom(r)[k] = IF StartsName(r, k) THEN Append(NamesFrom(r)[k - 1], From(r, k))
                                ELSE NamesFrom(r)[k - 1]
<1>. DEFINE n == Len(r)
            P == Seq(Strings)
            Added(k, y) == IF StartsName(r, k) THEN Append(y, From(r, k)) ELSE y
            h == [k \in 1 .. n |-> [y \in P |-> Added(k, y)]]
            Is(f) == f = [k \in 0 .. n |-> IF k = 0 THEN <<>> ELSE Added(k, f[k - 1])]
            w == NamesFrom(r)
            Held == {k \in 0 .. n : w[k] \in P}
<1>1. n \in Nat /\ r \in Seq(Chars)
  BY DEF Strings
<1>2. <<>> \in P
  OBVIOUS
<1>3. ASSUME NEW k \in 1 .. n, NEW y \in P PROVE Added(k, y) \in P
  <2>1. k \in 1 .. Len(r) + 1
    BY <1>1
  <2>2. From(r, k) \in Strings
    BY <1>1, <2>1, FromFacts DEF Strings
  <2>. QED
    BY <2>2
<1>4. PICK f : Steps(f, n, P, <<>>, h)
  <2>1. h \in [1 .. n -> [P -> P]]
    <3>. HIDE DEF P, Added
    <3>. QED
      BY <1>3
  <2>. HIDE DEF h, P, n
  <2>. QED
    BY <1>1, <1>2, <2>1, Iterated
<1>5. Is(f)
  <2>. HIDE DEF P, Added
  <2>1. ASSUME NEW k \in 0 .. n PROVE f[k] = IF k = 0 THEN <<>> ELSE Added(k, f[k - 1])
    <3>1. CASE k = 0
      BY <3>1, <1>4 DEF Steps
    <3>2. CASE k # 0
      <4>1. k \in 1 .. n /\ k - 1 \in 0 .. n
        BY <1>1, <3>2
      <4>2. f[k - 1] \in P /\ f[k] = h[k][f[k - 1]]
        BY <4>1, <1>4 DEF Steps
      <4>. QED
        BY <3>2, <4>1, <4>2
    <3>. QED
      BY <3>1, <3>2
  <2>. HIDE DEF h
  <2>. QED
    BY <2>1, <1>4 DEF Steps
<1>6. w = CHOOSE g : Is(g)
  BY DEF NamesFrom
<1>7. Is(w)
  <2>. HIDE DEF Is, w
  <2>. QED
    BY <1>5, <1>6
<1>8. /\ DOMAIN w = 0 .. n /\ w[0] = <<>>
      /\ \A k \in 1 .. n : w[k] = Added(k, w[k - 1])
  <2>. HIDE DEF Added, w
  <2>1. \A k \in 0 .. n : w[k] = IF k = 0 THEN <<>> ELSE Added(k, w[k - 1])
    BY <1>7
  <2>2. 0 \in 0 .. n /\ \A k \in 1 .. n : k \in 0 .. n /\ k # 0
    BY <1>1
  <2>3. DOMAIN w = 0 .. n
    BY <1>7
  <2>. QED
    BY <2>1, <2>2, <2>3
<1>9. \A k \in 0 .. n : k \in Held
  <2>. HIDE DEF P, w, Added
  <2>1. 0 \in Held
    BY <1>1, <1>2, <1>8
  <2>2. ASSUME NEW k \in 0 .. n - 1, k \in Held PROVE k + 1 \in Held
    <3>1. k + 1 \in 1 .. n /\ (k + 1) - 1 = k
      BY <1>1
    <3>. QED
      BY <3>1, <2>2, <1>3, <1>8
  <2>. HIDE DEF Held
  <2>. QED
    BY <1>1, <2>1, <2>2, Counting
<1>10. w \in [0 .. n -> P]
  <2>1. w = [k \in 0 .. n |-> IF k = 0 THEN <<>> ELSE Added(k, w[k - 1])]
    BY <1>7
  <2>. HIDE DEF w, Added
  <2>2. w = [k \in 0 .. n |-> w[k]]
    BY <2>1
  <2>. QED
    BY <2>2, <1>9
<1>. QED
  BY <1>8, <1>10

(* Nothing that is left of a path is no name.                               *)
LEMMA NoNames == NamesOf(<<>>) = <<>>
<1>1. <<>> \in Strings /\ Len(<<>>) = 0
  BY DEF Strings
<1>2. NamesFrom(<<>>)[0] = <<>>
  BY <1>1, NamesFromFacts
<1>. QED
  BY <1>1, <1>2 DEF NamesOf

(* The first of the nodes made for the rest of a path is called by all of   *)
(* it, and is the only one if no slash is left.                             *)
LEMMA NamesFacts ==
  ASSUME NEW r \in Strings, r # <<>>, r[1] # Slash
  PROVE  /\ NamesOf(r) \in Seq(Strings) /\ NamesOf(r) # <<>> /\ NamesOf(r)[1] = r
         /\ \A i \in DOMAIN NamesOf(r) : NamesOf(r)[i] # <<>> /\ NamesOf(r)[i][1] # Slash
         /\ Slash \notin Range(r) => NamesOf(r) = <<r>>
<1>. DEFINE w == NamesFrom(r)
            n == Len(r)
            Good(x) == /\ x # <<>> /\ x[1] = r
                       /\ \A i \in DOMAIN x : x[i] # <<>> /\ x[i][1] # Slash
                       /\ Slash \notin Range(r) => x = <<r>>
            K == {k \in 0 .. n : k = 0 \/ Good(w[k])}
<1>1. n \in Nat /\ n >= 1 /\ r \in Seq(Chars)
  BY DEF Strings
<1>2. /\ w \in [0 .. n -> Seq(Strings)] /\ w[0] = <<>>
      /\ \A k \in 1 .. n : w[k] = IF StartsName(r, k) THEN Append(w[k - 1], From(r, k)) ELSE w[k - 1]
  BY NamesFromFacts
<1>. HIDE DEF w
<1>3. 0 \in K
  BY <1>1
<1>4. ASSUME NEW k \in 0 .. n - 1, k \in K PROVE k + 1 \in K
  <2>1. k + 1 \in 1 .. n /\ (k + 1) - 1 = k /\ k \in 0 .. n /\ k + 1 \in 0 .. n
        /\ k + 1 \in 1 .. Len(r) + 1
    BY <1>1
  <2>. DEFINE x == w[k]
              y == From(r, k + 1)
  <2>2. x \in Seq(Strings)
    BY <2>1, <1>2
  <2>3. w[k + 1] = IF StartsName(r, k + 1) THEN Append(x, y) ELSE x
    BY <2>1, <1>2
  <2>4. y \in Strings /\ y # <<>> /\ y[1] = r[k + 1]
    <3>1. y \in Seq(Chars) /\ (y = <<>> <=> k + 1 = Len(r) + 1)
          /\ \A i \in 1 .. Len(r) - (k + 1) + 1 : y[i] = r[(k + 1) + i - 1]
      BY <1>1, <2>1, FromFacts
    <3>2. 1 \in 1 .. Len(r) - (k + 1) + 1 /\ (k + 1) + 1 - 1 = k + 1 /\ k + 1 # Len(r) + 1
      BY <1>1, <2>1
    <3>. HIDE DEF y
    <3>. QED
      BY <3>1, <3>2 DEF Strings
  <2>5. CASE k = 0
    <3>1. StartsName(r, k + 1) /\ x = <<>>
      BY <2>5, <1>2 DEF StartsName
    <3>2. y = r
      <4>1. Len(y) = Len(r) /\ \A i \in 1 .. Len(r) : y[i] = r[i]
        <5>1. /\ Len(y) = Len(r) - (k + 1) + 1
              /\ \A i \in 1 .. Len(r) - (k + 1) + 1 : y[i] = r[(k + 1) + i - 1]
          BY <1>1, <2>1, FromFacts
        <5>2. Len(r) - (k + 1) + 1 = Len(r) /\ \A i \in 1 .. Len(r) : (k + 1) + i - 1 = i
          BY <2>5, <1>1
        <5>. HIDE DEF y
        <5>. QED
          BY <5>1, <5>2
      <4>. HIDE DEF y
      <4>. QED
        BY <1>1, <2>4, <4>1 DEF Strings
    <3>3. w[k + 1] = <<r>>
      <4>. HIDE DEF y, x
      <4>. QED
        BY <2>3, <3>1, <3>2
    <3>4. Good(w[k + 1])
      BY <3>3
    <3>. HIDE DEF Good
    <3>. QED
      BY <3>4, <2>1
  <2>6. CASE k # 0 /\ StartsName(r, k + 1)
    <3>1. Good(x)
      BY <2>6, <1>4
    <3>. HIDE DEF x, y
    <3>2. w[k + 1] = Append(x, y) /\ r[k + 1] # Slash
      BY <2>3, <2>6 DEF StartsName
    <3>3. Slash \in Range(r)
      <4>1. r[(k + 1) - 1] = Slash /\ (k + 1) - 1 \in DOMAIN r
        BY <2>1, <2>6, <1>1 DEF StartsName
      <4>. QED
        BY <4>1 DEF Range
    <3>4. Append(x, y) # <<>> /\ Append(x, y)[1] = x[1]
          /\ \A i \in DOMAIN Append(x, y) : (i \in DOMAIN x /\ Append(x, y)[i] = x[i]) \/ Append(x, y)[i] = y
      <4>1. Len(x) >= 1 /\ Len(x) \in Nat
        BY <2>2, <3>1
      <4>2. Len(Append(x, y)) = Len(x) + 1
        BY <2>2, <2>4
      <4>3. \A i \in 1 .. Len(x) : Append(x, y)[i] = x[i]
        BY <2>2, <2>4
      <4>4. Append(x, y)[Len(x) + 1] = y
        BY <2>2, <2>4
      <4>5. DOMAIN Append(x, y) = 1 .. Len(x) + 1 /\ DOMAIN x = 1 .. Len(x)
        BY <2>2, <2>4, <4>2
      <4>6. \A i \in 1 .. Len(x) + 1 : i \in 1 .. Len(x) \/ i = Len(x) + 1
        BY <4>1
      <4>7. Append(x, y) # <<>>
        BY <2>2, <2>4, <4>1, <4>2
      <4>. QED
        BY <4>1, <4>3, <4>4, <4>5, <4>6, <4>7
    <3>5. Good(w[k + 1])
      BY <2>4, <3>1, <3>2, <3>3, <3>4
    <3>. HIDE DEF Good
    <3>. QED
      BY <3>5, <2>1
  <2>7. CASE k # 0 /\ ~StartsName(r, k + 1)
    <3>1. Good(x) /\ w[k + 1] = x
      BY <2>3, <2>7, <1>4
    <3>. HIDE DEF Good, x
    <3>. QED
      BY <3>1, <2>1
  <2>. QED
    BY <2>5, <2>6, <2>7
<1>5. Good(w[n])
  <2>. HIDE DEF K
  <2>1. \A k \in 0 .. n : k \in K
    BY <1>1, <1>3, <1>4, Counting
  <2>2. n \in K /\ n # 0
    BY <1>1, <2>1
  <2>. QED
    BY <2>2 DEF K
<1>6. NamesOf(r) = w[n] /\ w[n] \in Seq(Strings)
  BY <1>1, <1>2 DEF NamesOf, w
<1>. QED
  BY <1>5, <1>6
-----------------------------------------------------------------------------
(* The tree that http_register_method leaves                                *)

(* A node that is made has the name it is given and no handler.             *)
LEMMA NodeMade ==
  ASSUME NEW p \in Strings, NEW k \in Seq(Nat), NEW s \in [Types -> Slot]
  PROVE  [path |-> p, slots |-> s, kids |-> k] \in Node
BY DEF Node

(* What a slot may hold, as a node is made and as a handler is set.         *)
LEMMA SlotFacts ==
  /\ NewSlots \in [Types -> Slot]
  /\ \A t \in Types : NewSlots[t].is # "set"
  /\ \A p \in Strings : Handler(p) \in Slot
<1>1. <<>> \in Strings
  BY DEF Strings
<1>2. Null \in Slot /\ Junk \in Slot
  BY <1>1 DEF Null, Junk, Slot
<1>3. \A t \in Types : NewSlots[t] \in {Null, Junk}
  BY DEF NewSlots
<1>4. NewSlots \in [Types -> Slot]
  BY <1>2 DEF NewSlots
<1>5. \A t \in Types : NewSlots[t].is # "set"
  BY <1>3 DEF Null, Junk
<1>6. \A p \in Strings : Handler(p) \in Slot
  BY DEF Handler, Slot
<1>. QED
  BY <1>4, <1>5, <1>6

(* The nodes that are made follow those that are there: the first becomes   *)
(* the last child of the node the path leads to, each other the only child  *)
(* of the one before.                                                       *)
LEMMA GrownFacts ==
  ASSUME IsTree(nodes), NEW at \in 1 .. Len(nodes), NEW names \in Seq(Strings),
         \A i \in DOMAIN names : names[i] # <<>> /\ names[i][1] # Slash
  PROVE  /\ IsTree(Grown(at, names)) /\ Extends(nodes, Grown(at, names))
         /\ Len(Grown(at, names)) = Len(nodes) + Len(names)
         /\ \A n \in 1 .. Len(nodes) :
              /\ Grown(at, names)[n].path = nodes[n].path
              /\ Grown(at, names)[n].slots = nodes[n].slots
              /\ Grown(at, names)[n].kids = IF n = at /\ names # <<>>
                                            THEN Append(nodes[n].kids, Len(nodes) + 1)
                                            ELSE nodes[n].kids
         /\ \A k \in 1 .. Len(names) :
              /\ Grown(at, names)[Len(nodes) + k].path = names[k]
              /\ Grown(at, names)[Len(nodes) + k].slots = NewSlots
              /\ Grown(at, names)[Len(nodes) + k].kids =
                   IF k < Len(names) THEN <<Len(nodes) + k + 1>> ELSE <<>>
<1>. DEFINE old   == Len(nodes)
            grown == Grown(at, names)
            kids(k) == IF k < Len(names) THEN <<old + k + 1>> ELSE <<>>
            node(k) == [path |-> names[k], slots |-> NewSlots, kids |-> kids(k)]
            new   == [k \in DOMAIN names |-> node(k)]
            more  == Append(nodes[at].kids, old + 1)
            root  == IF names = <<>> THEN nodes ELSE [nodes EXCEPT ![at].kids = Append(@, old + 1)]
<1>1. old \in Nat /\ old >= 1 /\ Len(names) \in Nat /\ nodes \in Seq(Node)
      /\ DOMAIN nodes = 1 .. old /\ DOMAIN names = 1 .. Len(names)
  BY DEF IsTree
<1>2. grown = root \o new
  BY DEF Grown
<1>3. ASSUME NEW n \in 1 .. old
      PROVE  /\ nodes[n] \in Node /\ nodes[n].path \in Strings /\ nodes[n].kids \in Seq(Nat)
             /\ nodes[n].slots \in [Types -> Slot]
             /\ nodes[n] = [path |-> nodes[n].path, kids |-> nodes[n].kids, slots |-> nodes[n].slots]
  <2>1. nodes[n] \in Node
    BY NodeFacts
  <2>. QED
    BY <2>1, NodeFacts DEF Node
<1>4. more \in Seq(Nat)
  <2>1. nodes[at].kids \in Seq(Nat) /\ old + 1 \in Nat
    BY <1>1, <1>3
  <2>. QED
    BY <2>1
<1>5. /\ root \in Seq(Node) /\ Len(root) = old
      /\ \A n \in 1 .. old : /\ root[n].path = nodes[n].path /\ root[n].slots = nodes[n].slots
                             /\ root[n].kids = IF n = at /\ names # <<>> THEN more ELSE nodes[n].kids
  <2>1. CASE names = <<>>
    BY <2>1, <1>1
  <2>2. CASE names # <<>>
    <3>. DEFINE it == [nodes[at] EXCEPT !.kids = Append(@, old + 1)]
    <3>1. root = [nodes EXCEPT ![at] = it]
      BY <2>2
    <3>2. it.path = nodes[at].path /\ it.slots = nodes[at].slots /\ it.kids = more
          /\ it = [path |-> nodes[at].path, kids |-> more, slots |-> nodes[at].slots]
      <4>. DEFINE a == nodes[at].path
                  b == nodes[at].kids
                  c == nodes[at].slots
      <4>1. nodes[at] = [path |-> a, kids |-> b, slots |-> c]
        BY <1>3
      <4>2. it = [[path |-> a, kids |-> b, slots |-> c] EXCEPT !.kids = more]
        BY <4>1
      <4>. HIDE DEF a, b, c, it, more
      <4>3. it = [path |-> a, kids |-> more, slots |-> c]
        BY <4>2
      <4>4. it.path = a /\ it.slots = c /\ it.kids = more
        BY <4>3
      <4>. QED
        BY <4>3, <4>4 DEF a, c
    <3>3. it \in Node
      <4>1. nodes[at].path \in Strings /\ nodes[at].slots \in [Types -> Slot]
        BY <1>3
      <4>. HIDE DEF it, more
      <4>. QED
        BY <4>1, <1>4, <3>2 DEF Node
    <3>. HIDE DEF it, root, more
    <3>4. root \in [1 .. old -> Node]
      BY <1>1, <1>3, <3>1, <3>3
    <3>5. root \in Seq(Node) /\ Len(root) = old
      BY <1>1, <3>4
    <3>6. \A n \in 1 .. old : root[n] = IF n = at THEN it ELSE nodes[n]
      BY <1>1, <3>1
    <3>. QED
      BY <2>2, <3>2, <3>5, <3>6
  <2>. QED
    BY <2>1, <2>2
<1>6. ASSUME NEW k \in 1 .. Len(names)
      PROVE  /\ node(k) \in Node
             /\ \A i \in DOMAIN kids(k) : kids(k)[i] \in 2 .. old + Len(names)
  <2>1. names[k] \in Strings
    OBVIOUS
  <2>2. kids(k) \in Seq(Nat) /\ \A i \in DOMAIN kids(k) : kids(k)[i] \in 2 .. old + Len(names)
    <3>1. CASE k < Len(names)
      <4>1. old + k + 1 \in Nat /\ old + k + 1 \in 2 .. old + Len(names)
        BY <1>1, <3>1
      <4>. QED
        BY <3>1, <4>1
    <3>2. CASE ~(k < Len(names))
      BY <3>2
    <3>. QED
      BY <3>1, <3>2
  <2>. HIDE DEF kids
  <2>3. node(k) \in Node
    BY <2>1, <2>2, SlotFacts, NodeMade
  <2>. QED
    BY <2>2, <2>3
<1>7. new \in Seq(Node) /\ Len(new) = Len(names) /\ \A k \in 1 .. Len(names) : new[k] = node(k)
  <2>. HIDE DEF node
  <2>1. new \in [1 .. Len(names) -> Node]
    BY <1>1, <1>6
  <2>. QED
    BY <1>1, <2>1
<1>8. /\ grown \in Seq(Node) /\ Len(grown) = old + Len(names)
      /\ \A n \in 1 .. old : grown[n] = root[n]
      /\ \A k \in 1 .. Len(names) : grown[old + k] = node(k)
  <2>. HIDE DEF root, new, grown, node
  <2>1. grown \in Seq(Node) /\ Len(grown) = old + Len(names)
    <3>1. root \in Seq(Node) /\ new \in Seq(Node)
      BY <1>5, <1>7
    <3>2. Len(root) = old /\ Len(new) = Len(names)
      BY <1>5, <1>7
    <3>3. root \o new \in Seq(Node)
      BY <3>1
    <3>4. Len(root \o new) = Len(root) + Len(new)
      BY <3>1
    <3>. QED
      BY <1>2, <3>2, <3>3, <3>4
  <2>2. \A n \in 1 .. old : grown[n] = root[n]
    BY <1>1, <1>2, <1>5, <1>7
  <2>3. ASSUME NEW k \in 1 .. Len(names) PROVE grown[old + k] = new[k]
    <3>1. old + k > old /\ old + k <= old + Len(names) /\ (old + k) - old = k /\ old + k \in Nat
      BY <1>1
    <3>. QED
      BY <1>1, <1>2, <1>5, <1>7, <3>1
  <2>. QED
    BY <2>1, <2>2, <2>3, <1>7
<1>9. \A n \in 1 .. old : /\ grown[n].path = nodes[n].path /\ grown[n].slots = nodes[n].slots
                          /\ grown[n].kids = IF n = at /\ names # <<>> THEN more ELSE nodes[n].kids
  <2>. HIDE DEF root, grown, more
  <2>. QED
    BY <1>5, <1>8
<1>10. ASSUME NEW k \in 1 .. Len(names)
       PROVE  /\ grown[old + k].path = names[k]
              /\ grown[old + k].slots = NewSlots
              /\ grown[old + k].kids = kids(k)
  <2>. HIDE DEF grown, kids
  <2>1. grown[old + k] = [path |-> names[k], slots |-> NewSlots, kids |-> kids(k)]
    BY <1>8
  <2>. QED
    BY <2>1
<1>11. \A n \in 1 .. old + Len(names) : n \in 1 .. old \/ \E k \in 1 .. Len(names) : n = old + k
  <2>. SUFFICES ASSUME NEW n \in 1 .. old + Len(names), n \notin 1 .. old
                PROVE  \E k \in 1 .. Len(names) : n = old + k
    OBVIOUS
  <2>1. n - old \in 1 .. Len(names) /\ n = old + (n - old)
    BY <1>1
  <2>. QED
    BY <2>1
<1>12. ASSUME NEW n \in 2 .. old + Len(names)
       PROVE  grown[n].path # <<>> /\ grown[n].path[1] # Slash
  <2>. HIDE DEF grown, kids, more
  <2>1. CASE n \in 1 .. old
    <3>1. nodes[n].path # <<>> /\ nodes[n].path[1] # Slash
      BY <2>1, NodeFacts
    <3>. QED
      BY <2>1, <3>1, <1>9
  <2>2. CASE \E k \in 1 .. Len(names) : n = old + k
    BY <2>2, <1>1, <1>10
  <2>. QED
    BY <1>1, <1>11, <2>1, <2>2
<1>13. ASSUME NEW n \in 1 .. old + Len(names), NEW i \in DOMAIN grown[n].kids
       PROVE  grown[n].kids[i] \in 2 .. old + Len(names)
  <2>. HIDE DEF grown
  <2>1. CASE n \in 1 .. old
    <3>1. /\ nodes[n].kids \in Seq(Nat)
          /\ \A j \in DOMAIN nodes[n].kids : nodes[n].kids[j] \in 2 .. old
      BY <2>1, NodeFacts
    <3>2. \A j \in DOMAIN nodes[n].kids : nodes[n].kids[j] \in 2 .. old + Len(names)
      BY <3>1, <1>1
    <3>3. CASE n = at /\ names # <<>>
      <4>1. old + 1 \in 2 .. old + Len(names)
        BY <1>1, <3>3
      <4>2. grown[n].kids = Append(nodes[n].kids, old + 1)
        BY <2>1, <3>3, <1>9
      <4>. DEFINE ks == nodes[n].kids
      <4>3. /\ DOMAIN Append(ks, old + 1) = 1 .. Len(ks) + 1 /\ DOMAIN ks = 1 .. Len(ks)
            /\ Len(ks) \in Nat /\ Append(ks, old + 1)[Len(ks) + 1] = old + 1
            /\ \A j \in 1 .. Len(ks) : Append(ks, old + 1)[j] = ks[j]
        <5>1. ks \in Seq(Nat) /\ old + 1 \in Nat
          BY <1>1, <3>1
        <5>. HIDE DEF ks
        <5>. QED
          BY <5>1
      <4>. HIDE DEF ks
      <4>4. i = Len(ks) + 1 \/ i \in 1 .. Len(ks)
        BY <4>2, <4>3, SMTT(30) DEF ks
      <4>. QED
        BY <3>2, <4>1, <4>2, <4>3, <4>4 DEF ks
    <3>4. CASE ~(n = at /\ names # <<>>)
      <4>1. grown[n].kids = nodes[n].kids
        BY <2>1, <3>4, <1>9
      <4>. QED
        BY <4>1, <3>2
    <3>. QED
      BY <3>3, <3>4
  <2>2. CASE \E k \in 1 .. Len(names) : n = old + k
    <3>. HIDE DEF kids
    <3>. QED
      BY <2>2, <1>6, <1>10, ZenonT(30)
  <2>. QED
    BY <1>11, <2>1, <2>2
<1>14. IsTree(grown)
  <2>1. 1 <= old + Len(names)
    BY <1>1
  <2>. HIDE DEF grown
  <2>. QED
    BY <2>1, <1>8, <1>12, <1>13 DEF IsTree
<1>15. Extends(nodes, grown)
  <2>1. old <= old + Len(names)
    BY <1>1
  <2>2. ASSUME NEW n \in 1 .. old
        PROVE  /\ Len(nodes[n].kids) <= Len(grown[n].kids)
               /\ \A i \in DOMAIN nodes[n].kids : grown[n].kids[i] = nodes[n].kids[i]
    <3>1. nodes[n].kids \in Seq(Nat) /\ old + 1 \in Nat
      BY <1>1, <1>3
    <3>2. grown[n].kids = Append(nodes[n].kids, old + 1) \/ grown[n].kids = nodes[n].kids
      BY <1>9
    <3>. DEFINE ks == nodes[n].kids
    <3>3. /\ Len(ks) \in Nat /\ Len(Append(ks, old + 1)) = Len(ks) + 1 /\ DOMAIN ks = 1 .. Len(ks)
          /\ \A j \in 1 .. Len(ks) : Append(ks, old + 1)[j] = ks[j]
      <4>. HIDE DEF ks
      <4>. QED
        BY <3>1 DEF ks
    <3>. HIDE DEF ks, grown
    <3>. QED
      BY <3>2, <3>3, SMTT(30) DEF ks
  <2>. HIDE DEF grown
  <2>. QED
    BY <2>1, <2>2, <1>8, <1>9 DEF Extends
<1>. QED
  BY <1>8, <1>9, <1>10, <1>14, <1>15

(* Sets(tree2, tree, target, type, p): tree2 is tree with the handler of p   *)
(* in the slot of a node.                                                   *)
Sets(tree2, tree, target, type, p) ==
  /\ IsTree(tree2) /\ Extends(tree, tree2) /\ Len(tree2) = Len(tree)
  /\ \A n \in 1 .. Len(tree) :
       /\ tree2[n].path = tree[n].path /\ tree2[n].kids = tree[n].kids
       /\ \A t \in Types : tree2[n].slots[t] = IF n = target /\ t = type THEN Handler(p)
                                               ELSE tree[n].slots[t]

(* A handler is set in one slot, and the tree is the same otherwise. *)
LEMMA HandlerSet ==
  ASSUME NEW tree, IsTree(tree), NEW target \in 1 .. Len(tree), NEW type \in Types,
         NEW p \in Strings
  PROVE  Sets([tree EXCEPT ![target].slots[type] = Handler(p)], tree, target, type, p)
<1>. DEFINE tree2 == [tree EXCEPT ![target].slots[type] = Handler(p)]
<1>1. tree \in Seq(Node) /\ Len(tree) \in Nat /\ DOMAIN tree = 1 .. Len(tree) /\ Len(tree) >= 1
  BY DEF IsTree
<1>2. /\ tree[target] \in Node /\ tree[target].path \in Strings /\ tree[target].kids \in Seq(Nat)
      /\ tree[target].slots \in [Types -> Slot]
  BY NodeFacts
<1>. DEFINE a == tree[target].path
            b == tree[target].kids
            c == tree[target].slots
            d == [c EXCEPT ![type] = Handler(p)]
            it == [path |-> a, kids |-> b, slots |-> d]
<1>3. tree[target] = [path |-> a, kids |-> b, slots |-> c]
  BY <1>2 DEF Node
<1>4. tree2 = [tree EXCEPT ![target] = [tree[target] EXCEPT !.slots = d]]
  OBVIOUS
<1>5. d \in [Types -> Slot] /\ \A t \in Types : d[t] = IF t = type THEN Handler(p) ELSE c[t]
  <2>1. Handler(p) \in Slot
    BY SlotFacts
  <2>. QED
    BY <2>1, <1>2
<1>6. [tree[target] EXCEPT !.slots = d] = it
  <2>. DEFINE e == tree[target]
  <2>1. e = [path |-> a, kids |-> b, slots |-> c]
    BY <1>3
  <2>. HIDE DEF a, b, c, d, e
  <2>. QED
    BY <2>1 DEF e
<1>7. it \in Node /\ it.path = a /\ it.kids = b /\ it.slots = d
  <2>. HIDE DEF d
  <2>. QED
    BY <1>2, <1>5 DEF Node
<1>8. tree2 = [tree EXCEPT ![target] = it]
  BY <1>4, <1>6
<1>. HIDE DEF it, d, tree2
<1>9. tree2 \in Seq(Node) /\ Len(tree2) = Len(tree)
  <2>1. tree2 \in [1 .. Len(tree) -> Node]
    BY <1>1, <1>7, <1>8
  <2>. QED
    BY <1>1, <2>1
<1>10. ASSUME NEW n \in 1 .. Len(tree)
       PROVE  /\ tree2[n].path = tree[n].path /\ tree2[n].kids = tree[n].kids
              /\ \A t \in Types : tree2[n].slots[t] = IF n = target /\ t = type THEN Handler(p)
                                                      ELSE tree[n].slots[t]
  <2>1. CASE n = target
    <3>1. tree2[n] = it
      BY <2>1, <1>1, <1>8
    <3>. QED
      BY <2>1, <3>1, <1>5, <1>7
  <2>2. CASE n # target
    <3>1. tree2[n] = tree[n]
      BY <2>2, <1>1, <1>8
    <3>. QED
      BY <2>2, <3>1
  <2>. QED
    BY <2>1, <2>2
<1>11. IsTree(tree2)
  <2>1. \A n \in 2 .. Len(tree) : n \in 1 .. Len(tree)
    BY <1>1
  <2>2. \A n \in 2 .. Len(tree) : tree2[n].path # <<>> /\ tree2[n].path[1] # Slash
    BY <2>1, <1>10 DEF IsTree
  <2>3. \A n \in 1 .. Len(tree) : \A i \in DOMAIN tree2[n].kids : tree2[n].kids[i] \in 2 .. Len(tree)
    BY <1>10 DEF IsTree
  <2>. QED
    BY <2>2, <2>3, <1>1, <1>9 DEF IsTree
<1>12. Extends(tree, tree2)
  <2>1. \A n \in 1 .. Len(tree) : Len(tree[n].kids) <= Len(tree[n].kids)
    <3>. SUFFICES ASSUME NEW n \in 1 .. Len(tree) PROVE Len(tree[n].kids) <= Len(tree[n].kids)
      OBVIOUS
    <3>1. tree[n].kids \in Seq(Nat)
      BY NodeFacts
    <3>2. Len(tree[n].kids) \in Nat
      BY <3>1
    <3>. QED
      BY <3>2
  <2>2. Len(tree) <= Len(tree2)
    BY <1>1, <1>9
  <2>. QED
    BY <2>1, <2>2, <1>10 DEF Extends
<1>. HIDE DEF tree2
<1>13. Sets(tree2, tree, target, type, p)
  BY <1>9, <1>10, <1>11, <1>12 DEF Sets
<1>. QED
  BY <1>13 DEF tree2
-----------------------------------------------------------------------------
(* Every route leads to its handler                                         *)

(* Nothing is kept in a slot but by a call that was accepted.               *)
RInv ==
  /\ IsTree(nodes)
  /\ routes \subseteq [path : Paths, type : Types]
  /\ RoutesFound

(* The root alone has no routes.                                            *)
LEMMA RInit == RouterInit => RInv
<1>. SUFFICES ASSUME RouterInit PROVE RInv
  OBVIOUS
<1>. DEFINE it == [path |-> <<>>, kids |-> <<>>, slots |-> NewSlots]
<1>1. nodes = <<it>> /\ routes = {}
  BY DEF RouterInit
<1>2. it \in Node /\ it.kids = <<>>
  BY SlotFacts DEF Node, Strings
<1>. HIDE DEF it
<1>3. nodes \in Seq(Node) /\ Len(nodes) = 1 /\ nodes[1].kids = <<>>
  BY <1>1, <1>2
<1>4. IsTree(nodes)
  BY <1>3 DEF IsTree
<1>. QED
  BY <1>1, <1>4 DEF RInv, RoutesFound

(* What http_register_method does: the path is resolved, the tree grows at  *)
(* the node that was found, and the slot of the target is looked at.        *)
Registers(path, type, at, rest, tree, target) ==
  /\ at \in 1 .. Len(nodes) /\ rest \in Strings /\ target \in 1 .. Len(tree)
  /\ Resolve(nodes, path) = [node |-> at, rest |-> rest]
  /\ rest # <<>> => rest[1] # Slash
  /\ tree = Grown(at, NamesOf(rest)) /\ IsTree(tree) /\ Extends(nodes, tree)
  /\ target = IF NamesOf(rest) = <<>> THEN at ELSE Len(tree)
  /\ calls' = calls \cup {[path |-> path, type |-> type]}
  /\ \/ /\ Vacant(tree[target].slots[type])
        /\ Sets(nodes', tree, target, type, path)
        /\ routes' = routes \cup {[path |-> path, type |-> type]}
     \/ tree[target].slots[type].is # "null" /\ nodes' = tree /\ routes' = routes

(* http_register_method does what Registers says.                           *)
LEMMA RegisterFacts ==
  ASSUME IsTree(nodes), NEW path \in Paths, NEW type \in Types, Register(path, type)
  PROVE  \E at, rest, tree, target : Registers(path, type, at, rest, tree, target)
<1>. DEFINE end  == Walk(nodes, path)[Len(path) + 1]
            at   == end.node
            rest == From(path, end.pos)
            names == NamesOf(rest)
            tree == Grown(at, names)
            target == IF names = <<>> THEN at ELSE Len(tree)
<1>1. path \in Strings /\ path \in Seq(Chars) /\ Len(path) \in Nat
  BY PathsAreStrings DEF Strings
<1>2. /\ end \in Places(nodes, path)
      /\ end.pos <= Len(path) => path[end.pos] # Slash
  BY <1>1, EndFacts
<1>3. at \in 1 .. Len(nodes) /\ end.pos \in 1 .. Len(path) + 1
  <2>. HIDE DEF end
  <2>. QED
    BY <1>2 DEF Places
<1>4. Resolve(nodes, path) = [node |-> at, rest |-> rest]
  BY DEF Resolve
<1>5. rest \in Strings /\ (rest # <<>> => rest[1] # Slash)
  <2>. DEFINE p == end.pos
  <2>. HIDE DEF end, p
  <2>1. /\ From(path, p) \in Seq(Chars)
        /\ \A i \in 1 .. Len(path) - p + 1 : From(path, p)[i] = path[p + i - 1]
        /\ From(path, p) = <<>> <=> p = Len(path) + 1
    BY <1>1, <1>3, FromFacts, ZenonT(30) DEF p
  <2>2. p # Len(path) + 1 => p <= Len(path) /\ 1 \in 1 .. Len(path) - p + 1 /\ p + 1 - 1 = p
    BY <1>1, <1>3 DEF p
  <2>. QED
    BY <1>2, <2>1, <2>2 DEF p, Strings
<1>6. names \in Seq(Strings) /\ \A i \in DOMAIN names : names[i] # <<>> /\ names[i][1] # Slash
  <2>. HIDE DEF rest
  <2>1. CASE rest = <<>>
    <3>1. names = <<>>
      BY <2>1, NoNames
    <3>. HIDE DEF names
    <3>. QED
      BY <3>1
  <2>2. CASE rest # <<>>
    BY <1>5, <2>2, NamesFacts
  <2>. QED
    BY <2>1, <2>2
<1>7. IsTree(tree) /\ Extends(nodes, tree)
  <2>. HIDE DEF at, names
  <2>. QED
    BY <1>3, <1>6, GrownFacts
<1>8. target \in 1 .. Len(tree)
  <2>1. Len(nodes) <= Len(tree) /\ Len(tree) \in Nat /\ Len(tree) >= 1 /\ Len(nodes) \in Nat
    BY <1>7 DEF IsTree, Extends
  <2>. HIDE DEF at, names, tree
  <2>. QED
    BY <1>3, <2>1
<1>9. /\ calls' = calls \cup {[path |-> path, type |-> type]}
      /\ \/ /\ Vacant(tree[target].slots[type])
            /\ nodes' = [tree EXCEPT ![target].slots[type] = Handler(path)]
            /\ routes' = routes \cup {[path |-> path, type |-> type]}
         \/ tree[target].slots[type].is # "null" /\ nodes' = tree /\ routes' = routes
  <2>1. Resolve(nodes, path).node = at /\ Resolve(nodes, path).rest = rest
    BY <1>4
  <2>. HIDE DEF at, rest
  <2>. QED
    BY <2>1 DEF Register
<1>10. Sets([tree EXCEPT ![target].slots[type] = Handler(path)], tree, target, type, path)
  <2>. HIDE DEF tree, target
  <2>. QED
    BY <1>1, <1>7, <1>8, HandlerSet
<1>11. \/ /\ Vacant(tree[target].slots[type])
          /\ Sets(nodes', tree, target, type, path)
          /\ routes' = routes \cup {[path |-> path, type |-> type]}
       \/ tree[target].slots[type].is # "null" /\ nodes' = tree /\ routes' = routes
  <2>. DEFINE tree2 == [tree EXCEPT ![target].slots[type] = Handler(path)]
  <2>1. nodes' = tree2 => Sets(nodes', tree, target, type, path)
    <3>. HIDE DEF tree, target, tree2
    <3>. QED
      BY <1>10 DEF tree2
  <2>2. \/ /\ Vacant(tree[target].slots[type])
           /\ nodes' = tree2
           /\ routes' = routes \cup {[path |-> path, type |-> type]}
        \/ tree[target].slots[type].is # "null" /\ nodes' = tree /\ routes' = routes
    BY <1>9
  <2>. HIDE DEF tree, target, tree2
  <2>. QED
    BY <2>1, <2>2
<1>12. target = IF NamesOf(rest) = <<>> THEN at ELSE Len(tree)
  OBVIOUS
<1>13. tree = Grown(at, NamesOf(rest))
  OBVIOUS
<1>. HIDE DEF at, rest, tree, target, names
<1>14. Registers(path, type, at, rest, tree, target)
  BY <1>3, <1>4, <1>5, <1>7, <1>8, <1>9, <1>11, <1>12, <1>13 DEF Registers
<1>. QED
  BY <1>14

(* What was accepted is found after another registration.                   *)
LEMMA RegisterKeepsRoutes ==
  ASSUME RInv, NEW path \in Paths, NEW type \in Types, Register(path, type)
  PROVE  RInv'
<1>. USE DEF RInv
<1>1. PICK at, rest, tree, target : Registers(path, type, at, rest, tree, target)
  BY RegisterFacts
<1>2. /\ at \in 1 .. Len(nodes) /\ rest \in Strings /\ target \in 1 .. Len(tree)
      /\ Resolve(nodes, path) = [node |-> at, rest |-> rest]
      /\ rest # <<>> => rest[1] # Slash
      /\ tree = Grown(at, NamesOf(rest)) /\ IsTree(tree) /\ Extends(nodes, tree)
      /\ target = IF NamesOf(rest) = <<>> THEN at ELSE Len(tree)
      /\ \/ /\ Vacant(tree[target].slots[type])
            /\ Sets(nodes', tree, target, type, path)
            /\ routes' = routes \cup {[path |-> path, type |-> type]}
         \/ tree[target].slots[type].is # "null" /\ nodes' = tree /\ routes' = routes
  BY <1>1 DEF Registers
<1>3. path \in Strings /\ \A r \in routes : r.path \in Strings /\ r.type \in Types
  BY PathsAreStrings
<1>. DEFINE names == NamesOf(rest)
(* the new tree *)
<1>4. /\ IsTree(nodes') /\ Extends(tree, nodes') /\ Len(nodes') = Len(tree)
      /\ \A n \in 1 .. Len(tree) : nodes'[n].path = tree[n].path /\ nodes'[n].kids = tree[n].kids
      /\ \A n \in 1 .. Len(tree), t \in Types :
           \/ nodes'[n].slots[t] = tree[n].slots[t]
           \/ n = target /\ t = type /\ Vacant(tree[target].slots[type])
      /\ routes' # routes => nodes'[target].slots[type] = Handler(path)
  <2>1. CASE Vacant(tree[target].slots[type]) /\ Sets(nodes', tree, target, type, path)
    BY <1>2, <2>1 DEF Sets
  <2>2. CASE nodes' = tree /\ routes' = routes
    <3>1. Extends(tree, tree)
      <4>1. ASSUME NEW n \in 1 .. Len(tree) PROVE Len(tree[n].kids) <= Len(tree[n].kids)
        <5>1. tree[n].kids \in Seq(Nat)
          BY <1>2, NodeFacts
        <5>2. Len(tree[n].kids) \in Nat
          BY <5>1
        <5>. QED
          BY <5>2
      <4>2. Len(tree) \in Nat
        BY <1>2 DEF IsTree
      <4>3. Len(tree) <= Len(tree)
        BY <4>2
      <4>. QED
        BY <4>1, <4>3 DEF Extends
    <3>. QED
      BY <1>2, <2>2, <3>1
  <2>. QED
    BY <1>2, <2>1, <2>2
(* no slot that was set has changed *)
<1>5. /\ names \in Seq(Strings)
      /\ \A i \in DOMAIN names : names[i] # <<>> /\ names[i][1] # Slash
      /\ rest = <<>> => names = <<>>
      /\ rest # <<>> => names # <<>> /\ names[1] = rest /\ (Slash \notin Range(rest) => names = <<rest>>)
  <2>1. CASE rest = <<>>
    <3>1. names = <<>>
      BY <2>1, NoNames
    <3>. HIDE DEF names
    <3>. QED
      BY <2>1, <3>1
  <2>2. CASE rest # <<>>
    BY <1>2, <2>2, NamesFacts
  <2>. QED
    BY <2>1, <2>2
<1>. HIDE DEF names
<1>6. /\ Len(tree) = Len(nodes) + Len(names) /\ Len(nodes) \in Nat /\ Len(names) \in Nat
      /\ \A n \in 1 .. Len(nodes) :
           /\ tree[n].path = nodes[n].path /\ tree[n].slots = nodes[n].slots
           /\ tree[n].kids = IF n = at /\ names # <<>> THEN Append(nodes[n].kids, Len(nodes) + 1)
                             ELSE nodes[n].kids
      /\ \A k \in 1 .. Len(names) : tree[Len(nodes) + k].path = names[k]
  <2>1. tree = Grown(at, names)
    BY <1>2 DEF names
  <2>2. Len(nodes) \in Nat /\ Len(names) \in Nat
    BY <1>5 DEF IsTree
  <2>. DEFINE g == Grown(at, names)
  <2>3. IsTree(nodes) /\ at \in 1 .. Len(nodes)
    BY <1>2
  <2>4. /\ Len(g) = Len(nodes) + Len(names)
        /\ \A n \in 1 .. Len(nodes) :
             /\ g[n].path = nodes[n].path /\ g[n].slots = nodes[n].slots
             /\ g[n].kids = IF n = at /\ names # <<>> THEN Append(nodes[n].kids, Len(nodes) + 1)
                            ELSE nodes[n].kids
    BY <1>5, <2>3, GrownFacts
  <2>5. \A k \in 1 .. Len(names) : g[Len(nodes) + k].path = names[k]
    BY <1>5, <2>3, GrownFacts
  <2>. HIDE DEF g
  <2>. QED
    BY <2>1, <2>2, <2>4, <2>5 DEF g
<1>7. \A n \in 1 .. Len(nodes) : n \in 1 .. Len(tree)
  BY <1>6
<1>8. OneAtATime' => OneAtATime
  <2>1. DOMAIN nodes = 1 .. Len(nodes) /\ DOMAIN nodes' = 1 .. Len(tree)
    BY <1>4 DEF IsTree
  <2>. QED
    BY <2>1, <1>4, <1>6, <1>7 DEF OneAtATime
<1>9. ASSUME OneAtATime', NEW r \in routes
      PROVE  /\ Resolve(nodes', r.path).rest = <<>>
             /\ nodes'[Resolve(nodes', r.path).node].slots[r.type] = Handler(r.path)
  <2>1. /\ Resolve(nodes, r.path).rest = <<>>
        /\ nodes[Resolve(nodes, r.path).node].slots[r.type] = Handler(r.path)
    BY <1>8, <1>9 DEF RoutesFound
  <2>2. /\ Resolve(tree, r.path) = Resolve(nodes, r.path)
        /\ Resolve(nodes, r.path).node \in 1 .. Len(nodes)
    BY <1>2, <1>3, <2>1, SameNode
  <2>3. Resolve(nodes', r.path) = Resolve(tree, r.path)
    BY <1>2, <1>3, <1>4, <2>1, <2>2, SameNode
  <2>. DEFINE n == Resolve(nodes, r.path).node
  <2>. HIDE DEF n
  <2>4. tree[n].slots[r.type] = Handler(r.path) /\ n \in 1 .. Len(tree)
    BY <1>6, <1>7, <2>1, <2>2 DEF n
  <2>5. ~Vacant(Handler(r.path))
    BY DEF Vacant, Handler
  <2>6. nodes'[n].slots[r.type] = Handler(r.path)
    BY <1>3, <1>4, <2>4, <2>5
  <2>. QED
    BY <2>1, <2>2, <2>3, <2>6 DEF n
<1>10. ASSUME OneAtATime' PROVE Resolve(tree, path) = [node |-> target, rest |-> <<>>]
  <2>1. CASE rest = <<>>
    <3>1. target = at
      BY <1>2, <1>5, <2>1 DEF names
    <3>2. Resolve(nodes, path).rest = <<>>
      BY <1>2, <2>1
    <3>3. Resolve(tree, path) = Resolve(nodes, path)
      BY <1>2, <1>3, <3>2, SameNode
    <3>. QED
      BY <1>2, <2>1, <3>1, <3>3
  <2>2. CASE rest # <<>>
    <3>1. names # <<>> /\ names[1] = rest /\ Len(names) >= 1
      BY <1>5, <2>2
    <3>2. 1 \in 1 .. Len(names) /\ Len(nodes) + 1 \in 1 .. Len(tree)
      BY <1>6, <3>1
    <3>3. tree[Len(nodes) + 1].path = rest
      BY <1>6, <3>1, <3>2
    <3>4. Slash \notin Range(rest)
      <4>1. DOMAIN nodes' = 1 .. Len(tree)
        BY <1>4 DEF IsTree
      <4>2. Slash \notin Range(nodes'[Len(nodes) + 1].path)
        BY <1>10, <3>2, <4>1 DEF OneAtATime
      <4>. QED
        BY <1>4, <3>2, <3>3, <4>2
    <3>5. names = <<rest>> /\ Len(names) = 1
      BY <1>5, <2>2, <3>4
    <3>6. target = Len(nodes) + 1
      BY <1>2, <1>6, <3>5 DEF names
    <3>7. tree[at].kids = Append(nodes[at].kids, target)
      BY <1>2, <1>6, <3>1, <3>6
    <3>8. Resolve(nodes, path).node = at /\ Resolve(nodes, path).rest = rest
      BY <1>2
    <3>9. /\ Resolve(nodes, path).rest # <<>>
          /\ tree[Resolve(nodes, path).node].kids =
               Append(nodes[Resolve(nodes, path).node].kids, target)
          /\ tree[target].path = Resolve(nodes, path).rest
      BY <2>2, <3>3, <3>6, <3>7, <3>8
    <3>. QED
      BY <1>2, <1>3, <3>9, NewNode
  <2>. QED
    BY <2>1, <2>2
<1>11. ASSUME OneAtATime', routes' # routes
       PROVE  /\ Resolve(nodes', path).rest = <<>>
              /\ nodes'[Resolve(nodes', path).node].slots[type] = Handler(path)
  <2>2. nodes'[target].slots[type] = Handler(path)
    BY <1>4, <1>11
  <2>3. Resolve(tree, path) = [node |-> target, rest |-> <<>>]
    BY <1>10, <1>11
  <2>4. Resolve(nodes', path) = Resolve(tree, path)
    BY <1>2, <1>3, <1>4, <2>3, SameNode
  <2>. QED
    BY <2>2, <2>3, <2>4
<1>12. routes' \subseteq [path : Paths, type : Types]
  BY <1>2
<1>13. \A r \in routes' : r \in routes \/ (routes' # routes /\ r.path = path /\ r.type = type)
  BY <1>2
<1>14. RoutesFound'
  <2>. SUFFICES ASSUME OneAtATime', NEW r \in routes'
                PROVE  /\ Resolve(nodes', r.path).rest = <<>>
                       /\ nodes'[Resolve(nodes', r.path).node].slots[r.type] = Handler(r.path)
    BY DEF RoutesFound
  <2>. QED
    BY <1>9, <1>11, <1>13
<1>. QED
  BY <1>4, <1>12, <1>14

(* Every step keeps the tree and the routes.                                *)
LEMMA RNext == RInv /\ [RouterNext]_routerVars => RInv'
<1>. SUFFICES ASSUME RInv, [RouterNext]_routerVars PROVE RInv'
  OBVIOUS
<1>1. CASE \E p \in Paths, t \in Types : Register(p, t)
  BY <1>1, RegisterKeepsRoutes
<1>2. CASE UNCHANGED <<nodes, routes>>
  BY <1>2 DEF RInv, RoutesFound, OneAtATime
<1>3. StartServer => UNCHANGED <<nodes, routes>>
  BY DEF StartServer
<1>4. \A u \in Urls : BadMethod(u) => UNCHANGED <<nodes, routes>>
  BY DEF BadMethod
<1>5. \A u \in Urls, t \in Types : Request(u, t) => UNCHANGED <<nodes, routes>>
  BY DEF Request
<1>. QED
  BY <1>1, <1>2, <1>3, <1>4, <1>5 DEF RouterNext, routerVars

(* A path that was accepted leads to its own handler from then on, as long  *)
(* as paths are registered one name at a time (http.c:185-206, 673-696).    *)
THEOREM EveryRouteIsFound == RouterSpec => []RoutesFound
<1>1. RInv => RoutesFound
  BY DEF RInv
<1>. QED
  BY <1>1, RInit, RNext, PTL DEF RouterSpec
-----------------------------------------------------------------------------
(* What a path means                                                        *)

(* A sequence begins another if it is no longer and agrees with it.         *)
LEMMA PrefixFacts ==
  ASSUME NEW C, NEW s \in Seq(C), NEW t \in Seq(C)
  PROVE  IsPrefix(s, t) <=> Len(s) <= Len(t) /\ \A i \in 1 .. Len(s) : s[i] = t[i]
<1>1. Len(s) \in Nat /\ Len(t) \in Nat
  OBVIOUS
<1>2. ASSUME Len(s) <= Len(t)
      PROVE  SubSeq(s, 1, Len(s)) = SubSeq(t, 1, Len(s)) <=> \A i \in 1 .. Len(s) : s[i] = t[i]
  <2>. DEFINE a == SubSeq(s, 1, Len(s))
              b == SubSeq(t, 1, Len(s))
  <2>1. /\ a \in Seq(C) /\ Len(a) = Len(s) /\ \A i \in 1 .. Len(s) : a[i] = s[i]
        /\ b \in Seq(C) /\ Len(b) = Len(s) /\ \A i \in 1 .. Len(s) : b[i] = t[i]
    BY <1>1, <1>2
  <2>. HIDE DEF a, b
  <2>2. a = b <=> \A i \in 1 .. Len(s) : a[i] = b[i]
    BY <1>1, <2>1
  <2>3. a = b <=> \A i \in 1 .. Len(s) : s[i] = t[i]
    BY <2>1, <2>2
  <2>. QED
    BY <2>3 DEF a, b
<1>. QED
  BY <1>2 DEF IsPrefix

(* What is appended to two sequences is appended to the second. *)
AtTheEnd(s, t, e) == Append(s \o t, e) = s \o Append(t, e)

(* Append and \o may be done in either order.                               *)
LEMMA AppendToBoth ==
  ASSUME NEW C, NEW s \in Seq(C), NEW t \in Seq(C), NEW e \in C
  PROVE  AtTheEnd(s, t, e)
<1>1. s \o t \in Seq(C) /\ <<e>> \in Seq(C)
  BY ConcatProperties
<1>2. Append(s \o t, e) = (s \o t) \o <<e>>
  BY <1>1, AppendIsConcat
<1>3. Append(t, e) = t \o <<e>>
  BY AppendIsConcat
<1>4. (s \o t) \o <<e>> = s \o (t \o <<e>>)
  BY <1>1, ConcatAssociative
<1>. QED
  BY <1>2, <1>3, <1>4 DEF AtTheEnd

(* The last of the names gets one character more. *)
Longer(names, c) == [names EXCEPT ![Len(names)] = Append(@, c)]

(* It is a list of as many names, and what is before the last stays.        *)
LEMMA LongerFacts ==
  ASSUME NEW names \in Seq(Strings), NEW c \in Chars
  PROVE  /\ Longer(names, c) \in Seq(Strings) /\ Len(Longer(names, c)) = Len(names)
         /\ \A front \in Seq(Strings) :
              names # <<>> => Longer(front \o names, c) = front \o Longer(names, c)
<1>. DEFINE n == Len(names)
            long == Longer(names, c)
<1>1. n \in Nat /\ DOMAIN names = 1 .. n
  OBVIOUS
<1>2. n \in 1 .. n => names[n] \in Strings /\ Append(names[n], c) \in Strings
  BY DEF Strings
<1>3. long \in [1 .. n -> Strings]
  <2>. DEFINE x == Append(names[n], c)
  <2>1. long = [i \in 1 .. n |-> IF i = n THEN x ELSE names[i]]
    BY <1>1 DEF Longer
  <2>. HIDE DEF x
  <2>2. ASSUME NEW i \in 1 .. n PROVE (IF i = n THEN x ELSE names[i]) \in Strings
    BY <1>2 DEF x
  <2>. HIDE DEF long
  <2>. QED
    BY <2>1, <2>2
<1>4. long \in Seq(Strings) /\ Len(long) = n
  BY <1>1, <1>3
<1>5. ASSUME NEW front \in Seq(Strings), names # <<>>
      PROVE  Longer(front \o names, c) = front \o long
  <2>. DEFINE m == Len(front)
              both == front \o names
              x == Append(names[n], c)
  <2>1. m \in Nat /\ n >= 1
    BY <1>1, <1>5
  <2>2. /\ both \in Seq(Strings) /\ Len(both) = m + n
        /\ \A i \in 1 .. m + n : both[i] = IF i <= m THEN front[i] ELSE names[i - m]
    BY ConcatProperties
  <2>3. /\ front \o long \in Seq(Strings) /\ Len(front \o long) = m + n
        /\ \A i \in 1 .. m + n : (front \o long)[i] = IF i <= m THEN front[i] ELSE long[i - m]
    <3>. HIDE DEF long, n
    <3>. QED
      BY <1>4, ConcatProperties
  <2>4. m + n \in 1 .. m + n /\ ~(m + n <= m) /\ (m + n) - m = n
    BY <1>1, <2>1
  <2>5. both[m + n] = names[n]
    <3>. HIDE DEF both
    <3>. QED
      BY <2>2, <2>4
  <2>6. \A i \in 1 .. m + n : Longer(both, c)[i] = IF i = m + n THEN x ELSE both[i]
    <3>1. DOMAIN both = 1 .. m + n
      <4>. HIDE DEF both, m, n
      <4>. QED
        BY <2>2
    <3>. HIDE DEF both, m
    <3>. QED
      BY <2>2, <2>4, <2>5, <3>1 DEF Longer
  <2>7. \A i \in 1 .. n : long[i] = IF i = n THEN x ELSE names[i]
    BY <1>1 DEF Longer
  <2>8. Longer(both, c) \in Seq(Strings) /\ Len(Longer(both, c)) = m + n
    <3>1. names[n] \in Strings /\ x \in Strings
      BY <1>1, <1>2, <2>1
    <3>. HIDE DEF both, x, n, m
    <3>2. Longer(both, c) \in [1 .. m + n -> Strings]
      <4>1. DOMAIN both = 1 .. m + n /\ both \in [1 .. m + n -> Strings]
        BY <2>2
      <4>2. Append(both[m + n], c) = x
        BY <2>5 DEF x
      <4>. QED
        BY <2>2, <3>1, <4>1, <4>2 DEF Longer
    <3>. QED
      BY <1>1, <2>1, <3>2
  <2>9. ASSUME NEW i \in 1 .. m + n PROVE Longer(both, c)[i] = (front \o long)[i]
    <3>. HIDE DEF both, x, long, n, m
    <3>1. CASE i <= m
      <4>1. i # m + n
        BY <1>1, <2>1, <3>1
      <4>. QED
        BY <2>2, <2>3, <2>6, <3>1, <4>1
    <3>2. CASE ~(i <= m)
      <4>1. i - m \in 1 .. n /\ (i - m = n <=> i = m + n)
        BY <1>1, <2>1, <3>2
      <4>. QED
        BY <2>2, <2>3, <2>6, <2>7, <3>2, <4>1
    <3>. QED
      BY <3>1, <3>2
  <2>. HIDE DEF both, long, n, m
  <2>10. Longer(both, c) = front \o long
    BY <2>3, <2>8, <2>9, SeqEqual
  <2>. QED
    BY <2>10 DEF both
<1>. QED
  BY <1>4, <1>5

(* One character is read. *)
Reads(names, s, i) ==
  IF s[i] = Slash THEN names
  ELSE IF StartsName(s, i) THEN Append(names, <<s[i]>>)
  ELSE Longer(names, s[i])

(* A path is read character by character.                                   *)
LEMMA ReadingFacts ==
  ASSUME NEW s \in Strings
  PROVE  /\ Reading(s) \in [0 .. Len(s) -> Seq(Strings)]
         /\ Reading(s)[0] = <<>>
         /\ \A k \in 1 .. Len(s) : Reading(s)[k] = Reads(Reading(s)[k - 1], s, k)
<1>. DEFINE n == Len(s)
            P == Seq(Strings)
            h == [k \in 1 .. n |-> [y \in P |-> Reads(y, s, k)]]
            Is(f) == f = [k \in 0 .. n |-> IF k = 0 THEN <<>> ELSE Reads(f[k - 1], s, k)]
            w == Reading(s)
            Held == {k \in 0 .. n : w[k] \in P}
<1>1. n \in Nat /\ s \in Seq(Chars)
  BY DEF Strings
<1>2. <<>> \in P
  OBVIOUS
<1>3. ASSUME NEW k \in 1 .. n, NEW y \in P PROVE Reads(y, s, k) \in P
  <2>1. s[k] \in Chars
    BY <1>1
  <2>2. <<s[k]>> \in Strings
    BY <2>1 DEF Strings
  <2>3. Append(y, <<s[k]>>) \in P
    BY <2>2
  <2>4. Longer(y, s[k]) \in P
    BY <2>1, LongerFacts
  <2>. QED
    BY <2>3, <2>4 DEF Reads
<1>4. PICK f : Steps(f, n, P, <<>>, h)
  <2>1. h \in [1 .. n -> [P -> P]]
    <3>. HIDE DEF P
    <3>. QED
      BY <1>3
  <2>. HIDE DEF h, P, n
  <2>. QED
    BY <1>1, <1>2, <2>1, Iterated
<1>5. Is(f)
  <2>. HIDE DEF P
  <2>1. ASSUME NEW k \in 0 .. n PROVE f[k] = IF k = 0 THEN <<>> ELSE Reads(f[k - 1], s, k)
    <3>1. CASE k = 0
      BY <3>1, <1>4 DEF Steps
    <3>2. CASE k # 0
      <4>1. k \in 1 .. n /\ k - 1 \in 0 .. n
        BY <1>1, <3>2
      <4>2. f[k - 1] \in P /\ f[k] = h[k][f[k - 1]]
        BY <4>1, <1>4 DEF Steps
      <4>. QED
        BY <3>2, <4>1, <4>2
    <3>. QED
      BY <3>1, <3>2
  <2>. HIDE DEF h
  <2>. QED
    BY <2>1, <1>4 DEF Steps
<1>6. w = CHOOSE g : Is(g)
  BY DEF Reading, Reads, Longer
<1>7. Is(w)
  <2>. HIDE DEF Is, w
  <2>. QED
    BY <1>5, <1>6
<1>8. /\ DOMAIN w = 0 .. n /\ w[0] = <<>>
      /\ \A k \in 1 .. n : w[k] = Reads(w[k - 1], s, k)
  <2>. HIDE DEF w
  <2>1. \A k \in 0 .. n : w[k] = IF k = 0 THEN <<>> ELSE Reads(w[k - 1], s, k)
    BY <1>7
  <2>2. 0 \in 0 .. n /\ \A k \in 1 .. n : k \in 0 .. n /\ k # 0
    BY <1>1
  <2>3. DOMAIN w = 0 .. n
    BY <1>7
  <2>. QED
    BY <2>1, <2>2, <2>3
<1>9. \A k \in 0 .. n : k \in Held
  <2>. HIDE DEF P, w
  <2>1. 0 \in Held
    BY <1>1, <1>2, <1>8
  <2>2. ASSUME NEW k \in 0 .. n - 1, k \in Held PROVE k + 1 \in Held
    <3>1. k + 1 \in 1 .. n /\ (k + 1) - 1 = k
      BY <1>1
    <3>. QED
      BY <3>1, <2>2, <1>3, <1>8
  <2>. HIDE DEF Held
  <2>. QED
    BY <1>1, <2>1, <2>2, Counting
<1>10. w \in [0 .. n -> P]
  <2>1. w = [k \in 0 .. n |-> IF k = 0 THEN <<>> ELSE Reads(w[k - 1], s, k)]
    BY <1>7
  <2>. HIDE DEF w
  <2>2. w = [k \in 0 .. n |-> w[k]]
    BY <2>1
  <2>. QED
    BY <2>2, <1>9
<1>. QED
  BY <1>8, <1>10

(* Where a character was read that is no slash there is a name. *)
LEMMA ReadingHasNames ==
  ASSUME NEW s \in Strings, NEW j \in 1 .. Len(s), s[j] # Slash
  PROVE  Reading(s)[j] # <<>>
<1>. DEFINE n == Len(s)
            w == Reading(s)
            K == {i \in 0 .. n : i = 0 \/ s[i] = Slash \/ w[i] # <<>>}
<1>1. n \in Nat /\ s \in Seq(Chars)
  BY DEF Strings
<1>2. /\ w \in [0 .. n -> Seq(Strings)]
      /\ \A k \in 1 .. n : w[k] = Reads(w[k - 1], s, k)
  BY ReadingFacts
<1>. HIDE DEF w
<1>3. 0 \in K
  BY <1>1
<1>4. ASSUME NEW i \in 0 .. n - 1, i \in K PROVE i + 1 \in K
  <2>1. i + 1 \in 1 .. n /\ (i + 1) - 1 = i /\ i \in 0 .. n /\ i + 1 \in 0 .. n
    BY <1>1
  <2>. DEFINE x == w[i]
  <2>2. x \in Seq(Strings) /\ w[i + 1] = Reads(x, s, i + 1) /\ s[i + 1] \in Chars
    BY <1>1, <1>2, <2>1
  <2>3. CASE s[i + 1] = Slash
    BY <2>1, <2>3
  <2>4. CASE s[i + 1] # Slash /\ StartsName(s, i + 1)
    <3>1. w[i + 1] = Append(x, <<s[i + 1]>>)
      BY <2>2, <2>4 DEF Reads
    <3>2. <<s[i + 1]>> \in Strings
      BY <2>2 DEF Strings
    <3>3. Append(x, <<s[i + 1]>>) # <<>>
      <4>. DEFINE e == <<s[i + 1]>>
      <4>. HIDE DEF x, e
      <4>1. Append(x, e) # <<>>
        BY <2>2, <3>2, AppendProperties DEF e
      <4>. QED
        BY <4>1 DEF e
    <3>. QED
      BY <2>1, <3>1, <3>3
  <2>5. CASE s[i + 1] # Slash /\ ~StartsName(s, i + 1)
    <3>1. w[i + 1] = Longer(x, s[i + 1])
      BY <2>2, <2>5 DEF Reads
    <3>2. i # 0 /\ s[i] # Slash
      BY <2>1, <2>5 DEF StartsName
    <3>3. x # <<>>
      BY <3>2, <1>4
    <3>4. Longer(x, s[i + 1]) \in Seq(Strings) /\ Len(Longer(x, s[i + 1])) = Len(x)
      BY <2>2, LongerFacts
    <3>5. Longer(x, s[i + 1]) # <<>>
      <4>. HIDE DEF x
      <4>. QED
        BY <2>2, <3>3, <3>4
    <3>. QED
      BY <2>1, <3>1, <3>5
  <2>. QED
    BY <2>3, <2>4, <2>5
<1>5. j \in K
  <2>. HIDE DEF K
  <2>1. \A k \in 0 .. n : k \in K
    BY <1>1, <1>3, <1>4, Counting
  <2>. QED
    BY <2>1, <1>1
<1>. QED
  BY <1>1, <1>5 DEF w

(* A name after a slash is read as if it stood alone. *)
LEMMA ReadingSplits ==
  ASSUME NEW s \in Strings, NEW m \in Strings, NEW p \in 1 .. Len(s) + 1,
         p = 1 \/ s[p - 1] = Slash, Len(m) <= Len(s) - p + 1,
         \A i \in 1 .. Len(m) : m[i] = s[p - 1 + i]
  PROVE  Reading(s)[p - 1 + Len(m)] = Reading(s)[p - 1] \o Segments(m)
<1>. DEFINE n == Len(m)
            w == Reading(s)
            v == Reading(m)
            K == {i \in 0 .. n : w[p - 1 + i] = w[p - 1] \o v[i]}
<1>1. n \in Nat /\ s \in Seq(Chars) /\ m \in Seq(Chars) /\ Len(s) \in Nat /\ p \in Nat
  BY DEF Strings
<1>2. /\ w \in [0 .. Len(s) -> Seq(Strings)]
      /\ \A k \in 1 .. Len(s) : w[k] = Reads(w[k - 1], s, k)
  BY ReadingFacts
<1>3. /\ v \in [0 .. n -> Seq(Strings)] /\ v[0] = <<>>
      /\ \A k \in 1 .. n : v[k] = Reads(v[k - 1], m, k)
  BY ReadingFacts
<1>4. \A i \in 1 .. n : m[i] # Slash => v[i] # <<>>
  BY ReadingHasNames
<1>. HIDE DEF w, v
<1>. DEFINE a == w[p - 1]
<1>5. a \in Seq(Strings)
  <2>1. p - 1 \in 0 .. Len(s)
    BY <1>1
  <2>. QED
    BY <1>2, <2>1
<1>6. 0 \in K
  <2>1. p - 1 + 0 = p - 1
    BY <1>1
  <2>2. a \o <<>> = a
    <3>. HIDE DEF a
    <3>. QED
      BY <1>5, ConcatEmptySeq
  <2>3. w[p - 1 + 0] = w[p - 1] \o v[0]
    BY <1>3, <2>1, <2>2
  <2>4. 0 \in 0 .. n
    BY <1>1
  <2>. QED
    BY <2>3, <2>4
<1>7. ASSUME NEW i \in 0 .. n - 1, i \in K PROVE i + 1 \in K
  <2>. DEFINE j == p - 1 + (i + 1)
              x == w[p - 1 + i]
              y == v[i]
              c == m[i + 1]
  <2>1. /\ i + 1 \in 1 .. n /\ (i + 1) - 1 = i /\ i \in 0 .. n /\ i + 1 \in 0 .. n
        /\ j \in 1 .. Len(s) /\ j - 1 = p - 1 + i /\ p - 1 + i \in 0 .. Len(s)
    BY <1>1
  <2>2. c = s[j] /\ c \in Chars
    BY <1>1, <2>1
  <2>3. w[j] = Reads(x, s, j) /\ v[i + 1] = Reads(y, m, i + 1) /\ y \in Seq(Strings) /\ x = a \o y
    <3>1. w[j] = Reads(w[j - 1], s, j)
      BY <1>2, <2>1
    <3>2. v[i + 1] = Reads(v[(i + 1) - 1], m, i + 1)
      BY <1>3, <2>1
    <3>. QED
      BY <1>3, <1>7, <2>1, <3>1, <3>2
  <2>4. StartsName(s, j) <=> StartsName(m, i + 1)
    <3>1. CASE i = 0
      <4>1. j = p /\ ~(i + 1 > 1) /\ p > 1 => s[p - 1] = Slash
        BY <1>1, <3>1
      <4>2. j = p /\ ~(i + 1 > 1)
        BY <1>1, <3>1
      <4>. HIDE DEF j
      <4>. QED
        BY <4>1, <4>2, <2>2 DEF StartsName
    <3>2. CASE i # 0
      <4>1. i \in 1 .. n /\ j > 1 /\ i + 1 > 1
        BY <1>1, <2>1, <3>2
      <4>2. m[i] = s[j - 1] /\ m[(i + 1) - 1] = m[i]
        BY <2>1, <4>1
      <4>. HIDE DEF j
      <4>. QED
        BY <2>2, <4>1, <4>2 DEF StartsName
    <3>. QED
      BY <3>1, <3>2
  <2>. HIDE DEF j, x, y, c, a
  <2>5. CASE c = Slash
    <3>1. Reads(x, s, j) = x /\ Reads(y, m, i + 1) = y
      BY <2>2, <2>5 DEF Reads, c
    <3>2. w[j] = a \o v[i + 1]
      BY <2>3, <3>1
    <3>. QED
      BY <2>1, <3>2 DEF j, a
  <2>6. CASE c # Slash /\ StartsName(m, i + 1)
    <3>1. Reads(x, s, j) = Append(x, <<c>>) /\ Reads(y, m, i + 1) = Append(y, <<c>>)
      BY <2>2, <2>4, <2>6 DEF Reads, c
    <3>2. <<c>> \in Strings
      BY <2>2 DEF Strings
    <3>3. Append(a \o y, <<c>>) = a \o Append(y, <<c>>)
      <4>. DEFINE e == <<c>>
      <4>1. e \in Strings
        BY <3>2
      <4>. HIDE DEF e
      <4>0. y \in Seq(Strings)
        BY <2>3
      <4>2. Append(a \o y, e) = a \o Append(y, e)
        <5>1. AtTheEnd(a, y, e)
          BY <1>5, <4>0, <4>1, AppendToBoth
        <5>. QED
          BY <5>1 DEF AtTheEnd
      <4>. QED
        BY <4>2 DEF e
    <3>4. w[j] = a \o v[i + 1]
      BY <2>3, <3>1, <3>3
    <3>. QED
      BY <2>1, <3>4 DEF j, a
  <2>7. CASE c # Slash /\ ~StartsName(m, i + 1)
    <3>1. Reads(x, s, j) = Longer(x, c) /\ Reads(y, m, i + 1) = Longer(y, c)
      BY <2>2, <2>4, <2>7 DEF Reads, c
    <3>2. i \in 1 .. n /\ m[i] # Slash
      <4>1. i + 1 > 1 /\ m[(i + 1) - 1] # Slash
        BY <2>7 DEF StartsName, c
      <4>. QED
        BY <1>1, <2>1, <4>1
    <3>3. y # <<>>
      BY <1>4, <3>2 DEF y
    <3>4. Longer(a \o y, c) = a \o Longer(y, c)
      BY <1>5, <2>2, <2>3, <3>3, LongerFacts
    <3>5. w[j] = a \o v[i + 1]
      BY <2>3, <3>1, <3>4
    <3>. QED
      BY <2>1, <3>5 DEF j, a
  <2>. QED
    BY <2>5, <2>6, <2>7
<1>8. n \in K
  <2>. HIDE DEF K
  <2>1. \A k \in 0 .. n : k \in K
    BY <1>1, <1>6, <1>7, Counting
  <2>. QED
    BY <2>1, <1>1
<1>. QED
  BY <1>8 DEF w, v, Segments

(* Slashes add nothing. *)
LEMMA ReadingSkips ==
  ASSUME NEW s \in Strings, NEW i \in 0 .. Len(s), NEW j \in i .. Len(s),
         \A k \in i + 1 .. j : s[k] = Slash
  PROVE  Reading(s)[j] = Reading(s)[i]
<1>. DEFINE n == j - i
            w == Reading(s)
            K == {k \in 0 .. n : w[i + k] = w[i]}
<1>1. n \in Nat /\ Len(s) \in Nat /\ i \in Nat /\ j \in Nat
  BY DEF Strings
<1>2. \A k \in 1 .. Len(s) : w[k] = Reads(w[k - 1], s, k)
  BY ReadingFacts
<1>. HIDE DEF w
<1>3. 0 \in K
  BY <1>1
<1>4. ASSUME NEW k \in 0 .. n - 1, k \in K PROVE k + 1 \in K
  <2>1. /\ i + (k + 1) \in 1 .. Len(s) /\ (i + (k + 1)) - 1 = i + k /\ k + 1 \in 0 .. n
        /\ i + (k + 1) \in i + 1 .. j
    BY <1>1
  <2>2. w[i + (k + 1)] = Reads(w[(i + (k + 1)) - 1], s, i + (k + 1))
    BY <1>2, <2>1
  <2>3. w[i + (k + 1)] = w[i + k]
    BY <2>1, <2>2 DEF Reads
  <2>. QED
    BY <2>1, <2>3, <1>4
<1>5. n \in K
  <2>. HIDE DEF K
  <2>1. \A k \in 0 .. n : k \in K
    BY <1>1, <1>3, <1>4, Counting
  <2>. QED
    BY <2>1, <1>1
<1>6. i + n = j
  BY <1>1
<1>. QED
  BY <1>5, <1>6 DEF w
-----------------------------------------------------------------------------
(* The names of a node                                                      *)

(* full[n]: the names on the way from the root to node n. *)
Named(tree, full) ==
  /\ full \in [1 .. Len(tree) -> Seq(Strings)] /\ full[1] = <<>>
  /\ \A n \in 1 .. Len(tree) : \A i \in DOMAIN tree[n].kids :
       full[tree[n].kids[i]] = full[n] \o Segments(tree[tree[n].kids[i]].path)

(* A path has names, and the empty one has none.                            *)
LEMMA SegmentsType ==
  /\ \A s \in Strings : Segments(s) \in Seq(Strings)
  /\ Segments(<<>>) = <<>>
<1>1. \A s \in Strings : Segments(s) \in Seq(Strings)
  <2>. SUFFICES ASSUME NEW s \in Strings PROVE Segments(s) \in Seq(Strings)
    OBVIOUS
  <2>1. Len(s) \in Nat
    BY DEF Strings
  <2>2. Reading(s) \in [0 .. Len(s) -> Seq(Strings)]
    BY ReadingFacts
  <2>. QED
    BY <2>1, <2>2 DEF Segments
<1>2. Segments(<<>>) = <<>>
  <2>1. <<>> \in Strings /\ Len(<<>>) = 0
    BY DEF Strings
  <2>2. Reading(<<>>)[0] = <<>>
    BY <2>1, ReadingFacts
  <2>. QED
    BY <2>1, <2>2 DEF Segments
<1>. QED
  BY <1>1, <1>2

(* A name that fits is there, character by character, and a slash or the    *)
(* end follows.                                                             *)
LEMMA MatchFacts ==
  ASSUME NEW m \in Strings, NEW s \in Strings, NEW p \in 1 .. Len(s) + 1
  PROVE  Matches(m, From(s, p)) <=>
           /\ Len(m) <= Len(s) - p + 1
           /\ \A i \in 1 .. Len(m) : m[i] = s[p - 1 + i]
           /\ p + Len(m) <= Len(s) => s[p + Len(m)] = Slash
<1>. DEFINE r == From(s, p)
<1>1. s \in Seq(Chars) /\ m \in Seq(Chars) /\ Len(s) \in Nat /\ Len(m) \in Nat /\ p \in Nat /\ p >= 1
  BY DEF Strings
<1>2. /\ r \in Seq(Chars) /\ Len(r) = Len(s) - p + 1
      /\ \A i \in 1 .. Len(s) - p + 1 : r[i] = s[p + i - 1]
  BY <1>1, FromFacts
<1>. HIDE DEF r
<1>3. IsPrefix(m, r) <=> Len(m) <= Len(r) /\ \A i \in 1 .. Len(m) : m[i] = r[i]
  BY <1>1, <1>2, PrefixFacts, ZenonT(30)
<1>4. ASSUME Len(m) <= Len(s) - p + 1
      PROVE  /\ \A i \in 1 .. Len(m) : r[i] = s[p - 1 + i]
             /\ Len(r) > Len(m) <=> p + Len(m) <= Len(s)
             /\ p + Len(m) <= Len(s) => r[Len(m) + 1] = s[p + Len(m)]
  <2>1. ASSUME NEW i \in 1 .. Len(m) PROVE r[i] = s[p - 1 + i]
    <3>1. i \in 1 .. Len(s) - p + 1 /\ p + i - 1 = p - 1 + i
      BY <1>1, <1>4
    <3>. QED
      BY <3>1, <1>2
  <2>2. Len(r) > Len(m) <=> p + Len(m) <= Len(s)
    BY <1>1, <1>2
  <2>3. p + Len(m) <= Len(s) => r[Len(m) + 1] = s[p + Len(m)]
    <3>1. p + Len(m) <= Len(s) => Len(m) + 1 \in 1 .. Len(s) - p + 1 /\ p + (Len(m) + 1) - 1 = p + Len(m)
      BY <1>1
    <3>. QED
      BY <3>1, <1>2
  <2>. QED
    BY <2>1, <2>2, <2>3
<1>5. Matches(m, r) <=> IsPrefix(m, r) /\ (Len(r) > Len(m) => r[Len(m) + 1] = Slash)
  BY DEF Matches
<1>6. Matches(m, r) <=>
           /\ Len(m) <= Len(s) - p + 1
           /\ \A i \in 1 .. Len(m) : m[i] = s[p - 1 + i]
           /\ p + Len(m) <= Len(s) => s[p + Len(m)] = Slash
  BY <1>2, <1>3, <1>4, <1>5
<1>. QED
  BY <1>6 DEF r

(* What a path means is what the node means that it leads to, and then what *)
(* is left of it: slashes do not count, and a name is never cut.            *)
LEMMA WalkReads ==
  ASSUME NEW tree, IsTree(tree), NEW full, Named(tree, full), NEW s \in Strings
  PROVE  Segments(s) = full[Resolve(tree, s).node] \o Segments(Resolve(tree, s).rest)
<1>. DEFINE n == Len(s)
            w == Reading(s)
            P == Places(tree, s)
            K == {at \in P : /\ w[at.pos - 1] = full[at.node]
                             /\ at.pos # 1 /\ at.pos # n + 1 =>
                                  IF at.search THEN s[at.pos] = Slash ELSE s[at.pos - 1] = Slash}
<1>1. n \in Nat /\ s \in Seq(Chars) /\ Len(tree) \in Nat /\ Len(tree) >= 1
  BY DEF Strings, IsTree
<1>2. w[0] = <<>>
  BY ReadingFacts
<1>. HIDE DEF w
<1>3. Start \in K
  <2>1. Start \in P
    BY <1>1 DEF Start, Places
  <2>2. Start.pos = 1 /\ Start.node = 1 /\ 1 - 1 = 0
    BY DEF Start
  <2>. HIDE DEF P
  <2>. QED
    BY <1>2, <2>1, <2>2 DEF Named
<1>4. ASSUME NEW at \in P, at \in K PROVE Round(tree, s, at) \in K
  <2>. DEFINE p == SkipSlashes(s, at.pos)
  <2>1. at.pos \in 1 .. n + 1 /\ at.search \in BOOLEAN /\ at.node \in 1 .. Len(tree)
    BY DEF Places
  <2>2. /\ p \in at.pos .. n + 1 /\ (p <= n => s[p] # Slash)
        /\ \A i \in at.pos .. p - 1 : s[i] = Slash
    <3>. HIDE DEF p
    <3>. QED
      BY <1>1, <2>1, SkipFacts DEF p
  <2>. HIDE DEF P, p
  <2>3. w[p - 1] = full[at.node]
    <3>. DEFINE i == at.pos - 1
                j == p - 1
    <3>1. i \in 0 .. n /\ j \in i .. n /\ \A k \in i + 1 .. j : s[k] = Slash
      BY <1>1, <2>1, <2>2
    <3>. HIDE DEF i, j
    <3>2. w[j] = w[i]
      BY <3>1, ReadingSkips DEF w
    <3>. QED
      BY <3>2, <1>4 DEF i, j
  <2>4. p # 1 /\ p # n + 1 => s[p - 1] = Slash \/ ~at.search
    <3>. SUFFICES ASSUME p # 1, p # n + 1, at.search PROVE s[p - 1] = Slash
      OBVIOUS
    <3>1. CASE p = at.pos
      BY <1>1, <1>4, <2>1, <2>2, <3>1
    <3>2. CASE p # at.pos
      <4>1. p - 1 \in at.pos .. p - 1
        BY <1>1, <2>1, <2>2, <3>2
      <4>. QED
        BY <4>1, <2>2
    <3>. QED
      BY <3>1, <3>2
  <2>5. Round(tree, s, at) \in P
    BY RoundFacts DEF P
  <2>6. CASE ~at.search
    <3>1. Round(tree, s, at) = at
      BY <2>6, RoundFacts DEF P
    <3>. QED
      BY <3>1, <1>4
  <2>7. CASE Halts(tree, s, at)
    <3>1. Round(tree, s, at) = Halt(s, at)
      BY <2>7, RoundFacts DEF P
    <3>2. Halt(s, at) = [node |-> at.node, pos |-> p, search |-> FALSE]
      BY DEF Halt, p
    <3>3. at.search
      BY <2>7 DEF Halts
    <3>. QED
      BY <2>3, <2>4, <2>5, <3>1, <3>2, <3>3
  <2>8. CASE at.search /\ ~Halts(tree, s, at)
    <3>. DEFINE kid == FirstFit(tree, s, at.node, p)
                m   == tree[kid].path
    <3>1. /\ Round(tree, s, at) = Onward(tree, s, at)
          /\ Onward(tree, s, at) = [node |-> kid, pos |-> p + Len(m), search |-> TRUE]
      <4>1. Round(tree, s, at) = Onward(tree, s, at)
        BY <2>8, RoundFacts DEF P
      <4>. QED
        BY <4>1 DEF Onward, p
    <3>2. p \in 1 .. n + 1 /\ p <= n /\ Fit(tree, s, at.node, p) # {}
      <4>1. p \in 1 .. n + 1
        BY <1>1, <2>1, <2>2
      <4>. QED
        BY <1>1, <2>8, <4>1 DEF Halts, p
    <3>3. /\ \E i \in DOMAIN tree[at.node].kids : kid = tree[at.node].kids[i]
          /\ m \in Strings /\ Matches(m, From(s, p))
      BY <2>1, <3>2, FirstFitFacts, SMTT(30)
    <3>4. full[kid] = full[at.node] \o Segments(m)
      <4>. HIDE DEF kid
      <4>. QED
        BY <2>1, <3>3 DEF Named
    <3>. HIDE DEF kid, m
    <3>5. /\ Len(m) <= n - p + 1
          /\ \A i \in 1 .. Len(m) : m[i] = s[p - 1 + i]
          /\ p + Len(m) <= n => s[p + Len(m)] = Slash
      BY <3>2, <3>3, MatchFacts
    <3>6. Len(m) \in Nat
      BY <3>3 DEF Strings
    <3>7. w[p - 1 + Len(m)] = w[p - 1] \o Segments(m)
      <4>1. p = 1 \/ s[p - 1] = Slash
        BY <1>1, <2>4, <2>8, <3>2
      <4>. QED
        BY <3>2, <3>3, <3>5, <4>1, ReadingSplits DEF w
    <3>8. (p + Len(m)) - 1 = p - 1 + Len(m)
      BY <1>1, <3>2, <3>6
    <3>9. w[(p + Len(m)) - 1] = full[kid]
      BY <2>3, <3>4, <3>7, <3>8
    <3>10. p + Len(m) # n + 1 => s[p + Len(m)] = Slash
      BY <1>1, <3>2, <3>5, <3>6, SMTT(30)
    <3>11. Round(tree, s, at) = [node |-> kid, pos |-> p + Len(m), search |-> TRUE]
      BY <3>1
    <3>. QED
      BY <2>5, <3>9, <3>10, <3>11
  <2>. QED
    BY <2>1, <2>6, <2>7, <2>8
<1>. DEFINE end == Walk(tree, s)[n + 1]
            e == end.pos
            r == From(s, e)
<1>5. end \in K
  <2>. HIDE DEF K
  <2>. QED
    BY <1>3, <1>4, AlongTheWalk
<1>6. end \in P /\ ~end.search
  BY EndFacts
<1>7. e \in 1 .. n + 1 /\ end.node \in 1 .. Len(tree)
  <2>. HIDE DEF end
  <2>. QED
    BY <1>6 DEF Places
<1>8. w[e - 1] = full[end.node] /\ (e # 1 /\ e # n + 1 => s[e - 1] = Slash)
  <2>. HIDE DEF end
  <2>. QED
    BY <1>5, <1>6
<1>9. Resolve(tree, s).node = end.node /\ Resolve(tree, s).rest = r
  BY DEF Resolve
<1>. HIDE DEF end, e
<1>10. /\ r \in Strings /\ Len(r) = n - e + 1 /\ (r = <<>> <=> e = n + 1)
       /\ \A i \in 1 .. n - e + 1 : r[i] = s[e + i - 1]
  BY <1>1, <1>7, FromFacts DEF Strings
<1>. HIDE DEF r
<1>11. Segments(s) = w[n]
  BY DEF Segments, w
<1>12. full[end.node] \in Seq(Strings)
  BY <1>7 DEF Named
<1>13. CASE e = n + 1
  <2>1. e - 1 = n /\ r = <<>>
    BY <1>1, <1>10, <1>13
  <2>2. Segments(s) = full[end.node]
    BY <2>1, <1>8, <1>11
  <2>3. full[end.node] \o <<>> = full[end.node]
    <3>. DEFINE x == full[end.node]
    <3>. HIDE DEF x
    <3>1. x \o <<>> = x
      BY <1>12, ConcatEmptySeq DEF x
    <3>. QED
      BY <3>1 DEF x
  <2>. QED
    BY <2>1, <2>2, <2>3, <1>9, SegmentsType
<1>14. CASE e # n + 1
  <2>1. e = 1 \/ s[e - 1] = Slash
    BY <1>8, <1>14
  <2>2. Len(r) <= Len(s) - e + 1 /\ Len(r) \in Nat /\ e - 1 + Len(r) = n
    BY <1>1, <1>7, <1>10
  <2>3. \A i \in 1 .. Len(r) : r[i] = s[e - 1 + i]
    <3>. SUFFICES ASSUME NEW i \in 1 .. Len(r) PROVE r[i] = s[e - 1 + i]
      OBVIOUS
    <3>1. e + i - 1 = e - 1 + i /\ i \in 1 .. n - e + 1
      BY <1>1, <1>7, <1>10
    <3>. QED
      BY <3>1, <1>10
  <2>4. w[e - 1 + Len(r)] = w[e - 1] \o Segments(r)
    BY <1>7, <1>10, <2>1, <2>2, <2>3, ReadingSplits DEF w
  <2>. QED
    BY <2>2, <2>4, <1>8, <1>9, <1>11
<1>. QED
  BY <1>13, <1>14
(* What begins a sequence begins it with more at its end.                   *)
LEMMA PrefixOfBoth ==
  ASSUME NEW C, NEW a \in Seq(C), NEW b \in Seq(C), NEW c \in Seq(C), IsPrefix(a, b)
  PROVE  IsPrefix(a, b \o c)
<1>. DEFINE d == b \o c
<1>1. /\ d \in Seq(C) /\ Len(d) = Len(b) + Len(c)
      /\ \A i \in 1 .. Len(b) + Len(c) : d[i] = IF i <= Len(b) THEN b[i] ELSE c[i - Len(b)]
  BY ConcatProperties
<1>2. Len(a) \in Nat /\ Len(b) \in Nat /\ Len(c) \in Nat
  OBVIOUS
<1>. HIDE DEF d
<1>3. Len(a) <= Len(b) /\ \A i \in 1 .. Len(a) : a[i] = b[i]
  BY PrefixFacts
<1>4. Len(a) <= Len(d) /\ \A i \in 1 .. Len(a) : a[i] = d[i]
  BY <1>1, <1>2, <1>3
<1>5. IsPrefix(a, d)
  BY <1>1, <1>4, PrefixFacts
<1>. QED
  BY <1>5 DEF d

(* A sequence begins itself.                                                *)
LEMMA PrefixOfItself ==
  ASSUME NEW C, NEW a \in Seq(C)
  PROVE  IsPrefix(a, a)
<1>1. Len(a) \in Nat
  OBVIOUS
<1>2. Len(a) <= Len(a) /\ \A i \in 1 .. Len(a) : a[i] = a[i]
  BY <1>1
<1>. QED
  BY <1>2, PrefixFacts

(* The names of the nodes that are made: the first has those of the path,   *)
(* the last - where the handler goes - begins with them.                    *)
LEMMA GrownNames ==
  ASSUME IsTree(nodes), NEW path \in Strings, NEW type, NEW at, NEW rest, NEW tree, NEW target,
         Registers(path, type, at, rest, tree, target), NEW full, Named(nodes, full)
  PROVE  \E full2 :
           /\ Named(tree, full2)
           /\ \A n \in 1 .. Len(nodes) : full2[n] = full[n]
           /\ IsPrefix(Segments(path), full2[target])
           /\ IF NamesOf(rest) = <<>> THEN full2[at] = Segments(path)
              ELSE full2[Len(nodes) + 1] = Segments(path)
<1>. DEFINE names == NamesOf(rest)
            old   == Len(nodes)
            P     == Seq(Strings)
            x     == full[at]
            n     == Len(names)
            h     == [k \in 1 .. n |-> [y \in P |-> y \o Segments(names[k])]]
            seg   == Segments(path)
<1>1. /\ at \in 1 .. Len(nodes) /\ rest \in Strings /\ target \in 1 .. Len(tree)
      /\ Resolve(nodes, path) = [node |-> at, rest |-> rest]
      /\ rest # <<>> => rest[1] # Slash
      /\ tree = Grown(at, NamesOf(rest)) /\ IsTree(tree) /\ Extends(nodes, tree)
      /\ target = IF NamesOf(rest) = <<>> THEN at ELSE Len(tree)
  BY DEF Registers
<1>2. /\ names \in Seq(Strings)
      /\ \A i \in DOMAIN names : names[i] # <<>> /\ names[i][1] # Slash
      /\ rest = <<>> => names = <<>>
      /\ rest # <<>> => names # <<>> /\ names[1] = rest
  <2>1. CASE rest = <<>>
    <3>1. names = <<>>
      BY <2>1, NoNames
    <3>. HIDE DEF names
    <3>. QED
      BY <2>1, <3>1
  <2>2. CASE rest # <<>>
    BY <1>1, <2>2, NamesFacts
  <2>. QED
    BY <2>1, <2>2
<1>. HIDE DEF names
<1>3. n \in Nat /\ old \in Nat /\ old >= 1 /\ DOMAIN names = 1 .. n
  BY <1>2 DEF IsTree
<1>4. /\ Len(tree) = old + n
      /\ \A m \in 1 .. old :
           /\ tree[m].path = nodes[m].path
           /\ tree[m].kids = IF m = at /\ names # <<>> THEN Append(nodes[m].kids, old + 1)
                             ELSE nodes[m].kids
  <2>. DEFINE g == Grown(at, names)
  <2>1. /\ Len(g) = old + n
        /\ \A m \in 1 .. old :
             /\ g[m].path = nodes[m].path
             /\ g[m].kids = IF m = at /\ names # <<>> THEN Append(nodes[m].kids, old + 1)
                            ELSE nodes[m].kids
    BY <1>1, <1>2, GrownFacts
  <2>2. tree = g
    BY <1>1 DEF names
  <2>. HIDE DEF g
  <2>. QED
    BY <2>1, <2>2
<1>5. \A k \in 1 .. n :
        /\ tree[old + k].path = names[k]
        /\ tree[old + k].kids = IF k < n THEN <<old + k + 1>> ELSE <<>>
  <2>. DEFINE g == Grown(at, names)
  <2>1. \A k \in 1 .. n :
          /\ g[old + k].path = names[k]
          /\ g[old + k].kids = IF k < n THEN <<old + k + 1>> ELSE <<>>
    BY <1>1, <1>2, GrownFacts
  <2>2. tree = g
    BY <1>1 DEF names
  <2>. HIDE DEF g
  <2>. QED
    BY <2>1, <2>2
<1>6. x \in P
  BY <1>1 DEF Named
<1>7. ASSUME NEW k \in 1 .. n PROVE Segments(names[k]) \in P
  <2>1. names[k] \in Strings
    BY <1>2, <1>3
  <2>. QED
    BY <2>1, SegmentsType
<1>8. PICK f : Steps(f, n, P, x, h)
  <2>1. h \in [1 .. n -> [P -> P]]
    <3>1. ASSUME NEW k \in 1 .. n, NEW y \in P PROVE y \o Segments(names[k]) \in P
      <4>. DEFINE z == Segments(names[k])
      <4>1. z \in P
        BY <1>7
      <4>. HIDE DEF z
      <4>2. y \o z \in P
        BY <4>1, ConcatProperties
      <4>. QED
        BY <4>2 DEF z
    <3>. HIDE DEF P
    <3>. QED
      BY <3>1
  <2>. HIDE DEF h, P, n, x
  <2>. QED
    BY <1>3, <1>6, <2>1, Iterated
<1>9. /\ f \in [0 .. n -> P] /\ f[0] = x
      /\ \A k \in 1 .. n : f[k - 1] \in P /\ f[k] = f[k - 1] \o Segments(names[k])
  <2>1. f \in [0 .. n -> P] /\ f[0] = x
    BY <1>8 DEF Steps
  <2>2. ASSUME NEW k \in 1 .. n PROVE f[k - 1] \in P /\ f[k] = f[k - 1] \o Segments(names[k])
    <3>1. k - 1 \in 0 .. n
      BY <1>3
    <3>2. f[k - 1] \in P
      BY <2>1, <3>1
    <3>3. f[k] = h[k][f[k - 1]]
      BY <1>8 DEF Steps
    <3>. QED
      BY <3>2, <3>3
  <2>. QED
    BY <2>1, <2>2
<1>. HIDE DEF P, h
<1>10. seg = x \o Segments(rest) /\ seg \in P
  <2>1. seg \in P
    BY SegmentsType DEF P
  <2>2. Resolve(nodes, path).node = at /\ Resolve(nodes, path).rest = rest
    BY <1>1
  <2>3. seg = full[Resolve(nodes, path).node] \o Segments(Resolve(nodes, path).rest)
    BY WalkReads
  <2>. QED
    BY <2>1, <2>2, <2>3
<1>. DEFINE full2 == [m \in 1 .. Len(tree) |-> IF m <= old THEN full[m] ELSE f[m - old]]
<1>11. ASSUME NEW m \in 1 .. old PROVE m \in 1 .. Len(tree) /\ full2[m] = full[m] /\ full[m] \in P
  <2>1. m \in 1 .. Len(tree) /\ m <= old
    BY <1>3, <1>4
  <2>. QED
    BY <2>1 DEF Named, P
<1>12. ASSUME NEW k \in 1 .. n PROVE old + k \in 1 .. Len(tree) /\ full2[old + k] = f[k]
  <2>1. old + k \in 1 .. Len(tree) /\ ~(old + k <= old) /\ (old + k) - old = k
    BY <1>3, <1>4
  <2>. QED
    BY <2>1
<1>13. \A m \in 1 .. Len(tree) : m \in 1 .. old \/ \E k \in 1 .. n : m = old + k
  <2>. SUFFICES ASSUME NEW m \in 1 .. Len(tree), m \notin 1 .. old
                PROVE  \E k \in 1 .. n : m = old + k
    OBVIOUS
  <2>1. m - old \in 1 .. n /\ m = old + (m - old)
    BY <1>3, <1>4
  <2>. QED
    BY <2>1
<1>14. full2 \in [1 .. Len(tree) -> P]
  <2>1. ASSUME NEW m \in 1 .. Len(tree) PROVE full2[m] \in P
    <3>1. \A k \in 1 .. n : k \in 0 .. n
      BY <1>3
    <3>. HIDE DEF full2
    <3>2. \A k \in 1 .. n : f[k] \in P
      BY <1>9, <3>1
    <3>3. CASE m \in 1 .. old
      BY <3>3, <1>11
    <3>4. CASE \E k \in 1 .. n : m = old + k
      BY <3>2, <3>4, <1>12
    <3>. QED
      BY <1>13, <3>3, <3>4
  <2>2. full2 = [m \in 1 .. Len(tree) |-> full2[m]]
    OBVIOUS
  <2>. HIDE DEF full2
  <2>. QED
    BY <2>1, <2>2
<1>. HIDE DEF full2
<1>15. ASSUME NEW m \in 1 .. Len(tree), NEW i \in DOMAIN tree[m].kids
       PROVE  full2[tree[m].kids[i]] = full2[m] \o Segments(tree[tree[m].kids[i]].path)
  <2>1. CASE m \in 1 .. old
    <3>. DEFINE ks == nodes[m].kids
    <3>1. ks \in Seq(Nat) /\ \A j \in DOMAIN ks : ks[j] \in 2 .. old
      BY <2>1, NodeFacts
    <3>2. ASSUME NEW j \in DOMAIN ks
          PROVE  full2[ks[j]] = full2[m] \o Segments(tree[ks[j]].path)
      <4>1. ks[j] \in 1 .. old
        BY <3>1, <1>3
      <4>2. full[ks[j]] = full[m] \o Segments(nodes[ks[j]].path)
        BY <2>1 DEF Named
      <4>. HIDE DEF ks
      <4>. QED
        BY <2>1, <4>1, <4>2, <1>4, <1>11
    <3>3. CASE m = at /\ names # <<>>
      <4>1. tree[m].kids = Append(ks, old + 1)
        BY <2>1, <3>3, <1>4
      <4>. HIDE DEF ks
      <4>2. /\ DOMAIN Append(ks, old + 1) = 1 .. Len(ks) + 1 /\ DOMAIN ks = 1 .. Len(ks)
            /\ Len(ks) \in Nat /\ Append(ks, old + 1)[Len(ks) + 1] = old + 1
            /\ \A j \in 1 .. Len(ks) : Append(ks, old + 1)[j] = ks[j]
        <5>1. old + 1 \in Nat
          BY <1>3
        <5>. QED
          BY <3>1, <5>1
      <4>3. CASE i \in 1 .. Len(ks)
        BY <3>2, <4>1, <4>2, <4>3
      <4>4. CASE i = Len(ks) + 1
        <5>1. tree[m].kids[i] = old + 1 /\ 1 \in 1 .. n /\ n >= 1
          <6>1. n >= 1
            BY <1>2, <3>3
          <6>. QED
            BY <1>3, <4>1, <4>2, <4>4, <6>1
        <5>2. tree[old + 1].path = names[1] /\ full2[old + 1] = f[1]
          BY <5>1, <1>5, <1>12
        <5>3. f[1] = x \o Segments(names[1])
          <6>1. 1 - 1 = 0
            OBVIOUS
          <6>. QED
            BY <5>1, <6>1, <1>9
        <5>4. full2[m] = x
          BY <1>1, <1>11, <3>3
        <5>. QED
          BY <5>1, <5>2, <5>3, <5>4
      <4>5. i \in 1 .. Len(ks) + 1
        BY <4>1, <4>2
      <4>6. i \in 1 .. Len(ks) \/ i = Len(ks) + 1
        BY <4>2, <4>5
      <4>. QED
        BY <4>3, <4>4, <4>6
    <3>4. CASE ~(m = at /\ names # <<>>)
      <4>1. tree[m].kids = ks
        BY <2>1, <3>4, <1>4
      <4>. HIDE DEF ks
      <4>. QED
        BY <3>2, <4>1
    <3>. QED
      BY <3>3, <3>4
  <2>2. CASE \E k \in 1 .. n : m = old + k
    <3>1. PICK k \in 1 .. n : m = old + k
      BY <2>2
    <3>2. tree[m].kids = IF k < n THEN <<old + k + 1>> ELSE <<>>
      BY <3>1, <1>5
    <3>3. k < n /\ i = 1 /\ tree[m].kids[i] = old + (k + 1)
      <4>1. CASE k < n
        BY <3>1, <3>2, <4>1, <1>3
      <4>2. CASE ~(k < n)
        BY <3>2, <4>2
      <4>. QED
        BY <4>1, <4>2
    <3>4. k + 1 \in 1 .. n /\ (k + 1) - 1 = k
      BY <1>3, <3>3
    <3>5. /\ full2[old + (k + 1)] = f[k + 1] /\ full2[m] = f[k]
          /\ tree[old + (k + 1)].path = names[k + 1]
      BY <1>5, <1>12, <3>1, <3>4
    <3>6. f[k + 1] = f[k] \o Segments(names[k + 1])
      BY <1>9, <3>4
    <3>. QED
      BY <3>3, <3>5, <3>6
  <2>. QED
    BY <1>13, <2>1, <2>2
<1>16. Named(tree, full2)
  <2>1. full2[1] = <<>>
    <3>1. 1 \in 1 .. old
      BY <1>3
    <3>. QED
      BY <3>1, <1>11 DEF Named
  <2>. QED
    BY <2>1, <1>14, <1>15 DEF Named, P
<1>17. names = <<>> => full2[at] = seg
  <2>. SUFFICES ASSUME names = <<>> PROVE full2[at] = seg
    OBVIOUS
  <2>1. rest = <<>>
    BY <1>2
  <2>2. x \o <<>> = x
    <3>. HIDE DEF x
    <3>. QED
      BY <1>6, ConcatEmptySeq DEF P
  <2>3. seg = x
    BY <2>1, <2>2, <1>10, SegmentsType
  <2>. QED
    BY <2>3, <1>1, <1>11
<1>18. names # <<>> => n >= 1 /\ f[1] = seg /\ full2[old + 1] = seg
  <2>. SUFFICES ASSUME names # <<>> PROVE n >= 1 /\ f[1] = seg /\ full2[old + 1] = seg
    OBVIOUS
  <2>1. n >= 1 /\ rest # <<>> /\ names[1] = rest
    BY <1>2
  <2>2. 1 \in 1 .. n /\ 1 - 1 = 0
    BY <1>3, <2>1
  <2>3. f[1] = x \o Segments(rest)
    BY <1>9, <2>1, <2>2
  <2>. QED
    BY <2>1, <2>2, <2>3, <1>10, <1>12
<1>19. IsPrefix(seg, full2[target])
  <2>. HIDE DEF seg
  <2>1. CASE names = <<>>
    <3>1. target = at /\ full2[target] = seg
      BY <2>1, <1>1, <1>17 DEF names
    <3>. QED
      BY <3>1, <1>10, PrefixOfItself DEF P
  <2>2. CASE names # <<>>
    <3>. DEFINE K == {k \in 0 .. n : k = 0 \/ IsPrefix(seg, f[k])}
    <3>1. 0 \in K
      BY <1>3
    <3>2. ASSUME NEW k \in 0 .. n - 1, k \in K PROVE k + 1 \in K
      <4>1. k + 1 \in 1 .. n /\ (k + 1) - 1 = k /\ k + 1 \in 0 .. n
        BY <1>3
      <4>2. CASE k = 0
        <5>1. f[k + 1] = seg
          BY <4>2, <1>18, <2>2
        <5>. QED
          BY <4>1, <5>1, <1>10, PrefixOfItself DEF P
      <4>3. CASE k # 0
        <5>. DEFINE a == f[k]
                    b == Segments(names[k + 1])
        <5>1. f[k + 1] = a \o b /\ a \in P /\ b \in P /\ IsPrefix(seg, a)
          BY <4>1, <4>3, <1>7, <1>9, <3>2
        <5>. HIDE DEF a, b
        <5>2. IsPrefix(seg, a \o b)
          BY <5>1, <1>10, PrefixOfBoth DEF P
        <5>. QED
          BY <4>1, <5>1, <5>2
      <4>. QED
        BY <4>2, <4>3
    <3>3. \A k \in 0 .. n : k \in K
      <4>. HIDE DEF K
      <4>. QED
        BY <1>3, <3>1, <3>2, Counting
    <3>4. target = old + n /\ n \in 1 .. n /\ n # 0 /\ n \in 0 .. n
      BY <1>1, <1>3, <1>4, <1>18, <2>2 DEF names
    <3>5. full2[target] = f[n]
      BY <3>4, <1>12
    <3>. QED
      BY <3>3, <3>4, <3>5
  <2>. QED
    BY <2>1, <2>2
<1>20. \A m \in 1 .. Len(nodes) : full2[m] = full[m]
  BY <1>11
<1>. QED
  BY <1>16, <1>17, <1>18, <1>19, <1>20 DEF names
-----------------------------------------------------------------------------
(* One name at a time                                                       *)

(* A string without a slash is one name. *)
LEMMA OneSegment ==
  ASSUME NEW r \in Strings, r # <<>>, Slash \notin Range(r)
  PROVE  Segments(r) = <<r>>
<1>. DEFINE n == Len(r)
            w == Reading(r)
            K == {i \in 0 .. n : i = 0 \/ w[i] = <<SubSeq(r, 1, i)>>}
<1>1. n \in Nat /\ n >= 1 /\ r \in Seq(Chars)
  BY DEF Strings
<1>2. /\ w \in [0 .. n -> Seq(Strings)] /\ w[0] = <<>>
      /\ \A k \in 1 .. n : w[k] = Reads(w[k - 1], r, k)
  BY ReadingFacts
<1>3. \A i \in 1 .. n : r[i] # Slash /\ r[i] \in Chars
  BY <1>1 DEF Range
<1>. HIDE DEF w
<1>4. 0 \in K
  BY <1>1
<1>5. ASSUME NEW i \in 0 .. n - 1, i \in K PROVE i + 1 \in K
  <2>1. i + 1 \in 1 .. n /\ (i + 1) - 1 = i /\ i + 1 \in 0 .. n
    BY <1>1
  <2>. DEFINE c == r[i + 1]
              a == SubSeq(r, 1, i)
              b == SubSeq(r, 1, i + 1)
  <2>2. w[i + 1] = Reads(w[i], r, i + 1) /\ c # Slash /\ c \in Chars
    BY <2>1, <1>2, <1>3
  <2>3. w[i + 1] = <<b>>
    <3>1. CASE i = 0
      <4>1. StartsName(r, i + 1)
        BY <2>2, <3>1 DEF StartsName
      <4>2. w[i + 1] = Append(<<>>, <<c>>)
        BY <2>2, <3>1, <4>1, <1>2 DEF Reads
      <4>3. b = <<c>>
        <5>1. b \in Seq(Chars) /\ Len(b) = 1 /\ b[1] = c
          BY <1>1, <2>1, <3>1
        <5>. HIDE DEF b, c
        <5>. QED
          BY <5>1
      <4>4. Append(<<>>, <<c>>) = <<b>>
        <5>. HIDE DEF b
        <5>. QED
          BY <4>3
      <4>. QED
        BY <4>2, <4>4
    <3>2. CASE i # 0
      <4>1. i \in 1 .. n /\ (i + 1) - 1 = i /\ i + 1 > 1
        BY <1>1, <3>2
      <4>2. ~StartsName(r, i + 1)
        BY <1>3, <4>1 DEF StartsName
      <4>3. w[i + 1] = Longer(<<a>>, c)
        <5>1. w[i] = <<a>>
          BY <1>5, <3>2
        <5>2. w[i + 1] = Longer(w[i], c)
          BY <2>2, <4>2 DEF Reads
        <5>. QED
          BY <5>1, <5>2
      <4>4. Longer(<<a>>, c) = <<Append(a, c)>>
        <5>. HIDE DEF a, c
        <5>. QED
          BY DEF Longer
      <4>5. Append(a, c) = b
        <5>1. i + 1 \in Int /\ 1 \in Int /\ 1 <= i + 1
          BY <1>1, <4>1
        <5>2. /\ a \in Seq(Chars) /\ Len(a) = i /\ \A k \in 1 .. i : a[k] = r[k]
          BY <1>1, <4>1
        <5>3. /\ b \in Seq(Chars) /\ Len(b) = i + 1 /\ \A k \in 1 .. i + 1 : b[k] = r[k]
          BY <1>1, <2>1
        <5>. HIDE DEF a, b, c
        <5>4. /\ Append(a, c) \in Seq(Chars) /\ Len(Append(a, c)) = i + 1
              /\ \A k \in 1 .. i : Append(a, c)[k] = a[k]
              /\ Append(a, c)[i + 1] = c
          BY <2>2, <5>2, AppendProperties
        <5>. DEFINE d == Append(a, c)
        <5>5. ASSUME NEW k \in 1 .. i + 1 PROVE d[k] = b[k]
          <6>1. CASE k \in 1 .. i
            BY <5>2, <5>3, <5>4, <6>1
          <6>2. CASE k = i + 1
            BY <5>3, <5>4, <6>2 DEF c
          <6>3. k \in 1 .. i \/ k = i + 1
            BY <4>1
          <6>. HIDE DEF d
          <6>. QED
            BY <6>1, <6>2, <6>3
        <5>. HIDE DEF d
        <5>6. d \in Seq(Chars) /\ Len(d) = i + 1
          BY <5>4 DEF d
        <5>7. d = b
          BY <5>3, <5>5, <5>6, SeqEqual
        <5>. QED
          BY <5>7 DEF d
      <4>. QED
        BY <4>3, <4>4, <4>5
    <3>. QED
      BY <3>1, <3>2
  <2>. QED
    BY <2>1, <2>3
<1>6. w[n] = <<SubSeq(r, 1, n)>>
  <2>. HIDE DEF K
  <2>1. \A k \in 0 .. n : k \in K
    BY <1>1, <1>4, <1>5, Counting
  <2>2. n \in K /\ n # 0
    BY <1>1, <2>1
  <2>. QED
    BY <2>2 DEF K
<1>7. SubSeq(r, 1, n) = r
  BY <1>1, SubSeqFull
<1>. QED
  BY <1>6, <1>7 DEF Segments, w

(* The first of the names of what is left of a path fits it. *)
LEMMA FirstFits ==
  ASSUME NEW r \in Strings, r # <<>>, r[1] # Slash
  PROVE  Segments(r) # <<>> /\ Matches(Segments(r)[1], r)
<1>. DEFINE n == Len(r)
            w == Reading(r)
            E == {q \in 1 .. n + 1 : q = n + 1 \/ r[q] = Slash}
<1>1. n \in Nat /\ n >= 1 /\ r \in Seq(Chars)
  BY DEF Strings
<1>2. PICK q \in E : \A k \in E : q <= k
  <2>1. E \subseteq Nat /\ n + 1 \in E
    BY <1>1
  <2>. HIDE DEF E
  <2>. QED
    BY <2>1, LeastOf
<1>3. /\ q \in 2 .. n + 1 /\ (q = n + 1 \/ r[q] = Slash)
      /\ \A i \in 1 .. q - 1 : r[i] # Slash
  <2>1. q # 1
    BY <1>1, <1>2
  <2>. QED
    BY <1>1, <1>2, <2>1
<1>. HIDE DEF E
<1>. DEFINE m == SubSeq(r, 1, q - 1)
<1>4. /\ m \in Seq(Chars) /\ Len(m) = q - 1 /\ \A i \in 1 .. q - 1 : m[i] = r[i]
  <2>1. q - 1 \in Nat /\ q - 1 <= n
    BY <1>1, <1>3
  <2>. QED
    BY <1>1, <2>1
<1>. HIDE DEF m
<1>5. m \in Strings /\ m # <<>> /\ Slash \notin Range(m)
  <2>1. Len(m) >= 1 /\ DOMAIN m = 1 .. q - 1
    BY <1>3, <1>4
  <2>2. Slash \notin Range(m)
    BY <1>3, <1>4, <2>1 DEF Range
  <2>3. m # <<>>
    BY <2>1
  <2>. QED
    BY <1>4, <2>2, <2>3 DEF Strings
<1>6. Segments(m) = <<m>>
  BY <1>5, OneSegment
<1>7. /\ w \in [0 .. n -> Seq(Strings)] /\ w[0] = <<>>
      /\ \A k \in 1 .. n : w[k] = Reads(w[k - 1], r, k)
  BY ReadingFacts
<1>8. w[q - 1] = <<m>>
  <2>. DEFINE p == 1
  <2>1. p \in 1 .. Len(r) + 1 /\ p = 1 /\ Len(m) <= Len(r) - p + 1
    BY <1>1, <1>3, <1>4
  <2>2. \A i \in 1 .. Len(m) : m[i] = r[p - 1 + i]
    <3>. SUFFICES ASSUME NEW i \in 1 .. Len(m) PROVE m[i] = r[p - 1 + i]
      OBVIOUS
    <3>1. p - 1 + i = i /\ i \in 1 .. q - 1
      BY <1>4
    <3>. QED
      BY <3>1, <1>4
  <2>3. p - 1 + Len(m) = q - 1 /\ p - 1 = 0
    BY <1>3, <1>4
  <2>. HIDE DEF p, w
  <2>4. w[p - 1 + Len(m)] = w[p - 1] \o Segments(m)
    BY <1>5, <2>1, <2>2, ReadingSplits DEF w
  <2>5. w[q - 1] = <<>> \o <<m>>
    BY <2>3, <2>4, <1>6, <1>7
  <2>. QED
    BY <2>5
<1>. HIDE DEF w
<1>9. Segments(r) = w[n]
  BY DEF Segments, w
<1>10. Segments(r) # <<>> /\ Segments(r)[1] = m
  <2>1. CASE q = n + 1
    <3>1. q - 1 = n
      BY <1>1, <2>1
    <3>. QED
      BY <3>1, <1>8, <1>9
  <2>2. CASE q # n + 1
    <3>1. q \in 1 .. n /\ r[q] = Slash
      BY <1>1, <1>3, <2>2
    <3>2. w[q] = <<m>>
      BY <3>1, <1>7, <1>8 DEF Reads
    <3>. DEFINE p == q + 1
                t == From(r, p)
                y == Segments(t)
    <3>3. p \in 1 .. Len(r) + 1 /\ p - 1 = q
      BY <1>1, <3>1
    <3>. HIDE DEF p
    <3>4. /\ t \in Seq(Chars) /\ Len(t) = Len(r) - p + 1
          /\ \A i \in 1 .. Len(r) - p + 1 : t[i] = r[p + i - 1]
      BY <1>1, <3>3, FromFacts
    <3>. HIDE DEF t
    <3>5. /\ Len(t) <= Len(r) - p + 1 /\ p - 1 + Len(t) = n
          /\ \A i \in 1 .. Len(t) : t[i] = r[p - 1 + i]
      <4>1. Len(t) <= Len(r) - p + 1 /\ p - 1 + Len(t) = n
        BY <1>1, <3>3, <3>4
      <4>2. ASSUME NEW i \in 1 .. Len(t) PROVE t[i] = r[p - 1 + i]
        <5>1. p + i - 1 = p - 1 + i /\ i \in 1 .. Len(r) - p + 1
          BY <1>1, <3>3, <3>4
        <5>. QED
          BY <3>4, <5>1
      <4>. QED
        BY <4>1, <4>2
    <3>6. t \in Strings /\ y \in Seq(Strings)
      BY <3>4, SegmentsType DEF Strings
    <3>7. w[p - 1 + Len(t)] = w[p - 1] \o y
      BY <3>1, <3>3, <3>5, <3>6, ReadingSplits DEF w
    <3>. HIDE DEF y
    <3>8. w[n] = <<m>> \o y
      BY <3>2, <3>3, <3>5, <3>7
    <3>9. <<m>> \in Seq(Strings) /\ Len(<<m>>) = 1 /\ <<m>>[1] = m
      BY <1>5
    <3>10. Len(<<m>> \o y) = 1 + Len(y) /\ (<<m>> \o y)[1] = m /\ Len(y) \in Nat
      BY <3>6, <3>9
    <3>11. <<m>> \o y # <<>>
      <4>. DEFINE z == <<m>> \o y
      <4>1. Len(z) = 1 + Len(y)
        BY <3>10
      <4>. HIDE DEF z
      <4>2. z # <<>>
        BY <3>10, <4>1
      <4>. QED
        BY <4>2 DEF z
    <3>. QED
      BY <1>9, <3>8, <3>10, <3>11
  <2>. QED
    BY <2>1, <2>2
<1>11. Matches(m, r)
  <2>. DEFINE p == 1
  <2>1. p \in 1 .. Len(r) + 1 /\ From(r, p) = r
    BY <1>1, SubSeqFull DEF From
  <2>2. Len(m) <= Len(r) - p + 1
    BY <1>1, <1>3, <1>4
  <2>3. \A i \in 1 .. Len(m) : m[i] = r[p - 1 + i]
    <3>. SUFFICES ASSUME NEW i \in 1 .. Len(m) PROVE m[i] = r[p - 1 + i]
      OBVIOUS
    <3>1. p - 1 + i = i /\ i \in 1 .. q - 1
      BY <1>4
    <3>. QED
      BY <3>1, <1>4
  <2>4. p + Len(m) <= Len(r) => r[p + Len(m)] = Slash
    <3>1. p + Len(m) = q
      BY <1>3, <1>4
    <3>. QED
      BY <1>1, <1>3, <3>1
  <2>. HIDE DEF p
  <2>5. Matches(m, From(r, p))
    BY <1>5, <2>1, <2>2, <2>3, <2>4, MatchFacts
  <2>. QED
    BY <2>1, <2>5
<1>. QED
  BY <1>10, <1>11

(* Where the walk ends with something left no child fits it. *)
LEMMA NoneFits ==
  ASSUME NEW tree, IsTree(tree), NEW s \in Strings
  PROVE  LET at   == Resolve(tree, s).node
             rest == Resolve(tree, s).rest
         IN  /\ at \in 1 .. Len(tree) /\ rest \in Strings
             /\ rest # <<>> =>
                  /\ rest[1] # Slash
                  /\ \A i \in DOMAIN tree[at].kids : ~Matches(tree[tree[at].kids[i]].path, rest)
<1>. DEFINE end == Walk(tree, s)[Len(s) + 1]
            p   == end.pos
            at  == end.node
            r   == From(s, p)
<1>1. s \in Seq(Chars) /\ Len(s) \in Nat
  BY DEF Strings
<1>2. /\ end \in Places(tree, s)
      /\ p <= Len(s) => s[p] # Slash /\ Fit(tree, s, at, p) = {}
  BY EndFacts
<1>3. at \in 1 .. Len(tree) /\ p \in 1 .. Len(s) + 1
  <2>. HIDE DEF end
  <2>. QED
    BY <1>2 DEF Places
<1>4. Resolve(tree, s).node = at /\ Resolve(tree, s).rest = r
  BY DEF Resolve
<1>. HIDE DEF at, p
<1>5. /\ r \in Seq(Chars) /\ (r = <<>> <=> p = Len(s) + 1)
      /\ \A i \in 1 .. Len(s) - p + 1 : r[i] = s[p + i - 1]
  BY <1>1, <1>3, FromFacts
<1>6. r # <<>> => p <= Len(s) /\ 1 \in 1 .. Len(s) - p + 1 /\ p + 1 - 1 = p
  <2>1. p # Len(s) + 1 => p <= Len(s) /\ 1 \in 1 .. Len(s) - p + 1 /\ p + 1 - 1 = p
    BY <1>1, <1>3
  <2>. HIDE DEF r
  <2>. QED
    BY <2>1, <1>5
<1>7. r # <<>> => r[1] # Slash
  BY <1>2, <1>5, <1>6
<1>8. r # <<>> => \A i \in DOMAIN tree[at].kids : ~Matches(tree[tree[at].kids[i]].path, r)
  <2>. HIDE DEF r
  <2>. QED
    BY <1>2, <1>6 DEF Fit, r
<1>9. r \in Strings
  BY <1>5 DEF Strings
<1>. HIDE DEF r
<1>. QED
  BY <1>3, <1>4, <1>7, <1>8, <1>9
-----------------------------------------------------------------------------
(* Where a request goes                                                     *)

(* A handler is where the names of its path lead, or further on.            *)
Slotted(tree, full, rs) ==
  \A n \in 1 .. Len(tree), t \in Types :
    tree[n].slots[t].is = "set" =>
      /\ [path |-> tree[n].slots[t].of, type |-> t] \in rs
      /\ IsPrefix(Segments(tree[n].slots[t].of), full[n])

(* In a tree that grew by one name at a time every node stands for the      *)
(* names of a path, and no two for the same.                                *)
Single(tree, full, cs) ==
  /\ \A n \in 1 .. Len(tree) : Slash \notin Range(tree[n].path)
  /\ \A n \in 1 .. Len(tree), t \in Types :
       tree[n].slots[t].is = "set" => Segments(tree[n].slots[t].of) = full[n]
  /\ \A c \in cs : \E n \in 1 .. Len(tree) : full[n] = Segments(c.path)
  /\ \A n \in 2 .. Len(tree) : \E c \in cs : full[n] = Segments(c.path)
  /\ \A m \in 2 .. Len(tree) : \E n \in 1 .. Len(tree) : \E i \in DOMAIN tree[n].kids : m = tree[n].kids[i]
  /\ \A a \in 1 .. Len(tree), b \in 1 .. Len(tree) : full[a] = full[b] => a = b

(* m is a child of n, and stands for one name more. *)
IsParent(tree, full, n, m) ==
  \E i \in DOMAIN tree[n].kids :
    /\ m = tree[n].kids[i] /\ tree[m].path \in Strings
    /\ full[n] \in Seq(Strings) /\ full[m] \in Seq(Strings)
    /\ Len(full[m]) = Len(full[n]) + 1
    /\ \A j \in 1 .. Len(full[n]) : full[m][j] = full[n][j]
    /\ full[m][Len(full[n]) + 1] = tree[m].path

(* Every node but the root is a child. *)
LEMMA ParentOf ==
  ASSUME NEW tree, IsTree(tree), NEW full, Named(tree, full), NEW cs, Single(tree, full, cs),
         NEW m \in 2 .. Len(tree)
  PROVE  \E n \in 1 .. Len(tree) : IsParent(tree, full, n, m)
<1>1. PICK n \in 1 .. Len(tree) : \E i \in DOMAIN tree[n].kids : m = tree[n].kids[i]
  BY DEF Single
<1>2. PICK i \in DOMAIN tree[n].kids : m = tree[n].kids[i]
  BY <1>1
<1>3. Len(tree) \in Nat /\ m \in 1 .. Len(tree) /\ m # 1
  BY DEF IsTree
<1>. DEFINE x == tree[m].path
            a == full[n]
            b == full[m]
<1>4. x \in Strings /\ x # <<>> /\ Slash \notin Range(x)
  BY <1>3, NodeFacts DEF Single
<1>5. a \in Seq(Strings) /\ b \in Seq(Strings)
  BY <1>1, <1>3 DEF Named
<1>6. b = a \o <<x>>
  <2>1. b = a \o Segments(x)
    BY <1>1, <1>2 DEF Named
  <2>. HIDE DEF x
  <2>2. Segments(x) = <<x>>
    BY <1>4, OneSegment
  <2>. QED
    BY <2>1, <2>2
<1>. HIDE DEF x, a, b
<1>7. <<x>> \in Seq(Strings) /\ Len(<<x>>) = 1 /\ <<x>>[1] = x
  BY <1>4
<1>8. /\ Len(b) = Len(a) + 1
      /\ \A j \in 1 .. Len(a) : b[j] = a[j]
      /\ b[Len(a) + 1] = x
  <2>. DEFINE y == <<x>>
  <2>1. y \in Seq(Strings) /\ Len(y) = 1 /\ y[1] = x /\ b = a \o y
    BY <1>6, <1>7
  <2>. HIDE DEF y
  <2>2. Len(a) \in Nat
    BY <1>5
  <2>3. /\ Len(b) = Len(a) + Len(y)
        /\ \A j \in 1 .. Len(a) + Len(y) : b[j] = IF j <= Len(a) THEN a[j] ELSE y[j - Len(a)]
    BY <1>5, <2>1, ConcatProperties
  <2>4. (Len(a) + 1) - Len(a) = 1 /\ ~(Len(a) + 1 <= Len(a)) /\ Len(a) + 1 \in 1 .. Len(a) + 1
    BY <2>2
  <2>5. \A j \in 1 .. Len(a) : j <= Len(a) /\ j \in 1 .. Len(a) + 1
    BY <2>2
  <2>. QED
    BY <2>1, <2>3, <2>4, <2>5
<1>9. IsParent(tree, full, n, m)
  BY <1>2, <1>4, <1>5, <1>8 DEF x, a, b, IsParent
<1>. QED
  BY <1>9

(* A url leads to the longest of the beginnings that have a node. *)
LEMMA LongestIsFound ==
  ASSUME NEW tree, IsTree(tree), NEW full, Named(tree, full), NEW cs, Single(tree, full, cs),
         NEW u \in Strings
  PROVE  LET best  == full[Resolve(tree, u).node]
             names == Segments(u)
         IN  /\ names = best \o Segments(Resolve(tree, u).rest)
             /\ IsPrefix(best, names)
             /\ \A m \in 1 .. Len(tree) : IsPrefix(full[m], names) => Len(full[m]) <= Len(best)
<1>. DEFINE at    == Resolve(tree, u).node
            rest  == Resolve(tree, u).rest
            best  == full[at]
            names == Segments(u)
            more  == Segments(rest)
<1>1. /\ at \in 1 .. Len(tree) /\ rest \in Strings
      /\ rest # <<>> =>
           /\ rest[1] # Slash
           /\ \A i \in DOMAIN tree[at].kids : ~Matches(tree[tree[at].kids[i]].path, rest)
  BY NoneFits
<1>2. names = best \o more
  BY WalkReads
<1>. HIDE DEF at, rest
<1>3. names \in Seq(Strings) /\ more \in Seq(Strings) /\ best \in Seq(Strings)
  BY <1>1, SegmentsType DEF Named
<1>4. IsPrefix(best, names)
  <2>. HIDE DEF best, more, names
  <2>1. IsPrefix(best, best)
    BY <1>3, PrefixOfItself
  <2>2. IsPrefix(best, best \o more)
    BY <1>3, <2>1, PrefixOfBoth
  <2>. QED
    BY <1>2, <2>2
<1>5. ASSUME NEW m1 \in 1 .. Len(tree), IsPrefix(full[m1], names), ~(Len(full[m1]) <= Len(best))
      PROVE  FALSE
  <2>. DEFINE M == {m \in 1 .. Len(tree) : IsPrefix(full[m], names) /\ ~(Len(full[m]) <= Len(best))}
              L == {Len(full[m]) : m \in M}
  <2>1. \A m \in 1 .. Len(tree) : full[m] \in Seq(Strings) /\ Len(full[m]) \in Nat
    BY DEF Named
  <2>2. PICK m \in M : \A k \in M : Len(full[m]) <= Len(full[k])
    <3>1. L \subseteq Nat /\ L # {}
      BY <1>5, <2>1
    <3>2. PICK l \in L : \A k \in L : l <= k
      <4>. HIDE DEF L
      <4>. QED
        BY <3>1, LeastOf
    <3>. QED
      BY <3>2
  <2>3. m \in 1 .. Len(tree) /\ IsPrefix(full[m], names) /\ ~(Len(full[m]) <= Len(best))
    BY <2>2
  <2>4. Len(tree) \in Nat /\ Len(best) \in Nat
    BY <1>3 DEF IsTree
  <2>5. m \in 2 .. Len(tree)
    <3>1. m = 1 => Len(full[m]) = 0
      BY DEF Named
    <3>. HIDE DEF best
    <3>. QED
      BY <2>3, <2>4, <3>1
  <2>6. PICK n \in 1 .. Len(tree) : IsParent(tree, full, n, m)
    BY <2>5, ParentOf
  <2>7. PICK i \in DOMAIN tree[n].kids :
           /\ m = tree[n].kids[i] /\ tree[m].path \in Strings
           /\ full[n] \in Seq(Strings) /\ full[m] \in Seq(Strings)
           /\ Len(full[m]) = Len(full[n]) + 1
           /\ \A j \in 1 .. Len(full[n]) : full[m][j] = full[n][j]
           /\ full[m][Len(full[n]) + 1] = tree[m].path
    BY <2>6 DEF IsParent
  <2>. DEFINE a == full[n]
              b == full[m]
  <2>. HIDE DEF a, b, best, names, more
  <2>8. /\ a \in Seq(Strings) /\ b \in Seq(Strings) /\ Len(b) = Len(a) + 1
        /\ \A j \in 1 .. Len(a) : b[j] = a[j]
        /\ b[Len(a) + 1] = tree[m].path
    BY <2>7 DEF a, b
  <2>9. /\ Len(a) \in Nat /\ Len(b) \in Nat /\ Len(best) \in Nat /\ Len(names) \in Nat /\ Len(more) \in Nat
    BY <1>3, <2>8
  <2>10. Len(b) <= Len(names) /\ \A j \in 1 .. Len(b) : b[j] = names[j]
    <3>1. IsPrefix(b, names)
      BY <2>3 DEF b
    <3>. QED
      BY <1>3, <2>8, <3>1, PrefixFacts
  <2>11. Len(best) <= Len(names) /\ \A j \in 1 .. Len(best) : best[j] = names[j]
    BY <1>3, <1>4, PrefixFacts
  <2>12. Len(a) <= Len(best)
    <3>1. IsPrefix(a, names)
      <4>1. Len(a) <= Len(names) /\ \A j \in 1 .. Len(a) : a[j] = names[j]
        BY <2>8, <2>9, <2>10
      <4>. QED
        BY <1>3, <2>8, <4>1, PrefixFacts
    <3>2. ~(Len(a) <= Len(best)) => n \in M
      BY <2>6, <3>1 DEF a
    <3>3. n \in M => Len(b) <= Len(a)
      BY <2>2 DEF a, b
    <3>. HIDE DEF M
    <3>. QED
      BY <2>8, <2>9, <3>2, <3>3
  <2>13. Len(a) = Len(best)
    <3>1. ~(Len(b) <= Len(best))
      BY <2>3 DEF b
    <3>. QED
      BY <2>8, <2>9, <2>12, <3>1
  <2>14. a = best
    <3>1. ASSUME NEW j \in 1 .. Len(a) PROVE a[j] = best[j]
      <4>1. j \in 1 .. Len(b)
        BY <2>8, <2>9
      <4>. QED
        BY <2>8, <2>10, <2>11, <2>13, <4>1
    <3>. QED
      BY <1>3, <2>8, <2>13, <3>1, SeqEqual
  <2>15. n = at
    BY <1>1, <2>6, <2>14 DEF a, best, Single
  <2>16. names[Len(best) + 1] = more[1] /\ Len(more) >= 1
    <3>1. /\ Len(names) = Len(best) + Len(more)
          /\ \A j \in 1 .. Len(best) + Len(more) :
               names[j] = IF j <= Len(best) THEN best[j] ELSE more[j - Len(best)]
      BY <1>2, <1>3, ConcatProperties
    <3>2. Len(more) >= 1
      BY <2>8, <2>9, <2>10, <2>13, <3>1
    <3>3. /\ Len(best) + 1 \in 1 .. Len(best) + Len(more) /\ ~(Len(best) + 1 <= Len(best))
          /\ (Len(best) + 1) - Len(best) = 1
      BY <2>9, <3>2
    <3>. QED
      BY <3>1, <3>2, <3>3
  <2>17. tree[m].path = more[1]
    <3>1. Len(a) + 1 \in 1 .. Len(b)
      BY <2>8, <2>9
    <3>. QED
      BY <2>8, <2>10, <2>13, <2>16, <3>1
  <2>18. rest # <<>>
    <3>1. rest = <<>> => more = <<>>
      BY SegmentsType DEF more
    <3>2. more # <<>>
      BY <2>16, <1>3
    <3>. QED
      BY <3>1, <3>2
  <2>19. Matches(more[1], rest)
    BY <1>1, <2>18, FirstFits DEF more
  <2>. QED
    BY <1>1, <2>7, <2>15, <2>17, <2>18, <2>19
<1>6. \A m \in 1 .. Len(tree) : IsPrefix(full[m], names) => Len(full[m]) <= Len(best)
  <2>. HIDE DEF best, names
  <2>. QED
    BY <1>5
<1>. QED
  BY <1>2, <1>4, <1>6 DEF at, rest
-----------------------------------------------------------------------------
(* The invariant of the tree, the routes and the answers *)
PathsNamed ==
  \E full : /\ Named(nodes, full) /\ Slotted(nodes, full, routes)
            /\ OneAtATime => Single(nodes, full, calls)

PathInv ==
  /\ RInv
  /\ calls \subseteq [path : Paths, type : Types]
  /\ PathsNamed
  /\ ~serving => answer.code = "none"
  /\ HandlerOfPrefix
  /\ LongestPrefix

(* The root alone stands for no name, and nothing was answered.             *)
LEMMA PathInit == RouterInit => PathInv
<1>. SUFFICES ASSUME RouterInit PROVE PathInv
  OBVIOUS
<1>. DEFINE it == [path |-> <<>>, kids |-> <<>>, slots |-> NewSlots]
            full == [n \in 1 .. 1 |-> <<>>]
<1>1. nodes = <<it>> /\ routes = {} /\ calls = {} /\ answer = NoAnswer
  BY DEF RouterInit
<1>2. RInv
  BY RInit
<1>3. it.kids = <<>> /\ it.slots = NewSlots /\ it.path = <<>>
  OBVIOUS
<1>. HIDE DEF it
<1>4. Len(nodes) = 1 /\ nodes[1] = it /\ DOMAIN nodes[1].kids = {}
  BY <1>1, <1>3
<1>5. Named(nodes, full)
  <2>1. full \in [1 .. 1 -> Seq(Strings)] /\ full[1] = <<>>
    OBVIOUS
  <2>. HIDE DEF full
  <2>. QED
    BY <1>4, <2>1 DEF Named
<1>6. Slotted(nodes, full, routes)
  <2>. HIDE DEF full
  <2>. QED
    BY <1>3, <1>4, SlotFacts DEF Slotted
<1>7. Single(nodes, full, calls)
  <2>1. Slash \notin Range(nodes[1].path)
    BY <1>3, <1>4 DEF Range
  <2>2. \A n \in 1 .. 1 : n = 1
    OBVIOUS
  <2>3. \A n \in 2 .. 1 : FALSE
    OBVIOUS
  <2>. HIDE DEF full
  <2>. QED
    BY <1>1, <1>3, <1>4, <2>1, <2>2, <2>3, SlotFacts DEF Single
<1>8. PathsNamed
  <2>. HIDE DEF full
  <2>. QED
    BY <1>5, <1>6, <1>7 DEF PathsNamed
<1>9. answer.code = "none"
  BY <1>1 DEF NoAnswer
<1>. QED
  BY <1>1, <1>2, <1>8, <1>9 DEF PathInv, HandlerOfPrefix, LongestPrefix

(* What is registered is named. *)
LEMMA RegisterNames ==
  ASSUME PathInv, NEW path \in Paths, NEW type \in Types, Register(path, type)
  PROVE  PathsNamed'
<1>1. /\ IsTree(nodes) /\ routes \subseteq [path : Paths, type : Types]
  BY DEF PathInv, RInv
<1>2. PICK at, rest, tree, target : Registers(path, type, at, rest, tree, target)
  BY <1>1, RegisterFacts
<1>3. /\ at \in 1 .. Len(nodes) /\ rest \in Strings /\ target \in 1 .. Len(tree)
      /\ Resolve(nodes, path) = [node |-> at, rest |-> rest]
      /\ rest # <<>> => rest[1] # Slash
      /\ tree = Grown(at, NamesOf(rest)) /\ IsTree(tree) /\ Extends(nodes, tree)
      /\ target = IF NamesOf(rest) = <<>> THEN at ELSE Len(tree)
      /\ calls' = calls \cup {[path |-> path, type |-> type]}
      /\ \/ /\ Vacant(tree[target].slots[type])
            /\ Sets(nodes', tree, target, type, path)
            /\ routes' = routes \cup {[path |-> path, type |-> type]}
         \/ tree[target].slots[type].is # "null" /\ nodes' = tree /\ routes' = routes
  BY <1>2 DEF Registers
<1>4. path \in Strings
  BY PathsAreStrings
<1>5. PICK full : /\ Named(nodes, full) /\ Slotted(nodes, full, routes)
                  /\ OneAtATime => Single(nodes, full, calls)
  BY DEF PathInv, PathsNamed
<1>. DEFINE names == NamesOf(rest)
            old   == Len(nodes)
            n     == Len(names)
            seg   == Segments(path)
<1>6. PICK full2 : /\ Named(tree, full2)
                   /\ \A m \in 1 .. old : full2[m] = full[m]
                   /\ IsPrefix(seg, full2[target])
                   /\ IF names = <<>> THEN full2[at] = seg ELSE full2[old + 1] = seg
  BY <1>1, <1>2, <1>4, <1>5, GrownNames
<1>7. /\ names \in Seq(Strings)
      /\ \A i \in DOMAIN names : names[i] # <<>> /\ names[i][1] # Slash
      /\ rest = <<>> => names = <<>>
      /\ rest # <<>> => names # <<>> /\ names[1] = rest /\ (Slash \notin Range(rest) => names = <<rest>>)
  <2>1. CASE rest = <<>>
    <3>1. names = <<>>
      BY <2>1, NoNames
    <3>. HIDE DEF names
    <3>. QED
      BY <2>1, <3>1
  <2>2. CASE rest # <<>>
    BY <1>3, <2>2, NamesFacts
  <2>. QED
    BY <2>1, <2>2
<1>. HIDE DEF names, seg
<1>8. n \in Nat /\ old \in Nat /\ old >= 1
  BY <1>1, <1>7 DEF IsTree
<1>. DEFINE g == Grown(at, names)
<1>9. tree = g
  BY <1>3 DEF names
<1>10. /\ Len(tree) = old + n
       /\ \A m \in 1 .. old :
            /\ tree[m].path = nodes[m].path /\ tree[m].slots = nodes[m].slots
            /\ tree[m].kids = IF m = at /\ names # <<>> THEN Append(nodes[m].kids, old + 1)
                              ELSE nodes[m].kids
  <2>1. /\ Len(g) = old + n
        /\ \A m \in 1 .. old :
             /\ g[m].path = nodes[m].path /\ g[m].slots = nodes[m].slots
             /\ g[m].kids = IF m = at /\ names # <<>> THEN Append(nodes[m].kids, old + 1)
                            ELSE nodes[m].kids
    BY <1>1, <1>3, <1>7, GrownFacts
  <2>. HIDE DEF g
  <2>. QED
    BY <1>9, <2>1
<1>11. \A k \in 1 .. n :
         /\ tree[old + k].path = names[k] /\ tree[old + k].slots = NewSlots
         /\ tree[old + k].kids = IF k < n THEN <<old + k + 1>> ELSE <<>>
  <2>1. \A k \in 1 .. n :
          /\ g[old + k].path = names[k] /\ g[old + k].slots = NewSlots
          /\ g[old + k].kids = IF k < n THEN <<old + k + 1>> ELSE <<>>
    BY <1>1, <1>3, <1>7, GrownFacts
  <2>. HIDE DEF g
  <2>. QED
    BY <1>9, <2>1
<1>. HIDE DEF g
<1>12. \A m \in 1 .. Len(tree) : m \in 1 .. old \/ \E k \in 1 .. n : m = old + k
  <2>. SUFFICES ASSUME NEW m \in 1 .. Len(tree), m \notin 1 .. old
                PROVE  \E k \in 1 .. n : m = old + k
    OBVIOUS
  <2>1. m - old \in 1 .. n /\ m = old + (m - old)
    BY <1>8, <1>10
  <2>. QED
    BY <2>1
(* the tree before the handler is set *)
<1>13. ASSUME NEW m \in 1 .. Len(tree), NEW t \in Types, tree[m].slots[t].is = "set"
       PROVE  m \in 1 .. old /\ nodes[m].slots[t] = tree[m].slots[t]
  <2>1. CASE m \in 1 .. old
    BY <2>1, <1>10
  <2>2. CASE \E k \in 1 .. n : m = old + k
    <3>1. tree[m].slots = NewSlots
      BY <2>2, <1>11
    <3>. QED
      BY <3>1, <1>13, SlotFacts
  <2>. QED
    BY <1>12, <2>1, <2>2
<1>14. /\ Len(nodes') = Len(tree)
       /\ \A m \in 1 .. Len(tree) : nodes'[m].path = tree[m].path /\ nodes'[m].kids = tree[m].kids
       /\ \A m \in 1 .. Len(tree), t \in Types :
            \/ nodes'[m].slots[t] = tree[m].slots[t]
            \/ /\ m = target /\ t = type /\ nodes'[m].slots[t] = Handler(path)
               /\ [path |-> path, type |-> type] \in routes'
       /\ routes \subseteq routes'
  <2>1. CASE /\ Sets(nodes', tree, target, type, path)
             /\ routes' = routes \cup {[path |-> path, type |-> type]}
    BY <2>1 DEF Sets
  <2>2. CASE nodes' = tree /\ routes' = routes
    BY <2>2
  <2>. QED
    BY <1>3, <2>1, <2>2
<1>15. Handler(path).is = "set" /\ Handler(path).of = path
  BY DEF Handler
<1>16. Named(nodes', full2)
  <2>1. IsTree(tree)
    BY <1>3
  <2>2. \A m \in 1 .. Len(tree) : \A i \in DOMAIN tree[m].kids : tree[m].kids[i] \in 1 .. Len(tree)
    <3>1. \A m \in 2 .. Len(tree) : m \in 1 .. Len(tree)
      BY <2>1 DEF IsTree
    <3>. QED
      BY <2>1, <3>1 DEF IsTree
  <2>3. /\ full2 \in [1 .. Len(tree) -> Seq(Strings)] /\ full2[1] = <<>>
        /\ \A m \in 1 .. Len(tree) : \A i \in DOMAIN tree[m].kids :
             full2[tree[m].kids[i]] = full2[m] \o Segments(tree[tree[m].kids[i]].path)
    BY <1>6 DEF Named
  <2>4. ASSUME NEW m \in 1 .. Len(tree), NEW i \in DOMAIN nodes'[m].kids
        PROVE  full2[nodes'[m].kids[i]] = full2[m] \o Segments(nodes'[nodes'[m].kids[i]].path)
    <3>1. i \in DOMAIN tree[m].kids /\ nodes'[m].kids[i] = tree[m].kids[i]
      BY <1>14
    <3>2. tree[m].kids[i] \in 1 .. Len(tree)
      BY <2>2, <3>1
    <3>3. nodes'[tree[m].kids[i]].path = tree[tree[m].kids[i]].path
      BY <1>14, <3>2
    <3>. QED
      BY <2>3, <3>1, <3>3
  <2>5. Len(nodes') = Len(tree)
    BY <1>14
  <2>. QED
    BY <2>3, <2>4, <2>5 DEF Named
<1>17. Slotted(nodes', full2, routes')
  <2>. SUFFICES ASSUME NEW m \in 1 .. Len(tree), NEW t \in Types, nodes'[m].slots[t].is = "set"
                PROVE  /\ [path |-> nodes'[m].slots[t].of, type |-> t] \in routes'
                       /\ IsPrefix(Segments(nodes'[m].slots[t].of), full2[m])
    BY <1>14 DEF Slotted
  <2>1. CASE nodes'[m].slots[t] = tree[m].slots[t]
    <3>1. m \in 1 .. old /\ nodes[m].slots[t] = tree[m].slots[t]
      BY <2>1, <1>13
    <3>2. /\ [path |-> nodes[m].slots[t].of, type |-> t] \in routes
          /\ IsPrefix(Segments(nodes[m].slots[t].of), full[m])
      BY <2>1, <3>1, <1>5 DEF Slotted
    <3>. QED
      BY <2>1, <3>1, <3>2, <1>6, <1>14
  <2>2. CASE /\ m = target /\ t = type /\ nodes'[m].slots[t] = Handler(path)
             /\ [path |-> path, type |-> type] \in routes'
    BY <2>2, <1>6, <1>15 DEF seg
  <2>. QED
    BY <1>14, <2>1, <2>2
<1>18. ASSUME OneAtATime' PROVE Single(nodes', full2, calls')
  <2>1. \A m \in 1 .. Len(tree) : Slash \notin Range(tree[m].path)
    <3>1. DOMAIN nodes' = 1 .. Len(tree)
      <4>1. RInv'
        BY RegisterKeepsRoutes DEF PathInv
      <4>. QED
        BY <4>1, <1>14 DEF RInv, IsTree
    <3>. QED
      BY <3>1, <1>14, <1>18 DEF OneAtATime
  <2>2. Single(nodes, full, calls)
    <3>1. DOMAIN nodes = 1 .. old /\ \A m \in 1 .. old : m \in 1 .. Len(tree)
      BY <1>1, <1>8, <1>10 DEF IsTree
    <3>2. OneAtATime
      BY <2>1, <3>1, <1>10 DEF OneAtATime
    <3>. QED
      BY <3>2, <1>5
  <2>3. names # <<>> => /\ names = <<rest>> /\ n = 1 /\ rest # <<>> /\ Slash \notin Range(rest)
                        /\ target = old + 1 /\ tree[old + 1].path = rest
    <3>. SUFFICES ASSUME names # <<>>
                  PROVE  /\ names = <<rest>> /\ n = 1 /\ rest # <<>> /\ Slash \notin Range(rest)
                         /\ target = old + 1 /\ tree[old + 1].path = rest
      OBVIOUS
    <3>1. rest # <<>> /\ names[1] = rest /\ n >= 1
      BY <1>7
    <3>2. 1 \in 1 .. n /\ old + 1 \in 1 .. Len(tree)
      BY <1>8, <1>10, <3>1
    <3>3. tree[old + 1].path = rest
      BY <1>11, <3>1, <3>2
    <3>4. Slash \notin Range(rest)
      BY <2>1, <3>2, <3>3
    <3>5. names = <<rest>> /\ n = 1
      BY <1>7, <3>1, <3>4
    <3>6. target = old + 1
      BY <1>3, <1>10, <3>5 DEF names
    <3>. QED
      BY <3>1, <3>3, <3>4, <3>5, <3>6
  <2>4. n = 0 \/ n = 1
    <3>1. names = <<>> => n = 0
      BY <1>7
    <3>. QED
      BY <2>3, <3>1
  <2>5. full2[target] = seg
    <3>1. CASE names = <<>>
      BY <3>1, <1>3, <1>6 DEF names
    <3>2. CASE names # <<>>
      BY <3>2, <2>3, <1>6
    <3>. QED
      BY <3>1, <3>2
  <2>6. \A m \in 1 .. Len(tree) : m \in 1 .. old \/ (m = old + 1 /\ names # <<>>)
    <3>1. names = <<>> => n = 0
      BY <1>7
    <3>2. CASE names = <<>>
      <4>1. Len(tree) = old
        BY <1>8, <1>10, <3>1, <3>2
      <4>. QED
        BY <4>1
    <3>3. CASE names # <<>>
      <4>1. Len(tree) = old + 1
        BY <1>10, <2>3, <3>3
      <4>2. \A m \in 1 .. old + 1 : m \in 1 .. old \/ m = old + 1
        BY <1>8
      <4>. QED
        BY <3>3, <4>1, <4>2
    <3>. QED
      BY <3>2, <3>3
  <2>7. \A m \in 1 .. Len(tree) : Slash \notin Range(nodes'[m].path)
    BY <2>1, <1>14
  <2>8. ASSUME NEW m \in 1 .. Len(tree), NEW t \in Types, nodes'[m].slots[t].is = "set"
        PROVE  Segments(nodes'[m].slots[t].of) = full2[m]
    <3>1. CASE nodes'[m].slots[t] = tree[m].slots[t]
      <4>1. m \in 1 .. old /\ nodes[m].slots[t] = tree[m].slots[t]
        BY <2>8, <3>1, <1>13
      <4>2. Segments(nodes[m].slots[t].of) = full[m]
        BY <2>2, <2>8, <3>1, <4>1 DEF Single
      <4>. QED
        BY <3>1, <4>1, <4>2, <1>6
    <3>2. CASE m = target /\ nodes'[m].slots[t] = Handler(path)
      BY <2>5, <3>2, <1>15 DEF seg
    <3>. QED
      BY <1>14, <3>1, <3>2
  <2>9. ASSUME NEW c \in calls' PROVE \E m \in 1 .. Len(tree) : full2[m] = Segments(c.path)
    <3>1. CASE c \in calls
      <4>1. PICK m \in 1 .. old : full[m] = Segments(c.path)
        BY <2>2, <3>1 DEF Single
      <4>2. m \in 1 .. Len(tree)
        BY <1>8, <1>10
      <4>. QED
        BY <4>1, <4>2, <1>6
    <3>2. CASE c = [path |-> path, type |-> type]
      <4>1. c.path = path
        BY <3>2
      <4>. QED
        BY <4>1, <2>5, <1>3 DEF seg
    <3>. QED
      BY <1>3, <3>1, <3>2
  <2>10. ASSUME NEW m \in 2 .. Len(tree) PROVE \E c \in calls' : full2[m] = Segments(c.path)
    <3>1. m \in 1 .. Len(tree)
      BY <1>8, <1>10
    <3>2. CASE m \in 1 .. old
      <4>1. m \in 2 .. old
        BY <1>8, <3>2
      <4>2. PICK c \in calls : full[m] = Segments(c.path)
        BY <2>2, <4>1 DEF Single
      <4>3. full2[m] = Segments(c.path)
        BY <3>2, <4>2, <1>6
      <4>. QED
        BY <4>3, <1>3
    <3>3. CASE m = old + 1 /\ names # <<>>
      <4>. DEFINE c == [path |-> path, type |-> type]
      <4>1. c \in calls' /\ c.path = path
        BY <1>3
      <4>2. full2[m] = seg
        BY <3>3, <1>6
      <4>. HIDE DEF c
      <4>. QED
        BY <4>1, <4>2 DEF seg
    <3>. QED
      BY <2>6, <3>1, <3>2, <3>3
  <2>11. ASSUME NEW m \in 2 .. Len(tree)
         PROVE  \E k \in 1 .. Len(tree) : \E i \in DOMAIN tree[k].kids : m = tree[k].kids[i]
    <3>1. m \in 1 .. Len(tree) /\ \A k \in 1 .. old : k \in 1 .. Len(tree)
      BY <1>8, <1>10
    <3>2. CASE m \in 1 .. old
      <4>1. m \in 2 .. old
        BY <1>8, <3>2
      <4>2. PICK k \in 1 .. old : \E i \in DOMAIN nodes[k].kids : m = nodes[k].kids[i]
        BY <2>2, <4>1 DEF Single
      <4>3. PICK i \in DOMAIN nodes[k].kids : m = nodes[k].kids[i]
        BY <4>2
      <4>4. tree[k].kids[i] = nodes[k].kids[i]
        BY <1>3 DEF Extends
      <4>5. i \in DOMAIN tree[k].kids
        <5>1. /\ nodes[k].kids \in Seq(Nat) /\ tree[k].kids \in Seq(Nat)
              /\ Len(nodes[k].kids) <= Len(tree[k].kids)
          BY <1>1, <1>3, <3>1, NodeFacts DEF Extends
        <5>. DEFINE a == nodes[k].kids
                    b == tree[k].kids
        <5>2. a \in Seq(Nat) /\ b \in Seq(Nat) /\ Len(a) <= Len(b) /\ i \in DOMAIN a
          BY <5>1
        <5>. HIDE DEF a, b
        <5>3. i \in DOMAIN b
          BY <5>2
        <5>. QED
          BY <5>3 DEF b
      <4>. QED
        BY <3>1, <4>3, <4>4, <4>5
    <3>3. CASE m = old + 1 /\ names # <<>>
      <4>. DEFINE a == nodes[at].kids
      <4>1. tree[at].kids = Append(a, m)
        BY <3>3, <1>3, <1>10
      <4>2. a \in Seq(Nat) /\ m \in Nat
        BY <1>1, <1>3, NodeFacts
      <4>. HIDE DEF a
      <4>3. Len(a) + 1 \in DOMAIN Append(a, m) /\ Append(a, m)[Len(a) + 1] = m
        BY <4>2
      <4>. QED
        BY <1>3, <3>1, <4>1, <4>3
    <3>. QED
      BY <2>6, <3>1, <3>2, <3>3
  <2>12. ASSUME names # <<>>, NEW m \in 1 .. old, full[m] = seg PROVE FALSE
    <3>. DEFINE x == full[at]
    <3>1. x \in Seq(Strings) /\ rest \in Strings
      BY <1>3, <1>5 DEF Named
    <3>2. seg = x \o <<rest>>
      <4>1. Segments(rest) = <<rest>>
        BY <1>3, <2>3, <2>12, OneSegment
      <4>2. seg = full[Resolve(nodes, path).node] \o Segments(Resolve(nodes, path).rest)
        BY <1>1, <1>4, <1>5, WalkReads DEF seg
      <4>3. Resolve(nodes, path).node = at /\ Resolve(nodes, path).rest = rest
        BY <1>3
      <4>. QED
        BY <4>1, <4>2, <4>3
    <3>. HIDE DEF x
    <3>3. Len(seg) = Len(x) + 1 /\ seg[Len(x) + 1] = rest /\ \A j \in 1 .. Len(x) : seg[j] = x[j]
      <4>1. seg = Append(x, rest)
        BY <3>1, <3>2, AppendIsConcat
      <4>. QED
        BY <3>1, <4>1, AppendProperties
    <3>4. m # 1
      <4>1. Len(seg) # 0
        BY <3>1, <3>3
      <4>2. m = 1 => full[m] = <<>>
        BY <1>5 DEF Named
      <4>. QED
        BY <2>12, <4>1, <4>2
    <3>5. m \in 2 .. old
      BY <1>8, <3>4
    <3>6. PICK k \in 1 .. old : IsParent(nodes, full, k, m)
      BY <1>1, <1>5, <2>2, <3>5, ParentOf
    <3>7. PICK i \in DOMAIN nodes[k].kids :
            /\ m = nodes[k].kids[i] /\ nodes[m].path \in Strings
            /\ full[k] \in Seq(Strings) /\ full[m] \in Seq(Strings)
            /\ Len(full[m]) = Len(full[k]) + 1
            /\ \A j \in 1 .. Len(full[k]) : full[m][j] = full[k][j]
            /\ full[m][Len(full[k]) + 1] = nodes[m].path
      BY <3>6 DEF IsParent
    <3>. DEFINE y == full[k]
    <3>8. /\ y \in Seq(Strings) /\ Len(seg) = Len(y) + 1
          /\ \A j \in 1 .. Len(y) : seg[j] = y[j]
          /\ seg[Len(y) + 1] = nodes[m].path
      BY <2>12, <3>7
    <3>. HIDE DEF y
    <3>9. Len(x) = Len(y)
      <4>1. Len(x) \in Nat /\ Len(y) \in Nat
        BY <3>1, <3>8
      <4>. QED
        BY <3>3, <3>8, <4>1
    <3>10. x = y /\ nodes[m].path = rest
      <4>1. \A j \in 1 .. Len(x) : x[j] = y[j]
        BY <3>3, <3>8, <3>9
      <4>2. x = y
        BY <3>1, <3>8, <3>9, <4>1, SeqEqual
      <4>. QED
        BY <3>3, <3>8, <3>9, <4>2
    <3>11. k = at
      BY <1>3, <2>2, <3>10 DEF Single, x, y
    <3>12. \A j \in DOMAIN nodes[at].kids : ~Matches(nodes[nodes[at].kids[j]].path, rest)
      <4>1. Resolve(nodes, path).node = at /\ Resolve(nodes, path).rest = rest
        BY <1>3
      <4>. DEFINE a == Resolve(nodes, path).node
                  r == Resolve(nodes, path).rest
      <4>2. r # <<>> => \A j \in DOMAIN nodes[a].kids : ~Matches(nodes[nodes[a].kids[j]].path, r)
        BY <1>1, <1>4, NoneFits
      <4>3. a = at /\ r = rest
        BY <4>1
      <4>. HIDE DEF a, r
      <4>. QED
        BY <2>3, <2>12, <4>2, <4>3
    <3>13. Matches(rest, rest)
      <4>1. rest \in Seq(Chars) /\ Len(rest) \in Nat
        BY <3>1 DEF Strings
      <4>2. IsPrefix(rest, rest)
        BY <4>1, PrefixOfItself
      <4>. QED
        BY <4>1, <4>2 DEF Matches
    <3>. QED
      BY <3>7, <3>10, <3>11, <3>12, <3>13
  <2>13. ASSUME NEW a \in 1 .. Len(tree), NEW b \in 1 .. Len(tree), full2[a] = full2[b]
         PROVE  a = b
    <3>1. CASE a \in 1 .. old /\ b \in 1 .. old
      BY <2>2, <2>13, <3>1, <1>6 DEF Single
    <3>2. CASE a \in 1 .. old /\ b = old + 1 /\ names # <<>>
      <4>1. full[a] = seg
        BY <2>13, <3>2, <1>6
      <4>. QED
        BY <2>12, <3>2, <4>1
    <3>3. CASE b \in 1 .. old /\ a = old + 1 /\ names # <<>>
      <4>1. full[b] = seg
        BY <2>13, <3>3, <1>6
      <4>. QED
        BY <2>12, <3>3, <4>1
    <3>. QED
      BY <2>6, <3>1, <3>2, <3>3
  <2>14. \A m \in 2 .. Len(tree) : m \in 1 .. Len(tree)
    BY <1>8, <1>10
  <2>15. \A m \in 2 .. Len(tree) :
           \E k \in 1 .. Len(tree) : \E i \in DOMAIN nodes'[k].kids : m = nodes'[k].kids[i]
    BY <2>11, <1>14
  <2>16. Len(nodes') = Len(tree)
    BY <1>14
  <2>17. \A m \in 1 .. Len(nodes') : Slash \notin Range(nodes'[m].path)
    BY <2>7, <2>16
  <2>18. \A m \in 1 .. Len(nodes'), t \in Types :
           nodes'[m].slots[t].is = "set" => Segments(nodes'[m].slots[t].of) = full2[m]
    BY <2>8, <2>16
  <2>19. \A c \in calls' : \E m \in 1 .. Len(nodes') : full2[m] = Segments(c.path)
    BY <2>9, <2>16
  <2>20. \A m \in 2 .. Len(nodes') : \E c \in calls' : full2[m] = Segments(c.path)
    BY <2>10, <2>16
  <2>21. \A m \in 2 .. Len(nodes') :
           \E k \in 1 .. Len(nodes') : \E i \in DOMAIN nodes'[k].kids : m = nodes'[k].kids[i]
    BY <2>15, <2>16
  <2>22. \A a \in 1 .. Len(nodes'), b \in 1 .. Len(nodes') : full2[a] = full2[b] => a = b
    BY <2>13, <2>16
  <2>. QED
    BY <2>17, <2>18, <2>19, <2>20, <2>21, <2>22 DEF Single
<1>. QED
  BY <1>16, <1>17, <1>18 DEF PathsNamed
-----------------------------------------------------------------------------
(* Where a request goes, for every tree                                     *)

(* The longest path that was registered and is a beginning of the names.    *)
Longest(cs, names) ==
  LET known == {Segments(c.path) : c \in cs} \cup {<<>>}
  IN  CHOOSE b \in known : /\ IsPrefix(b, names)
                           /\ \A c \in known : IsPrefix(c, names) => Len(c) <= Len(b)

(* It is what the node stands for where the walk ends.                      *)
LEMMA LongestIsNamed ==
  ASSUME IsTree(nodes), calls \subseteq [path : Paths, type : Types],
         NEW full, Named(nodes, full), Single(nodes, full, calls), NEW u \in Strings
  PROVE  Longest(calls, Segments(u)) = full[Resolve(nodes, u).node]
<1>. DEFINE at    == Resolve(nodes, u).node
            best  == full[at]
            names == Segments(u)
            known == {Segments(c.path) : c \in calls} \cup {<<>>}
            Is(b) == /\ b \in known
                     /\ /\ IsPrefix(b, names)
                        /\ \A c \in known : IsPrefix(c, names) => Len(c) <= Len(b)
<1>1. /\ IsPrefix(best, names)
      /\ \A m \in 1 .. Len(nodes) : IsPrefix(full[m], names) => Len(full[m]) <= Len(best)
  BY LongestIsFound
<1>2. at \in 1 .. Len(nodes) /\ 1 \in 1 .. Len(nodes)
  BY NoneFits DEF IsTree
<1>3. /\ names \in Seq(Strings) /\ full[1] = <<>>
      /\ \A m \in 1 .. Len(nodes) : full[m] \in Seq(Strings)
  BY SegmentsType DEF Named
<1>4. ASSUME NEW c \in known PROVE \E m \in 1 .. Len(nodes) : full[m] = c
  <2>1. CASE c = <<>>
    BY <2>1, <1>2, <1>3
  <2>2. CASE \E d \in calls : c = Segments(d.path)
    BY <2>2 DEF Single
  <2>. QED
    BY <2>1, <2>2
<1>5. best \in known
  <2>1. CASE at = 1
    BY <2>1, <1>3
  <2>2. CASE at # 1
    <3>1. Len(nodes) \in Nat
      BY DEF IsTree
    <3>2. at \in 2 .. Len(nodes)
      <4>. HIDE DEF at
      <4>. QED
        BY <1>2, <2>2, <3>1
    <3>3. \E c \in calls : full[at] = Segments(c.path)
      <4>. HIDE DEF at
      <4>. QED
        BY <3>2 DEF Single
    <3>. QED
      BY <3>3
  <2>. QED
    BY <2>1, <2>2
<1>. HIDE DEF at
<1>6. Is(best)
  <2>. HIDE DEF best, names, known
  <2>. QED
    BY <1>1, <1>4, <1>5
<1>7. ASSUME NEW b, Is(b) PROVE b = best
  <2>1. PICK m \in 1 .. Len(nodes) : full[m] = b
    <3>. HIDE DEF known, names
    <3>. QED
      BY <1>4, <1>7
  <2>2. /\ b \in Seq(Strings) /\ best \in Seq(Strings)
        /\ IsPrefix(b, names) /\ IsPrefix(best, names)
        /\ Len(b) <= Len(best) /\ Len(best) <= Len(b)
    <3>1. b \in Seq(Strings) /\ best \in Seq(Strings)
      BY <1>2, <1>3, <2>1
    <3>. HIDE DEF best, names, known
    <3>. QED
      BY <1>1, <1>6, <1>7, <2>1, <3>1
  <2>. HIDE DEF best, names, known
  <2>3. Len(b) \in Nat /\ Len(best) \in Nat
    BY <2>2
  <2>4. Len(b) = Len(best)
    BY <2>2, <2>3
  <2>5. /\ \A i \in 1 .. Len(b) : b[i] = names[i]
        /\ \A i \in 1 .. Len(best) : best[i] = names[i]
    BY <1>3, <2>2, PrefixFacts
  <2>6. \A i \in 1 .. Len(b) : b[i] = best[i]
    BY <2>4, <2>5
  <2>. QED
    BY <2>2, <2>4, <2>6, SeqEqual
<1>8. Longest(calls, names) = CHOOSE b : Is(b)
  BY DEF Longest
<1>9. (CHOOSE b : Is(b)) = best
  <2>1. Is(CHOOSE b : Is(b))
    <3>. HIDE DEF Is
    <3>. QED
      BY <1>6
  <2>. HIDE DEF Is
  <2>. QED
    BY <2>1, <1>7
<1>10. Longest(calls, names) = best
  <2>. HIDE DEF Is, best
  <2>. QED
    BY <1>8, <1>9
<1>. QED
  BY <1>10 DEF at

(* What comes after the first of two sequences is the second.               *)
LEMMA AfterTheFirst ==
  ASSUME NEW C, NEW a \in Seq(C), NEW b \in Seq(C)
  PROVE  From(a \o b, Len(a) + 1) = b
<1>. DEFINE c == a \o b
            p == Len(a) + 1
            d == From(c, p)
<1>1. /\ c \in Seq(C) /\ Len(c) = Len(a) + Len(b)
      /\ \A i \in 1 .. Len(a) + Len(b) : c[i] = IF i <= Len(a) THEN a[i] ELSE b[i - Len(a)]
  BY ConcatProperties
<1>2. Len(a) \in Nat /\ Len(b) \in Nat
  OBVIOUS
<1>. HIDE DEF c
<1>3. p \in 1 .. Len(c) + 1 /\ Len(c) - p + 1 = Len(b)
  BY <1>1, <1>2
<1>4. /\ d \in Seq(C) /\ Len(d) = Len(c) - p + 1
      /\ \A i \in 1 .. Len(c) - p + 1 : d[i] = c[p + i - 1]
  <2>. HIDE DEF p
  <2>. QED
    BY <1>1, <1>3, FromFacts
<1>5. ASSUME NEW i \in 1 .. Len(b) PROVE d[i] = b[i]
  <2>1. /\ p + i - 1 \in 1 .. Len(a) + Len(b) /\ ~(p + i - 1 <= Len(a))
        /\ (p + i - 1) - Len(a) = i
    BY <1>2
  <2>. HIDE DEF p, d
  <2>. QED
    BY <1>1, <1>3, <1>4, <2>1
<1>6. d = b
  <2>. HIDE DEF d, p
  <2>. QED
    BY <1>3, <1>4, <1>5, SeqEqual
<1>. QED
  BY <1>6 DEF c

(* What a request gets is what its answer should be.                        *)
LEMMA RequestAnswers ==
  ASSUME PathInv, NEW u \in Urls, NEW t \in Types, Request(u, t)
  PROVE  HandlerOfPrefix' /\ LongestPrefix'
<1>. DEFINE at    == Resolve(nodes, u).node
            rest  == Resolve(nodes, u).rest
            slot  == nodes[at].slots[t]
            names == Segments(u)
            more  == Segments(rest)
<1>1. /\ IsTree(nodes) /\ routes \subseteq [path : Paths, type : Types] /\ RoutesFound
      /\ calls \subseteq [path : Paths, type : Types]
  BY DEF PathInv, RInv
<1>2. u \in Strings /\ Paths \subseteq Strings
  BY PathsAreStrings
<1>3. PICK full : /\ Named(nodes, full) /\ Slotted(nodes, full, routes)
                  /\ OneAtATime => Single(nodes, full, calls)
  BY DEF PathInv, PathsNamed
<1>. DEFINE best == full[at]
<1>4. at \in 1 .. Len(nodes) /\ rest \in Strings
  BY <1>1, <1>2, NoneFits
<1>5. names = best \o more
  BY <1>1, <1>2, <1>3, WalkReads
<1>6. /\ nodes' = nodes /\ calls' = calls /\ routes' = routes
      /\ answer'.url = u /\ answer'.type = t
      /\ answer'.handler = slot.of /\ answer'.suffix = rest
      /\ answer'.code = "handled" => slot.is = "set"
      /\ answer'.code = "405" => slot.is # "set"
  <2>1. slot.is \in {"set", "null", "junk"}
    <3>1. slot \in Slot
      <4>. HIDE DEF at
      <4>. QED
        BY <1>1, <1>4, NodeFacts
    <3>. QED
      BY <3>1 DEF Slot
  <2>2. PICK c \in CASE slot.is = "set"  -> {"handled"}
                     [] slot.is = "null" -> {"405"}
                     [] slot.is = "junk" -> {"405", "fault"} :
          answer' = [url |-> u, type |-> t, code |-> c, handler |-> slot.of, suffix |-> rest]
    BY DEF Request
  <2>3. (c = "handled" => slot.is = "set") /\ (c = "405" => slot.is # "set")
    BY <2>1, <2>2
  <2>. QED
    BY <2>2, <2>3 DEF Request
<1>. HIDE DEF at, rest
<1>7. /\ names \in Seq(Strings) /\ more \in Seq(Strings) /\ best \in Seq(Strings)
  BY <1>2, <1>3, <1>4, SegmentsType DEF Named
<1>8. HandlerOfPrefix'
  <2>. SUFFICES ASSUME answer'.code = "handled"
                PROVE  /\ [path |-> answer'.handler, type |-> answer'.type] \in routes'
                       /\ IsPrefix(Segments(answer'.handler), Segments(answer'.url))
    BY DEF HandlerOfPrefix
  <2>. DEFINE own == Segments(slot.of)
  <2>1. [path |-> slot.of, type |-> t] \in routes /\ IsPrefix(own, best)
    BY <1>3, <1>4, <1>6 DEF Slotted
  <2>2. slot.of \in Paths
    BY <1>1, <2>1
  <2>3. own \in Seq(Strings)
    BY <1>2, <2>2, SegmentsType
  <2>. HIDE DEF own, best, more, names
  <2>4. IsPrefix(own, best \o more)
    BY <1>7, <2>1, <2>3, PrefixOfBoth
  <2>. QED
    BY <1>5, <1>6, <2>1, <2>4 DEF own, names
<1>9. LongestPrefix'
  <2>1. LongestPrefix' <=>
          (OneAtATime' /\ answer'.code \in {"handled", "405"} =>
            /\ Segments(answer'.suffix)
                 = From(Segments(answer'.url), Len(Longest(calls', Segments(answer'.url))) + 1)
            /\ IF answer'.code = "handled"
               THEN Segments(answer'.handler) = Longest(calls', Segments(answer'.url))
               ELSE \A r \in routes' : r.type = answer'.type =>
                      Segments(r.path) # Longest(calls', Segments(answer'.url)))
    BY DEF LongestPrefix, Longest
  <2>. SUFFICES ASSUME OneAtATime, answer'.code \in {"handled", "405"}
                PROVE  /\ Segments(rest) = From(names, Len(best) + 1)
                       /\ IF answer'.code = "handled" THEN Segments(slot.of) = best
                          ELSE \A r \in routes : r.type = t => Segments(r.path) # best
    <3>1. OneAtATime' <=> OneAtATime
      BY <1>6 DEF OneAtATime
    <3>2. OneAtATime => Longest(calls, names) = best
      BY <1>1, <1>2, <1>3, LongestIsNamed DEF at
    <3>. HIDE DEF best, slot
    <3>. QED
      BY <1>6, <2>1, <3>1, <3>2
  <2>2. Single(nodes, full, calls)
    BY <1>3
  <2>3. Segments(rest) = From(names, Len(best) + 1)
    <3>. HIDE DEF best, more, names
    <3>1. From(best \o more, Len(best) + 1) = more
      BY <1>7, AfterTheFirst
    <3>. QED
      BY <1>5, <3>1 DEF more
  <2>4. CASE answer'.code = "handled"
    BY <1>4, <1>6, <2>2, <2>3, <2>4 DEF Single
  <2>5. CASE answer'.code = "405"
    <3>. SUFFICES ASSUME NEW r \in routes, r.type = t, Segments(r.path) = best
                  PROVE  FALSE
      BY <2>3, <2>5
    <3>. DEFINE n == Resolve(nodes, r.path).node
                z == Resolve(nodes, r.path).rest
    <3>1. r.path \in Strings
      BY <1>1, <1>2
    <3>2. z = <<>> /\ nodes[n].slots[t] = Handler(r.path)
      BY <1>1 DEF RoutesFound
    <3>3. n \in 1 .. Len(nodes)
      BY <1>1, <3>1, NoneFits
    <3>4. Segments(r.path) = full[n] \o Segments(z)
      BY <1>1, <1>3, <3>1, WalkReads
    <3>. HIDE DEF n, z
    <3>5. full[n] = best
      <4>1. full[n] \in Seq(Strings)
        BY <1>3, <3>3 DEF Named
      <4>2. full[n] \o <<>> = full[n]
        BY <4>1, ConcatEmptySeq
      <4>. QED
        BY <3>2, <3>4, <4>2, SegmentsType
    <3>6. n = at
      BY <1>4, <2>2, <3>3, <3>5 DEF Single
    <3>. QED
      BY <1>6, <2>5, <3>2, <3>6 DEF Handler
  <2>. QED
    BY <2>4, <2>5
<1>. QED
  BY <1>8, <1>9

(* Every step keeps it: the tree changes before the server starts, and then *)
(* nothing is answered yet; the answer changes after.                       *)
LEMMA PathNext == PathInv /\ [RouterNext]_routerVars => PathInv'
<1>. SUFFICES ASSUME PathInv, [RouterNext]_routerVars PROVE PathInv'
  OBVIOUS
<1>1. RInv'
  BY RNext DEF PathInv
<1>2. ASSUME NEW path \in Paths, NEW type \in Types, Register(path, type) PROVE PathInv'
  <2>1. PathsNamed'
    BY <1>2, RegisterNames
  <2>2. calls' = calls \cup {[path |-> path, type |-> type]} /\ ~serving /\ UNCHANGED <<serving, answer>>
    BY <1>2 DEF Register
  <2>3. calls' \subseteq [path : Paths, type : Types]
    BY <2>2 DEF PathInv
  <2>4. answer'.code = "none"
    BY <2>2 DEF PathInv
  <2>. QED
    BY <1>1, <2>1, <2>3, <2>4 DEF PathInv, HandlerOfPrefix, LongestPrefix
<1>3. ASSUME UNCHANGED <<nodes, calls, routes>>
      PROVE  PathsNamed' /\ calls' \subseteq [path : Paths, type : Types]
  BY <1>3 DEF PathInv, PathsNamed, OneAtATime
<1>4. ASSUME UNCHANGED <<nodes, calls, routes, answer>>
      PROVE  HandlerOfPrefix' /\ LongestPrefix'
  BY <1>4 DEF PathInv, HandlerOfPrefix, LongestPrefix, OneAtATime
<1>5. CASE StartServer
  <2>1. UNCHANGED <<nodes, calls, routes, answer>> /\ serving'
    BY <1>5 DEF StartServer
  <2>. QED
    BY <1>1, <1>3, <1>4, <2>1 DEF PathInv
<1>6. ASSUME NEW u \in Urls, BadMethod(u) PROVE PathInv'
  <2>1. UNCHANGED <<nodes, calls, routes>> /\ serving'
    BY <1>6 DEF BadMethod
  <2>2. answer'.code = "400"
    BY <1>6 DEF BadMethod, NoAnswer
  <2>. QED
    BY <1>1, <1>3, <2>1, <2>2 DEF PathInv, HandlerOfPrefix, LongestPrefix
<1>7. ASSUME NEW u \in Urls, NEW t \in Types, Request(u, t) PROVE PathInv'
  <2>1. UNCHANGED <<nodes, calls, routes>> /\ serving'
    BY <1>7 DEF Request
  <2>2. HandlerOfPrefix' /\ LongestPrefix'
    BY <1>7, RequestAnswers
  <2>. QED
    BY <1>1, <1>3, <2>1, <2>2 DEF PathInv
<1>8. CASE UNCHANGED routerVars
  <2>1. UNCHANGED <<nodes, calls, routes, answer, serving>>
    BY <1>8 DEF routerVars
  <2>. QED
    BY <1>1, <1>3, <1>4, <2>1 DEF PathInv
<1>. QED
  BY <1>2, <1>5, <1>6, <1>7, <1>8 DEF RouterNext

(* A handler runs for the method it was registered for and for urls that    *)
(* begin with its path, whatever was registered and in which order          *)
(* (http.c:164-210, 656-671).                                               *)
THEOREM HandlersAreWhereTheyBelong == RouterSpec => []HandlerOfPrefix
<1>1. PathInv => HandlerOfPrefix
  BY DEF PathInv
<1>. QED
  BY <1>1, PathInit, PathNext, PTL DEF RouterSpec

(* In a tree that grew name by name the handler of the longest beginning    *)
(* answers, is given the names that are left, and 405 means that there is   *)
(* none (http.c:164-210).                                                   *)
THEOREM TheLongestPathAnswers == RouterSpec => []LongestPrefix
<1>1. PathInv => LongestPrefix
  BY DEF PathInv
<1>. QED
  BY <1>1, PathInit, PathNext, PTL DEF RouterSpec
=============================================================================
