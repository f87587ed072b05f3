------------------------------ MODULE Listener ------------------------------
(***************************************************************************)
(* The listener of server/http.c (http_server_worker) and its table of     *)
(* connections: pfds[] and connections[], the number nfds of entries that  *)
(* poll() is given, the idle timeouts, and http_server_stop.  Entry 0 is   *)
(* the listening socket, so the connections are entries 1 and up.          *)
(*                                                                         *)
(* What happens to the bytes of one connection is module Connection; here  *)
(* a read that succeeds leaves the connection with a task (running), which *)
(* ends at some later time.                                                *)
(***************************************************************************)
EXTENDS Integers, FiniteSets

CONSTANTS
  MaxConnections,  (* the argument of http_server_start, README's --connections *)
  Timeout,         (* (10 * 1000) / this->timeout, in polls that return 0       *)
  Fds,             (* the descriptors accept() can return                       *)
  NoFd             (* -1                                                        *)

ASSUME ListenerAssumption ==
  /\ MaxConnections \in Nat \ {0}
  /\ Timeout \in Nat \ {0}
  /\ NoFd \notin Fds

Entries == 1 .. MaxConnections - 1

VARIABLES
  pfd,        (* pfds[i].fd                                                 *)
  con,        (* connections[i]: fd, timeout (-1 unless open), ssl # NULL   *)
  running,    (* connections[i].running: a task serves the connection       *)
  nfds,
  revents,    (* what poll() answered: "none", "in" or "hup"; "none" too    *)
              (* while nobody will look at it again                         *)
  lpc, pos,   (* where the listener is, and i of its loop                   *)
  active,     (* http_server_t.active                                       *)
  main,       (* http_server_stop: "serving", "stopping", "stopped"         *)
  live,       (* external: the descriptors the process has open             *)
  silent,     (* external: no peer will ever send or connect again          *)
  gone        (* external: the entries whose peer has closed its end, with  *)
              (* nothing left to read: poll() finds them ready for ever     *)

vars == <<pfd, con, running, nfds, revents, lpc, pos, active, main, live, silent, gone>>

ClosedCon == [fd |-> NoFd, timeout |-> -1, ssl |-> FALSE]

(* http_server_start *)
Init ==
  /\ pfd = [i \in Entries |-> NoFd]
  /\ con = [i \in Entries |-> ClosedCon]
  /\ running = [i \in Entries |-> FALSE]
  /\ nfds = 1
  /\ revents = [i \in Entries |-> "none"]
  /\ lpc = "poll" /\ pos = 1
  /\ active = TRUE /\ main = "serving"
  /\ live = {} /\ silent = FALSE /\ gone = {}

Polled == 1 .. nfds - 1

-----------------------------------------------------------------------------
(* Mutants: pfds[i].fd is not reset; nfds shrinks whichever entry is closed. *)
ClearFdNot(S) == UNCHANGED pfd
ShrunkAlways(S) == IF S # {} THEN nfds - 1 ELSE nfds

ClearFd(S) == pfd' = [i \in Entries |-> IF i \in S THEN NoFd ELSE pfd[i]]

(* Only the last entry polled makes nfds shrink, and only by one. *)
Shrunk(S) == IF nfds - 1 \in S THEN nfds - 1 ELSE nfds

(* http_close_connection and the two lines that follow every call of it in  *)
(* the listener, for the connections in S of the table c.                   *)
CloseConnections(S, c) ==
  /\ con' = [i \in Entries |-> IF i \in S THEN ClosedCon ELSE c[i]]
  /\ ClearFd(S)
  /\ live' = live \ {con[i].fd : i \in S}
  /\ nfds' = Shrunk(S)
  /\ gone' = gone \ S

(* Mutant: the last entry that is polled is not looked at. *)
DueNotLast == {i \in Polled \ {nfds - 1} : con[i].timeout = 1}

Due == {i \in Polled : con[i].timeout = 1}

(* The entries that poll() finds ready whenever it is called. *)
AtEnd == gone \cap Polled

(* The test of active, and a poll() that answers 0, which it does only      *)
(* while no entry is ready: every open connection is one poll nearer to its *)
(* timeout.                                                                 *)
PollTimeout ==
  /\ lpc = "poll" /\ active /\ AtEnd = {}
  /\ CloseConnections(Due, [i \in Entries |-> IF i \in Polled /\ con[i].timeout # -1
                             THEN [con[i] EXCEPT !.timeout = @ - 1] ELSE con[i]])
  /\ UNCHANGED <<running, revents, lpc, pos, active, main, silent>>

(* A poll() that answers more: poll ignores entries whose fd is -1.         *)
PollReady ==
  /\ lpc = "poll" /\ active /\ (silent => AtEnd # {})
  /\ \E r \in [Entries -> {"none", "in", "hup"}] :
       /\ \A i \in Entries :
            /\ r[i] # "none" => i \in Polled /\ pfd[i] # NoFd /\ (silent => i \in gone)
            /\ i \in AtEnd => r[i] = "in"
       /\ revents' = r
  /\ lpc' = "scan" /\ pos' = 1
  /\ UNCHANGED <<pfd, con, running, nfds, active, main, live, silent, gone>>

Exit ==
  /\ lpc = "poll" /\ ~active
  /\ lpc' = "done"
  /\ UNCHANGED <<pfd, con, running, nfds, revents, pos, active, main, live, silent, gone>>

-----------------------------------------------------------------------------
(* The loop over the entries. *)

Looked == revents' = [revents EXCEPT ![pos] = "none"] /\ pos' = pos + 1

Skip ==
  /\ lpc = "scan" /\ pos < nfds /\ revents[pos] = "none"
  /\ pos' = pos + 1
  /\ UNCHANGED <<pfd, con, running, nfds, revents, lpc, active, main, live, silent, gone>>

(* SSL_read returns data, for which a task runs or is started; while OpenSSL *)
(* has more of it, it is read at once.                                       *)
ReadData ==
  /\ lpc \in {"scan", "more"} /\ pos < nfds /\ revents[pos] = "in"
  /\ lpc = "scan" => pos \notin gone
  /\ running' = [running EXCEPT ![pos] = TRUE]
  /\ lpc' = "more"
  /\ UNCHANGED <<pfd, con, nfds, revents, pos, active, main, live, silent, gone>>

(* Nothing pending: the idle timeout starts anew. *)
ReadDone ==
  /\ lpc = "more"
  /\ con' = [con EXCEPT ![pos].timeout = Timeout]
  /\ lpc' = "scan" /\ Looked
  /\ UNCHANGED <<pfd, running, nfds, active, main, live, silent, gone>>

(* SSL_read fails, at the first or at a later turn: the connection is       *)
(* closed, unless a task is still busy with it: then nothing changes, and   *)
(* where the peer is gone the next poll() finds the entry ready again.      *)
ReadFails ==
  /\ lpc \in {"scan", "more"} /\ pos < nfds /\ revents[pos] = "in"
  /\ IF running[pos] THEN UNCHANGED <<con, pfd, live, nfds, gone>>
                     ELSE CloseConnections({pos}, con)
  /\ lpc' = "scan" /\ Looked
  /\ UNCHANGED <<running, active, main, silent>>

(* POLLERR or POLLHUP: closed whatever its task is doing. *)
HangUp ==
  /\ lpc = "scan" /\ pos < nfds /\ revents[pos] = "hup"
  /\ CloseConnections({pos}, con)
  /\ Looked
  /\ UNCHANGED <<running, lpc, active, main, silent>>

LoopEnds == lpc' = "poll" /\ pos' = 1 /\ revents' = [i \in Entries |-> "none"]

(* After the loop: nobody waits at the listening socket. *)
ScanDone ==
  /\ lpc = "scan" /\ pos >= nfds
  /\ LoopEnds
  /\ UNCHANGED <<pfd, con, running, nfds, active, main, live, silent, gone>>

FreeEntries == {i \in Entries : pfd[i] = NoFd}

(* The first free entry takes the connection, if its handshake succeeds.  If *)
(* there is none the loop ends and nothing is done with the descriptor.      *)
Accept ==
  /\ lpc = "scan" /\ pos >= nfds /\ ~silent
  /\ \E fd \in Fds \ live :
       \/ \E i \in FreeEntries :
            /\ \A j \in FreeEntries : i <= j
            /\ con' = [con EXCEPT ![i] = [fd |-> fd, timeout |-> Timeout, ssl |-> TRUE]]
            /\ running' = [running EXCEPT ![i] = FALSE]
            /\ pfd' = [pfd EXCEPT ![i] = fd]
            /\ nfds' = IF i >= nfds THEN nfds + 1 ELSE nfds
            /\ live' = live \cup {fd}
       \/ /\ FreeEntries # {}     (* SSL_accept fails: close(connfd) *)
          /\ UNCHANGED <<con, running, pfd, nfds, live>>
       \/ /\ FreeEntries = {}
          /\ live' = live \cup {fd}
          /\ UNCHANGED <<con, running, pfd, nfds>>
  /\ LoopEnds
  /\ UNCHANGED <<active, main, silent, gone>>

-----------------------------------------------------------------------------
(* The task of a connection has nothing left to do. *)
TaskDone(i) ==
  /\ running[i]
  /\ running' = [running EXCEPT ![i] = FALSE]
  /\ UNCHANGED <<pfd, con, nfds, revents, lpc, pos, active, main, live, silent, gone>>

(* What the peers do beside sending shows at the next poll(). *)
PeerCloses(i) ==
  /\ lpc = "poll" /\ pfd[i] # NoFd /\ gone' = gone \cup {i}
  /\ UNCHANGED <<pfd, con, running, nfds, revents, lpc, pos, active, main, live, silent>>

PeersFallSilent ==
  /\ lpc = "poll" /\ ~silent /\ silent' = TRUE
  /\ UNCHANGED <<pfd, con, running, nfds, revents, lpc, pos, active, main, live, gone>>

(* http_server_stop: the flag, then, once the listener has returned, every  *)
(* polled entry that still has an SSL object.                               *)
StopListener ==
  /\ main = "serving"
  /\ active' = FALSE /\ main' = "stopping"
  /\ UNCHANGED <<pfd, con, running, nfds, revents, lpc, pos, live, silent, gone>>

CloseAll ==
  /\ main = "stopping" /\ lpc = "done"
  /\ LET S == {i \in Polled : con[i].ssl}
     IN  /\ con' = [i \in Entries |-> IF i \in S THEN ClosedCon ELSE con[i]]
         /\ live' = live \ {con[i].fd : i \in S}
  /\ main' = "stopped"
  /\ UNCHANGED <<pfd, running, nfds, revents, lpc, pos, active, silent, gone>>

-----------------------------------------------------------------------------
Scan == Skip \/ ReadData \/ ReadDone \/ ReadFails \/ HangUp \/ ScanDone \/ Accept

Next == \/ PollTimeout \/ PollReady \/ Exit \/ Scan
        \/ \E i \in Entries : TaskDone(i) \/ PeerCloses(i)
        \/ PeersFallSilent \/ StopListener \/ CloseAll

Spec == Init /\ [][Next]_vars

(* The listener runs; SSL_read does not find more data for ever (ReadDone). *)
FairSpec == /\ Spec
            /\ WF_vars(PollTimeout \/ PollReady \/ Exit \/ Scan)
            /\ WF_vars(ReadDone)

-----------------------------------------------------------------------------
(* Properties *)

(* pfds[] and connections[] tell the same story about every entry: the same *)
(* descriptor, an SSL object and a running timeout, or none of them; and no *)
(* descriptor is in two entries or used after it was closed.                *)
TablesAgree ==
  main # "stopped" =>
    \A i \in Entries :
      /\ con[i].fd = pfd[i]
      /\ pfd[i] # NoFd => con[i].ssl /\ con[i].timeout >= 1 /\ pfd[i] \in live
      /\ pfd[i] = NoFd => con[i] = ClosedCon
      /\ \A j \in Entries \ {i} : pfd[i] # NoFd => pfd[i] # pfd[j]

(* Though nfds shrinks by one at most however many entries were closed, and *)
(* holes below it are filled first, every open connection is below nfds and *)
(* so is polled, timed out and closed at the end.                           *)
EveryConnectionPolled == \A i \in Entries : con[i].ssl => i < nfds

(* http_server_stop leaves no connection open.                              *)
StopClosesAll == main = "stopped" => \A i \in Entries : ~con[i].ssl

(* A peer went away while its task runs, which may be waiting for the rest  *)
(* of a request (pop(), http.c:272).                                        *)
HeldOpen(i) == i \in gone /\ running[i]

(* Once nobody sends anything any more, the idle timeout closes every       *)
(* connection: those of peers that stay, and those of peers that leave,     *)
(* which are closed when their task has ended.  As long as one task waits   *)
(* for a peer that has left, poll() never answers 0 and no timeout is       *)
(* counted, of whichever connection: the property is about behaviours where *)
(* none waits for ever (http.c:450-461, 488-497).                           *)
IdleConnectionsClosed ==
  (\A i \in Entries : []<>~HeldOpen(i))
    => ((silent /\ active) ~> (~active \/ \A i \in Entries : ~con[i].ssl))
=============================================================================
