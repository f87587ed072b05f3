----------------------------- MODULE Connection -----------------------------
(***************************************************************************)
(* One connection of server/http.c: the listener reads what the client     *)
(* sends and hands it, one block after the other, to the task that serves  *)
(* the connection (http_process_request), starting one if there is none;   *)
(* the task puts requests together from blocks, answers them and ends when *)
(* the queue of blocks is empty.  con->lock, con->running and con->requests*)
(* keep the two in step.                                                   *)
(*                                                                         *)
(* A request is one or more whole blocks (DEFAULT_BUFFER_SIZE bytes of the *)
(* stream each, or what one SSL_read returned).                            *)
(***************************************************************************)
EXTENDS Ring, FiniteSets

CONSTANTS
  Blocks,     (* the client sends blocks 1 .. Blocks                         *)
  Windows     (* and never has more unanswered than one of these numbers     *)

ASSUME ConnectionAssumption ==
  /\ Blocks \in Nat /\ Windows \subseteq Nat \ {0}
  /\ NULL \notin 1 .. Blocks

Block == 1 .. Blocks
NoOne == 0          (* con->lock is free *)
Lsn   == Blocks + 1 (* the listener, as a holder of con->lock *)

VARIABLES
  window,     (* external: how many blocks the client has unanswered at most *)
  ends,       (* external: which blocks are the last one of a request        *)
  sent,       (* external: how many blocks the client has sent               *)
  gone,       (* external: the client has closed the connection              *)
  read,       (* how many blocks the listener has read                       *)
  lpc,        (* where the listener is                                       *)
  lock,       (* who holds con->lock across steps                            *)
  running,    (* con->running                                                *)
  requests,   (* con->requests                                               *)
  open,       (* con->ssl and con->requests exist                            *)
  tpc, data,  (* each task (named by the block it was started for): where it *)
              (* is and the last block it has taken                          *)
  answered    (* external: what was answered, each request by its last block *)

taskVars   == <<tpc, data, answered>>
peerVars == <<window, ends, sent, gone>>
connectionVars ==
  <<window, ends, sent, gone, read, lpc, lock, running, requests, open, tpc, data, answered>>

(* http_open_connection *)
ConnectionInit ==
  /\ window \in Windows
  /\ ends \in [Block -> BOOLEAN] /\ sent = 0 /\ gone = FALSE
  /\ read = 0 /\ lpc = "poll" /\ lock = NoOne
  /\ running = FALSE /\ requests = NewRing /\ open = TRUE
  /\ tpc = [t \in Block |-> "none"] /\ data = [t \in Block |-> NULL]
  /\ answered = <<>>

TaskAt(t, to) == tpc' = [tpc EXCEPT ![t] = to]

-----------------------------------------------------------------------------
(* The client *)

Answered == IF answered = <<>> THEN 0 ELSE answered[Len(answered)]

Send ==
  /\ ~gone /\ sent < Blocks /\ sent - Answered < window
  /\ sent' = sent + 1
  /\ UNCHANGED <<window, ends, gone, read, lpc, lock, running, requests, open, taskVars>>

(* A client may leave at any time, in the middle of a request too. *)
Leave ==
  /\ ~gone
  /\ gone' = TRUE
  /\ UNCHANGED <<window, ends, sent, read, lpc, lock, running, requests, open, taskVars>>

-----------------------------------------------------------------------------
(* The listener: the body of its loop for this connection. *)

Read ==
  /\ lpc = "poll" /\ open /\ read < sent
  /\ read' = read + 1
  /\ lpc' = "lock"
  /\ UNCHANGED <<peerVars, lock, running, requests, open, taskVars>>

(* Mutant: a task for every block, as if running were never set. *)
ServedNever == FALSE

Served == running

(* lock(&con->lock) and the test of running.  push() waits for room, if it  *)
(* has to, with con->lock held.                                             *)
Dispatch ==
  /\ lpc = "lock" /\ lock = NoOne
  /\ \/ /\ Served /\ ~PushBlocked(requests)
        /\ requests' = AfterPush(requests, read)
        /\ lpc' = "poll"
        /\ UNCHANGED lock
     \/ /\ Served /\ PushBlocked(requests)
        /\ lock' = Lsn
        /\ lpc' = "full"
        /\ UNCHANGED requests
     \/ /\ ~Served
        /\ lpc' = "spawn"
        /\ UNCHANGED <<lock, requests>>
  /\ UNCHANGED <<peerVars, read, running, open, taskVars>>

PushLater ==
  /\ lpc = "full" /\ ~PushBlocked(requests)
  /\ requests' = AfterPush(requests, read)
  /\ lock' = NoOne
  /\ lpc' = "poll"
  /\ UNCHANGED <<peerVars, read, running, open, taskVars>>

(* con->running = true without the lock, and async(): the task is queued.   *)
Spawn ==
  /\ lpc = "spawn"
  /\ running' = TRUE
  /\ TaskAt(read, "queued")
  /\ data' = [data EXCEPT ![read] = read]
  /\ lpc' = "poll"
  /\ UNCHANGED <<peerVars, read, lock, requests, open, answered>>

(* http_close_connection: the blocks still queued go with the queue. *)
CloseConnection ==
  /\ open' = FALSE /\ requests' = NewRing
  /\ UNCHANGED <<peerVars, read, lpc, lock, running, taskVars>>

(* Mutant: the connection is closed without a look at running. *)
ClosableAlways == TRUE

Closable == ~running

(* SSL_read fails as the client has gone; running is read without the lock. *)
ReadFails ==
  /\ lpc = "poll" /\ open /\ gone /\ read = sent /\ Closable
  /\ CloseConnection

(* The idle timeout, POLLERR and POLLHUP close without looking at running.  *)
CloseAbruptly ==
  /\ lpc = "poll" /\ open
  /\ CloseConnection

-----------------------------------------------------------------------------
(* http_process_request *)

(* A thread of the pool runs the task. *)
Start(t) ==
  /\ tpc[t] = "queued"
  /\ TaskAt(t, "parse")
  /\ UNCHANGED <<peerVars, read, lpc, lock, running, requests, open, data, answered>>

(* http_get_request_header and http_get_request_body: when the blocks so    *)
(* far are not the whole request, the next one is appended; when they are,  *)
(* the handler runs and SSL_write sends its answer.  Popping from a queue,  *)
(* or writing to an SSL object, that is no longer there is undefined.       *)
Parse(t) ==
  /\ tpc[t] = "parse"
  /\ \/ /\ open /\ ~ends[data[t]] /\ ~PopBlocked(requests)
        /\ data' = [data EXCEPT ![t] = Front(requests)]
        /\ requests' = AfterPop(requests)
        /\ UNCHANGED <<tpc, answered>>
     \/ /\ open /\ ends[data[t]]
        /\ answered' = Append(answered, data[t])
        /\ TaskAt(t, "finish")
        /\ UNCHANGED <<data, requests>>
     \/ /\ ~open
        /\ TaskAt(t, "fault")
        /\ UNCHANGED <<data, requests, answered>>
  /\ UNCHANGED <<peerVars, read, lpc, lock, running, open>>

(* Mutant: the task ends whether there is work or not. *)
NoPendingAlways == TRUE

(* empty(), which takes a full queue for an empty one. *)
NoPending == IsEmpty(requests)

(* "If there is work to be done we continue otherwise we signal that this   *)
(* task is no longer available": the test that empty() makes, under the     *)
(* lock.                                                                    *)
Finish(t) ==
  /\ tpc[t] = "finish"
  /\ \/ /\ open /\ lock = NoOne /\ NoPending
        /\ running' = FALSE
        /\ lock' = t
        /\ TaskAt(t, "leave")
     \/ /\ open /\ lock = NoOne /\ ~NoPending
        /\ TaskAt(t, "next")
        /\ UNCHANGED <<running, lock>>
     \/ /\ ~open
        /\ TaskAt(t, "fault")
        /\ UNCHANGED <<running, lock>>
  /\ UNCHANGED <<peerVars, read, lpc, requests, open, data, answered>>

(* unlock(&con->lock); by now the listener may have closed the connection.  *)
Unlock(t) ==
  /\ tpc[t] = "leave"
  /\ lock' = NoOne
  /\ TaskAt(t, "done")
  /\ UNCHANGED <<peerVars, read, lpc, running, requests, open, data, answered>>

NextBlock(t) ==
  /\ tpc[t] = "next"
  /\ \/ /\ open /\ ~PopBlocked(requests)
        /\ data' = [data EXCEPT ![t] = Front(requests)]
        /\ requests' = AfterPop(requests)
        /\ TaskAt(t, "parse")
     \/ /\ ~open
        /\ TaskAt(t, "fault")
        /\ UNCHANGED <<data, requests>>
  /\ UNCHANGED <<peerVars, read, lpc, lock, running, open, answered>>

-----------------------------------------------------------------------------
Client   == Send \/ Leave
Listen   == Read \/ Dispatch \/ PushLater \/ Spawn \/ ReadFails \/ CloseAbruptly
Task(t)  == Start(t) \/ Parse(t) \/ Finish(t) \/ Unlock(t) \/ NextBlock(t)

ConnectionNext == Client \/ Listen \/ \E t \in Block : Task(t)

ConnectionSpec == ConnectionInit /\ [][ConnectionNext]_connectionVars

(* The threads run and handlers return; a client that has begun a request   *)
(* sends the rest of it.  Nothing else is owed: no client has to send more, *)
(* to leave or to be timed out.                                             *)
ConnectionFairSpec ==
  /\ ConnectionSpec
  /\ WF_connectionVars(Read \/ Dispatch \/ PushLater \/ Spawn)
  /\ \A t \in Block : WF_connectionVars(Task(t))
  /\ WF_connectionVars(Send /\ sent > 0 /\ ~ends[sent])

-----------------------------------------------------------------------------
(* Properties *)

Live == {t \in Block : tpc[t] \in {"queued", "parse", "finish", "next"}}

(* The client never has as many blocks on the way as the queue has slots.   *)
(* When it has, empty() may take the full queue for an empty one, and the   *)
(* listener may wait for room with the lock that the task waits for.        *)
Fits == window < Size

(* Requests are answered in the order they arrive, each of them once, also  *)
(* when they come in several blocks or are served by several tasks: the     *)
(* hand-over between listener and task, one testing running under the lock  *)
(* and setting it outside, the other clearing it under the lock, never lets *)
(* two tasks serve a connection (http.c:473-482, 416-431).                  *)
InOrder ==
  Fits => \A k \in DOMAIN answered :
    /\ ends[answered[k]]
    /\ \A b \in Block : ends[b] =>
         (b < answered[k] <=> \E i \in 1 .. k - 1 : answered[i] = b)

(* A client that leaves gets its requests handled all the same: the         *)
(* listener closes the connection then only when every block it read was    *)
(* part of an answered request.                                             *)
NothingLostOnLeave ==
  [][Fits /\ ReadFails => Count(requests) = 0 /\ Live = {} /\ Answered = read]_connectionVars

(* Every request that was read is answered, as long as the listener does    *)
(* not close the connection.                                                *)
RequestsAnswered ==
  \A b \in Block : (Fits /\ read >= b /\ ends[b])
                     ~> (~open \/ \E k \in DOMAIN answered : answered[k] = b)
=============================================================================
