------------------------------- MODULE Session -------------------------------
(***************************************************************************)
(* The sessions of http_libs/http_session.c: a table that grows, searched  *)
(* by the id that a client keeps in a cookie.  Threads of the pool serve   *)
(* requests that log in, log out or use a session; the session task counts *)
(* the sessions down and removes those that have run out.                  *)
(*                                                                         *)
(* What a function does while it holds session_manager.lock is one step;   *)
(* what it does after it has given the lock up is a step of its own.  The  *)
(* users are those of the user table (a login with a wrong name or         *)
(* password changes nothing).  Entries count from 0, as in the code.       *)
(*                                                                         *)
(* Using the user of a session that has none is an access out of bounds    *)
(* (users[INVALID_USER_ID], the memory before the users), and writing to   *)
(* the table realloc() has moved one to freed memory.  What comes of it    *)
(* depends on the heap: the behaviour ends there (faulted), or nothing of  *)
(* the sessions and users changes by it and the code goes on.              *)
(***************************************************************************)
EXTENDS Integers, FiniteSets, FiniteSetsExt

CONSTANTS
  Threads,    (* the threads of the pool                                     *)
  Users,      (* the users that are registered                               *)
  Capacity,   (* the capacity the table starts with                          *)
  Timeout,    (* session_timeout                                             *)
  MaxLogins,  (* a bound: how many logins there are                          *)
  NoUser      (* INVALID_USER_ID                                             *)

ASSUME SessionAssumption ==
  /\ IsFiniteSet(Threads)
  /\ {Capacity, Timeout} \subseteq Nat \ {0} /\ MaxLogins \in Nat
  /\ NoUser \notin Users

Ids  == 1 .. MaxLogins   (* the UUIDs the logins draw, in that order *)
NoId == 0                (* id[0] = 0 *)

VARIABLES
  orderly,    (* external: the activities on one session do not overlap      *)
  owner,      (* external: the user who logged in, for each UUID             *)
  given,      (* external: the UUIDs that clients got in a cookie            *)
  overtaken,  (* history: the session task removed an entry that had been    *)
              (* closed since it was found to have run out                   *)
  sessions, capacity, entries, last,    (* session_manager                   *)
  refs,       (* user_t.refs of each user; a size_t that may wrap below 0    *)
  buff,       (* session_task: the entries found to have run out             *)
  req,        (* the request each thread serves: where it is and its locals  *)
  dangling,   (* the threads whose pointer to a session realloc() left stale *)
  faulted

tableVars    == <<sessions, capacity, entries, last>>
externalVars == <<orderly, owner, given>>
vars == <<externalVars, tableVars, refs, buff, req, dangling, faulted, overtaken>>

Free == [id |-> NoId, user |-> NoUser, expire |-> 0]
Idle == [pc |-> "idle", entry |-> 0, id |-> NoId, user |-> NoUser]

Entry == 0 .. capacity - 1
Open  == {e \in Entry : sessions[e].user # NoUser}

(* The request that t serves goes on at pc. *)
At(t, pc)    == req[t].pc = pc /\ ~faulted
GoesOn(t, pc) == req' = [req EXCEPT ![t].pc = pc]
Ends(t)      == req' = [req EXCEPT ![t] = Idle]

(* http_session_engine_start *)
Init ==
  /\ orderly \in BOOLEAN /\ owner = [i \in Ids |-> NoUser] /\ given = {}
  /\ capacity = Capacity /\ entries = 0 /\ last = 0
  /\ sessions = [e \in 0 .. Capacity - 1 |-> Free]
  /\ refs = [u \in Users |-> 0] /\ buff = {}
  /\ req = [t \in Threads |-> Idle] /\ dangling = {} /\ faulted = FALSE
  /\ overtaken = FALSE

-----------------------------------------------------------------------------
(* http_session_login_user, and http_session_set_cookie after it. *)

Drawn == Cardinality({i \in Ids : owner[i] # NoUser})

(* Mutant: the search for a free entry goes by the id, not by the user. *)
FirstFreeById == Min({last} \cup {i \in 0 .. last - 1 : sessions[i].id = NoId})

FirstFree == Min({last} \cup ((0 .. last - 1) \ Open))

(* The entry is chosen, and the table doubled if need be, under the lock.   *)
(* realloc() may move the table.                                            *)
Login(t, u) ==
  /\ At(t, "idle") /\ Drawn < MaxLogins
  /\ \E e \in {IF entries < capacity THEN FirstFree ELSE last} :
       /\ IF entries < capacity
          THEN /\ sessions' = [sessions EXCEPT ![e].user = u, ![e].expire = Timeout]
               /\ UNCHANGED <<capacity, dangling>>
          ELSE /\ sessions' = [i \in 0 .. 2 * capacity - 1 |->
                                 IF i = e THEN [id |-> NoId, user |-> u, expire |-> Timeout]
                                 ELSE IF i < last THEN sessions[i] ELSE Free]
               /\ capacity' = 2 * capacity
               /\ dangling' \in {dangling, dangling \cup {s \in Threads : req[s].pc = "id"}}
       /\ last' = IF e = last THEN last + 1 ELSE last
       /\ req' = [req EXCEPT ![t] = [pc |-> "id", entry |-> e, id |-> Drawn + 1, user |-> u]]
  /\ entries' = entries + 1
  /\ owner' = [owner EXCEPT ![Drawn + 1] = u]
  /\ UNCHANGED <<orderly, given, refs, buff, faulted, overtaken>>

(* uuid_unparse_lower(binuuid, session->id), after the unlock. *)
WriteId(t) ==
  /\ At(t, "id")
  /\ \/ /\ t \notin dangling
        /\ sessions' = [sessions EXCEPT ![req[t].entry].id = req[t].id]
        /\ UNCHANGED faulted
     \/ t \in dangling /\ faulted' \in BOOLEAN /\ UNCHANGED sessions
  /\ dangling' = dangling \ {t}
  /\ GoesOn(t, "ref")
  /\ UNCHANGED <<externalVars, capacity, entries, last, refs, buff, overtaken>>

CountRef(t) ==
  /\ At(t, "ref")
  /\ refs' = [refs EXCEPT ![req[t].user] = @ + 1]
  /\ GoesOn(t, "cookie")
  /\ UNCHANGED <<externalVars, tableVars, buff, dangling, faulted, overtaken>>

(* The id that the table holds by now, read without the lock. *)
SetCookie(t) ==
  /\ At(t, "cookie")
  /\ given' = (given \cup {sessions[req[t].entry].id}) \ {NoId}
  /\ Ends(t)
  /\ UNCHANGED <<orderly, owner, tableVars, refs, buff, dangling, faulted, overtaken>>

-----------------------------------------------------------------------------
(* Requests that come with a cookie. *)

Busy(e) == \E t \in Threads : req[t].pc # "idle" /\ req[t].entry = e

(* http_session_get.  An id that is not in the table ends the request       *)
(* (unauthorized_reply, or a redirection to /login).                        *)
Find(t, i, pc) ==
  /\ At(t, "idle") /\ i \in given
  /\ \E e \in Entry :
       /\ sessions[e].id = i /\ \A d \in 0 .. e - 1 : sessions[d].id # i
       /\ orderly => ~Busy(e) /\ e \notin buff
       /\ req' = [req EXCEPT ![t] = [pc |-> pc, entry |-> e, id |-> i, user |-> NoUser]]
  /\ UNCHANGED <<externalVars, tableVars, refs, buff, dangling, faulted, overtaken>>

(* Mutants: a session that is not the last one shortens the table too; the  *)
(* reference of the user stays.                                             *)
ShortenedAlways(e) == last - 1
KeepRef(u) == UNCHANGED refs

Shortened(e) == IF e = last - 1 THEN last - 1 ELSE last
DropRef(u) == refs' = [v \in Users |-> IF v = u THEN refs[v] - 1 ELSE refs[v]]

(* Nothing faults if the entries E are open; otherwise it depends.          *)
MayFault(E) == faulted' \in IF E \subseteq Open THEN {FALSE} ELSE BOOLEAN

(* http_session_logout_user, which trusts the entry it found before it      *)
(* asked for the lock: it may be closed, or another session's, by now.      *)
Logout(t) ==
  /\ At(t, "logout")
  /\ LET e == req[t].entry IN
       /\ MayFault({e})
       /\ DropRef(sessions[e].user)
       /\ sessions' = [sessions EXCEPT ![e].id = NoId, ![e].user = NoUser]
       /\ last' = Shortened(e)
  /\ Ends(t)
  /\ UNCHANGED <<externalVars, capacity, entries, buff, dangling, overtaken>>

(* http_session_get_username, for the path of the user's portfolio.         *)
GetUsername(t) ==
  /\ At(t, "username")
  /\ MayFault({req[t].entry})
  /\ Ends(t)
  /\ UNCHANGED <<externalVars, tableVars, refs, buff, dangling, overtaken>>

-----------------------------------------------------------------------------
(* session_task: once in a second, all sessions are counted down, under the *)
(* lock for readers; those that come to 0 are removed under the lock for    *)
(* writers.                                                                 *)

(* Mutant: the loop ends before the last entry that was ever used. *)
CountedNotLast == {e \in Open : e < last - 1}

(* The loop looks for as many open sessions as entries says there are. *)
Counted == {e \in Open : Cardinality({d \in Open : d < e}) < entries}

Scan ==
  /\ ~faulted /\ buff = {} /\ Open # {}
  /\ orderly => \A e \in Counted : sessions[e].expire = 1 => ~Busy(e)
  /\ sessions' = [e \in Entry |->
       IF e \in Counted THEN [sessions[e] EXCEPT !.expire = @ - 1] ELSE sessions[e]]
  /\ buff' = {e \in Counted : sessions[e].expire = 1}
  /\ UNCHANGED <<externalVars, capacity, entries, last, refs, req, dangling, faulted, overtaken>>

(* How often the loop over buff drops a reference to u. *)
Dropped(u) == Cardinality({e \in buff : sessions[e].user = u})

(* The entries found before may have been closed, or closed and reused,     *)
(* since.  The loop compares last with the position in buff, not with the   *)
(* entry: it brings last down to 0 if buff is as long as that, and leaves   *)
(* it alone otherwise.                                                      *)
Expire ==
  /\ buff # {} /\ ~faulted
  /\ MayFault(buff)
  /\ sessions' = [e \in Entry |-> IF e \in buff
       THEN [sessions[e] EXCEPT !.id = NoId, !.user = NoUser] ELSE sessions[e]]
  /\ refs' = [u \in Users |-> refs[u] - Dropped(u)]
  /\ last' = IF last \in 1 .. Cardinality(buff) THEN 0 ELSE last
  /\ overtaken' = (overtaken \/ ~(buff \subseteq Open))
  /\ buff' = {}
  /\ UNCHANGED <<externalVars, capacity, entries, req, dangling>>

-----------------------------------------------------------------------------
Serve(t) == WriteId(t) \/ CountRef(t) \/ SetCookie(t) \/ Logout(t) \/ GetUsername(t)

(* crypto_post_login, crypto_post_logout, and the handlers that ask for the *)
(* session and then for the name of its user: crypto_get_coins,             *)
(* crypto_get_coin and crypto_post_coin.  crypto_get_home only asks for the *)
(* session, which changes nothing.  What they read and write beyond the     *)
(* session is left out.                                                     *)
Request(t) == \/ \E u \in Users : Login(t, u)
              \/ \E i \in Ids, pc \in {"logout", "username"} : Find(t, i, pc)

Next == (\E t \in Threads : Request(t) \/ Serve(t)) \/ Scan \/ Expire

Spec == Init /\ [][Next]_vars

(* Requests that have begun are served, and the session task runs. *)
FairSpec == /\ Spec
            /\ \A t \in Threads : WF_vars(Serve(t))
            /\ WF_vars(Scan) /\ WF_vars(Expire)

-----------------------------------------------------------------------------
(* Properties *)

(* A login never takes an entry that is in use, nor one beyond the table:   *)
(* entries only grows and last goes down with a wrong comparison            *)
(* (http_session.c:98), yet every open session lies below last, and last    *)
(* below the count that decides when the table doubles.  Logouts may        *)
(* overtake one another and the session task may remove what was reused:    *)
(* the first part is lost only after it has removed an entry that a logout  *)
(* had closed since it was found (overtaken), when last can come down to 0  *)
(* below an open session.                                                   *)
TableSound == /\ ~overtaken => Open \subseteq 0 .. last - 1
              /\ last <= entries /\ entries <= capacity
              /\ Cardinality(Open) <= entries

(* refs of a user is the number of sessions of that user, but for logins    *)
(* that have not counted theirs yet, whether a session is closed by         *)
(* logouts, several at once too, or by expiry (http_session.c:93-97,        *)
(* 221-223, 254-258).  It is never less than that; it is more only after    *)
(* the session task was overtaken and a login has taken an entry in use.    *)
RefsCount ==
  \A u \in Users :
    LET counted == Cardinality({e \in Open : sessions[e].user = u})
                   - Cardinality({t \in Threads : req[t].pc \in {"id", "ref"} /\ req[t].user = u})
    IN  refs[u] >= counted /\ (~overtaken => refs[u] = counted)

(* An id in the table stands for a session of the user who was given it,    *)
(* although entries are reused and get their user before their id, as long  *)
(* as login, requests and expiry of one session do not overlap.             *)
IdNamesItsUser ==
  orderly => \A e \in Entry : sessions[e].id # NoId =>
               /\ sessions[e].user = owner[sessions[e].id]
               /\ \A d \in Entry \ {e} : sessions[d].id # sessions[e].id

(* Every session is closed in the end, by expiry if nothing else: none is   *)
(* left out of the count or jumps over the test for 0, so that the table is *)
(* empty again some time after the last login.  The lock of the users, which*)
(* a registration of a taken name leaves locked for good                    *)
(* (http_session.c:157), is left out: a round that needs it (line 93) stops.*)
SessionsExpire == (~orderly /\ Open # {}) ~> (Open = {} \/ faulted)
=============================================================================
