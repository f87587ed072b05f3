------------------------------ MODULE Portfolio ------------------------------
(***************************************************************************)
(* The portfolio of one user (app/backend, and the handlers of app/app.c   *)
(* that use it): a directory with one file of comma separated values for a *)
(* coin, here one coin.  Requests run in parallel on the threads of the    *)
(* pool; each opens, reads and writes the file through a FILE of its own   *)
(* and nothing keeps them apart.                                           *)
(*                                                                         *)
(* A file is a sequence of cells of one length: the heading, the lines and *)
(* the zeros that a write beyond the end leaves.  A line has an id and its *)
(* transaction.  fopen with "w" empties the file, fseek finds the end at   *)
(* one moment and fflush writes there at a later one.                      *)
(***************************************************************************)
EXTENDS Naturals, Sequences, FiniteSets

CONSTANTS
  Workers,    (* the threads that requests run on                            *)
  Txns,       (* the transactions, each of them posted once                  *)
  NoTxn, NoFile

Cell == [id : Nat, tx : Txns \cup {"heading", "zeros"}]

ASSUME PortfolioAssumption == NoTxn \notin Txns /\ NoFile \notin Seq(Cell)

VARIABLES
  user,       (* the registration: "none", "stored" (known, so that he can   *)
              (* log in) or "answered"                                       *)
  dir,        (* his directory is there                                      *)
  file,       (* the cells of the file of the coin                           *)
  at, tx,     (* where the request of each thread is, and its transaction    *)
  last, pos,  (* csv->lastId, and the cell fseek found to be the end         *)
  early,      (* history: the request began before the registration ended    *)
  mixed,      (* history: the transaction overlapped with another one        *)
  done,       (* history: the transactions answered, in order                *)
  alone,      (* history: the lines of those that overlapped with no other   *)
  raced       (* history: two transactions have overlapped                   *)

threadVars  == <<at, tx, last, pos>>
historyVars == <<early, mixed, done, alone, raced>>
portfolioVars == <<user, dir, file, threadVars, historyVars>>

Heading == [id |-> 0, tx |-> "heading"]
Zeros   == [id |-> 0, tx |-> "zeros"]

PortfolioInit ==
  /\ user = "none" /\ dir = FALSE /\ file = NoFile
  /\ at = [w \in Workers |-> "idle"] /\ tx = [w \in Workers |-> NoTxn]
  /\ last = [w \in Workers |-> 0] /\ pos = [w \in Workers |-> 0]
  /\ early = [w \in Workers |-> FALSE] /\ mixed = [w \in Workers |-> FALSE]
  /\ done = <<>> /\ alone = {} /\ raced = FALSE

Goes(w, from, to) == at[w] = from /\ at' = [at EXCEPT ![w] = to]

-----------------------------------------------------------------------------
(* Files *)

(* What getline reads after the first line; zeros are no end of a line, and *)
(* atoi of a line that begins with one is 0.                                *)
Lines(f) ==
  LET ends == {i \in DOMAIN f : f[i] # Zeros}
      nth(k) == CHOOSE i \in ends : Cardinality({j \in ends : j <= i}) = k + 1
      line(i) == [f[i] EXCEPT !.id = IF i > 1 /\ f[i - 1] = Zeros THEN 0 ELSE @]
  IN  IF f = NoFile THEN <<>> ELSE [k \in 1 .. Cardinality(ends) - 1 |-> line(nth(k))]

(* CSV_load: lastId is the id of the last line. *)
LastId == IF Lines(file) = <<>> THEN 0 ELSE Lines(file)[Len(Lines(file))].id

(* write() at cell p. *)
Written(f, p, cell) ==
  IF p <= Len(f) THEN [f EXCEPT ![p] = cell]
  ELSE f \o [i \in 1 .. p - Len(f) |-> IF i = p - Len(f) THEN cell ELSE Zeros]

-----------------------------------------------------------------------------
(* The directory: PortfolioCreate at the end of crypto_post_register, and   *)
(* PortfolioGetCoinsList for GET /coins.                                    *)

(* Mutant: the registration does not make the directory. *)
NeedsDirectoryNever == FALSE

(* opendir fails with ENOENT. *)
NeedsDirectory == ~dir

(* http_session_register_user has stored the user. *)
RegisterUser(w) ==
  /\ user = "none" /\ user' = "stored"
  /\ Goes(w, "idle", "create")
  /\ UNCHANGED <<dir, file, tx, last, pos, historyVars>>

CreateLook(w) ==
  /\ Goes(w, "create", IF NeedsDirectory THEN "create_mkdir" ELSE "create_done")
  /\ UNCHANGED <<user, dir, file, tx, last, pos, historyVars>>

(* mkdir, which may find that another request was faster: PortfolioCreate   *)
(* then answers -1, which nobody looks at.                                  *)
CreateMkdir(w) ==
  /\ Goes(w, "create_mkdir", "create_done") /\ dir' = TRUE
  /\ UNCHANGED <<user, file, tx, last, pos, historyVars>>

CreateDone(w) ==
  /\ Goes(w, "create_done", "idle") /\ user' = "answered"
  /\ UNCHANGED <<dir, file, tx, last, pos, historyVars>>

Begin(w, to) ==
  /\ user # "none" /\ Goes(w, "idle", to)
  /\ early' = [early EXCEPT ![w] = user # "answered"]

ListCoins(w) ==
  /\ Begin(w, "look")
  /\ UNCHANGED <<user, dir, file, tx, last, pos, mixed, done, alone, raced>>

Look(w) ==
  /\ Goes(w, "look", IF dir THEN "read" ELSE "mkdir")
  /\ UNCHANGED <<user, dir, file, tx, last, pos, historyVars>>

(* OpenDirectory answers NULL if the mkdir fails, and the handler takes the *)
(* strlen of what it gets.                                                  *)
Mkdir(w) ==
  /\ Goes(w, "mkdir", IF dir THEN "fault" ELSE "read") /\ dir' = TRUE
  /\ UNCHANGED <<user, file, tx, last, pos, historyVars>>

(* Coin_getInfo for the coins there are.  With none the text has no end;    *)
(* the reply is what happens to be in the heap up to a zero.                *)
ReadCoins(w) ==
  /\ Goes(w, "read", "idle")
  /\ UNCHANGED <<user, dir, file, tx, last, pos, historyVars>>

(* GET /coin.  Coin_getTransactions does not look at what CSV_load answers: *)
(* without a file it works on a csv_raw_t that was never written.           *)
ListTransactions(w) ==
  /\ Begin(w, "load")
  /\ UNCHANGED <<user, dir, file, tx, last, pos, mixed, done, alone, raced>>

LoadTransactions(w) ==
  /\ \/ Goes(w, "load", "idle")
     \/ file = NoFile /\ Goes(w, "load", "fault")
  /\ UNCHANGED <<user, dir, file, tx, last, pos, historyVars>>

-----------------------------------------------------------------------------
(* POST /coin: Coin_addTransacation *)

Adding == {w \in Workers : tx[w] # NoTxn}

AddTransaction(w) ==
  /\ Begin(w, "add")
  /\ \E t \in Txns \ ({done[k] : k \in DOMAIN done} \cup {tx[v] : v \in Workers}) :
       tx' = [tx EXCEPT ![w] = t]
  /\ mixed' = [v \in Workers |-> IF v = w THEN Adding # {} ELSE mixed[v] \/ v \in Adding]
  /\ raced' = (raced \/ Adding # {})
  /\ UNCHANGED <<user, dir, file, last, pos, done, alone>>

(* CSV_load, and what CSV_create does if there is no file: a file that is   *)
(* emptied, given a heading and opened again.                               *)
Load(w) ==
  /\ Goes(w, "add", IF file = NoFile THEN "new" ELSE "seek")
  /\ last' = [last EXCEPT ![w] = LastId]
  /\ UNCHANGED <<user, dir, file, tx, pos, historyVars>>

Create(w) ==
  /\ IF dir THEN Goes(w, "new", "head") /\ file' = <<>>
            ELSE Goes(w, "new", "fault") /\ UNCHANGED file
  /\ UNCHANGED <<user, dir, tx, last, pos, historyVars>>

WriteHeading(w) ==
  /\ Goes(w, "head", "seek")
  /\ file' = Written(file, 1, Heading)
  /\ UNCHANGED <<user, dir, tx, last, pos, historyVars>>

(* Mutant: the write begins at the last line.                               *)
EndOneLess == Len(file)

End == Len(file) + 1

Seek(w) ==
  /\ Goes(w, "seek", "write")
  /\ pos' = [pos EXCEPT ![w] = End]
  /\ UNCHANGED <<user, dir, file, tx, last, historyVars>>

(* Mutant: the id is not counted up. *)
NextIdSame(w) == last[w]

NextId(w) == last[w] + 1

(* fprintf and fflush of CSV_appendNewLine; the request is answered.        *)
AppendLine(w) ==
  LET line == [id |-> NextId(w), tx |-> tx[w]]
  IN  /\ Goes(w, "write", "idle")
      /\ file' = Written(file, pos[w], line)
      /\ done' = Append(done, tx[w])
      /\ alone' = IF mixed[w] THEN alone ELSE alone \cup {line}
      /\ tx' = [tx EXCEPT ![w] = NoTxn]
      /\ last' = [last EXCEPT ![w] = 0] /\ pos' = [pos EXCEPT ![w] = 0]
      /\ mixed' = [mixed EXCEPT ![w] = FALSE]
      /\ UNCHANGED <<user, dir, early, raced>>

-----------------------------------------------------------------------------
Faulted == \E w \in Workers : at[w] = "fault"

PortfolioRequest(w) ==
  \/ RegisterUser(w) \/ CreateLook(w) \/ CreateMkdir(w) \/ CreateDone(w)
  \/ ListCoins(w) \/ Look(w) \/ Mkdir(w) \/ ReadCoins(w)
  \/ ListTransactions(w) \/ LoadTransactions(w)
  \/ AddTransaction(w) \/ Load(w) \/ Create(w) \/ WriteHeading(w)
  \/ Seek(w) \/ AppendLine(w)

PortfolioNext == ~Faulted /\ \E w \in Workers : PortfolioRequest(w)

PortfolioSpec == PortfolioInit /\ [][PortfolioNext]_portfolioVars

-----------------------------------------------------------------------------
(* Properties *)

(* As long as no two transactions were posted at one time, the file holds   *)
(* those that were answered, all of them, in order, and numbered from 1,    *)
(* whatever else is being read or created (coin.c:127-166, csv.c:90-104).   *)
KeptInOrder ==
  ~raced => Lines(file) = [k \in DOMAIN done |-> [id |-> k, tx |-> done[k]]]

(* Requests that do overlap may overwrite each other's line, give an id     *)
(* twice, or empty a file that is being created; but what was posted with   *)
(* no other request at work is never lost through a later one.              *)
AloneIsKept == alone \subseteq {Lines(file)[k] : k \in DOMAIN Lines(file)}

(* Once the registration was answered requests cannot fail for want of a    *)
(* directory, though the one who made it may have been another request:     *)
(* what faults began before, or asked for a coin that has no file.          *)
SafeOnceRegistered ==
  \A w \in Workers : at[w] = "fault" => early[w] \/ (file = NoFile /\ dir)
=============================================================================
