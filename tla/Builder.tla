------------------------------- MODULE Builder -------------------------------
(***************************************************************************)
(* The build tool of the repository (cb.c, cb.h): it may fetch the files of*)
(* libs/ from a toolkit, then forks a compiler for each source, ar for the *)
(* two archives and the linker, and waits for them.  The result of no      *)
(* command is looked at.  A child that cannot exec its tool returns from   *)
(* build() as the parent does and goes on as a second builder.             *)
(*                                                                         *)
(* A source is known by its text and the time of its last change, an       *)
(* object, an archive and the program by the texts they are made from.     *)
(* People edit, add and remove sources at any time.                        *)
(***************************************************************************)
EXTENDS Naturals, Sequences, FiniteSets, SequencesExt

CONSTANTS
  Libs,       (* libs/: async, queue, threadpool                             *)
  Server,     (* server/: server, http                                       *)
  Rest,       (* http_libs/, app/backend/ and Main                           *)
  Main,       (* app/app.c                                                   *)
  MaxTime,    (* a bound: the changes of sources                             *)
  MaxRuns,    (* a bound: the runs of the tool                               *)
  NoFile

ASSUME BuilderAssumption ==
  /\ MaxTime \in Nat /\ MaxRuns \in Nat /\ NoFile \notin Libs /\ IsFiniteSet(Libs)
  /\ Libs \cap Server = {} /\ (Libs \cup Server) \cap Rest = {} /\ Main \in Rest
  /\ (Libs \cup Server \cup Rest) \cap {"async.a", "async.so", "server.a", "app"} = {}

VARIABLES
  src,        (* external: the sources                                       *)
  kit,        (* external: the files of the toolkit                          *)
  clock,      (* external: when the last change was                          *)
  files,      (* below build/: what each place holds of each source          *)
  at,         (* the builders: step, sources to compile, pids to wait for    *)
  tools,      (* the children that run a tool, each <<builder, job>>         *)
  zombies,    (* the children that ended and were not waited for             *)
  second,     (* the child that is builder 2                                 *)
  clean, runs,
  held,       (* history: the texts a source had during the run              *)
  failed,     (* history: a command of the run failed                        *)
  noExec      (* history: a tool could not be executed                       *)

sourceVars  == <<src, kit, clock, held>>
processVars == <<at, tools, zombies, second, noExec>>
builderVars == <<sourceVars, files, processVars, clean, runs, failed>>

Sources  == Libs \cup Server \cup Rest
Builders == {1, 2}
Nowhere  == [text |-> 0, time |-> 0]
Empty    == [s \in Sources |-> 0]

AnyPid == <<0, "any">>              (* wait(), and waitpid of a -1           *)
NoPid  == <<0, "none">>

Doing(step, todo, pids) == [step |-> step, todo |-> todo, pids |-> pids]
Off == Doing("off", {}, <<>>)

BuilderInit ==
  /\ \E ours, theirs \in SUBSET Libs :
       /\ ours \cup theirs = Libs
       /\ src = [s \in Sources |-> IF s \in Libs \ ours THEN Nowhere ELSE [text |-> 1, time |-> 1]]
       /\ kit = [s \in Libs |-> IF s \in theirs THEN [text |-> 1, time |-> 1] ELSE Nowhere]
  /\ clock = 1 /\ held = [s \in Sources |-> {}]
  /\ files = [p \in {"obj", "async.a", "server.a", "app"} |-> Empty]
  /\ at = [b \in Builders |-> Off]
  /\ tools = {} /\ zombies = {} /\ second = NoPid /\ noExec = FALSE
  /\ clean = FALSE /\ runs = 0 /\ failed = FALSE

-----------------------------------------------------------------------------
(* Sources *)

Known(s) == src[s].text # 0

Holds(news) ==
  held' = [s \in Sources |-> IF at[1] = Off THEN {} ELSE held[s] \cup {news[s].text}]

Put(s, text) ==
  /\ clock < MaxTime /\ clock' = clock + 1
  /\ src' = [src EXCEPT ![s] = [text |-> text, time |-> clock']] /\ Holds(src')
  /\ UNCHANGED <<kit, files, processVars, clean, runs, failed>>

Write(s)  == Put(s, clock + 1)
Delete(s) == Known(s) /\ Put(s, 0)

(* Before or after a run, which reads the toolkit at its beginning only.    *)
WriteKit(f) ==
  /\ at[1] = Off /\ runs < MaxRuns /\ clock < MaxTime /\ clock' = clock + 1
  /\ kit' = [kit EXCEPT ![f] = [text |-> clock', time |-> clock']]
  /\ UNCHANGED <<src, held, files, processVars, clean, runs, failed>>

-----------------------------------------------------------------------------
(* main, and the files of the toolkit *)

Begin ==
  /\ at[1] = Off /\ runs < MaxRuns /\ runs' = runs + 1
  /\ \E step \in {"sync", "libs"} : at' = [at EXCEPT ![1] = Doing(step, Libs, <<>>)]
  /\ clean' \in BOOLEAN
  /\ files' = IF clean' THEN [p \in DOMAIN files |-> Empty] ELSE files
  /\ held' = [s \in Sources |-> {src[s].text}] /\ failed' = FALSE
  /\ UNCHANGED <<src, kit, clock, tools, zombies, second, noExec>>

(* Mutant: the other way round. *)
NewerWrong(f, libs) == kit[f].time < libs[f].time

(* is_file_older(toolkit's, ours) = 1 *)
Newer(f, libs) == kit[f].time > libs[f].time

(* The loop of fetch_local_files for one file of the toolkit.  The names of *)
(* the two files are set when ours is found and forgotten after a copy; a   *)
(* file that is new to us is copied under the names that are left over.     *)
Fetched(was, f) ==
  LET ours == src[f].text # 0
      name == IF ours \/ was.name = NoFile THEN f ELSE was.name
  IN  IF ours /\ ~Newer(f, was.libs) THEN [was EXCEPT !.name = f]
      ELSE [libs |-> [was.libs EXCEPT ![name] = [text |-> kit[name].text, time |-> clock + 1]],
            name |-> NoFile]

InKit == {f \in Libs : kit[f].text # 0}

(* What libs/ is after the files of the toolkit, in the order of readdir.   *)
FetchedUpTo(order) ==
  LET after[k \in 0 .. Len(order)] ==
        IF k = 0 THEN [libs |-> src, name |-> NoFile] ELSE Fetched(after[k - 1], order[k])
  IN  after

(* --sync, and --init, which also makes libs/; then --skip may end it.      *)
SyncRepo ==
  /\ at[1].step = "sync" /\ \E next \in {Doing("libs", Libs, <<>>), Off} : at' = [at EXCEPT ![1] = next]
  /\ \E order \in SetToSeqs(InKit) : src' = FetchedUpTo(order)[Len(order)].libs
  /\ Holds(src') /\ clock' = IF src' = src THEN clock ELSE clock + 1
  /\ UNCHANGED <<kit, files, tools, zombies, second, clean, runs, failed, noExec>>

-----------------------------------------------------------------------------
(* The builders *)

Does(b, step) == at[b].step = step /\ at[b].pids = <<>>

Goes(b, to) == /\ at' = [at EXCEPT ![b] = to]
               /\ UNCHANGED <<sourceVars, tools, zombies, second, clean, runs, failed, noExec>>

(* fork and execvp.  In a run one thing fails of itself, what fails because *)
(* of it comes on top of that (a bound).  The child of a failed execvp      *)
(* finds itself where the builder is when fork has failed.                  *)
Fork(b, job, parent, child) ==
  /\ \/ /\ at' = [at EXCEPT ![b] = parent] /\ tools' = tools \cup {<<b, job>>}
        /\ UNCHANGED <<second, failed, noExec>>
     \/ /\ ~failed /\ at' = [at EXCEPT ![b] = child] /\ failed' = TRUE
        /\ UNCHANGED <<tools, second, noExec>>
     \/ /\ ~failed /\ ~noExec /\ noExec' = TRUE /\ failed' = TRUE /\ second' = <<b, job>>
        /\ at' = [at EXCEPT ![b] = parent, ![2] = child] /\ UNCHANGED tools
  /\ UNCHANGED <<sourceVars, files, zombies, clean, runs>>

(* build: the parent waits for any child. *)
Build(b, job, after) == Fork(b, job, [after EXCEPT !.pids = <<AnyPid>>], after)

(* build_async: its pid, or a -1, goes to the array for builds_wait. *)
BuildAsync(b, job, next) ==
  LET with(pid) == Doing(next, {}, Append(at[b].pids, pid))
  IN  Fork(b, job, with(<<b, job>>), with(AnyPid))

(* Mutant: a source that has an object is not compiled again. *)
CompilesNewOnly(s) == files["obj"][s] = 0 /\ (Known(s) \/ s = Main)

(* What the directories hold, and app.c. *)
Compiles(s) == Known(s) \/ s = Main

(* build_dir_files for the directories of one step, in the order of         *)
(* readdir, and build for app.c; then the next step.                        *)
CompileAll(b, step, then) ==
  /\ Does(b, step)
  /\ \/ \E s \in at[b].todo :
          /\ s = Main => at[b].todo = {Main}
          /\ LET rest == Doing(step, at[b].todo \ {s}, <<>>)
             IN  IF Compiles(s) THEN Build(b, s, rest) ELSE Goes(b, rest) /\ UNCHANGED files
     \/ at[b].todo = {} /\ Goes(b, then) /\ UNCHANGED files

CompileLibs(b)   == CompileAll(b, "libs", Doing("ar", {}, <<>>))
CompileServer(b) == CompileAll(b, "server", Doing("server.a", {}, <<>>))
CompileRest(b)   == CompileAll(b, "rest", Doing("link", {}, <<>>))

ArchiveLibs(b) == at[b].step = "ar" /\ BuildAsync(b, "async.a", "so")
ShareLibs(b)   == at[b].step = "so" /\ BuildAsync(b, "async.so", "wait")

(* Mutant: builds_wait waits for the first one only. *)
AllWaitedFirst(b) == Len(at[b].pids) < 2

AllWaited(b) == at[b].pids = <<>>

(* builds_wait returns. *)
BuildsWaited(b) ==
  at[b].step = "wait" /\ AllWaited(b) /\ Goes(b, Doing("server", Server, <<>>)) /\ UNCHANGED files

ArchiveServer(b) ==
  Does(b, "server.a") /\ Build(b, "server.a", Doing("remove", {}, <<>>))

RemoveObjects(b) ==
  /\ Does(b, "remove") /\ Goes(b, Doing("rest", Rest, <<>>))
  /\ files' = [files EXCEPT !["obj"] = [s \in Sources |-> IF s \in Server THEN 0 ELSE @[s]]]

Link(b) == Does(b, "link") /\ Build(b, "app", Doing("run", {}, <<>>))

(* --run, or the end of main.  A builder that is a child becomes a zombie.  *)
End(b) ==
  /\ Does(b, "run") /\ at' = [at EXCEPT ![b] = Off]
  /\ zombies' = IF b = 2 THEN zombies \cup {second} ELSE zombies
  /\ second' = IF b = 2 THEN NoPid ELSE second
  /\ IF b = 2 THEN UNCHANGED <<clean, failed, held>>
     ELSE clean' = FALSE /\ failed' = FALSE /\ held' = [s \in Sources |-> {}]
  /\ UNCHANGED <<src, kit, clock, files, tools, runs, noExec>>

Children(b) == {p \in tools \cup zombies \cup {second} : p[1] = b}

(* Mutant: no end of the wait for a child of another. *)
MineAlways(b, pid) == pid # AnyPid \/ Children(b) # {}

(* waitpid does not fail with ECHILD. *)
Mine(b, pid) == IF pid = AnyPid THEN Children(b) # {} ELSE pid \in Children(b)

(* wait and waitpid, one pid after the other; in "so" they are gathered. *)
Wait(b) ==
  /\ at[b].pids # <<>> /\ at[b].step # "so"
  /\ LET pid == Head(at[b].pids)
         dead == {z \in zombies : z[1] = b /\ pid \in {z, AnyPid}}
     IN  \/ \E z \in dead : zombies' = zombies \ {z}
         \/ ~Mine(b, pid) /\ UNCHANGED zombies
  /\ at' = [at EXCEPT ![b].pids = Tail(@)]
  /\ UNCHANGED <<sourceVars, files, tools, second, clean, runs, failed, noExec>>

-----------------------------------------------------------------------------
(* The tools *)

Place(job) == IF job \in Sources THEN "obj" ELSE job

Of(group) == [s \in Sources |-> IF s \in group THEN files["obj"][s] ELSE 0]

Members(job) ==
  CASE job \in Sources    -> [files["obj"] EXCEPT ![job] = src[job].text]
    [] job = "async.a"    -> Of(Libs)
    [] job = "server.a"   -> Of(Server)
    [] job = "app"        -> [s \in Sources |-> files[CASE s \in Libs   -> "async.a"
                                                        [] s \in Server -> "server.a"
                                                        [] OTHER        -> "obj"][s]]

Unmade(job) == IF job \in Sources THEN [files["obj"] EXCEPT ![job] = 0] ELSE Empty

(* What it names on its command line is there; link takes the objects it    *)
(* finds.                                                                   *)
CanSucceed(job) ==
  CASE job \in Sources              -> Known(job)
    [] job \in {"async.a", "async.so"} -> \A s \in Libs : files["obj"][s] # 0
    [] job = "server.a"             -> \A s \in Server : files["obj"][s] # 0
    [] job = "app"                  -> /\ files["async.a"] # Empty /\ files["server.a"] # Empty
                                       /\ files["obj"][Main] # 0

Exits(p) == tools' = tools \ {p} /\ zombies' = zombies \cup {p}

(* It succeeds, or it fails and leaves its output as it was or removes it.  *)
(* async.so is used by nobody and not kept.                                 *)
ToolEnds(p) ==
  /\ Exits(p)
  /\ \/ CanSucceed(p[2]) /\ UNCHANGED failed
        /\ files' = IF p[2] = "async.so" THEN files ELSE [files EXCEPT ![Place(p[2])] = Members(p[2])]
     \/ (CanSucceed(p[2]) => ~failed) /\ failed' = TRUE
        /\ files' \in {files} \cup {[files EXCEPT ![q] = Unmade(p[2])] : q \in {Place(p[2])} \ {"async.so"}}
  /\ UNCHANGED <<sourceVars, at, second, clean, runs, noExec>>

-----------------------------------------------------------------------------
Steps(b) ==
  \/ CompileLibs(b) \/ ArchiveLibs(b) \/ ShareLibs(b) \/ BuildsWaited(b)
  \/ CompileServer(b) \/ ArchiveServer(b) \/ RemoveObjects(b)
  \/ CompileRest(b) \/ Link(b) \/ Wait(b) \/ End(b)

BuilderNext ==
  \/ Begin \/ SyncRepo
  \/ \E s \in Sources : Write(s) \/ Delete(s)
  \/ \E f \in Libs : WriteKit(f)
  \/ \E b \in Builders : Steps(b)
  \/ \E p \in tools : ToolEnds(p)

BuilderSpec == BuilderInit /\ [][BuilderNext]_builderVars

(* Builders run, and so do tools, which end.                                *)
BuilderFairSpec ==
  /\ BuilderSpec
  /\ WF_builderVars(SyncRepo) /\ \A b \in Builders : WF_builderVars(Steps(b))
  /\ WF_builderVars(\E p \in tools : ToolEnds(p))

-----------------------------------------------------------------------------
(* Properties *)

(* If no command of a run failed, the program holds each source as it was   *)
(* at some time of that run: nothing stale gets into it, whatever an        *)
(* earlier run left and whoever edits meanwhile - but for the object of a   *)
(* source that is gone, when the run was not told to --clean (cb.c:33-123,  *)
(* cb.h:663-685, 525-547).                                                  *)
FreshBinary ==
  at[1].step = "run" /\ at[1].pids = <<>> /\ ~failed =>
    \A s \in Sources : \/ files["app"][s] \in held[s]
                       \/ s \notin Server /\ ~clean /\ 0 \in held[s]

Uses(job) == CASE job \in Sources                 -> {<<"src", job>>}
               [] job \in {"async.a", "async.so"} -> {<<"obj", s>> : s \in Libs}
               [] job = "server.a"                -> {<<"obj", s>> : s \in Server}
               [] job = "app" -> {<<"obj", s>> : s \in Rest} \cup {<<"async.a", 0>>, <<"server.a", 0>>}
Makes(job) == IF job \in Sources THEN <<"obj", job>> ELSE <<job, 0>>

(* No tool reads or writes a file that another one is writing, and the      *)
(* objects that are removed are used by none: builds_wait and build wait    *)
(* for what they started - as long as no child went on as a second builder  *)
(* (cb.h:426-504, cb.c:43-58, 86-93).                                       *)
NoToolRace ==
  ~noExec =>
    /\ \A p, q \in tools : p # q => Makes(p[2]) \notin Uses(q[2]) \cup {Makes(q[2])}
    /\ at[1].step = "rest" /\ at[1].todo = Rest => <<1, "server.a">> \notin tools

(* A run ends, and when it has, no tool and no second builder runs on and   *)
(* no child is left that was not waited for, whatever failed               *)
(* (cb.h:426-504).                                                          *)
EndsAlone ==
  at[1] # Off ~> at[1] = Off /\ tools = {} /\ zombies = {} /\ second = NoPid

KitNew == {f \in InKit : ~Known(f)}
KitOld == {f \in InKit \ KitNew : kit[f].time <= src[f].time}

(* --sync leaves in libs/ the newer of the two files wherever both have one,*)
(* and adds what only the toolkit has, unless it has both files that are    *)
(* new and files that are not newer than ours (cb.h:770-864).               *)
SyncSound ==
  [][at[1].step = "sync" /\ at'[1].step # "sync" /\ (KitNew = {} \/ KitOld = {}) =>
       \A f \in Libs : src'[f].text = IF f \in InKit \ KitOld THEN kit[f].text ELSE src[f].text]_builderVars
=============================================================================
