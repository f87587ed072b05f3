-------------------------------- MODULE Router --------------------------------
(***************************************************************************)
(* The paths of server/http.c: a tree of pathname_t that the application   *)
(* builds with http_register_method before the server starts, and the      *)
(* dispatch of a request in http_process_request, which walks it.          *)
(*                                                                         *)
(* A path is a sequence of characters, so that a name may be the beginning *)
(* of another, as "coin" is of "coins", and slashes may be repeated.  A    *)
(* handler is named by the path it was registered for.  A pointer that     *)
(* nobody has written (put, patch, delete: the nodes come from malloc and  *)
(* only get and post are cleared) may hold anything: "junk".               *)
(***************************************************************************)
EXTENDS Naturals, Sequences, FiniteSets, SequencesExt

CONSTANTS
  Slash,      (* the character '/'                                           *)
  Paths,      (* the paths that are registered                               *)
  Urls,       (* the urls that are asked for                                 *)
  MaxCalls    (* a bound: how often http_register_method is called           *)

ASSUME RouterAssumption ==
  MaxCalls \in Nat /\ \A p \in Paths \cup Urls : p \in Seq(Range(p))

VARIABLES
  nodes,      (* the pathname_t's in the order they were made; 1 is root     *)
  serving,    (* http_server_start has been called                           *)
  answer,     (* what the last request got                                   *)
  calls,      (* history: what http_register_method was called with          *)
  routes      (* history: what it accepted                                   *)

routerVars == <<nodes, serving, answer, calls, routes>>

Types == {"GET", "PUT"}    (* POST is like GET, PATCH and DELETE like PUT *)

Null == [is |-> "null", of |-> <<>>]
Junk == [is |-> "junk", of |-> <<>>]
Handler(p) == [is |-> "set", of |-> p]

NewSlots == [t \in Types |-> IF t = "PUT" THEN Junk ELSE Null]
NoAnswer == [url |-> <<>>, type |-> "GET", code |-> "none", handler |-> <<>>, suffix |-> <<>>]

RouterInit ==
  /\ nodes = <<[path |-> <<>>, kids |-> <<>>, slots |-> NewSlots]>>
  /\ serving = FALSE /\ answer = NoAnswer /\ calls = {} /\ routes = {}

-----------------------------------------------------------------------------
(* http_resolve_path *)

From(s, p) == SubSeq(s, p, Len(s))

(* Mutant: a slash is skipped, and not all of them. *)
SkipOneSlash(s, p) == IF p <= Len(s) /\ s[p] = Slash THEN p + 1 ELSE p

SkipSlashes(s, p) ==
  CHOOSE q \in p .. Len(s) + 1 : /\ q <= Len(s) => s[q] # Slash
                                 /\ \A i \in p .. q - 1 : s[i] = Slash

(* Mutant: a name matches its own beginning. *)
MatchesBeginning(name, rest) == IsPrefix(name, rest)

(* The rest of the path is the name of the child, or goes on with a slash. *)
Matches(name, rest) ==
  IsPrefix(name, rest) /\ (Len(rest) > Len(name) => rest[Len(name) + 1] = Slash)

Start == [node |-> 1, pos |-> 1, search |-> TRUE]

(* A round of the loop: past the slashes, and then to the first child that  *)
(* fits what is left of s.                                                  *)
Round(tree, s, at) ==
  LET p    == SkipSlashes(s, at.pos)
      kids == tree[at.node].kids
      fit  == {i \in DOMAIN kids : Matches(tree[kids[i]].path, From(s, p))}
      kid  == kids[CHOOSE i \in fit : \A j \in fit : i <= j]
  IN  IF ~at.search THEN at
      ELSE IF p > Len(s) \/ fit = {} THEN [node |-> at.node, pos |-> p, search |-> FALSE]
      ELSE [node |-> kid, pos |-> p + Len(tree[kid].path), search |-> TRUE]

(* The walk along s, round by round; one that goes on takes a character at  *)
(* least.                                                                   *)
Walk(tree, s) ==
  LET walk[k \in 0 .. Len(s) + 1] == IF k = 0 THEN Start ELSE Round(tree, s, walk[k - 1])
  IN  walk

(* The node where it ends, and what is left of s. *)
Resolve(tree, s) ==
  LET end == Walk(tree, s)[Len(s) + 1]
  IN  [node |-> end.node, rest |-> From(s, end.pos)]

-----------------------------------------------------------------------------
(* http_register_method *)

StartsName(s, i) == s[i] # Slash /\ (i > 1 => s[i - 1] = Slash)

(* The nodes made for what is left of a path: one for each of its names,    *)
(* called by all of the path from there on, each the child of the last.     *)
NamesFrom(rest) ==
  LET names[i \in 0 .. Len(rest)] ==
        IF i = 0 THEN <<>>
        ELSE IF StartsName(rest, i) THEN Append(names[i - 1], From(rest, i))
        ELSE names[i - 1]
  IN  names

NamesOf(rest) == NamesFrom(rest)[Len(rest)]

Grown(at, names) ==
  LET old  == Len(nodes)
      new  == [k \in DOMAIN names |->
                 [path |-> names[k], slots |-> NewSlots,
                  kids |-> IF k < Len(names) THEN <<old + k + 1>> ELSE <<>>]]
      root == IF names = <<>> THEN nodes
              ELSE [nodes EXCEPT ![at].kids = Append(@, old + 1)]
  IN  root \o new

(* Mutant: a handler replaces the one that is there. *)
VacantAlways(slot) == TRUE

(* The test for NULL; junk may be zero or not. *)
Vacant(slot) == slot.is \in {"null", "junk"}

Register(path, type) ==
  /\ ~serving /\ Cardinality(calls) < MaxCalls
  /\ LET r      == Resolve(nodes, path)
         names  == NamesOf(r.rest)
         tree   == Grown(r.node, names)
         target == IF names = <<>> THEN r.node ELSE Len(tree)
         slot   == tree[target].slots[type]
     IN  /\ calls' = calls \cup {[path |-> path, type |-> type]}
         /\ \/ /\ Vacant(slot)
               /\ nodes' = [tree EXCEPT ![target].slots[type] = Handler(path)]
               /\ routes' = routes \cup {[path |-> path, type |-> type]}
            \/ /\ slot.is # "null"
               /\ nodes' = tree /\ UNCHANGED routes
  /\ UNCHANGED <<serving, answer>>

StartServer == /\ ~serving /\ serving' = TRUE
               /\ UNCHANGED <<nodes, answer, calls, routes>>

-----------------------------------------------------------------------------
(* http_process_request, from the request line to the call of the handler.  *)
(* A request leaves the tree as it is, so that one is enough.               *)

Request(url, type) ==
  /\ serving /\ answer = NoAnswer
  /\ LET r    == Resolve(nodes, url)
         slot == nodes[r.node].slots[type]
         code == CASE slot.is = "set"  -> {"handled"}
                   [] slot.is = "null" -> {"405"}
                   [] slot.is = "junk" -> {"405", "fault"}
     IN  \E c \in code : answer' = [url |-> url, type |-> type, code |-> c,
                                    handler |-> slot.of, suffix |-> r.rest]
  /\ UNCHANGED <<nodes, serving, calls, routes>>

(* A method that is none of the five. *)
BadMethod(url) ==
  /\ serving /\ answer = NoAnswer
  /\ answer' = [NoAnswer EXCEPT !.url = url, !.code = "400", !.suffix = Resolve(nodes, url).rest]
  /\ UNCHANGED <<nodes, serving, calls, routes>>

RouterNext == \/ \E p \in Paths, t \in Types : Register(p, t)
              \/ StartServer
              \/ \E u \in Urls : BadMethod(u) \/ \E t \in Types : Request(u, t)

RouterSpec == RouterInit /\ [][RouterNext]_routerVars

-----------------------------------------------------------------------------
(* Properties *)

(* The names between the slashes of s, as they are read from left to right: *)
(* the reference for what a path means.                                     *)
Reading(s) ==
  LET names[i \in 0 .. Len(s)] ==
        IF i = 0 THEN <<>>
        ELSE IF s[i] = Slash THEN names[i - 1]
        ELSE IF StartsName(s, i) THEN Append(names[i - 1], <<s[i]>>)
        ELSE [names[i - 1] EXCEPT ![Len(names[i - 1])] = Append(@, s[i])]
  IN  names

Segments(s) == Reading(s)[Len(s)]

(* No path had more than one name that was new when it was registered. *)
OneAtATime == \A n \in DOMAIN nodes : Slash \notin Range(nodes[n].path)

(* A path that was accepted leads to its own handler from then on, whatever *)
(* is registered after it, as long as paths are registered one name at a    *)
(* time (the application does): no later node comes before it in the walk   *)
(* and no second handler takes its place (http.c:185-206, 673-696).         *)
RoutesFound ==
  OneAtATime => \A r \in routes :
    LET found == Resolve(nodes, r.path)
    IN  found.rest = <<>> /\ nodes[found.node].slots[r.type] = Handler(r.path)

(* In such a tree a request goes to the longest path that was registered    *)
(* and is, name by name, a beginning of its url, and the handler is given   *)
(* the names that are left: "/coins" is not "/coin" and a suffix, slashes   *)
(* do not count, and 405 means that no handler is there (http.c:164-210).   *)
LongestPrefix ==
  OneAtATime /\ answer.code \in {"handled", "405"} =>
    LET names == Segments(answer.url)
        known == {Segments(c.path) : c \in calls} \cup {<<>>}
        best  == CHOOSE b \in known : /\ IsPrefix(b, names)
                                      /\ \A c \in known : IsPrefix(c, names) => Len(c) <= Len(b)
    IN  /\ Segments(answer.suffix) = From(names, Len(best) + 1)
        /\ IF answer.code = "handled" THEN Segments(answer.handler) = best
           ELSE \A r \in routes : r.type = answer.type => Segments(r.path) # best

(* In every tree, also where paths of several new names put handlers at     *)
(* places nobody asked for (http.c:664), a handler runs for the method it   *)
(* was registered for and for urls that begin with its path.                *)
HandlerOfPrefix ==
  answer.code = "handled" =>
    /\ [path |-> answer.handler, type |-> answer.type] \in routes
    /\ IsPrefix(Segments(answer.handler), Segments(answer.url))
=============================================================================
