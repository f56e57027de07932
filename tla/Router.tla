-------------------------------- MODULE Router --------------------------------
(***************************************************************************)
(* The request router of src/http/router.cpp: a trie of path segments that *)
(* routes, hooks and fallback handlers are registered in, one by one or by *)
(* mounting another router, and that requests are matched against.         *)
(*                                                                         *)
(* A node has at most one parameter and one wildcard child, so it is known *)
(* by the edges that lead to it: static segments, ":" and "*".  A pattern  *)
(* is a sequence of [kind, name] with kind "static", ":" or "*"; a request *)
(* path is a sequence of raw segments.  The three lists of hooks of a node *)
(* are collected by the same code and are one list here.                   *)
(***************************************************************************)
EXTENDS Naturals, FiniteSets, Sequences, SequencesExt

CONSTANTS
  Routes,     \* [method, pattern]: what may be registered
  Groups,     \* the prefixes of hooks, handlers and mounts
  Methods, Paths, \* what is requested
  Decode,     \* of a segment, "invalid" for a bad escape
  Matching,   \* route_path_matching: "raw" or "decoded"
  MaxOps,     \* bound: registrations and mounts
  MaxMarks    \* bound: hooks and fallback handlers

ASSUME RouterAssumption ==
  /\ Matching \in {"raw", "decoded"}
  /\ {MaxOps, MaxMarks} \subseteq Nat
  /\ Paths \subseteq Seq(DOMAIN Decode)

VARIABLES
  routers,  \* the application's router, and one that is mounted in it
  log,      \* history: for each router what was registered, as written
  ops, marks

vars == <<routers, log, ops, marks>>

Get(f, key, default) == IF key \in DOMAIN f THEN f[key] ELSE default

Put(f, key, value) == (key :> value) @@ f

Rest(s, n) == SubSeq(s, n + 1, Len(s))

NoEntries == [key \in {} |-> 0]

-------------------------------------------------------------------------------
(***************************************************************************)
(* Paths and patterns.                                                     *)
(***************************************************************************)

\* parse_route_path() and selected_segments().
ValidPath(path) == \A i \in DOMAIN path : Decode[path[i]] # "invalid"

Selected(segment) == IF Matching = "raw" THEN segment ELSE Decode[segment]

SelectedPath(path) == [i \in DOMAIN path |-> Selected(path[i])]

ValidPattern(pattern) ==
  \A i \in DOMAIN pattern :
    pattern[i].kind = "static" => Decode[pattern[i].name] # "invalid"

Edge(part) == IF part.kind = "static" THEN Selected(part.name) ELSE part.kind

Position(pattern) == [i \in DOMAIN pattern |-> Edge(pattern[i])]

\* route_pattern_matches(), without the parameters.
PatternMatches(pattern, segments) ==
  LET stars == {i \in DOMAIN pattern : pattern[i].kind = "*"}
      fixed == IF stars = {} THEN Len(pattern) ELSE Min(stars) - 1
  IN /\ Len(segments) >= fixed
     /\ \A i \in 1 .. fixed :
          pattern[i].kind = ":" \/ Edge(pattern[i]) = segments[i]
     /\ IF stars = {} THEN Len(segments) = fixed
        ELSE Min(stars) = Len(pattern)

\* Its parameters, set in the order of the pattern.
PatternParams(pattern, segments) ==
  FoldLeft(LAMBDA params, i :
             CASE pattern[i].kind = ":" ->
                    Put(params, pattern[i].name, <<segments[i]>>)
               [] pattern[i].kind = "*" ->
                    Put(params, pattern[i].name,
                        SubSeq(segments, i, Len(segments)))
               [] OTHER -> params,
           NoEntries, [i \in DOMAIN pattern |-> i])

-------------------------------------------------------------------------------
(***************************************************************************)
(* Registration.  A walk that is refused leaves the nodes it has made.     *)
(***************************************************************************)

EmptyRouter ==
  [nodes |-> {<<>>}, name |-> NoEntries, targets |-> NoEntries,
   hooks |-> NoEntries, not_found |-> NoEntries, exception |-> NoEntries,
   count |-> 0]

\* One segment of add_route(), or of ensure_prefix_node() when prefix is set.
Descend(walk, part, last, prefix) ==
  LET child == Append(walk.at, Edge(part))
      named == part.kind # "static"
      conflict == part.name # Get(walk.router.name, child, part.name)
  IN IF \/ part.kind = "*" /\ prefix
        \/ part.kind = "*" /\ ~last
        \/ named /\ part.name = ""
        \/ named /\ conflict
     THEN [walk EXCEPT !.ok = FALSE]
     ELSE [ok |-> TRUE, at |-> child,
           router |-> [walk.router EXCEPT
                         !.nodes = @ \union {child},
                         !.name = IF named THEN Put(@, child, part.name)
                                  ELSE @]]

Walk(router, pattern, prefix) ==
  LET start == [ok |-> ValidPattern(pattern), at |-> <<>>, router |-> router]
      Step(walk, i) ==
        IF ~walk.ok THEN walk
        ELSE Descend(walk, pattern[i], i = Len(pattern), prefix)
  IN FoldLeft(Step, start, [i \in DOMAIN pattern |-> i])

\* What a registration leaves: the router, and whether it did not throw.
AddRoute(router, method, pattern) ==
  LET walk == Walk(router, pattern, FALSE)
      key == <<walk.at, method>>
  IN IF ~walk.ok \/ key \in DOMAIN walk.router.targets
     THEN [ok |-> FALSE, router |-> walk.router]
     ELSE [ok |-> TRUE,
           router |-> [walk.router EXCEPT
                         !.targets = Put(@, key, pattern),
                         !.count = @ + 1]]

AddHook(router, prefix, hook) ==
  LET walk == Walk(router, prefix, TRUE)
      hooks == Get(walk.router.hooks, walk.at, <<>>)
  IN [ok |-> walk.ok,
      router |-> IF ~walk.ok THEN walk.router
                 ELSE [walk.router EXCEPT
                         !.hooks = Put(@, walk.at, Append(hooks, hook))]]

\* add_not_found_handler() and add_exception_handler().
AddHandler(router, kind, prefix, handler) ==
  LET walk == Walk(router, prefix, TRUE)
  IN [ok |-> walk.ok,
      router |-> IF ~walk.ok THEN walk.router
                 ELSE [walk.router EXCEPT ![kind] = Put(@, walk.at, handler)]]

-------------------------------------------------------------------------------
(***************************************************************************)
(* Mounting: validate_mount_node(), then merge_mount_node() moves every    *)
(* node of the mounted router below the prefix.                            *)
(***************************************************************************)

\* f with its keys moved below at.
Below(at, f) ==
  [key \in {at \o k : k \in DOMAIN f} |-> f[Rest(key, Len(at))]]

MountConflicts(router, at, mounted) ==
  \/ \E q \in DOMAIN mounted.name :
       mounted.name[q] # Get(router.name, at \o q, mounted.name[q])
  \/ \E key \in DOMAIN mounted.targets :
       <<at \o key[1], key[2]>> \in DOMAIN router.targets
  \/ \E kind \in {"not_found", "exception"} :
       \E q \in DOMAIN mounted[kind] : at \o q \in DOMAIN router[kind]

MergedHooks(router, at, mounted) ==
  LET moved == Below(at, mounted.hooks)
  IN [key \in DOMAIN router.hooks \union DOMAIN moved |->
        Get(router.hooks, key, <<>>) \o Get(moved, key, <<>>)]

\* The routes, with prefix_route_patterns() applied to them.
MergedTargets(router, at, prefix, mounted) ==
  LET Moved(key) == <<Rest(key[1], Len(at)), key[2]>>
  IN [key \in {<<at \o k[1], k[2]>> : k \in DOMAIN mounted.targets} |->
        prefix \o mounted.targets[Moved(key)]] @@ router.targets

\* The two are different routers with one matching mode: mount() refuses others
\* before it changes anything.
MountRouter(router, prefix, mounted) ==
  LET walk == Walk(router, prefix, TRUE)
      at == walk.at
      to == walk.router
  IN IF ~walk.ok \/ MountConflicts(to, at, mounted)
     THEN [ok |-> FALSE, router |-> to]
     ELSE [ok |-> TRUE,
           router |-> [nodes |-> to.nodes \union
                                  {at \o q : q \in mounted.nodes},
                       name |-> Below(at, mounted.name) @@ to.name,
                       targets |-> MergedTargets(to, at, prefix, mounted),
                       hooks |-> MergedHooks(to, at, mounted),
                       not_found |->
                         Below(at, mounted.not_found) @@ to.not_found,
                       exception |->
                         Below(at, mounted.exception) @@ to.exception,
                       count |-> to.count + mounted.count]]

-------------------------------------------------------------------------------
(***************************************************************************)
(* Matching.  seen is what the walk has collected on its way to a node.    *)
(***************************************************************************)

NoMatch == [found |-> FALSE]

Nothing == [params |-> NoEntries, hooks |-> <<>>, exception |-> 0]

\* What the node at adds to it.
Collect(router, at, seen) ==
  [seen EXCEPT !.hooks = @ \o Get(router.hooks, at, <<>>),
               !.exception = Get(router.exception, at, @)]

Target(router, at, method, seen) ==
  IF <<at, method>> \in DOMAIN router.targets
  THEN [found |-> TRUE, pattern |-> router.targets[<<at, method>>],
        params |-> seen.params, hooks |-> seen.hooks,
        exception |-> seen.exception]
  ELSE NoMatch

RECURSIVE MatchNode(_, _, _, _, _, _)

\* Mutant of MatchNode: a static branch that leads nowhere is not left again.
MatchNodeGreedy(router, method, segments, i, at, seen) ==
  LET here == Collect(router, at, seen)
      Child(edge) == Append(at, edge)
      Named(edge, value) ==
        [here EXCEPT !.params = Put(@, router.name[Child(edge)], value)]
  IN IF i > Len(segments) THEN Target(router, at, method, here)
     ELSE IF Child(segments[i]) \in router.nodes
     THEN MatchNode(router, method, segments, i + 1, Child(segments[i]), here)
     ELSE IF Child(":") \in router.nodes
     THEN MatchNode(router, method, segments, i + 1, Child(":"),
                    Named(":", <<segments[i]>>))
     ELSE NoMatch

\* match_node(): the node's own target when the path ends, else its static, its
\* parameter and its wildcard child in turn, each from what is known here.
MatchNode(router, method, segments, i, at, seen) ==
  LET here == Collect(router, at, seen)
      Child(edge) == Append(at, edge)
      Named(edge, value) ==
        [here EXCEPT !.params = Put(@, router.name[Child(edge)], value)]
      wildcard ==
        IF Child("*") \notin router.nodes THEN NoMatch
        ELSE Target(router, Child("*"), method,
               Collect(router, Child("*"),
                       Named("*", SubSeq(segments, i, Len(segments)))))
      own == IF i > Len(segments) THEN Target(router, at, method, here)
             ELSE NoMatch
      static ==
        IF i > Len(segments) \/ Child(segments[i]) \notin router.nodes
        THEN NoMatch
        ELSE MatchNode(router, method, segments, i + 1, Child(segments[i]),
                       here)
      parameter ==
        IF i > Len(segments) \/ Child(":") \notin router.nodes THEN NoMatch
        ELSE MatchNode(router, method, segments, i + 1, Child(":"),
                       Named(":", <<segments[i]>>))
  IN IF own.found THEN own
     ELSE IF static.found THEN static
     ELSE IF parameter.found THEN parameter
     ELSE wildcard

Match(router, method, path) ==
  IF ~ValidPath(path) THEN NoMatch
  ELSE MatchNode(router, method, SelectedPath(path), 1, <<>>, Nothing)

-------------------------------------------------------------------------------
(***************************************************************************)
(* fallback(): one way down, without a second try.                         *)
(***************************************************************************)

\* Mutant of Remember: the outermost handler is kept.
RememberFirst(router, at, params, seen) ==
  [not_found |-> IF seen.not_found # 0 THEN seen.not_found
                 ELSE Get(router.not_found, at, 0),
   params |-> IF seen.not_found # 0 THEN seen.params ELSE params,
   exception |-> Get(router.exception, at, seen.exception)]

Remember(router, at, params, seen) ==
  [not_found |-> Get(router.not_found, at, seen.not_found),
   params |-> IF at \in DOMAIN router.not_found THEN params ELSE seen.params,
   exception |-> Get(router.exception, at, seen.exception)]

\* The branch that is taken at a node, "" when there is none.
FallbackEdge(router, segments, i, at) ==
  LET edges == IF i > Len(segments) THEN <<>> ELSE <<segments[i], ":", "*">>
      there == {k \in DOMAIN edges : Append(at, edges[k]) \in router.nodes}
  IN IF there = {} THEN "" ELSE edges[Min(there)]

RECURSIVE FallbackFrom(_, _, _, _, _, _)

FallbackFrom(router, segments, i, at, params, seen) ==
  LET now == Remember(router, at, params, seen)
      edge == FallbackEdge(router, segments, i, at)
      child == Append(at, edge)
      Named(value) == Put(params, router.name[child], value)
  IN CASE edge = "" -> now
       [] edge = "*" ->
            Remember(router, child, Named(SubSeq(segments, i, Len(segments))),
                     now)
       [] edge = ":" ->
            FallbackFrom(router, segments, i + 1, child,
                         Named(<<segments[i]>>), now)
       [] OTHER ->
            FallbackFrom(router, segments, i + 1, child, params, now)

Fallback(router, path) ==
  FallbackFrom(router, SelectedPath(path), 1, <<>>, NoEntries,
               [not_found |-> 0, params |-> NoEntries, exception |-> 0])

-------------------------------------------------------------------------------
(***************************************************************************)
(* The application registers and mounts.                                   *)
(***************************************************************************)

EmptyLog ==
  [routes |-> {}, hooks |-> <<>>, not_found |-> <<>>, exception |-> <<>>]

Init ==
  /\ routers = [main |-> EmptyRouter, sub |-> EmptyRouter]
  /\ log = [main |-> EmptyLog, sub |-> EmptyLog]
  /\ ops = 0 /\ marks = 0

\* The outcome of a registration in router w; entry is its record if it is one.
Registers(w, outcome, kind, entry) ==
  /\ ops < MaxOps
  /\ ops' = ops + 1
  /\ routers' = [routers EXCEPT ![w] = outcome.router]
  /\ log' = IF ~outcome.ok THEN log
            ELSE [log EXCEPT ![w][kind] = IF kind = "routes"
                                          THEN @ \union {entry}
                                          ELSE Append(@, entry)]

Route ==
  /\ \E w \in {"main", "sub"}, r \in Routes :
       Registers(w, AddRoute(routers[w], r.method, r.pattern), "routes", r)
  /\ UNCHANGED marks

Hook ==
  /\ marks < MaxMarks /\ marks' = marks + 1
  /\ \E w \in {"main", "sub"}, prefix \in Groups :
       Registers(w, AddHook(routers[w], prefix, marks'), "hooks",
                 [prefix |-> prefix, id |-> marks'])

Handler ==
  /\ marks < MaxMarks /\ marks' = marks + 1
  /\ \E w \in {"main", "sub"}, kind \in {"not_found", "exception"},
        prefix \in Groups :
       Registers(w, AddHandler(routers[w], kind, prefix, marks'), kind,
                 [prefix |-> prefix, id |-> marks'])

\* The mounted router is emptied; one whose mount was refused is left as it is.
Mount ==
  /\ ops < MaxOps /\ ops' = ops + 1
  /\ \E prefix \in Groups :
       LET outcome == MountRouter(routers.main, prefix, routers.sub)
           Moved(entries) ==
             [i \in DOMAIN entries |->
                [entries[i] EXCEPT !.prefix = prefix \o @]]
           routes == {[r EXCEPT !.pattern = prefix \o @] :
                        r \in log.sub.routes}
       IN /\ routers' = [main |-> outcome.router,
                         sub |-> IF outcome.ok THEN EmptyRouter
                                 ELSE routers.sub]
          /\ log' =
               IF ~outcome.ok THEN log
               ELSE [main |->
                       [routes |-> log.main.routes \union routes,
                        hooks |-> log.main.hooks \o Moved(log.sub.hooks),
                        not_found |-> log.main.not_found \o
                                        Moved(log.sub.not_found),
                        exception |-> log.main.exception \o
                                        Moved(log.sub.exception)],
                     sub |-> EmptyLog]
  /\ UNCHANGED marks

Next == Route \/ Hook \/ Handler \/ Mount

Spec == Init /\ [][Next]_vars

-------------------------------------------------------------------------------
\* Type invariant: the nodes are a tree, what hangs on a node has a node, and
\* size() is the number of routes.
TypeOK ==
  /\ ops \in 0 .. MaxOps /\ marks \in 0 .. MaxMarks
  /\ \A w \in DOMAIN routers :
       LET r == routers[w]
       IN /\ \A at \in r.nodes : at = <<>> \/ Front(at) \in r.nodes
          /\ DOMAIN r.hooks \union DOMAIN r.not_found \union DOMAIN r.exception
               \union {key[1] : key \in DOMAIN r.targets} \subseteq r.nodes
          /\ DOMAIN r.name = {at \in r.nodes : at # <<>> /\
                                Last(at) \in {":", "*"}}
          /\ r.count = Cardinality(DOMAIN r.targets)

\* The id of the last of entries whose prefix is at position at, or default.
Latest(entries, at, default) ==
  LET here == SelectSeq(entries, LAMBDA e : Position(e.prefix) = at)
  IN IF here = <<>> THEN default ELSE Last(here).id

Rank(part) == CASE part.kind = "static" -> 1
                [] part.kind = ":" -> 2
                [] part.kind = "*" -> 3

\* Of two patterns that match one path, p is preferred to q.
Preferred(p, q) ==
  \E n \in 0 .. Len(p) :
    /\ n <= Len(q)
    /\ \A i \in 1 .. n : Rank(p[i]) = Rank(q[i])
    /\ n = Len(p) \/ (n < Len(q) /\ Rank(p[n + 1]) < Rank(q[n + 1]))

\* What a request should be given, from what was registered.
Expected(method, path) ==
  LET segments == SelectedPath(path)
      fitting == {r \in log.main.routes :
                    r.method = method /\ PatternMatches(r.pattern, segments)}
      best == (CHOOSE r \in fitting :
                 \A s \in fitting : Preferred(r.pattern, s.pattern)).pattern
      steps == [n \in 1 .. Len(best) + 1 |-> SubSeq(Position(best), 1, n - 1)]
      HooksAt(at) ==
        LET here == SelectSeq(log.main.hooks,
                              LAMBDA e : Position(e.prefix) = at)
        IN [i \in DOMAIN here |-> here[i].id]
  IN IF ~ValidPath(path) \/ fitting = {} THEN NoMatch
     ELSE [found |-> TRUE, pattern |-> best,
           params |-> PatternParams(best, segments),
           hooks |-> FlattenSeq([n \in DOMAIN steps |-> HooksAt(steps[n])]),
           exception |-> FoldLeft(LAMBDA id, at :
                                    Latest(log.main.exception, at, id),
                                  0, steps)]

\* A request is given the most specific of the routes that were registered, with
\* its parameters, the hooks of its groups from the outside in, and its
\* innermost exception handler, whatever the order of registrations and mounts,
\* and whatever was refused in between (match_node() tries every branch of the
\* trie; route_pattern_matches() judges one route at a time).
MatchIsMostSpecific ==
  \A method \in Methods, path \in Paths :
    Match(routers.main, method, path) = Expected(method, path)

\* The path is in the group e ...
Around(e, segments) ==
  /\ Len(e.prefix) <= Len(segments)
  /\ PatternMatches(e.prefix, SubSeq(segments, 1, Len(e.prefix)))

\* ... which is not found there: beside one of its parameters a route, a group
\* or a refused registration has left a static node for the path's segment.
Hidden(e, segments) ==
  \E i \in DOMAIN e.prefix :
    /\ e.prefix[i].kind = ":"
    /\ Append(SubSeq(Position(e.prefix), 1, i - 1), segments[i])
         \in routers.main.nodes

\* id is the handler registered last for the innermost of the groups around the
\* path, hidden ones left out, and 0 if there is none.
Innermost(entries, segments, id) ==
  LET around == {i \in DOMAIN entries : /\ Around(entries[i], segments)
                                       /\ ~Hidden(entries[i], segments)}
  IN IF id = 0 THEN around = {}
     ELSE \E i \in around :
            /\ id = Latest(entries, Position(entries[i].prefix), 0)
            /\ \A j \in around :
                 Len(entries[j].prefix) <= Len(entries[i].prefix)

\* The trie is well formed, and a request without a route gets the not_found
\* handler and the exception handler of the innermost group its path is in, the
\* former with that group's parameters, whatever was registered, refused and
\* mounted in which order.  A hidden group is excepted: fallback() goes down one
\* branch, the static one first, so that it never comes to a parameter group
\* beside a static node, although docs/user/http-server.md:276 promises "the
\* most specific matching group".
FallbackInScope ==
  /\ TypeOK
  /\ \A path \in Paths : ValidPath(path) =>
       LET segments == SelectedPath(path)
           got == Fallback(routers.main, path)
           all == log.main.not_found
       IN /\ Innermost(all, segments, got.not_found)
          /\ Innermost(log.main.exception, segments, got.exception)
          /\ \A i \in DOMAIN all :
               got.not_found = all[i].id =>
                 got.params = PatternParams(all[i].prefix, segments)

===============================================================================
