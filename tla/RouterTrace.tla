---------------------------- MODULE RouterTrace ----------------------------
(***************************************************************************)
(* Router::get_trace: the walk over the tree of matchers that tells, for   *)
(* one request, which children were asked, which were met, and what was    *)
(* found.  It is written beside match_request, level by level, and asks    *)
(* again what match_request asks.                                          *)
(*                                                                         *)
(* A node of a trace is a record; the nodes of one matcher are a set.      *)
(* Which of two children comes first, and what a node says of the request  *)
(* and of the condition, is left out.                                      *)
(***************************************************************************)
EXTENDS Router

CONSTANTS
  Traced,       \* the requests that are explained
  NamesAll,     \* the levels that add a node when the request meets no child
  AskedAlways,  \* the levels that say of every child that it was asked
  IpLevel,      \* the level of IpMatcher
  Lacking,      \* by level, the requests without a scheme, a host, an address
  (* The walk over the regexes regexes of the matcher n, for a request: if  *)
  (* it meets what they begin with, and which of them are tried.            *)
  Begun(_, _, _),
  Tried(_, _, _)

ASSUME TraceAssumption ==
  /\ Traced \subseteq Request /\ Route # {}
  /\ NamesAll \subseteq Level /\ AskedAlways \subseteq Level /\ IpLevel \in Level
  /\ Lacking \in [Level -> SUBSET Request]
  /\ \A r \in Route : \A b \in r.branches : \A l \in Level :
       b[l] # Any => Meets[b[l]] \cap Lacking[l] = {}
  /\ \A n \in Node, q \in Traced, regexes \in (SUBSET RegexHost) \cup (SUBSET RegexPath) :
       /\ Tried(n, regexes, q) \subseteq regexes
       /\ \A r \in regexes : q \in Meets[r] => Begun(n, regexes, q) /\ r \in Tried(n, regexes, q)

TraceNode(matched, executed, size, children, storage) ==
  [matched |-> matched, executed |-> executed, count |-> size,
   children |-> children, storage |-> storage]

(* The nodes of traces down to a depth.  None lies deeper than there are   *)
(* levels above the path, the two more nodes of a regex of a host, and     *)
(* four of PathAndQueryMatcher.                                            *)
Deepest == Depth + 6

NodesUpto(traces) ==
  LET nodes[d \in 0..Deepest] ==
        IF d = 0 THEN {} ELSE traces \cup UNION {t.children : t \in nodes[d - 1]}
  IN nodes

NodesOf(traces) == NodesUpto(traces)[Deepest]

(* get_routes_from_traces                                                  *)
RoutesOf(traces) == UNION {t.storage : t \in NodesOf(traces)}

(* The children with a condition that a matcher can have.                  *)
Kin == [n \in Node |-> {m \in Node : /\ Len(m) = Len(n) + 1
                                     /\ Upto(m, Len(n)) = n /\ m[Len(m)] # Any}]

Children(n) == {m \in Kin[n] : count[m] > 0}

AnyChild(n) == Append(n, Any)

IsRegex(m) == Len(m) = Host /\ m[Len(m)] \in RegexHost

(* The radix tree of regexes, with what is said of each: it is empty, or a *)
(* leaf, or starts at a node for what all begin with.  The nodes below     *)
(* that one for what some of them begin with are left out.                 *)
TraceTree(n, leaf, size, q) ==
  LET regexes == DOMAIN leaf
      begun == Begun(n, regexes, q)
  IN IF regexes = {} THEN TraceNode(TRUE, TRUE, 0, {}, {})
     ELSE IF \E r \in regexes : regexes = {r} THEN leaf[CHOOSE r \in regexes : TRUE]
     ELSE TraceNode(begun, TRUE, size,
                    IF begun THEN {leaf[r] : r \in Tried(n, regexes, q)} ELSE {}, {})

(* The node over that tree, which always has it for a child.               *)
RegexNode(tree) == TraceNode(tree.matched, TRUE, tree.count, {tree}, {})

(* What is stored under a path; a regex that does not match keeps its node *)
(* for that, without the routes.                                           *)
StorageNode(matched, found) ==
  TraceNode(matched, TRUE, Cardinality(found), {}, IF matched THEN found ELSE {})

(* PathAndQueryMatcher: its regexes, and the map of the other paths.       *)
At(n, path) == {e.route : e \in {f \in stored : f.branch = n /\ f.route.path = path}}

Paths(n) == {e.route.path : e \in {f \in stored : f.branch = n}}

PathLeaves(n, q) ==
  [p \in Paths(n) \cap RegexPath |->
     TraceNode(q \in Meets[p], TRUE, Cardinality(At(n, p)),
               {StorageNode(q \in Meets[p], At(n, p))}, {})]

TracePaths(n, q) ==
  LET regexes == {e \in stored : e.branch = n /\ e.route.path \in RegexPath}
      static == {p \in Paths(n) \ RegexPath : q \in Meets[p]}
  IN {RegexNode(TraceTree(n, PathLeaves(n, q), Cardinality(regexes), q)),
      TraceNode(static # {}, TRUE, Cardinality(Paths(n) \ RegexPath),
                {StorageNode(TRUE, At(n, p)) : p \in static}, {})}

(* A child is asked when the request meets its condition.                  *)
TraceChild(m, q, below) ==
  LET met == Met(m[Len(m)], q)
  IN TraceNode(met, met \/ Len(m) \in AskedAlways, count[m], IF met THEN below ELSE {}, {})

(* The children that have such a node: not the regexes of a HostMatcher,   *)
(* and those of an IpMatcher only for a request with an address.           *)
Named(n, q) ==
  {m \in Children(n) : ~ IsRegex(m) /\ (Len(m) = IpLevel => q \notin Lacking[IpLevel])}

(* HostMatcher: its regexes, for a request with a host.                    *)
HostLeaves(n, q, below) ==
  [r \in {m[Len(m)] : m \in {k \in Children(n) : IsRegex(k)}} |->
     TraceNode(q \in Meets[r], TRUE, 1,
               IF q \in Meets[r] THEN below[Append(n, r)] ELSE {}, {})]

TraceHosts(n, q, below) ==
  LET leaf == HostLeaves(n, q, below)
  IN IF Len(n) + 1 = Host /\ q \notin Lacking[Host]
     THEN {RegexNode(TraceTree(n, leaf, Cardinality(DOMAIN leaf), q))} ELSE {}

(* The node for a scheme, a host or a method that no child is for; the     *)
(* regexes of hosts have a node of their own.                              *)
NoChild(n, q) ==
  IF /\ Len(n) + 1 \in NamesAll /\ q \notin Lacking[Len(n) + 1]
     /\ \A m \in Named(n, q) : ~ Met(m[Len(m)], q)
  THEN {TraceNode(TRUE, FALSE, 0, {}, {})} ELSE {}

(* Mutant: any_host is asked when no other host is met.                    *)
AsksAnyIfUnmet(n, traces, always) ==
  \/ Len(n) + 1 # Host
  \/ always
  \/ \A t \in traces : ~ t.matched \/ ~ t.executed

(* Every level asks the child without a condition, but HostMatcher only    *)
(* when it always does or when nothing was found in the others.            *)
AsksAny(n, traces, always) ==
  \/ Len(n) + 1 # Host
  \/ always
  \/ RoutesOf(traces) = {}

(* One matcher, where below has what its children say.                     *)
TraceOne(n, q, always, below) ==
  IF Len(n) = Depth THEN TracePaths(n, q)
  ELSE LET traces == {TraceChild(m, q, below[m]) : m \in Named(n, q)}
                       \cup TraceHosts(n, q, below) \cup NoChild(n, q)
       IN traces \cup (IF AnyChild(n) \in Node /\ AsksAny(n, traces, always)
                       THEN below[AnyChild(n)] ELSE {})

TraceMatcher(q, always) ==
  LET trace[n \in Node] == TraceOne(n, q, always, trace) IN trace

GetTrace(q, always) == TraceMatcher(q, always)[<<>>]

----------------------------------------------------------------------------
(* Properties.                                                             *)

(* However the tree was edited, also when several routes of one id have    *)
(* been inserted, the explanation of a request finds the routes that the   *)
(* request finds, the fallback to any host included; and a route is shown  *)
(* only below conditions that were met and asked.                          *)
TraceTellsTheRoutes ==
  pending = <<>> =>
    \A q \in Traced, always \in BOOLEAN :
      \A traces \in {GetTrace(q, always)} :
        /\ RoutesOf(traces) = MatchRequest(q, always)
        /\ \A t \in NodesOf(traces) :
             t.storage \cup RoutesOf(t.children) # {} => t.matched /\ t.executed

============================================================================
