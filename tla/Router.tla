------------------------------- MODULE Router -------------------------------
(***************************************************************************)
(* The Router of the engine (patches/redirectionio/src/router): a tree of  *)
(* matchers, one level for the scheme, the host, the ip, the method, the   *)
(* headers and the date each, with a PathAndQueryMatcher at the end of     *)
(* each branch.  A matcher has one child for the routes without a          *)
(* condition of its kind, which always exists, and one for each condition, *)
(* dropped when its count says that it is empty.  The counts are kept      *)
(* beside the content and not computed from it.                            *)
(*                                                                         *)
(* Of a route the tree sees where it goes: the branches (one for each ip   *)
(* and method it lists) and the path.  A condition is what it holds for.   *)
(* A matcher is the sequence of the keys that lead to it; one that does    *)
(* not exist has count 0.  That a regex is found by the radix tree when it *)
(* matches, and that cache() changes no answer, is taken for granted.      *)
(***************************************************************************)
EXTENDS Integers, Sequences, FiniteSets

CONSTANTS
  Id,             \* ids of routes
  Key,            \* the conditions of all levels
  Any,            \* the key of the child without a condition
  Depth,          \* number of levels above the path
  Host,           \* the level of HostMatcher
  RegexHost,      \* the keys of that level that are regexes
  Path,           \* paths with their query
  RegexPath,      \* those that are regexes
  Route,          \* the routes that are inserted
  Request,
  Meets,          \* the requests that each condition, and path, holds for
  Changes,        \* what a change set may add or update
  MaxOps          \* bound: operations on the Router

Level == 1..Depth

Branch == {b \in Seq(Key \cup {Any}) : Len(b) = Depth}

ASSUME RouterAssumption ==
  /\ Any \notin Key
  /\ Depth \in Nat /\ Host \in Level
  /\ RegexHost \subseteq Key /\ RegexPath \subseteq Path
  /\ \A r \in Route :
       /\ r.id \in Id /\ r.path \in Path
       /\ r.branches # {} /\ r.branches \subseteq Branch
       /\ \A b, c \in r.branches : \A l \in Level : b[l] = Any <=> c[l] = Any
  /\ Meets \in [Key \cup Path -> SUBSET Request]
  /\ Changes \subseteq Seq(Route)
  /\ MaxOps \in Nat

(* The matcher n is on the branch b.                                       *)
Under(n, b) == Len(n) <= Len(b) /\ \A l \in 1..Len(n) : n[l] = b[l]

Upto(b, l) == SubSeq(b, 1, l)

Node == {Upto(b, l) : b \in UNION {r.branches : r \in Route}, l \in 0..Depth}

VARIABLES
  count,   \* count, of each matcher
  stored,  \* the routes in the PathAndQueryMatchers, each with its branch
  routes,  \* Router::routes
  pending, \* the routes that apply_change_set has still to insert
  fresh,   \* history: no route was inserted beside one with its id
  ops      \* number of operations so far

vars == <<count, stored, routes, pending, fresh, ops>>

Entry == {e \in [branch : UNION {r.branches : r \in Route}, route : Route] :
            e.branch \in e.route.branches}

RouterTypeOK ==
  /\ count \in [Node -> Nat]
  /\ stored \subseteq Entry
  /\ routes \subseteq Route /\ \A r, s \in routes : r.id = s.id => r = s
  /\ pending \in Seq(Route)
  /\ fresh \in BOOLEAN
  /\ ops \in 0..MaxOps

Init ==
  /\ count = [n \in Node |-> 0]
  /\ stored = {} /\ routes = {}
  /\ pending = <<>>
  /\ fresh = TRUE /\ ops = 0

Operate == pending = <<>> /\ ops < MaxOps /\ ops' = ops + 1

----------------------------------------------------------------------------
(* insert                                                                  *)

(* Mutant: a matcher counts ids and not routes.                            *)
CountedInById(r) ==
  [n \in Node |-> IF /\ \E b \in r.branches : Under(n, b)
                    /\ \A e \in stored : e.route.id = r.id => ~ Under(n, e.branch)
                 THEN count[n] + 1 ELSE count[n]]

(* Every matcher on the way counts the route, once.                        *)
CountedIn(r) ==
  [n \in Node |-> IF \E b \in r.branches : Under(n, b) THEN count[n] + 1 ELSE count[n]]

(* The maps at the end of a branch are by path and id.                     *)
InsertRoute(r) ==
  /\ count' = CountedIn(r)
  /\ stored' = {e \in stored : \/ e.branch \notin r.branches
                               \/ e.route.id # r.id \/ e.route.path # r.path}
                 \cup {[branch |-> b, route |-> r] : b \in r.branches}
  /\ routes' = {s \in routes : s.id # r.id} \cup {r}
  /\ fresh' = (fresh /\ \A s \in routes : s.id # r.id)

Insert(r) ==
  /\ Operate
  /\ InsertRoute(r)
  /\ UNCHANGED pending

----------------------------------------------------------------------------
(* remove                                                                  *)

(* remove(id) of the matcher n returns a route: one of that id is in it,   *)
(* except that HostMatcher does not look at what its regexes return.       *)
Reports(n, id) ==
  \E e \in stored :
    /\ e.route.id = id /\ Under(n, e.branch)
    /\ Len(n) < Host => e.branch[Host] \notin RegexHost

(* It is called for the child without a condition, and for the others      *)
(* only if that returns none.                                              *)
Called(n, id) ==
  \A l \in 1..Len(n) : n[l] # Any => ~ Reports(Append(Upto(n, l - 1), Any), id)

(* PathAndQueryMatcher::remove takes one route only: a regex, or else one  *)
(* of any path.                                                            *)
TakenFirst(e, taken) ==
  \A f \in taken : f.branch = e.branch /\ f.route.path \in RegexPath
                     => e.route.path \in RegexPath

(* Mutant: the search ends at the first child that returns a route.        *)
TakesOne(id, gone) ==
  LET found == {e \in stored : e.route.id = id /\ Called(e.branch, id)}
  IN IF found = {} THEN gone = {} ELSE \E e \in found : gone = {e}

Takes(id, gone) ==
  LET found == {e \in stored : e.route.id = id /\ Called(e.branch, id)}
  IN /\ gone \subseteq found
     /\ \A e \in found : \E f \in gone : f.branch = e.branch
     /\ \A e, f \in gone : e.branch = f.branch => e = f
     /\ \A e \in gone : TakenFirst(e, found)

CountedOut(id) ==
  [n \in Node |-> IF Called(n, id) /\ Reports(n, id) THEN count[n] - 1 ELSE count[n]]

(* A matcher is dropped, with all that is under it: retain has come to a   *)
(* child with a condition, among those visited, whose count is 0.          *)
Dropped(n, counts, visited) ==
  \E l \in 1..Len(n) :
    n[l] # Any /\ Upto(n, l) \in visited /\ counts[Upto(n, l)] = 0

Sweep(kept, counts, visited) ==
  /\ count' = [n \in Node |-> IF Dropped(n, counts, visited) THEN 0 ELSE counts[n]]
  /\ stored' = {e \in kept : ~ Dropped(e.branch, counts, visited)}

Remove(id) ==
  /\ Operate
  /\ \E r \in routes : r.id = id
  /\ routes' = {r \in routes : r.id # id}
  /\ \E gone \in SUBSET stored :
       /\ Takes(id, gone)
       /\ Sweep(stored \ gone, CountedOut(id), {n \in Node : Called(n, id)})
  /\ UNCHANGED <<pending, fresh>>

----------------------------------------------------------------------------
(* batch_remove and apply_change_set                                       *)

(* Mutant: a matcher takes off its count what its children have removed.   *)
BatchRemoveCounts(ids) ==
  LET out == {e \in stored : e.route.id \in ids}
      counts == [n \in Node |-> count[n] - Cardinality({e \in out : Under(n, e.branch)})]
  IN /\ routes' = {r \in routes : r.id \notin ids}
     /\ Sweep(stored \ out, counts, Node)

(* All matchers are visited, and no count is changed.                      *)
BatchRemoveRoutes(ids) ==
  /\ routes' = {r \in routes : r.id \notin ids}
  /\ Sweep({e \in stored : e.route.id \notin ids}, count, Node)

BatchRemove(ids) ==
  /\ Operate
  /\ BatchRemoveRoutes(ids)
  /\ UNCHANGED <<pending, fresh>>

(* The updated routes are removed with the deleted ones, then inserted,    *)
(* and then those that are added.                                          *)
ApplyChangeSet(added, updated, deleted) ==
  /\ Operate
  /\ BatchRemoveRoutes(deleted \cup {updated[k].id : k \in DOMAIN updated})
  /\ pending' = updated \o added
  /\ UNCHANGED fresh

InsertNext ==
  /\ pending # <<>>
  /\ InsertRoute(Head(pending))
  /\ pending' = Tail(pending)
  /\ UNCHANGED ops

----------------------------------------------------------------------------

Next ==
  \/ \E r \in Route : Insert(r)
  \/ \E id \in Id : Remove(id)
  \/ \E ids \in SUBSET Id : BatchRemove(ids)
  \/ \E added, updated \in Changes, deleted \in SUBSET Id :
       ApplyChangeSet(added, updated, deleted)
  \/ InsertNext

Spec == Init /\ [][Next]_vars

----------------------------------------------------------------------------
(* match_request                                                           *)

Met(key, q) == key = Any \/ q \in Meets[key]

Leads(b, q) == \A l \in Level : Met(b[l], q)

(* A HostMatcher asks its any_host when always_match_any_host says so, or  *)
(* when it has found nothing else.                                         *)
Found(entries, q, always) ==
  LET hits == {e \in entries : Leads(e.branch, q) /\ q \in Meets[e.route.path]}
      Asked(e) == \/ always \/ e.branch[Host] # Any
                  \/ \A f \in hits : Under(Upto(e.branch, Host - 1), f.branch)
                                       => f.branch[Host] = Any
  IN {e.route : e \in {f \in hits : Asked(f)}}

MatchRequest(q, always) == Found(stored, q, always)

----------------------------------------------------------------------------
(* Properties.                                                             *)

(* What a Router of these routes has to find.                              *)
Wanted(rs) == {e \in Entry : e.route \in rs}

(* As long as no route is inserted beside one of its id, a request finds   *)
(* the routes whose conditions it meets, no other and none too few,        *)
(* whatever was removed and in whichever way.                              *)
FindsTheRoutes ==
  fresh => \A q \in Request, always \in BOOLEAN :
             MatchRequest(q, always) = Found(Wanted(routes), q, always)

(* Even when several routes of one id have been inserted, the last one is  *)
(* found: no matcher is dropped over it, however the counts have gone.     *)
NeverLost == Wanted(routes) \subseteq stored

(* A count is 0 only if nothing is in the matcher: retain drops no route,  *)
(* and no count is decremented below 0.                                    *)
CountsCover == \A n \in Node : \A e \in stored : Under(n, e.branch) => count[n] > 0

============================================================================
