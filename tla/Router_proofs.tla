---------------------------- MODULE Router_proofs ----------------------------
(***************************************************************************)
(* Theorems about Router: that a request finds the routes, as long as no   *)
(* route is inserted beside one of its id; and, whatever is inserted, that *)
(* no route is lost and no count reaches 0 while its matcher holds one.    *)
(***************************************************************************)
EXTENDS RouterTrace, FiniteSetTheorems, WellFoundedInduction, TLAPS

(* The routes of which a matcher holds an entry, if all is well.           *)
RoutesUnder(n) == {r \in routes : \E b \in r.branches : Under(n, b)}

TypeInv ==
  /\ count \in [Node -> Int]
  /\ routes \subseteq Route /\ IsFiniteSet(routes)
  /\ \A r, s \in routes : r.id = s.id => r = s
  /\ pending \in Seq(Route)
  /\ fresh \in BOOLEAN

(* The matchers hold the routes and nothing else.                          *)
StoredInv == fresh => stored = Wanted(routes)

(* A count is at least the number of routes in the matcher.  It can be     *)
(* more: batch_remove never decrements it.                                 *)
CountInv == fresh => \A n \in Node : count[n] >= Cardinality(RoutesUnder(n))

IInv == TypeInv /\ StoredInv /\ CountInv

----------------------------------------------------------------------------
(* Branches and the matchers on them.                                      *)

LEMMA BranchIsSeq ==
  ASSUME NEW r \in Route, NEW b \in r.branches
  PROVE  b \in Seq(Key \cup {Any}) /\ Len(b) = Depth
BY RouterAssumption DEF Branch

LEMMA UptoIsNode ==
  ASSUME NEW r \in Route, NEW b \in r.branches, NEW l \in 0..Depth
  PROVE  Upto(b, l) \in Node
BY DEF Node

(* What is above a matcher is a matcher on the same branches.              *)
LEMMA NodeUpto ==
  ASSUME NEW n \in Node, NEW l \in 1..Len(n)
  PROVE  /\ Upto(n, l) \in Node
         /\ \A b : Under(n, b) => Under(Upto(n, l), b)
<1>0. PICK r \in Route : \E c \in r.branches : \E k \in 0..Depth : n = Upto(c, k)
  BY DEF Node
<1>1. PICK b \in r.branches, k \in 0..Depth : n = Upto(b, k)
  BY <1>0
<1>2. b \in Seq(Key \cup {Any}) /\ Len(b) = Depth /\ Depth \in Nat
  BY BranchIsSeq, RouterAssumption
<1>3. /\ n \in Seq(Key \cup {Any}) /\ Len(n) = k
      /\ \A i \in 1..k : n[i] = b[i]
  BY <1>1, <1>2 DEF Upto
<1>4. l \in 1..k
  BY <1>3
<1>5. /\ Upto(n, l) \in Seq(Key \cup {Any}) /\ Len(Upto(n, l)) = l
      /\ \A i \in 1..l : Upto(n, l)[i] = n[i]
  BY <1>3, <1>4 DEF Upto
<1>6. /\ Upto(b, l) \in Seq(Key \cup {Any}) /\ Len(Upto(b, l)) = l
      /\ \A i \in 1..l : Upto(b, l)[i] = b[i]
  BY <1>2, <1>4 DEF Upto
<1>7. Upto(n, l) = Upto(b, l)
  BY <1>3, <1>4, <1>5, <1>6
<1>8. Upto(n, l) \in Node
  <2>1. l \in 0..Depth
    BY <1>2, <1>4
  <2> QED
    BY <1>7, <2>1, UptoIsNode
<1>9. ASSUME NEW c, Under(n, c)
      PROVE  Under(Upto(n, l), c)
  BY <1>3, <1>4, <1>5, <1>9 DEF Under
<1> QED
  BY <1>8, <1>9

(* A branch is a matcher, the PathAndQueryMatcher at its end.              *)
LEMMA BranchIsNode ==
  ASSUME NEW r \in Route, NEW b \in r.branches
  PROVE  b \in Node /\ Under(b, b) /\ Len(b) = Depth
<1>1. b \in Seq(Key \cup {Any}) /\ Len(b) = Depth /\ Depth \in Nat
  BY BranchIsSeq, RouterAssumption
<1>2. Upto(b, Depth) = b
  BY <1>1 DEF Upto
<1>3. b \in Node
  BY <1>1, <1>2, UptoIsNode
<1> QED
  BY <1>1, <1>3 DEF Under

----------------------------------------------------------------------------
(* The actions.                                                            *)

LEMMA InitInv == Init => IInv
<1> SUFFICES ASSUME Init PROVE IInv
  OBVIOUS
<1>1. TypeInv
  BY FS_EmptySet DEF Init, TypeInv
<1>2. Wanted({}) = {}
  BY DEF Wanted
<1>3. StoredInv
  BY <1>2 DEF Init, StoredInv
<1>4. ASSUME NEW n \in Node
      PROVE  count[n] >= Cardinality(RoutesUnder(n))
  <2>1. RoutesUnder(n) = {}
    BY DEF Init, RoutesUnder
  <2> QED
    BY <2>1, FS_EmptySet DEF Init
<1> QED
  BY <1>1, <1>3, <1>4 DEF IInv, CountInv

LEMMA UnderFinite ==
  ASSUME TypeInv
  PROVE  /\ \A n : IsFiniteSet(RoutesUnder(n)) /\ Cardinality(RoutesUnder(n)) \in Nat
         /\ \A n : \A r \in RoutesUnder(n) : Cardinality(RoutesUnder(n)) > 0
<1>1. ASSUME NEW n
      PROVE  IsFiniteSet(RoutesUnder(n)) /\ Cardinality(RoutesUnder(n)) \in Nat
  <2>1. RoutesUnder(n) \subseteq routes
    BY DEF RoutesUnder
  <2> QED
    BY <2>1, FS_Subset, FS_CardinalityType DEF TypeInv
<1>2. ASSUME NEW n, NEW r \in RoutesUnder(n)
      PROVE  Cardinality(RoutesUnder(n)) > 0
  BY <1>1, <1>2, FS_EmptySet
<1> QED
  BY <1>1, <1>2

(* A new route of a new id: one more in each matcher on its branches.      *)
LEMMA InsertRouteInv ==
  ASSUME IInv, NEW r \in Route, InsertRoute(r), pending' \in Seq(Route)
  PROVE  IInv'
<1> USE DEF IInv
<1>1. TypeInv'
  <2>1. count' \in [Node -> Int]
    BY DEF TypeInv, InsertRoute, CountedIn
  <2>2. routes' \subseteq Route /\ IsFiniteSet(routes')
    <3>1. IsFiniteSet({s \in routes : s.id # r.id})
      BY FS_Subset DEF TypeInv
    <3> QED
      BY <3>1, FS_AddElement DEF TypeInv, InsertRoute
  <2>3. \A s, t \in routes' : s.id = t.id => s = t
    BY DEF TypeInv, InsertRoute
  <2>4. fresh' \in BOOLEAN
    BY DEF TypeInv, InsertRoute
  <2> QED
    BY <2>1, <2>2, <2>3, <2>4 DEF TypeInv
<1>2. SUFFICES ASSUME fresh'
               PROVE  /\ stored' = Wanted(routes')
                      /\ \A n \in Node : count'[n] >= Cardinality(RoutesUnder(n))'
  BY <1>1 DEF StoredInv, CountInv
<1>3. fresh /\ \A s \in routes : s.id # r.id
  BY <1>2 DEF TypeInv, InsertRoute
<1>4. routes' = routes \cup {r} /\ r \notin routes
  BY <1>3 DEF InsertRoute
<1>5. stored' = Wanted(routes')
  <2>1. stored' = stored \cup {[branch |-> b, route |-> r] : b \in r.branches}
    BY <1>3 DEF InsertRoute, StoredInv, Wanted
  <2>2. {[branch |-> b, route |-> r] : b \in r.branches} = {e \in Entry : e.route = r}
    BY DEF Entry
  <2> QED
    BY <2>1, <2>2, <1>3, <1>4 DEF StoredInv, Wanted
<1>6. ASSUME NEW n \in Node
      PROVE  count'[n] >= Cardinality(RoutesUnder(n))'
  <2>1. CASE \E b \in r.branches : Under(n, b)
    <3>1. RoutesUnder(n)' = RoutesUnder(n) \cup {r} /\ r \notin RoutesUnder(n)
      BY <2>1, <1>4 DEF RoutesUnder
    <3>2. Cardinality(RoutesUnder(n))' = Cardinality(RoutesUnder(n)) + 1
      BY <3>1, UnderFinite, FS_AddElement
    <3>3. count'[n] = count[n] + 1
      BY <2>1 DEF InsertRoute, CountedIn
    <3> QED
      BY <3>2, <3>3, <1>3, UnderFinite DEF CountInv, TypeInv
  <2>2. CASE ~ \E b \in r.branches : Under(n, b)
    <3>1. RoutesUnder(n)' = RoutesUnder(n)
      BY <2>2, <1>4 DEF RoutesUnder
    <3>2. count'[n] = count[n]
      BY <2>2 DEF InsertRoute, CountedIn
    <3> QED
      BY <3>1, <3>2, <1>3 DEF CountInv
  <2> QED
    BY <2>1, <2>2
<1> QED
  BY <1>5, <1>6

(* retain drops no matcher that holds an entry of a route that is left.    *)
LEMMA KeepsCovered ==
  ASSUME NEW counts, NEW left, NEW e \in Wanted(left), left \subseteq Route,
         \A n \in Node : (\E r \in left : \E b \in r.branches : Under(n, b)) => counts[n] > 0,
         NEW n \in Node, Under(n, e.branch)
  PROVE  \A l \in 1..Len(n) : counts[Upto(n, l)] # 0
<1> SUFFICES ASSUME NEW l \in 1..Len(n) PROVE counts[Upto(n, l)] # 0
  OBVIOUS
<1>1. Upto(n, l) \in Node /\ Under(Upto(n, l), e.branch)
  BY NodeUpto
<1>2. e.route \in left /\ e.branch \in e.route.branches
  BY DEF Wanted, Entry
<1>3. counts[Upto(n, l)] > 0
  BY <1>1, <1>2
<1> QED
  BY <1>3

(* What is left when the routes outside of left have gone, whichever       *)
(* matchers are visited by retain.                                         *)
LEMMA SweepInv ==
  ASSUME TypeInv,
         NEW left, left \subseteq routes, routes' = left,
         NEW counts \in [Node -> Int],
         \A n \in Node : counts[n] >= Cardinality(RoutesUnder(n))',
         NEW dropped \in SUBSET Node,
         \A n \in dropped : \E l \in 1..Len(n) : counts[Upto(n, l)] = 0,
         count' = [n \in Node |-> IF n \in dropped THEN 0 ELSE counts[n]],
         stored' = {e \in Wanted(left) : e.branch \notin dropped},
         fresh' \in BOOLEAN, pending' \in Seq(Route)
  PROVE  IInv'
<1>1. left \subseteq Route /\ IsFiniteSet(left)
  BY FS_Subset DEF TypeInv
<1>2. TypeInv'
  BY <1>1 DEF TypeInv
<1>3. /\ \A n : (Cardinality(RoutesUnder(n)))' \in Nat
      /\ \A n : \A r \in RoutesUnder(n)' : (Cardinality(RoutesUnder(n)))' > 0
  <2>1. ASSUME NEW n
        PROVE  IsFiniteSet(RoutesUnder(n)') /\ (Cardinality(RoutesUnder(n)))' \in Nat
    <3>1. RoutesUnder(n)' \subseteq left
      BY DEF RoutesUnder
    <3> QED
      BY <3>1, <1>1, FS_Subset, FS_CardinalityType
  <2>2. ASSUME NEW n, NEW r \in RoutesUnder(n)'
        PROVE  (Cardinality(RoutesUnder(n)))' > 0
    BY <2>1, <2>2, FS_EmptySet
  <2> QED
    BY <2>1, <2>2
<1>4. \A n \in Node : (\E r \in left : \E b \in r.branches : Under(n, b)) => counts[n] > 0
  <2> SUFFICES ASSUME NEW n \in Node, NEW r \in left, \E b \in r.branches : Under(n, b)
               PROVE  counts[n] > 0
    OBVIOUS
  <2>1. r \in RoutesUnder(n)'
    BY DEF RoutesUnder
  <2> QED
    BY <2>1, <1>3
<1>5. StoredInv'
  <2>1. ASSUME NEW e \in Wanted(left)
        PROVE  e.branch \notin dropped
    <3>1. e.branch \in e.route.branches /\ e.route \in Route
      BY <1>1 DEF Wanted, Entry
    <3>2. e.branch \in Node /\ Under(e.branch, e.branch)
      BY <3>1, BranchIsNode
    <3> QED
      BY <3>2, <1>1, <1>4, KeepsCovered
  <2> QED
    BY <2>1 DEF StoredInv, Wanted
<1>6. CountInv'
  <2> SUFFICES ASSUME NEW n \in Node
               PROVE  count'[n] >= (Cardinality(RoutesUnder(n)))'
    BY DEF CountInv
  <2>1. CASE n \in dropped
    <3>1. RoutesUnder(n)' = {}
      <4> SUFFICES ASSUME NEW r \in left, NEW b \in r.branches, Under(n, b)
                   PROVE  FALSE
        BY DEF RoutesUnder
      <4>1. [branch |-> b, route |-> r] \in Wanted(left)
        BY <1>1 DEF Wanted, Entry
      <4>2. Under(n, [branch |-> b, route |-> r].branch)
        OBVIOUS
      <4>3. \A l \in 1..Len(n) : counts[Upto(n, l)] # 0
        BY <4>1, <4>2, <1>1, <1>4, KeepsCovered
      <4> QED
        BY <4>3, <2>1
    <3> QED
      BY <2>1, <3>1, FS_EmptySet
  <2>2. CASE n \notin dropped
    BY <2>2
  <2> QED
    BY <2>1, <2>2
<1> QED
  BY <1>2, <1>5, <1>6 DEF IInv

(* The routes of other ids are left.                                       *)
LEMMA BatchRemoveRoutesInv ==
  ASSUME IInv, NEW ids, BatchRemoveRoutes(ids), fresh' = fresh, pending' \in Seq(Route)
  PROVE  IInv'
<1> DEFINE left == {r \in routes : r.id \notin ids}
           dropped == {n \in Node : Dropped(n, count, Node)}
<1> USE DEF IInv
<1>1. /\ routes' = left
      /\ count' = [n \in Node |-> IF n \in dropped THEN 0 ELSE count[n]]
  BY DEF BatchRemoveRoutes, Sweep
<1>2. TypeInv'
  BY <1>1, FS_Subset DEF TypeInv
<1>3. CASE ~ fresh
  BY <1>2, <1>3 DEF StoredInv, CountInv
<1>4. CASE fresh
  <2>1. stored' = {e \in Wanted(left) : e.branch \notin dropped}
    <3>1. \A e \in Entry : e.branch \in Node
      BY BranchIsNode DEF Entry
    <3>2. {e \in stored : e.route.id \notin ids} = Wanted(left)
      BY <1>4 DEF StoredInv, Wanted
    <3> QED
      BY <3>1, <3>2 DEF BatchRemoveRoutes, Sweep, Wanted
  <2>2. \A n \in dropped : \E l \in 1..Len(n) : count[Upto(n, l)] = 0
    BY DEF Dropped
  <2>3. ASSUME NEW n \in Node
        PROVE  count[n] >= (Cardinality(RoutesUnder(n)))'
    <3>1. RoutesUnder(n)' \subseteq RoutesUnder(n)
      BY <1>1 DEF RoutesUnder
    <3>2. (Cardinality(RoutesUnder(n)))' <= Cardinality(RoutesUnder(n))
          /\ (Cardinality(RoutesUnder(n)))' \in Nat
      BY <3>1, UnderFinite, FS_Subset, FS_CardinalityType
    <3> QED
      BY <3>2, <1>4, UnderFinite DEF CountInv, TypeInv
  <2>4. left \subseteq routes /\ dropped \in SUBSET Node /\ count \in [Node -> Int]
    BY DEF TypeInv
  <2>5. fresh' \in BOOLEAN
    BY DEF TypeInv
  <2> HIDE DEF left, dropped
  <2> QED
    BY <1>1, <2>1, <2>2, <2>3, <2>4, <2>5, SweepInv
<1> QED
  BY <1>3, <1>4

LEMMA UnderAny ==
  ASSUME NEW b \in Seq(Key \cup {Any}), NEW l \in 1..Len(b), NEW c,
         Under(Append(Upto(b, l - 1), Any), c)
  PROVE  c[l] = Any
<1>1. Upto(b, l - 1) \in Seq(Key \cup {Any}) /\ Len(Upto(b, l - 1)) = l - 1
  BY DEF Upto
<1>2. /\ Len(Append(Upto(b, l - 1), Any)) = l
      /\ Append(Upto(b, l - 1), Any)[l] = Any
  BY <1>1
<1> QED
  BY <1>2 DEF Under

(* The children without a condition that are asked first do not hold the   *)
(* route: its branches part only at the conditions.                        *)
LEMMA AllAreCalled ==
  ASSUME TypeInv, stored = Wanted(routes), NEW e \in stored
  PROVE  Called(e.branch, e.route.id)
<1>1. e.route \in routes /\ e.route \in Route /\ e.branch \in e.route.branches
  BY DEF Wanted, Entry
<1>2. e.branch \in Seq(Key \cup {Any}) /\ Len(e.branch) = Depth
  BY <1>1, BranchIsSeq
<1> SUFFICES ASSUME NEW l \in 1..Len(e.branch), e.branch[l] # Any,
                    Reports(Append(Upto(e.branch, l - 1), Any), e.route.id)
             PROVE  FALSE
  BY DEF Called
<1>3. PICK f \in stored : /\ f.route.id = e.route.id
                          /\ Under(Append(Upto(e.branch, l - 1), Any), f.branch)
  BY DEF Reports
<1>4. f.route = e.route /\ f.branch \in f.route.branches
  BY <1>1, <1>3 DEF Wanted, Entry, TypeInv
<1>5. f.branch[l] = Any
  BY <1>2, <1>3, UnderAny
<1>6. e.branch[l] = Any <=> f.branch[l] = Any
  BY <1>1, <1>2, <1>4, RouterAssumption DEF Level
<1> QED
  BY <1>5, <1>6

(* All the entries of the route go.                                        *)
LEMMA TakesTheRoute ==
  ASSUME TypeInv, stored = Wanted(routes), NEW id, NEW gone, Takes(id, gone)
  PROVE  stored \ gone = Wanted({r \in routes : r.id # id})
<1> DEFINE found == {e \in stored : e.route.id = id}
<1>1. found = {e \in stored : e.route.id = id /\ Called(e.branch, id)}
  BY AllAreCalled
<1>2. /\ gone \subseteq found
      /\ \A e \in found : \E f \in gone : f.branch = e.branch
  BY <1>1 DEF Takes
<1>3. ASSUME NEW e \in found PROVE e \in gone
  <2>1. PICK f \in gone : f.branch = e.branch
    BY <1>2
  <2>2. /\ f \in Entry /\ f.route \in routes /\ f.route.id = id
        /\ e \in Entry /\ e.route \in routes /\ e.route.id = id
    BY <1>2 DEF Wanted
  <2>3. f.route = e.route
    BY <2>2 DEF TypeInv
  <2>4. f = e
    BY <2>1, <2>2, <2>3 DEF Entry
  <2> QED
    BY <2>4
<1>4. gone = found
  BY <1>2, <1>3
<1> QED
  BY <1>4 DEF Wanted

LEMMA RemoveInv ==
  ASSUME IInv, NEW id, Remove(id)
  PROVE  IInv'
<1> DEFINE left == {r \in routes : r.id # id}
           dropped == {n \in Node : Dropped(n, CountedOut(id), {m \in Node : Called(m, id)})}
<1> USE DEF IInv
<1>1. PICK gone \in SUBSET stored :
        /\ Takes(id, gone)
        /\ Sweep(stored \ gone, CountedOut(id), {m \in Node : Called(m, id)})
  BY DEF Remove
<1>2. /\ routes' = left /\ pending' = pending /\ fresh' = fresh
      /\ count' = [n \in Node |-> IF n \in dropped THEN 0 ELSE CountedOut(id)[n]]
  BY <1>1 DEF Remove, Sweep
<1>3. CountedOut(id) \in [Node -> Int]
  BY DEF CountedOut, TypeInv
<1>4. TypeInv'
  <2>1. IsFiniteSet(left) /\ left \subseteq routes
    BY FS_Subset DEF TypeInv
  <2>2. count' \in [Node -> Int]
    <3> HIDE DEF dropped
    <3> QED
      BY <1>2, <1>3
  <2>3. routes' \subseteq Route /\ \A r, s \in routes' : r.id = s.id => r = s
    BY <1>2 DEF TypeInv
  <2> QED
    BY <1>2, <2>1, <2>2, <2>3 DEF TypeInv
<1>5. CASE ~ fresh
  BY <1>2, <1>4, <1>5 DEF StoredInv, CountInv
<1>6. CASE fresh
  <2>0. stored = Wanted(routes)
    BY <1>6 DEF StoredInv
  <2>1. stored' = {e \in Wanted(left) : e.branch \notin dropped}
    <3>1. \A e \in Entry : e.branch \in Node
      BY BranchIsNode DEF Entry
    <3>2. stored \ gone = Wanted(left)
      BY <1>1, <2>0, TakesTheRoute
    <3> QED
      BY <1>1, <3>1, <3>2 DEF Sweep, Wanted
  <2>2. \A n \in dropped : \E l \in 1..Len(n) : CountedOut(id)[Upto(n, l)] = 0
    BY DEF Dropped
  <2>3. ASSUME NEW n \in Node
        PROVE  CountedOut(id)[n] >= (Cardinality(RoutesUnder(n)))'
    <3>1. RoutesUnder(n)' \subseteq RoutesUnder(n)
      BY <1>2 DEF RoutesUnder
    <3>2. /\ count[n] >= Cardinality(RoutesUnder(n)) /\ count[n] \in Int
          /\ Cardinality(RoutesUnder(n)) \in Nat
      BY <1>6, UnderFinite DEF CountInv, TypeInv
    <3>3. CASE Reports(n, id)
      <4>1. PICK e \in stored : e.route.id = id /\ Under(n, e.branch)
        BY <3>3 DEF Reports
      <4>2. e.route \in RoutesUnder(n) /\ e.route \notin RoutesUnder(n)'
        BY <4>1, <2>0, <1>2 DEF Wanted, Entry, RoutesUnder
      <4>3. RoutesUnder(n)' \subseteq RoutesUnder(n) \ {e.route}
        BY <3>1, <4>2
      <4>4. /\ IsFiniteSet(RoutesUnder(n) \ {e.route})
            /\ Cardinality(RoutesUnder(n) \ {e.route}) = Cardinality(RoutesUnder(n)) - 1
        BY <4>2, UnderFinite, FS_RemoveElement
      <4>5. (Cardinality(RoutesUnder(n)))' <= Cardinality(RoutesUnder(n)) - 1
            /\ (Cardinality(RoutesUnder(n)))' \in Nat
        BY <4>3, <4>4, FS_Subset, FS_CardinalityType
      <4>6. CountedOut(id)[n] >= count[n] - 1 /\ CountedOut(id)[n] \in Int
        BY <3>2 DEF CountedOut
      <4> QED
        BY <3>2, <4>5, <4>6
    <3>4. CASE ~ Reports(n, id)
      <4>1. CountedOut(id)[n] = count[n]
        BY <3>4 DEF CountedOut
      <4>2. (Cardinality(RoutesUnder(n)))' <= Cardinality(RoutesUnder(n))
            /\ (Cardinality(RoutesUnder(n)))' \in Nat
        BY <3>1, UnderFinite, FS_Subset, FS_CardinalityType
      <4> QED
        BY <3>2, <4>1, <4>2
    <3> QED
      BY <3>3, <3>4
  <2>4. left \subseteq routes /\ dropped \in SUBSET Node
    OBVIOUS
  <2>5. fresh' \in BOOLEAN /\ pending' \in Seq(Route)
    BY <1>2 DEF TypeInv
  <2> HIDE DEF left, dropped
  <2> QED
    BY <1>2, <1>3, <2>1, <2>2, <2>3, <2>4, <2>5, SweepInv
<1> QED
  BY <1>5, <1>6

----------------------------------------------------------------------------

LEMMA StepInv == IInv /\ [Next]_vars => IInv'
<1> SUFFICES ASSUME IInv, [Next]_vars PROVE IInv'
  OBVIOUS
<1>1. CASE UNCHANGED vars
  BY <1>1 DEF vars, IInv, TypeInv, StoredInv, CountInv, Wanted, RoutesUnder
<1>2. ASSUME NEW r \in Route, Insert(r) PROVE IInv'
  BY <1>2, InsertRouteInv DEF Insert, IInv, TypeInv
<1>3. ASSUME NEW id \in Id, Remove(id) PROVE IInv'
  BY <1>3, RemoveInv
<1>4. ASSUME NEW ids \in SUBSET Id, BatchRemove(ids) PROVE IInv'
  BY <1>4, BatchRemoveRoutesInv DEF BatchRemove, IInv, TypeInv
<1>5. ASSUME NEW added \in Changes, NEW updated \in Changes, NEW deleted \in SUBSET Id,
             ApplyChangeSet(added, updated, deleted)
      PROVE  IInv'
  <2>1. Changes \subseteq Seq(Route)
    BY RouterAssumption
  <2>2. pending' \in Seq(Route) /\ fresh' = fresh
    <3>1. added \in Seq(Route) /\ updated \in Seq(Route)
      BY <2>1
    <3>2. updated \o added \in Seq(Route)
      BY <3>1
    <3> QED
      BY <1>5, <3>2 DEF ApplyChangeSet
  <2> QED
    BY <1>5, <2>2, BatchRemoveRoutesInv DEF ApplyChangeSet
<1>6. CASE InsertNext
  <2>1. Head(pending) \in Route /\ pending' \in Seq(Route)
    BY <1>6 DEF InsertNext, IInv, TypeInv
  <2> QED
    BY <1>6, <2>1, InsertRouteInv DEF InsertNext
<1> QED
  BY <1>1, <1>2, <1>3, <1>4, <1>5, <1>6 DEF Next

(* Whatever routes were inserted, removed one by one or in batches, or     *)
(* exchanged by change sets (Router, router/mod.rs), a request finds those *)
(* that are there and match it, as long as ids were not used twice.        *)
THEOREM RequestsFindTheRoutes == Spec => []FindsTheRoutes
<1>1. IInv => FindsTheRoutes
  BY DEF IInv, StoredInv, FindsTheRoutes, MatchRequest
<1> QED
  BY InitInv, StepInv, <1>1, PTL DEF Spec

(* Under the same condition a count never falls below the number of routes *)
(* in its matcher, so that retain drops nothing that is still wanted.      *)
THEOREM CountsSuffice == Spec => []CountInv
<1> QED
  BY InitInv, StepInv, PTL DEF Spec, IInv

----------------------------------------------------------------------------
(* Ids that are inserted twice.                                            *)

(* Two branches part at two conditions of one matcher, of which remove may *)
(* call one only, or at a condition and its child without one.             *)
PartAtConditions(b, c) ==
  \E l \in Level : /\ b[l] # c[l] /\ b[l] # Any /\ c[l] # Any
                   /\ \A k \in 1..(l - 1) : b[k] = c[k]

Together(X) ==
  \A e, f \in X : e.route.id = f.route.id => ~ PartAtConditions(e.branch, f.branch)

(* No count is exceeded by entries in the matcher that may have to be      *)
(* removed by as many calls, one after the other.                          *)
Covered(entries, counts) ==
  \A n \in Node : \A X \in SUBSET entries :
    /\ IsFiniteSet(X) /\ Together(X)
    /\ \A e \in X : Under(n, e.branch)
    => Cardinality(X) <= counts[n]

CoverInv ==
  /\ TypeInv
  /\ stored \subseteq Entry
  /\ NeverLost
  /\ Covered(stored, count)

LEMMA Least ==
  ASSUME NEW S, S \subseteq Nat, S # {}
  PROVE  \E m \in S : \A k \in S : m <= k
<1> DEFINE R == OpToRel(<, Nat)
<1>1. \A a, b \in Nat : a < b => <<a, b>> \in R
  <2>1. \A a, b \in Nat : (a < b) => <<a, b>> \in {ss \in Nat \X Nat : ss[1] < ss[2]}
    OBVIOUS
  <2> QED
    BY <2>1, Zenon DEF OpToRel
<1>2. IsWellFoundedOn(R, Nat)
  BY NatLessThanWellFounded, Zenon
<1> HIDE DEF R
<1>3. PICK m \in S : \A k \in S : <<k, m>> \notin R
  BY <1>2, WFMin
<1>4. ASSUME NEW k \in S PROVE m <= k
  <2>1. k \in Nat /\ m \in Nat /\ ~ (k < m)
    BY <1>1, <1>3, Zenon
  <2> QED
    BY <2>1
<1> QED
  BY <1>4

LEMMA Greatest ==
  ASSUME NEW D \in Nat, NEW S, S \subseteq 0..D, S # {}
  PROVE  \E m \in S : \A k \in S : k <= m
<1> DEFINE T == {D - k : k \in S}
<1>1. T \subseteq Nat /\ T # {}
  <2>1. \A k \in S : k \in Nat /\ D - k \in Nat
    OBVIOUS
  <2>2. PICK k \in S : TRUE
    OBVIOUS
  <2>3. D - k \in T
    OBVIOUS
  <2> QED
    BY <2>1, <2>3
<1>2. PICK t \in T : \A k \in T : t <= k
  <2> HIDE DEF T
  <2> QED
    BY <1>1, Least
<1>3. PICK m \in S : t = D - m
  OBVIOUS
<1>4. ASSUME NEW k \in S PROVE k <= m
  <2>1. D - k \in T
    OBVIOUS
  <2>2. D - m <= D - k
    BY <1>2, <1>3, <2>1
  <2> QED
    BY <2>2
<1> QED
  BY <1>4

(* The branches of a route part at conditions only.                        *)
LEMMA BranchesPart ==
  ASSUME NEW r \in Route, NEW b \in r.branches, NEW c \in r.branches, b # c
  PROVE  PartAtConditions(b, c)
<1> DEFINE S == {l \in Level : b[l] # c[l]}
<1>1. /\ b \in Seq(Key \cup {Any}) /\ Len(b) = Depth
      /\ c \in Seq(Key \cup {Any}) /\ Len(c) = Depth
      /\ Depth \in Nat
  BY BranchIsSeq, RouterAssumption
<1>2. S # {} /\ S \subseteq Nat
  BY <1>1 DEF Level
<1>3. PICK l \in S : \A k \in S : l <= k
  BY <1>2, Least
<1>4. \A k \in 1..(l - 1) : b[k] = c[k]
  BY <1>1, <1>3 DEF Level
<1>5. b[l] = Any <=> c[l] = Any
  BY <1>3, RouterAssumption
<1> QED
  BY <1>3, <1>4, <1>5 DEF PartAtConditions

(* Whether remove comes to the matchers of a branch down to a level.       *)
LEMMA CalledBranch ==
  ASSUME NEW b \in Seq(Key \cup {Any}), NEW l \in 0..Len(b), NEW id
  PROVE  Called(Upto(b, l), id) <=>
           \A k \in 1..l : b[k] # Any => ~ Reports(Append(Upto(b, k - 1), Any), id)
<1>1. Len(Upto(b, l)) = l /\ \A k \in 1..l : Upto(b, l)[k] = b[k]
  BY DEF Upto
<1>2. ASSUME NEW k \in 1..l PROVE Upto(Upto(b, l), k - 1) = Upto(b, k - 1)
  <2>1. /\ Upto(b, l) \in Seq(Key \cup {Any}) /\ Len(Upto(b, l)) = l
        /\ \A i \in 1..l : Upto(b, l)[i] = b[i]
    BY DEF Upto
  <2>2. /\ Upto(Upto(b, l), k - 1) \in Seq(Key \cup {Any})
        /\ Len(Upto(Upto(b, l), k - 1)) = k - 1
        /\ \A i \in 1..(k - 1) : Upto(Upto(b, l), k - 1)[i] = Upto(b, l)[i]
    BY <2>1 DEF Upto
  <2>3. /\ Upto(b, k - 1) \in Seq(Key \cup {Any}) /\ Len(Upto(b, k - 1)) = k - 1
        /\ \A i \in 1..(k - 1) : Upto(b, k - 1)[i] = b[i]
    BY DEF Upto
  <2> QED
    BY <2>1, <2>2, <2>3
<1> QED
  BY <1>1, <1>2 DEF Called

LEMMA SameUpto ==
  ASSUME NEW b \in Seq(Key \cup {Any}), NEW c \in Seq(Key \cup {Any}),
         NEW l \in Nat, l <= Len(b), l <= Len(c), \A k \in 1..l : b[k] = c[k]
  PROVE  Upto(b, l) = Upto(c, l)
<1>1. /\ Upto(b, l) \in Seq(Key \cup {Any}) /\ Len(Upto(b, l)) = l
      /\ \A i \in 1..l : Upto(b, l)[i] = b[i]
  BY DEF Upto
<1>2. /\ Upto(c, l) \in Seq(Key \cup {Any}) /\ Len(Upto(c, l)) = l
      /\ \A i \in 1..l : Upto(c, l)[i] = c[i]
  BY DEF Upto
<1> QED
  BY <1>1, <1>2

LEMMA EntryBranch ==
  ASSUME NEW e \in Entry
  PROVE  /\ e.route \in Route /\ e.branch \in e.route.branches
         /\ e.branch \in Seq(Key \cup {Any}) /\ Len(e.branch) = Depth
         /\ e.branch \in Node /\ Under(e.branch, e.branch)
<1>1. e.route \in Route /\ e.branch \in e.route.branches
  BY DEF Entry
<1> QED
  BY <1>1, BranchIsSeq, BranchIsNode

(* A matcher is the beginning of what it is on.                            *)
LEMMA NodeOfBranch ==
  ASSUME NEW n \in Node, NEW b \in Seq(Key \cup {Any}), Len(b) = Depth, Under(n, b)
  PROVE  /\ Len(n) \in 0..Depth /\ n = Upto(b, Len(n))
         /\ \A k \in 1..Len(n) : n[k] = b[k]
<1>0. PICK r \in Route : \E c \in r.branches : \E k \in 0..Depth : n = Upto(c, k)
  BY DEF Node
<1>1. PICK c \in r.branches, k \in 0..Depth : n = Upto(c, k)
  BY <1>0
<1>2. c \in Seq(Key \cup {Any}) /\ Len(c) = Depth /\ Depth \in Nat
  BY BranchIsSeq, RouterAssumption
<1>3. n \in Seq(Key \cup {Any}) /\ Len(n) = k
  BY <1>1, <1>2 DEF Upto
<1>4. /\ Upto(b, k) \in Seq(Key \cup {Any}) /\ Len(Upto(b, k)) = k
      /\ \A i \in 1..k : Upto(b, k)[i] = b[i]
  BY <1>2 DEF Upto
<1> QED
  BY <1>3, <1>4 DEF Under

(* A second branch leaves the first at a child without a condition.        *)
LeavesAtAny(b, c, l) ==
  \E k \in 1..l : /\ b[k] # c[k] /\ (b[k] = Any \/ c[k] = Any)
                  /\ \A i \in 1..(k - 1) : b[i] = c[i]

AgreeUpto(b, c, l) == \A k \in 1..l : b[k] = c[k]

LEMMA LeavesDoNotPart ==
  ASSUME NEW b, NEW c, NEW l \in Nat,
         LeavesAtAny(b, c, l) \/ (l = Depth /\ AgreeUpto(b, c, l))
  PROVE  ~ PartAtConditions(b, c) /\ ~ PartAtConditions(c, b)
<1>1. CASE LeavesAtAny(b, c, l)
  <2>1. PICK k \in 1..l : /\ b[k] # c[k] /\ (b[k] = Any \/ c[k] = Any)
                          /\ \A i \in 1..(k - 1) : b[i] = c[i]
    BY <1>1 DEF LeavesAtAny
  <2>2. ASSUME NEW j \in Level, b[j] # c[j], b[j] # Any, c[j] # Any,
               \A i \in 1..(j - 1) : b[i] = c[i]
        PROVE  FALSE
    <3>0. j \in Nat /\ k \in Nat /\ j >= 1 /\ k >= 1
      BY RouterAssumption DEF Level
    <3>1. CASE k < j
      <4>1. k \in 1..(j - 1)
        BY <3>0, <3>1
      <4> QED
        BY <4>1, <2>1, <2>2
    <3>2. CASE j < k
      <4>1. j \in 1..(k - 1)
        BY <3>0, <3>2
      <4> QED
        BY <4>1, <2>1, <2>2
    <3>3. CASE j = k
      BY <3>3, <2>1, <2>2
    <3> QED
      BY <3>0, <3>1, <3>2, <3>3
  <2> QED
    BY <2>2 DEF PartAtConditions
<1>2. CASE l = Depth /\ AgreeUpto(b, c, l)
  BY <1>2 DEF AgreeUpto, PartAtConditions, Level
<1> QED
  BY <1>1, <1>2

(* How far down remove has come towards an entry that it may take besides  *)
(* those of Y, all of which it has left at a child without a condition.    *)
OnTheWay(n, id, Y, f, l) ==
  /\ f \in stored /\ f.route.id = id /\ Under(n, f.branch)
  /\ Called(Upto(f.branch, l), id)
  /\ \A e \in Y : AgreeUpto(f.branch, e.branch, l) \/ LeavesAtAny(f.branch, e.branch, l)

(* From a matcher to the next one: to the child without a condition if it  *)
(* holds the id, and otherwise to that of the others that holds Y.         *)
LEMMA OneLevelDown ==
  ASSUME stored \subseteq Entry, NEW n \in Node, NEW id,
         NEW Y, Y \subseteq stored, Together(Y), \A e \in Y : e.route.id = id,
         NEW m \in 0..Depth, Len(n) <= m, m < Depth,
         NEW f \in stored, OnTheWay(n, id, Y, f, m)
  PROVE  \E g \in stored : OnTheWay(n, id, Y, g, m + 1)
<1> DEFINE On(g) == g.route.id = id /\ AgreeUpto(f.branch, g.branch, m)
<1>1. /\ Depth \in Nat /\ m \in Nat /\ m + 1 \in Level /\ m + 1 \in 0..Depth
      /\ \A g \in stored : g.branch \in Seq(Key \cup {Any}) /\ Len(g.branch) = Depth
  BY RouterAssumption, EntryBranch DEF Level
<1>2. /\ f.route.id = id /\ Under(n, f.branch)
      /\ \A k \in 1..m : f.branch[k] # Any => ~ Reports(Append(Upto(f.branch, k - 1), Any), id)
      /\ \A e \in Y : AgreeUpto(f.branch, e.branch, m) \/ LeavesAtAny(f.branch, e.branch, m)
  BY <1>1, CalledBranch DEF OnTheWay
<1>3. ASSUME NEW g \in stored, On(g),
             \/ g.branch[m + 1] = Any
             \/ /\ ~ Reports(Append(Upto(f.branch, m), Any), id)
                /\ \A e \in Y : AgreeUpto(f.branch, e.branch, m) => e.branch[m + 1] = g.branch[m + 1]
      PROVE  OnTheWay(n, id, Y, g, m + 1)
  <2>1. \A k \in 1..m : f.branch[k] = g.branch[k]
    BY <1>3 DEF AgreeUpto
  <2>2. Under(n, g.branch)
    <3>1. Len(n) \in Nat /\ Len(n) <= m
      BY <1>1, <1>2, NodeOfBranch
    <3> QED
      BY <1>1, <1>2, <2>1, <3>1 DEF Under
  <2>3. Called(Upto(g.branch, m + 1), id)
    <3>1. ASSUME NEW k \in 1..(m + 1), g.branch[k] # Any
          PROVE  ~ Reports(Append(Upto(g.branch, k - 1), Any), id)
      <4>1. Upto(g.branch, k - 1) = Upto(f.branch, k - 1)
        <5>1. /\ k - 1 \in Nat /\ k - 1 <= Len(g.branch) /\ k - 1 <= Len(f.branch)
              /\ \A i \in 1..(k - 1) : g.branch[i] = f.branch[i]
          BY <1>1, <2>1 DEF Level
        <5>2. g.branch \in Seq(Key \cup {Any}) /\ f.branch \in Seq(Key \cup {Any})
          BY <1>1
        <5> QED
          BY <5>1, <5>2, SameUpto
      <4>2. CASE k = m + 1
        <5>1. k - 1 = m
          BY <4>2, <1>1
        <5> QED
          BY <4>1, <4>2, <5>1, <3>1, <1>3
      <4>3. CASE k # m + 1
        <5>1. k \in 1..m
          BY <4>3, <1>1
        <5> QED
          BY <4>1, <5>1, <2>1, <3>1, <1>2
      <4> QED
        BY <4>2, <4>3
    <3> QED
      BY <1>1, <3>1, CalledBranch
  <2>4. ASSUME NEW e \in Y
        PROVE  AgreeUpto(g.branch, e.branch, m + 1) \/ LeavesAtAny(g.branch, e.branch, m + 1)
    <3>1. CASE LeavesAtAny(f.branch, e.branch, m)
      <4>1. PICK k \in 1..m : /\ f.branch[k] # e.branch[k]
                              /\ (f.branch[k] = Any \/ e.branch[k] = Any)
                              /\ \A i \in 1..(k - 1) : f.branch[i] = e.branch[i]
        BY <3>1 DEF LeavesAtAny
      <4>2. /\ k \in 1..(m + 1) /\ g.branch[k] # e.branch[k]
            /\ (g.branch[k] = Any \/ e.branch[k] = Any)
            /\ \A i \in 1..(k - 1) : g.branch[i] = e.branch[i]
        <5>1. k \in 1..(m + 1) /\ \A i \in 1..(k - 1) : i \in 1..m
          BY <1>1
        <5>2. f.branch[k] = g.branch[k] /\ \A i \in 1..(k - 1) : f.branch[i] = g.branch[i]
          BY <5>1, <2>1
        <5> QED
          BY <4>1, <5>1, <5>2
      <4> QED
        BY <4>2 DEF LeavesAtAny
    <3>2. CASE AgreeUpto(f.branch, e.branch, m)
      <4>1. \A k \in 1..m : g.branch[k] = e.branch[k]
        BY <3>2, <2>1 DEF AgreeUpto
      <4>2. CASE g.branch[m + 1] = e.branch[m + 1]
        BY <4>1, <4>2, <1>1 DEF AgreeUpto
      <4>3. CASE g.branch[m + 1] # e.branch[m + 1]
        <5>1. g.branch[m + 1] = Any
          BY <1>3, <3>2, <4>3
        <5>2. m + 1 \in 1..(m + 1) /\ \A i \in 1..(m + 1 - 1) : g.branch[i] = e.branch[i]
          BY <4>1, <1>1
        <5> QED
          BY <4>3, <5>1, <5>2 DEF LeavesAtAny
      <4> QED
        BY <4>2, <4>3
    <3> QED
      BY <3>1, <3>2, <1>2
  <2> QED
    BY <1>3, <2>2, <2>3, <2>4 DEF OnTheWay
<1>4. CASE \E g \in stored : On(g) /\ g.branch[m + 1] = Any
  BY <1>3, <1>4
<1>5. CASE ~ \E g \in stored : On(g) /\ g.branch[m + 1] = Any
  <2>1. ~ Reports(Append(Upto(f.branch, m), Any), id)
    <3> SUFFICES ASSUME NEW g \in stored, g.route.id = id,
                        Under(Append(Upto(f.branch, m), Any), g.branch)
                 PROVE  FALSE
      BY DEF Reports
    <3>1. /\ Upto(f.branch, m) \in Seq(Key \cup {Any}) /\ Len(Upto(f.branch, m)) = m
          /\ \A k \in 1..m : Upto(f.branch, m)[k] = f.branch[k]
      BY <1>1 DEF Upto
    <3>2. /\ Len(Append(Upto(f.branch, m), Any)) = m + 1
          /\ Append(Upto(f.branch, m), Any)[m + 1] = Any
          /\ \A k \in 1..m : Append(Upto(f.branch, m), Any)[k] = f.branch[k]
      BY <3>1
    <3>3. g.branch[m + 1] = Any /\ AgreeUpto(f.branch, g.branch, m)
      BY <3>2, <1>1 DEF Under, AgreeUpto
    <3> QED
      BY <3>3, <1>5
  <2>2. CASE \E e \in Y : AgreeUpto(f.branch, e.branch, m)
    <3>1. PICK g \in Y : AgreeUpto(f.branch, g.branch, m)
      BY <2>2
    <3>2. ASSUME NEW e \in Y, AgreeUpto(f.branch, e.branch, m)
          PROVE  e.branch[m + 1] = g.branch[m + 1]
      <4>1. e.branch[m + 1] # Any /\ g.branch[m + 1] # Any
        BY <1>5, <3>1, <3>2
      <4>2. ~ PartAtConditions(e.branch, g.branch)
        BY DEF Together
      <4>3. \A k \in 1..(m + 1 - 1) : e.branch[k] = g.branch[k]
        BY <3>1, <3>2, <1>1 DEF AgreeUpto
      <4> QED
        BY <4>1, <4>2, <4>3, <1>1 DEF PartAtConditions
    <3> QED
      BY <1>3, <2>1, <3>1, <3>2
  <2>3. CASE ~ \E e \in Y : AgreeUpto(f.branch, e.branch, m)
    <3>1. On(f)
      BY <1>2 DEF AgreeUpto
    <3> QED
      BY <1>3, <2>1, <2>3, <3>1
  <2> QED
    BY <2>2, <2>3
<1> QED
  BY <1>4, <1>5

(* When remove comes to a matcher that holds the id, it takes an entry of  *)
(* which no other entry of X need to be left behind.                       *)
LEMMA TakesOneMore ==
  ASSUME stored \subseteq Entry, NEW n \in Node, NEW id, NEW gone,
         Called(n, id), Reports(n, id), Takes(id, gone),
         NEW X, X \subseteq stored, Together(X), \A e \in X : Under(n, e.branch)
  PROVE  \E g \in gone : Under(n, g.branch) /\ Together(X \cup {g})
<1> DEFINE Y == {e \in X : e.route.id = id}
           L == {l \in 0..Depth : Len(n) <= l /\ \E f \in stored : OnTheWay(n, id, Y, f, l)}
<1>1. /\ Depth \in Nat
      /\ \A g \in stored : g.branch \in Seq(Key \cup {Any}) /\ Len(g.branch) = Depth
  BY RouterAssumption, EntryBranch
<1>2. Y \subseteq stored /\ Together(Y) /\ \A e \in Y : e.route.id = id
  BY DEF Together
<1>3. Len(n) \in L
  <2>1. PICK f \in stored : f.route.id = id /\ Under(n, f.branch)
    BY DEF Reports
  <2>2. /\ Len(n) \in 0..Depth /\ n = Upto(f.branch, Len(n))
        /\ \A k \in 1..Len(n) : n[k] = f.branch[k]
    BY <1>1, <2>1, NodeOfBranch
  <2>3. \A e \in Y : AgreeUpto(f.branch, e.branch, Len(n))
    BY <2>2 DEF AgreeUpto, Under
  <2>4. OnTheWay(n, id, Y, f, Len(n))
    BY <2>1, <2>2, <2>3 DEF OnTheWay
  <2>5. Len(n) <= Len(n)
    BY <2>2, <1>1
  <2> HIDE DEF Y
  <2> QED
    BY <2>2, <2>4, <2>5
<1>4. PICK m \in L : \A k \in L : k <= m
  <2>1. L # {} /\ L \subseteq 0..Depth
    BY <1>3
  <2> HIDE DEF L
  <2> QED
    BY <2>1, <1>1, Greatest
<1>5. PICK f \in stored : OnTheWay(n, id, Y, f, m)
  OBVIOUS
<1>6. m = Depth
  <2> SUFFICES ASSUME m < Depth PROVE FALSE
    BY <1>1
  <2>1. \E g \in stored : OnTheWay(n, id, Y, g, m + 1)
    <3>1. m \in 0..Depth /\ Len(n) <= m
      OBVIOUS
    <3> HIDE DEF Y, L
    <3> QED
      BY <3>1, <1>2, <1>5, OneLevelDown
  <2>2. m + 1 \in L
    <3>1. m \in 0..Depth /\ Len(n) <= m /\ Len(n) \in 0..Depth
      BY <1>3
    <3>2. m + 1 \in 0..Depth /\ Len(n) <= m + 1
      BY <3>1, <1>1
    <3> HIDE DEF Y
    <3> QED
      BY <2>1, <3>2
  <2>3. m + 1 <= m /\ m \in Nat
    BY <1>4, <2>2
  <2> QED
    BY <2>3
<1>7. f.route.id = id /\ Under(n, f.branch) /\ Called(f.branch, id)
  <2>1. Upto(f.branch, Depth) = f.branch
    BY <1>1 DEF Upto
  <2> QED
    BY <1>5, <1>6, <2>1 DEF OnTheWay
<1>8. PICK g \in gone : g.branch = f.branch
  BY <1>7 DEF Takes
<1>9. g.route.id = id
  BY DEF Takes
<1>10. ASSUME NEW e \in Y
       PROVE  ~ PartAtConditions(g.branch, e.branch) /\ ~ PartAtConditions(e.branch, g.branch)
  <2>1. LeavesAtAny(f.branch, e.branch, Depth) \/ AgreeUpto(f.branch, e.branch, Depth)
    BY <1>5, <1>6 DEF OnTheWay
  <2> QED
    BY <1>1, <1>8, <2>1, LeavesDoNotPart
<1>11. ~ PartAtConditions(g.branch, g.branch)
  BY DEF PartAtConditions
<1>12. Together(X \cup {g})
  <2> SUFFICES ASSUME NEW e \in X \cup {g}, NEW d \in X \cup {g}, e.route.id = d.route.id
               PROVE  ~ PartAtConditions(e.branch, d.branch)
    BY DEF Together
  <2>1. CASE e \in X /\ d \in X
    BY <2>1 DEF Together
  <2>2. CASE e = g /\ d = g
    BY <2>2, <1>11
  <2>3. CASE e = g /\ d \in X
    BY <2>3, <1>9, <1>10
  <2>4. CASE e \in X /\ d = g
    BY <2>4, <1>9, <1>10
  <2> QED
    BY <2>1, <2>2, <2>3, <2>4
<1> QED
  BY <1>7, <1>8, <1>12

LEMMA CoverInsertRoute ==
  ASSUME CoverInv, NEW r \in Route, InsertRoute(r)
  PROVE  stored' \subseteq Entry /\ NeverLost' /\ Covered(stored, count)'
<1> DEFINE new == {[branch |-> b, route |-> r] : b \in r.branches}
<1>1. /\ new = {e \in Entry : e.route = r}
      /\ stored' \subseteq stored \cup new /\ new \subseteq stored'
      /\ routes' = {s \in routes : s.id # r.id} \cup {r}
  BY DEF InsertRoute, Entry
<1>2. stored' \subseteq Entry
  BY <1>1 DEF CoverInv
<1>3. NeverLost'
  <2> SUFFICES ASSUME NEW e \in Entry, e.route \in routes' PROVE e \in stored'
    BY DEF NeverLost, Wanted
  <2>1. CASE e.route = r
    BY <1>1, <2>1
  <2>2. CASE e.route # r
    <3>1. e.route \in routes /\ e.route.id # r.id
      BY <1>1, <2>2
    <3>2. e \in stored
      BY <3>1 DEF CoverInv, NeverLost, Wanted
    <3> QED
      BY <3>1, <3>2 DEF InsertRoute
  <2> QED
    BY <2>1, <2>2
<1>4. ASSUME NEW n \in Node, NEW X \in SUBSET stored', IsFiniteSet(X), Together(X),
             \A e \in X : Under(n, e.branch)
      PROVE  Cardinality(X) <= count'[n]
  <2>1. /\ count[n] \in Int
        /\ count'[n] = IF \E b \in r.branches : Under(n, b) THEN count[n] + 1 ELSE count[n]
    BY DEF InsertRoute, CountedIn, CoverInv, TypeInv
  <2>2. CASE X \cap new = {}
    <3>1. X \in SUBSET stored
      BY <1>1, <2>2
    <3>2. Cardinality(X) <= count[n] /\ Cardinality(X) \in Nat
      BY <3>1, <1>4, FS_CardinalityType DEF CoverInv, Covered
    <3> QED
      BY <2>1, <3>2
  <2>3. CASE X \cap new # {}
    <3>1. PICK x \in X : x \in new
      BY <2>3
    <3>2. \A y \in X : y \in new => y = x
      <4> SUFFICES ASSUME NEW y \in X, y \in new, y # x PROVE FALSE
        OBVIOUS
      <4>1. /\ x.route = r /\ y.route = r /\ x.branch \in r.branches /\ y.branch \in r.branches
            /\ x.branch # y.branch
        BY <3>1
      <4>2. PartAtConditions(x.branch, y.branch)
        BY <4>1, BranchesPart
      <4> QED
        BY <4>1, <4>2, <1>4 DEF Together
    <3>3. X \ {x} \in SUBSET stored
      BY <1>1, <3>2
    <3>4. /\ IsFiniteSet(X \ {x}) /\ Cardinality(X \ {x}) = Cardinality(X) - 1
          /\ Cardinality(X) \in Nat
      BY <1>4, FS_RemoveElement, FS_CardinalityType
    <3>5. Together(X \ {x}) /\ \A e \in X \ {x} : Under(n, e.branch)
      BY <1>4 DEF Together
    <3>6. Cardinality(X \ {x}) <= count[n]
      BY <3>3, <3>4, <3>5 DEF CoverInv, Covered
    <3>7. \E b \in r.branches : Under(n, b)
      BY <3>1, <1>4
    <3> QED
      BY <2>1, <3>4, <3>6, <3>7
  <2> QED
    BY <2>2, <2>3
<1> QED
  BY <1>2, <1>3, <1>4 DEF Covered

(* retain drops only matchers without an entry.                            *)
LEMMA CoverSweep ==
  ASSUME NEW kept, kept \subseteq Entry, NEW counts \in [Node -> Int],
         Covered(kept, counts),
         NEW visited, visited \subseteq Node, Sweep(kept, counts, visited)
  PROVE  stored' = kept /\ Covered(stored, count)'
<1>1. ASSUME NEW n \in Node, NEW e \in kept, Under(n, e.branch)
      PROVE  ~ Dropped(n, counts, visited)
  <2> SUFFICES ASSUME NEW l \in 1..Len(n), counts[Upto(n, l)] = 0 PROVE FALSE
    BY DEF Dropped
  <2>1. Upto(n, l) \in Node /\ Under(Upto(n, l), e.branch)
    BY <1>1, NodeUpto
  <2>2. {e} \in SUBSET kept /\ IsFiniteSet({e}) /\ Cardinality({e}) = 1
    BY FS_Singleton
  <2>3. Together({e})
    BY DEF Together, PartAtConditions
  <2>4. 1 <= counts[Upto(n, l)]
    BY <2>1, <2>2, <2>3 DEF Covered
  <2> QED
    BY <2>4
<1>2. stored' = kept
  <2>1. \A e \in kept : e.branch \in Node /\ Under(e.branch, e.branch)
    BY EntryBranch
  <2> QED
    BY <1>1, <2>1 DEF Sweep
<1>3. ASSUME NEW n \in Node, NEW X \in SUBSET kept, IsFiniteSet(X), Together(X),
             \A e \in X : Under(n, e.branch)
      PROVE  Cardinality(X) <= count'[n]
  <2>1. CASE X = {}
    <3>1. Cardinality(X) = 0 /\ Cardinality(X) <= counts[n]
      BY <2>1, <1>3, FS_EmptySet DEF Covered
    <3>2. count'[n] = 0 \/ count'[n] = counts[n]
      BY DEF Sweep
    <3> QED
      BY <3>1, <3>2
  <2>2. CASE X # {}
    <3>1. ~ Dropped(n, counts, visited)
      BY <2>2, <1>1, <1>3
    <3>2. count'[n] = counts[n]
      BY <3>1 DEF Sweep
    <3> QED
      BY <3>2, <1>3 DEF Covered
  <2> QED
    BY <2>1, <2>2
<1> QED
  BY <1>2, <1>3 DEF Covered

(* What is removed is of the ids that are no longer in the Router.         *)
LEMMA StillWanted ==
  ASSUME NeverLost, NEW gone, NEW ids, stored' = stored \ gone,
         routes' \subseteq {r \in routes : r.id \notin ids},
         \A e \in gone : e.route.id \in ids
  PROVE  NeverLost'
BY DEF NeverLost, Wanted

LEMMA CoverBatchRemoveRoutes ==
  ASSUME CoverInv, NEW ids, BatchRemoveRoutes(ids)
  PROVE  stored' \subseteq Entry /\ NeverLost' /\ Covered(stored, count)'
<1> DEFINE kept == {e \in stored : e.route.id \notin ids}
<1>1. kept \subseteq Entry /\ count \in [Node -> Int] /\ Covered(kept, count)
  <2>1. SUBSET kept \subseteq SUBSET stored
    OBVIOUS
  <2> QED
    BY <2>1 DEF CoverInv, TypeInv, Covered
<1>2. Sweep(kept, count, Node)
  BY DEF BatchRemoveRoutes
<1>3. stored' = kept /\ Covered(stored, count)'
  <2> HIDE DEF kept
  <2> QED
    BY <1>1, <1>2, CoverSweep
<1>4. NeverLost'
  BY <1>3 DEF BatchRemoveRoutes, CoverInv, NeverLost, Wanted
<1> QED
  BY <1>1, <1>3, <1>4

LEMMA CoverRemove ==
  ASSUME CoverInv, NEW id, Remove(id)
  PROVE  stored' \subseteq Entry /\ NeverLost' /\ Covered(stored, count)'
<1>1. PICK gone \in SUBSET stored :
        /\ Takes(id, gone)
        /\ Sweep(stored \ gone, CountedOut(id), {m \in Node : Called(m, id)})
  BY DEF Remove
<1> DEFINE kept == stored \ gone
<1>2. kept \subseteq Entry /\ CountedOut(id) \in [Node -> Int]
  BY DEF CoverInv, TypeInv, CountedOut
<1>3. Covered(kept, CountedOut(id))
  <2> SUFFICES ASSUME NEW n \in Node, NEW X \in SUBSET kept, IsFiniteSet(X), Together(X),
                      \A e \in X : Under(n, e.branch)
               PROVE  Cardinality(X) <= CountedOut(id)[n]
    BY DEF Covered
  <2>1. /\ count[n] \in Int /\ Cardinality(X) \in Nat
        /\ CountedOut(id)[n] = IF Called(n, id) /\ Reports(n, id) THEN count[n] - 1 ELSE count[n]
    BY FS_CardinalityType DEF CoverInv, TypeInv, CountedOut
  <2>2. CASE Called(n, id) /\ Reports(n, id)
    <3>1. PICK g \in gone : Under(n, g.branch) /\ Together(X \cup {g})
      <4>1. stored \subseteq Entry /\ X \subseteq stored
        BY DEF CoverInv
      <4> QED
        BY <4>1, <1>1, <2>2, TakesOneMore
    <3>2. g \notin X /\ X \cup {g} \in SUBSET stored
      OBVIOUS
    <3>3. IsFiniteSet(X \cup {g}) /\ Cardinality(X \cup {g}) = Cardinality(X) + 1
      BY <3>2, FS_AddElement
    <3>4. Cardinality(X \cup {g}) <= count[n]
      BY <3>1, <3>2, <3>3 DEF CoverInv, Covered
    <3> QED
      BY <2>1, <2>2, <3>3, <3>4
  <2>3. CASE ~ (Called(n, id) /\ Reports(n, id))
    <3>1. X \in SUBSET stored
      OBVIOUS
    <3> QED
      BY <2>1, <2>3, <3>1 DEF CoverInv, Covered
  <2> QED
    BY <2>2, <2>3
<1>4. stored' = kept /\ Covered(stored, count)'
  <2>1. {m \in Node : Called(m, id)} \subseteq Node
    OBVIOUS
  <2> HIDE DEF kept
  <2>2. Sweep(kept, CountedOut(id), {m \in Node : Called(m, id)})
    BY <1>1 DEF kept
  <2> QED
    BY <1>2, <1>3, <2>1, <2>2, CoverSweep
<1>5. NeverLost'
  <2>1. /\ NeverLost /\ routes' \subseteq {r \in routes : r.id \notin {id}}
        /\ \A e \in gone : e.route.id \in {id}
    BY <1>1 DEF CoverInv, Remove, Takes
  <2> QED
    BY <1>4, <2>1, StillWanted
<1> QED
  BY <1>2, <1>4, <1>5

LEMMA CoverInit == Init => CoverInv
<1> SUFFICES ASSUME Init PROVE CoverInv
  OBVIOUS
<1>1. stored = {} /\ routes = {} /\ \A n \in Node : count[n] = 0
  BY DEF Init
<1>2. TypeInv
  BY InitInv DEF IInv
<1>3. NeverLost
  BY <1>1 DEF NeverLost, Wanted
<1>4. ASSUME NEW n \in Node, NEW X \in SUBSET stored PROVE Cardinality(X) <= count[n]
  <2>1. X = {}
    BY <1>1
  <2> QED
    BY <2>1, <1>1, FS_EmptySet
<1> QED
  BY <1>1, <1>2, <1>3, <1>4 DEF CoverInv, Covered

LEMMA CoverStep == IInv /\ CoverInv /\ [Next]_vars => CoverInv'
<1> SUFFICES ASSUME IInv, CoverInv, [Next]_vars PROVE CoverInv'
  OBVIOUS
<1>1. TypeInv'
  BY StepInv DEF IInv
<1> SUFFICES stored' \subseteq Entry /\ NeverLost' /\ Covered(stored, count)'
  BY <1>1 DEF CoverInv
<1>2. CASE UNCHANGED vars
  BY <1>2 DEF vars, CoverInv, NeverLost, Covered
<1>3. ASSUME NEW r \in Route, Insert(r)
      PROVE  stored' \subseteq Entry /\ NeverLost' /\ Covered(stored, count)'
  BY <1>3, CoverInsertRoute DEF Insert
<1>4. ASSUME NEW id \in Id, Remove(id)
      PROVE  stored' \subseteq Entry /\ NeverLost' /\ Covered(stored, count)'
  BY <1>4, CoverRemove
<1>5. ASSUME NEW ids \in SUBSET Id, BatchRemove(ids)
      PROVE  stored' \subseteq Entry /\ NeverLost' /\ Covered(stored, count)'
  BY <1>5, CoverBatchRemoveRoutes DEF BatchRemove
<1>6. ASSUME NEW added \in Changes, NEW updated \in Changes, NEW deleted \in SUBSET Id,
             ApplyChangeSet(added, updated, deleted)
      PROVE  stored' \subseteq Entry /\ NeverLost' /\ Covered(stored, count)'
  BY <1>6, CoverBatchRemoveRoutes DEF ApplyChangeSet
<1>7. CASE InsertNext
  <2>1. Head(pending) \in Route
    BY <1>7 DEF InsertNext, CoverInv, TypeInv
  <2> QED
    BY <1>7, <2>1, CoverInsertRoute DEF InsertNext
<1> QED
  BY <1>2, <1>3, <1>4, <1>5, <1>6, <1>7 DEF Next

LEMMA CoverAlways == Spec => []CoverInv
<1> QED
  BY InitInv, StepInv, CoverInit, CoverStep, PTL DEF Spec

(* Also when ids are inserted again before they are removed (Router::insert*)
(* keeps the entries at other places), the route that was inserted last is *)
(* in the matchers until it is removed: no matcher is dropped over it.     *)
THEOREM NoRouteIsLost == Spec => []NeverLost
<1>1. CoverInv => NeverLost
  BY DEF CoverInv
<1> QED
  BY CoverAlways, <1>1, PTL

LEMMA CoverCounts == CoverInv => CountsCover
<1>1. ASSUME CoverInv, NEW n \in Node, NEW e \in stored, Under(n, e.branch)
      PROVE  count[n] > 0
  <2>1. {e} \in SUBSET stored /\ IsFiniteSet({e}) /\ Cardinality({e}) = 1
    BY FS_Singleton
  <2>2. Together({e})
    BY DEF Together, PartAtConditions
  <2>3. 1 <= count[n] /\ count[n] \in Int
    BY <1>1, <2>1, <2>2 DEF CoverInv, Covered, TypeInv
  <2> QED
    BY <2>3
<1> QED
  BY <1>1 DEF CountsCover

(* And a matcher that holds anything at all has a count above 0, whichever *)
(* entries the calls of remove have left behind: decrementing once for     *)
(* each call never comes before the entries.                               *)
THEOREM CountsCoverTheStored == Spec => []CountsCover
<1> QED
  BY CoverAlways, CoverCounts, PTL

(* The counts, of type usize in the code, never go below 0, and the rest   *)
(* of the Router has its types, too.                                       *)
THEOREM RouterTypes == Spec => []RouterTypeOK
<1>1. Init => ops \in 0..MaxOps
  BY RouterAssumption DEF Init
<1>2. ops \in 0..MaxOps /\ [Next]_vars => (ops \in 0..MaxOps)'
  <2> SUFFICES ASSUME ops \in 0..MaxOps, [Next]_vars PROVE (ops \in 0..MaxOps)'
    OBVIOUS
  <2>1. CASE Operate
    BY <2>1, RouterAssumption DEF Operate
  <2>2. Operate \/ UNCHANGED ops
    BY DEF Next, vars, Insert, Remove, BatchRemove, ApplyChangeSet, InsertNext
  <2> QED
    BY <2>1, <2>2
<1>3. ASSUME CoverInv, NEW n \in Node PROVE count[n] \in Nat
  <2>1. /\ {} \in SUBSET stored /\ IsFiniteSet({}) /\ Cardinality({}) = 0
        /\ Together({})
    BY FS_EmptySet DEF Together
  <2>2. 0 <= count[n] /\ count[n] \in Int
    BY <1>3, <2>1 DEF CoverInv, Covered, TypeInv
  <2> QED
    BY <2>2
<1>4. CoverInv /\ ops \in 0..MaxOps => RouterTypeOK
  BY <1>3 DEF CoverInv, TypeInv, RouterTypeOK
<1> QED
  BY <1>1, <1>2, <1>4, CoverAlways, PTL DEF Spec

----------------------------------------------------------------------------
(* The explanation of a request: that the two recursions of RouterTrace    *)
(* are well defined, and what they come to at a level.                     *)

Nodes(traces, n, f) ==
  f = [d \in 0..n |-> IF d = 0 THEN {} ELSE traces \cup UNION {t.children : t \in f[d - 1]}]

LEMMA NodesExist ==
  ASSUME NEW X, NEW n \in Nat
  PROVE  \E f : Nodes(X, n, f)
<1> DEFINE S == {m \in 0..n : ~ \E f : Nodes(X, m, f)}
<1>1. SUFFICES ASSUME S # {} PROVE FALSE
  OBVIOUS
<1>2. PICK m \in S : \A k \in S : m <= k
  <2>1. S \subseteq Nat
    OBVIOUS
  <2> HIDE DEF S
  <2> QED
    BY <1>1, <2>1, Least
<1>3. CASE m = 0
  <2> DEFINE f == [d \in 0..0 |-> {}]
  <2>1. Nodes(X, 0, f)
    BY DEF Nodes
  <2> QED
    BY <1>3, <2>1
<1>4. CASE m # 0
  <2>1. m - 1 \in 0..n /\ m - 1 \notin S /\ m \in Nat \ {0}
    BY <1>2, <1>4
  <2>2. PICK g : Nodes(X, m - 1, g)
    BY <2>1
  <2> DEFINE f == [d \in 0..m |-> IF d = m THEN X \cup UNION {t.children : t \in g[m - 1]} ELSE g[d]]
  <2>3. ASSUME NEW d \in 0..m
        PROVE  f[d] = IF d = 0 THEN {} ELSE X \cup UNION {t.children : t \in f[d - 1]}
    <3>1. CASE d = m
      <4>1. m - 1 \in 0..m /\ m - 1 # m /\ f[m - 1] = g[m - 1]
        BY <2>1
      <4> QED
        BY <2>1, <3>1, <4>1
    <3>2. CASE d # m
      <4>1. d \in 0..(m - 1) /\ f[d] = g[d] /\ (d # 0 => d - 1 \in 0..(m - 1) /\ f[d - 1] = g[d - 1])
        BY <2>1, <3>2
      <4>2. g[d] = IF d = 0 THEN {} ELSE X \cup UNION {t.children : t \in g[d - 1]}
        BY <2>2, <4>1 DEF Nodes
      <4> QED
        BY <4>1, <4>2
    <3> QED
      BY <3>1, <3>2
  <2>4. Nodes(X, m, f)
    BY <2>3 DEF Nodes
  <2> QED
    BY <1>2, <2>4
<1> QED
  BY <1>3, <1>4

LEMMA DeepestIs == Deepest \in Nat /\ Depth \in Nat /\ Deepest = Depth + 6
BY RouterAssumption DEF Deepest

LEMMA NodesUptoIs ==
  ASSUME NEW X
  PROVE  /\ NodesUpto(X)[0] = {}
         /\ \A d \in 0..(Deepest - 1) :
              NodesUpto(X)[d + 1] = X \cup UNION {t.children : t \in NodesUpto(X)[d]}
<1> DEFINE nodes == CHOOSE f : Nodes(X, Deepest, f)
<1>1. Deepest \in Nat
  BY DeepestIs
<1>2. Nodes(X, Deepest, nodes)
  BY <1>1, NodesExist
<1>3. NodesUpto(X) = nodes
  BY DEF NodesUpto, Nodes
<1> HIDE DEF nodes
<1>4. nodes = [d \in 0..Deepest |->
                 IF d = 0 THEN {} ELSE X \cup UNION {t.children : t \in nodes[d - 1]}]
  BY <1>2 DEF Nodes
<1>5. nodes[0] = {}
  BY <1>1, <1>4
<1>6. ASSUME NEW d \in 0..(Deepest - 1)
      PROVE  nodes[d + 1] = X \cup UNION {t.children : t \in nodes[d]}
  <2>1. d + 1 \in 0..Deepest /\ d + 1 # 0 /\ (d + 1) - 1 = d
    BY <1>1
  <2>2. nodes[d + 1] = X \cup UNION {t.children : t \in nodes[(d + 1) - 1]}
    BY <1>4, <2>1
  <2> QED
    BY <2>1, <2>2
<1> QED
  BY <1>3, <1>5, <1>6

(* A node of traces is one of them, or lies below one.                     *)
LEMMA NodesOfOne ==
  ASSUME NEW X, NEW d \in 0..(Deepest - 1)
  PROVE  \A t : t \in NodesUpto(X)[d + 1]
                  <=> t \in X \/ \E x \in X : t \in NodesUpto(x.children)[d]
<1> DEFINE P(k) == \A t : t \in NodesUpto(X)[k + 1]
                            <=> t \in X \/ \E x \in X : t \in NodesUpto(x.children)[k]
           S == {k \in 0..(Deepest - 1) : ~ P(k)}
<1>1. SUFFICES ASSUME S # {} PROVE FALSE
  OBVIOUS
<1>2. Deepest \in Nat
  BY DeepestIs
<1>3. PICK m \in S : \A k \in S : m <= k
  <2>1. S \subseteq Nat
    BY <1>2
  <2> HIDE DEF S
  <2> QED
    BY <1>1, <2>1, Least
<1>4. m \in 0..(Deepest - 1) /\ ~ P(m)
  BY <1>3
<1>5. CASE m = 0
  <2>1. NodesUpto(X)[0 + 1] = X
    <3>1. 0 \in 0..(Deepest - 1)
      BY <1>2
    <3>2. NodesUpto(X)[0 + 1] = X \cup UNION {t.children : t \in NodesUpto(X)[0]}
      BY <3>1, NodesUptoIs
    <3> QED
      BY <3>2, NodesUptoIs
  <2>2. \A x \in X : NodesUpto(x.children)[0] = {}
    BY NodesUptoIs
  <2>3. P(0)
    BY <2>1, <2>2
  <2> QED
    BY <1>4, <1>5, <2>3
<1>6. CASE m # 0
  <2>1. m - 1 \in 0..(Deepest - 1) /\ P(m - 1) /\ (m - 1) + 1 = m
    <3>1. m - 1 \in 0..(Deepest - 1) /\ (m - 1) + 1 = m /\ m - 1 < m
      BY <1>2, <1>4, <1>6
    <3>2. m - 1 \notin S
      <4> HIDE DEF S, P
      <4> QED
        BY <1>2, <1>3, <1>4, <3>1
    <3>3. P(m - 1)
      <4> HIDE DEF P
      <4> QED
        BY <3>1, <3>2 DEF S
    <3> QED
      BY <3>1, <3>3
  <2>2. NodesUpto(X)[m + 1] = X \cup UNION {t.children : t \in NodesUpto(X)[m]}
    BY <1>4, NodesUptoIs
  <2>3. \A x \in X : NodesUpto(x.children)[m]
                       = x.children \cup UNION {t.children : t \in NodesUpto(x.children)[m - 1]}
    BY <2>1, NodesUptoIs
  <2>4. \A t : t \in NodesUpto(X)[m] <=> t \in X \/ \E x \in X : t \in NodesUpto(x.children)[m - 1]
    BY <2>1, Zenon
  <2>5. ASSUME NEW t
        PROVE  t \in NodesUpto(X)[m + 1]
                 <=> t \in X \/ \E x \in X : t \in NodesUpto(x.children)[m]
    <3>1. t \in NodesUpto(X)[m + 1] <=> t \in X \/ \E s \in NodesUpto(X)[m] : t \in s.children
      BY <2>2
    <3>2. (\E s \in NodesUpto(X)[m] : t \in s.children)
            <=> \E x \in X : \/ t \in x.children
                             \/ \E s \in NodesUpto(x.children)[m - 1] : t \in s.children
      BY <2>4
    <3>3. \A x \in X : t \in NodesUpto(x.children)[m]
                         <=> \/ t \in x.children
                             \/ \E s \in NodesUpto(x.children)[m - 1] : t \in s.children
      BY <2>3
    <3> QED
      BY <3>1, <3>2, <3>3
  <2> QED
    BY <1>4, <2>5
<1> QED
  BY <1>5, <1>6

LEMMA NodesBelow ==
  ASSUME NEW X, NEW d \in 1..Deepest
  PROVE  \A t : t \in NodesUpto(X)[d] <=> t \in X \/ \E x \in X : t \in NodesUpto(x.children)[d - 1]
<1>1. d - 1 \in 0..(Deepest - 1) /\ (d - 1) + 1 = d
  BY DeepestIs
<1>2. \A t : t \in NodesUpto(X)[(d - 1) + 1]
               <=> t \in X \/ \E x \in X : t \in NodesUpto(x.children)[d - 1]
  BY <1>1, NodesOfOne
<1> QED
  BY <1>1, <1>2

LEMMA NodeLength ==
  ASSUME NEW n \in Node
  PROVE  n \in Seq(Key \cup {Any}) /\ Len(n) \in 0..Depth
<1>1. PICK r \in Route : \E c \in r.branches : \E k \in 0..Depth : n = Upto(c, k)
  BY DEF Node
<1>2. PICK c \in r.branches, k \in 0..Depth : n = Upto(c, k)
  BY <1>1
<1>3. c \in Seq(Key \cup {Any}) /\ Len(c) = Depth /\ Depth \in Nat
  BY BranchIsSeq, RouterAssumption
<1> QED
  BY <1>2, <1>3 DEF Upto

LEMMA ChildIsNode ==
  ASSUME NEW n \in Node, NEW m \in Children(n)
  PROVE  m \in Node /\ Len(m) = Len(n) + 1 /\ Upto(m, Len(n)) = n /\ m[Len(m)] # Any /\ count[m] > 0
BY DEF Children, Kin

LEMMA ChildIsAppend ==
  ASSUME NEW n \in Node, NEW m \in Children(n)
  PROVE  Append(n, m[Len(m)]) = m
<1>1. m \in Node /\ Len(m) = Len(n) + 1 /\ Upto(m, Len(n)) = n
  BY ChildIsNode
<1>2. n \in Seq(Key \cup {Any}) /\ m \in Seq(Key \cup {Any}) /\ Len(n) \in Nat
  BY <1>1, NodeLength
<1>3. m[Len(m)] \in Key \cup {Any} /\ Len(Append(n, m[Len(m)])) = Len(m)
  BY <1>1, <1>2
<1>4. ASSUME NEW k \in 1..Len(m) PROVE Append(n, m[Len(m)])[k] = m[k]
  <2>1. \A l \in 1..Len(n) : Upto(m, Len(n))[l] = m[l]
    BY <1>1, <1>2 DEF Upto
  <2> QED
    BY <1>1, <1>2, <1>3, <2>1
<1> QED
  BY <1>1, <1>2, <1>3, <1>4

(* What is said of a matcher depends on what is said of its children only. *)
LEMMA TraceOneAgrees ==
  ASSUME NEW q, NEW always, NEW n \in Node, NEW f, NEW g,
         \A m \in Node : Len(m) = Len(n) + 1 => f[m] = g[m]
  PROVE  TraceOne(n, q, always, f) = TraceOne(n, q, always, g)
<1> DEFINE named(h) == {TraceChild(m, q, h[m]) : m \in Named(n, q)}
           traces(h) == named(h) \cup TraceHosts(n, q, h) \cup NoChild(n, q)
           any(h) == IF AnyChild(n) \in Node /\ AsksAny(n, traces(h), always)
                     THEN h[AnyChild(n)] ELSE {}
<1>1. \A m \in Children(n) : f[m] = g[m]
  BY ChildIsNode
<1>2. named(f) = named(g)
  BY <1>1 DEF Named
<1>3. HostLeaves(n, q, f) = HostLeaves(n, q, g)
  <2> DEFINE regexes == {m[Len(m)] : m \in {k \in Children(n) : IsRegex(k)}}
  <2>1. ASSUME NEW r \in regexes PROVE f[Append(n, r)] = g[Append(n, r)]
    <3>1. PICK m \in Children(n) : r = m[Len(m)]
      OBVIOUS
    <3>2. Append(n, r) = m
      BY <3>1, ChildIsAppend
    <3> QED
      BY <1>1, <3>2
  <2> HIDE DEF regexes
  <2>2. [r \in regexes |-> TraceNode(q \in Meets[r], TRUE, 1,
                                     IF q \in Meets[r] THEN f[Append(n, r)] ELSE {}, {})]
        = [r \in regexes |-> TraceNode(q \in Meets[r], TRUE, 1,
                                       IF q \in Meets[r] THEN g[Append(n, r)] ELSE {}, {})]
    BY <2>1
  <2> QED
    BY <2>2 DEF HostLeaves, regexes
<1>4. traces(f) = traces(g)
  BY <1>2, <1>3 DEF TraceHosts
<1>5. any(f) = any(g)
  <2>1. AnyChild(n) \in Node => f[AnyChild(n)] = g[AnyChild(n)]
    <3>1. Len(AnyChild(n)) = Len(n) + 1
      BY NodeLength DEF AnyChild
    <3> QED
      BY <3>1
  <2> HIDE DEF traces
  <2> QED
    BY <1>4, <2>1
<1>6. \A h : TraceOne(n, q, always, h) = IF Len(n) = Depth THEN TracePaths(n, q) ELSE traces(h) \cup any(h)
  BY DEF TraceOne
<1> HIDE DEF traces, any
<1> QED
  BY <1>4, <1>5, <1>6

NodesFrom(l) == {n \in Node : Len(n) >= l}

Tracing(q, always, l, f) == f = [n \in NodesFrom(l) |-> TraceOne(n, q, always, f)]

LEMMA TraceExists ==
  ASSUME NEW q, NEW always
  PROVE  \E f : Tracing(q, always, 0, f)
<1> DEFINE S == {l \in 0..(Depth + 1) : \E f : Tracing(q, always, l, f)}
<1>1. Depth \in Nat
  BY RouterAssumption
<1>2. Depth + 1 \in S
  <2>1. NodesFrom(Depth + 1) = {}
    BY <1>1, NodeLength DEF NodesFrom
  <2> DEFINE f == [n \in {} |-> {}]
  <2>2. Tracing(q, always, Depth + 1, f)
    BY <2>1 DEF Tracing
  <2> QED
    BY <1>1, <2>2
<1>3. PICK l \in S : \A k \in S : l <= k
  <2>1. S \subseteq Nat /\ S # {}
    BY <1>2
  <2> HIDE DEF S
  <2> QED
    BY <2>1, Least
<1>4. l \in 0..(Depth + 1)
  OBVIOUS
<1>5. CASE l = 0
  BY <1>5
<1>6. CASE l # 0
  <2>1. PICK g : Tracing(q, always, l, g)
    OBVIOUS
  <2> DEFINE f == [n \in NodesFrom(l - 1) |-> IF Len(n) >= l THEN g[n] ELSE TraceOne(n, q, always, g)]
  <2>2. ASSUME NEW n \in NodesFrom(l - 1) PROVE f[n] = TraceOne(n, q, always, f)
    <3>1. n \in Node /\ Len(n) \in Nat /\ Len(n) >= l - 1 /\ l \in Nat
      BY <1>4, NodeLength DEF NodesFrom
    <3>2. \A m \in Node : Len(m) = Len(n) + 1 => f[m] = g[m]
      <4> SUFFICES ASSUME NEW m \in Node, Len(m) = Len(n) + 1 PROVE f[m] = g[m]
        OBVIOUS
      <4>1. m \in NodesFrom(l - 1) /\ Len(m) >= l
        BY <3>1 DEF NodesFrom
      <4> QED
        BY <4>1
    <3>3. TraceOne(n, q, always, f) = TraceOne(n, q, always, g)
      <4> HIDE DEF f
      <4> QED
        BY <3>1, <3>2, TraceOneAgrees
    <3>4. CASE Len(n) >= l
      <4>1. n \in NodesFrom(l)
        BY <3>1, <3>4 DEF NodesFrom
      <4>2. g[n] = TraceOne(n, q, always, g)
        BY <2>1, <4>1 DEF Tracing
      <4>3. f[n] = g[n]
        BY <3>4
      <4> QED
        BY <3>3, <4>2, <4>3
    <3>5. CASE ~ (Len(n) >= l)
      <4>1. f[n] = TraceOne(n, q, always, g)
        BY <3>5
      <4> QED
        BY <3>3, <4>1
    <3> QED
      BY <3>4, <3>5
  <2>3. f = [n \in NodesFrom(l - 1) |-> f[n]]
    OBVIOUS
  <2>4. Tracing(q, always, l - 1, f)
    <3> HIDE DEF f
    <3> QED
      BY <2>2, <2>3 DEF Tracing
  <2>5. l - 1 \in 0..(Depth + 1) /\ ~ (l <= l - 1)
    BY <1>1, <1>4, <1>6
  <2>6. l - 1 \in S
    BY <2>4, <2>5
  <2> QED
    BY <1>3, <2>5, <2>6
<1> QED
  BY <1>5, <1>6

LEMMA TraceIs ==
  ASSUME NEW q, NEW always, NEW n \in Node
  PROVE  TraceMatcher(q, always)[n] = TraceOne(n, q, always, TraceMatcher(q, always))
<1> DEFINE trace == CHOOSE f : Tracing(q, always, 0, f)
<1>1. NodesFrom(0) = Node
  BY NodeLength DEF NodesFrom
<1>2. Tracing(q, always, 0, trace)
  BY TraceExists
<1>3. TraceMatcher(q, always) = trace
  BY <1>1 DEF TraceMatcher, Tracing
<1> HIDE DEF trace
<1>4. trace = [m \in Node |-> TraceOne(m, q, always, trace)]
  BY <1>1, <1>2 DEF Tracing
<1> QED
  BY <1>3, <1>4

(* What a request reaches from a matcher, and finds.                       *)
Reach(n, q) ==
  {e \in stored : /\ Under(n, e.branch)
                  /\ \A l \in (Len(n) + 1)..Depth : Met(e.branch[l], q)
                  /\ q \in Meets[e.route.path]}

AskedIn(e, n, q, always) ==
  \/ Len(n) >= Host \/ always \/ e.branch[Host] # Any
  \/ \A f \in Reach(n, q) : Under(Upto(e.branch, Host - 1), f.branch) => f.branch[Host] = Any

Told(n, q, always) == {e.route : e \in {f \in Reach(n, q) : AskedIn(f, n, q, always)}}

IsBelow(m, n) == m \in Node /\ Len(m) = Len(n) + 1 /\ Upto(m, Len(n)) = n

(* An entry that is reached is reached through one child.                  *)
LEMMA ReachedThrough ==
  ASSUME stored \subseteq Entry, CountsCover, NEW q,
         NEW n \in Node, Len(n) < Depth, NEW e \in Reach(n, q), NEW m, m = Upto(e.branch, Len(n) + 1)
  PROVE  /\ IsBelow(m, n) /\ m[Len(m)] = e.branch[Len(m)]
         /\ Met(m[Len(m)], q) /\ e \in Reach(m, q)
         /\ m[Len(m)] # Any => m \in Children(n)
         /\ m[Len(m)] = Any => m = AnyChild(n)
<1> DEFINE b == e.branch
           l == Len(n)
<1>1. e \in Entry /\ Under(n, b) /\ (\A k \in (l + 1)..Depth : Met(b[k], q)) /\ q \in Meets[e.route.path]
      /\ e \in stored
  BY DEF Reach
<1>2. b \in Seq(Key \cup {Any}) /\ Len(b) = Depth /\ Depth \in Nat
  BY <1>1, EntryBranch, RouterAssumption
<1>3. n \in Seq(Key \cup {Any}) /\ l \in 0..Depth /\ n = Upto(b, l) /\ \A k \in 1..l : n[k] = b[k]
  BY <1>1, <1>2, NodeLength, NodeOfBranch
<1>4. /\ m \in Seq(Key \cup {Any}) /\ Len(m) = l + 1
      /\ \A k \in 1..(l + 1) : m[k] = b[k]
  BY <1>2, <1>3 DEF Upto
<1>5. m \in Node
  <2>1. e.route \in Route /\ b \in e.route.branches /\ l + 1 \in 0..Depth
    BY <1>1, <1>2, <1>3, EntryBranch
  <2>2. Upto(b, l + 1) \in Node
    BY <2>1, UptoIsNode, Zenon
  <2> QED
    BY <2>2
<1>6. Upto(m, l) = n
  <2>1. l \in Nat /\ l <= Len(m) /\ l <= Len(b) /\ \A k \in 1..l : m[k] = b[k]
    BY <1>2, <1>3, <1>4
  <2>2. Upto(m, l) = Upto(b, l)
    BY <1>2, <1>4, <2>1, SameUpto
  <2> QED
    BY <1>3, <2>2
<1>7. Under(m, b) /\ m[Len(m)] = b[Len(m)]
  BY <1>2, <1>3, <1>4 DEF Under
<1>8. Met(m[Len(m)], q)
  BY <1>1, <1>2, <1>3, <1>4, <1>7
<1>9. e \in Reach(m, q)
  <2>1. \A k \in (Len(m) + 1)..Depth : k \in (l + 1)..Depth
    BY <1>3, <1>4
  <2>2. \A k \in (Len(m) + 1)..Depth : Met(b[k], q)
    BY <1>1, <2>1
  <2> QED
    BY <1>1, <1>7, <2>2, Zenon DEF Reach
<1>10. ASSUME m[Len(m)] # Any PROVE m \in Children(n)
  <2>1. count[m] > 0
    BY <1>1, <1>5, <1>7 DEF CountsCover
  <2> QED
    BY <1>4, <1>5, <1>6, <1>10, <2>1 DEF Children, Kin
<1>11. ASSUME m[Len(m)] = Any PROVE m = AnyChild(n)
  <2>1. /\ AnyChild(n) \in Seq(Key \cup {Any}) /\ Len(AnyChild(n)) = l + 1
        /\ AnyChild(n)[l + 1] = Any /\ \A k \in 1..l : AnyChild(n)[k] = n[k]
    BY <1>3 DEF AnyChild
  <2>2. \A k \in 1..(l + 1) : m[k] = AnyChild(n)[k]
    BY <1>3, <1>4, <1>11, <2>1
  <2> QED
    BY <1>3, <1>4, <2>1, <2>2
<1> QED
  BY <1>4, <1>5, <1>6, <1>7, <1>8, <1>9, <1>10, <1>11 DEF IsBelow

LEMMA ReachedFrom ==
  ASSUME stored \subseteq Entry, NEW q, NEW n \in Node, NEW m, IsBelow(m, n),
         Met(m[Len(m)], q), NEW e \in Reach(m, q)
  PROVE  e \in Reach(n, q) /\ e.branch[Len(m)] = m[Len(m)] /\ e \in Entry /\ m = Upto(e.branch, Len(m))
<1> DEFINE b == e.branch
           l == Len(n)
<1>1. e \in Entry /\ Under(m, b) /\ (\A k \in (Len(m) + 1)..Depth : Met(b[k], q))
      /\ q \in Meets[e.route.path] /\ e \in stored
  BY DEF Reach
<1>2. b \in Seq(Key \cup {Any}) /\ Len(b) = Depth /\ Depth \in Nat
  BY <1>1, EntryBranch, RouterAssumption
<1>3. n \in Seq(Key \cup {Any}) /\ l \in 0..Depth
  BY NodeLength
<1>4. m \in Seq(Key \cup {Any}) /\ Len(m) = l + 1 /\ Upto(m, l) = n /\ m \in Node
  BY NodeLength DEF IsBelow
<1>5. \A k \in 1..(l + 1) : m[k] = b[k]
  BY <1>1, <1>4 DEF Under
<1>6. m = Upto(b, Len(m)) /\ l + 1 <= Depth
  BY <1>1, <1>2, <1>4, NodeOfBranch
<1>7. \A k \in 1..l : n[k] = m[k]
  <2>1. \A k \in 1..l : Upto(m, l)[k] = m[k]
    BY <1>3, <1>4 DEF Upto
  <2> QED
    BY <1>4, <2>1
<1>8. Under(n, b)
  <2>1. \A k \in 1..l : n[k] = b[k]
    BY <1>3, <1>5, <1>7
  <2> QED
    BY <1>2, <1>3, <2>1 DEF Under
<1>9. \A k \in (l + 1)..Depth : Met(b[k], q)
  <2> SUFFICES ASSUME NEW k \in (l + 1)..Depth PROVE Met(b[k], q)
    OBVIOUS
  <2>1. CASE k = l + 1
    <3>1. b[k] = m[Len(m)]
      BY <1>3, <1>4, <1>5, <2>1
    <3> QED
      BY <3>1
  <2>2. CASE k # l + 1
    <3>1. k \in (Len(m) + 1)..Depth
      BY <1>2, <1>3, <1>4, <2>2
    <3> QED
      BY <1>1, <3>1
  <2> QED
    BY <2>1, <2>2
<1>10. e \in Reach(n, q)
  BY <1>1, <1>8, <1>9 DEF Reach
<1> QED
  BY <1>1, <1>3, <1>4, <1>5, <1>6, <1>10

(* The fallback to any host is decided in the HostMatcher; above it and    *)
(* below it a matcher and its child are of one mind.                       *)
LEMMA AskedBelow ==
  ASSUME stored \subseteq Entry, CountsCover, NEW q, NEW always,
         NEW n \in Node, Len(n) < Depth, NEW m, IsBelow(m, n), Met(m[Len(m)], q), NEW e \in Reach(m, q)
  PROVE  /\ Len(m) # Host => (AskedIn(e, n, q, always) <=> AskedIn(e, m, q, always))
         /\ Len(m) = Host => /\ AskedIn(e, m, q, always)
                             /\ AskedIn(e, n, q, always)
                                  <=> \/ always \/ m[Len(m)] # Any
                                      \/ \A f \in Reach(n, q) : f.branch[Host] = Any
<1> DEFINE b == e.branch
<1>1. Host \in 1..Depth /\ Depth \in Nat
  BY RouterAssumption DEF Level
<1>2. Len(n) \in 0..Depth /\ Len(m) = Len(n) + 1
  BY NodeLength DEF IsBelow
<1>3. e \in Reach(n, q) /\ b[Len(m)] = m[Len(m)] /\ e \in Entry /\ m = Upto(b, Len(m))
  BY ReachedFrom
<1>4. b \in Seq(Key \cup {Any}) /\ Len(b) = Depth
  BY <1>3, EntryBranch
<1>5. \A f \in Reach(n, q) : f \in Entry /\ f.branch \in Seq(Key \cup {Any}) /\ Len(f.branch) = Depth
  BY EntryBranch DEF Reach
<1>6. CASE Len(m) > Host
  BY <1>1, <1>2, <1>6 DEF AskedIn
<1>7. CASE Len(m) < Host
  <2>1. Reach(m, q) \subseteq Reach(n, q)
    BY ReachedFrom
  <2>2. ASSUME NEW f \in Reach(n, q), Under(Upto(b, Host - 1), f.branch)
        PROVE  f \in Reach(m, q)
    <3>1. /\ Len(Upto(b, Host - 1)) = Host - 1
          /\ \A k \in 1..(Host - 1) : Upto(b, Host - 1)[k] = b[k]
      BY <1>1, <1>4 DEF Upto
    <3>2. \A k \in 1..(Host - 1) : b[k] = f.branch[k]
      BY <2>2, <3>1 DEF Under
    <3>3. \A k \in 1..Len(m) : b[k] = f.branch[k]
      BY <1>1, <1>2, <1>7, <3>2
    <3>4. Upto(f.branch, Len(m)) = m
      <4>1. Len(m) \in Nat /\ Len(m) <= Len(b) /\ Len(m) <= Len(f.branch)
        BY <1>1, <1>2, <1>4, <1>5
      <4>2. Upto(b, Len(m)) = Upto(f.branch, Len(m))
        BY <1>4, <1>5, <3>3, <4>1, SameUpto
      <4> QED
        BY <1>3, <4>2
    <3> QED
      BY <1>2, <3>4, ReachedThrough
  <2>3. ~ (Len(n) >= Host) /\ ~ (Len(m) >= Host) /\ Len(m) # Host
    BY <1>1, <1>2, <1>7
  <2> QED
    BY <2>1, <2>2, <2>3 DEF AskedIn
<1>8. CASE Len(m) = Host
  <2>1. Len(n) = Host - 1 /\ ~ (Len(n) >= Host) /\ Len(m) >= Host
    BY <1>1, <1>2, <1>8
  <2>2. AskedIn(e, m, q, always)
    BY <2>1 DEF AskedIn
  <2>3. Upto(b, Host - 1) = n
    <3>1. Under(n, b)
      BY <1>3 DEF Reach
    <3> QED
      BY <1>4, <2>1, <3>1, NodeOfBranch
  <2>4. \A f \in Reach(n, q) : Under(Upto(b, Host - 1), f.branch)
    BY <2>3 DEF Reach
  <2>5. b[Host] = m[Len(m)]
    BY <1>3, <1>8
  <2> QED
    BY <2>1, <2>2, <2>4, <2>5, <1>8 DEF AskedIn
<1> QED
  BY <1>1, <1>2, <1>6, <1>7, <1>8

(* What is found under a matcher is what is found under its children that  *)
(* are met, and under the one without a condition, if it is asked.         *)
MetKin(n, q) == {m \in Children(n) : Met(m[Len(m)], q)}

FromKin(n, q, always) == UNION {Told(m, q, always) : m \in MetKin(n, q)}

FromAny(n, q, always) == IF AnyChild(n) \in Node THEN Told(AnyChild(n), q, always) ELSE {}

LEMMA ToldOfChildren ==
  ASSUME stored \subseteq Entry, CountsCover, NEW q, NEW always, NEW n \in Node, Len(n) < Depth
  PROVE  Told(n, q, always)
           = FromKin(n, q, always)
               \cup (IF Len(n) + 1 # Host \/ always \/ FromKin(n, q, always) = {}
                     THEN FromAny(n, q, always) ELSE {})
<1> DEFINE kin == FromKin(n, q, always)
           any == IF Len(n) + 1 # Host \/ always \/ kin = {} THEN FromAny(n, q, always) ELSE {}
<1>1. n \in Seq(Key \cup {Any}) /\ Len(n) \in 0..Depth /\ Depth \in Nat
  BY NodeLength, RouterAssumption
<1>2. \A m \in MetKin(n, q) : IsBelow(m, n) /\ Met(m[Len(m)], q) /\ m[Len(m)] # Any
  BY ChildIsNode DEF MetKin, IsBelow
<1>3. ASSUME AnyChild(n) \in Node
      PROVE  IsBelow(AnyChild(n), n) /\ Met(AnyChild(n)[Len(AnyChild(n))], q)
             /\ AnyChild(n)[Len(AnyChild(n))] = Any
  <2>1. /\ AnyChild(n) \in Seq(Key \cup {Any}) /\ Len(AnyChild(n)) = Len(n) + 1
        /\ AnyChild(n)[Len(n) + 1] = Any /\ \A k \in 1..Len(n) : AnyChild(n)[k] = n[k]
    BY <1>1 DEF AnyChild
  <2>2. /\ Upto(AnyChild(n), Len(n)) \in Seq(Key \cup {Any}) /\ Len(Upto(AnyChild(n), Len(n))) = Len(n)
        /\ \A k \in 1..Len(n) : Upto(AnyChild(n), Len(n))[k] = AnyChild(n)[k]
    BY <1>1, <2>1 DEF Upto
  <2>3. Upto(AnyChild(n), Len(n)) = n
    BY <1>1, <2>1, <2>2
  <2> QED
    BY <1>3, <2>1, <2>3 DEF IsBelow, Met
(* In a HostMatcher: whether another host has been found.                  *)
<1>4. ASSUME Len(n) + 1 = Host
      PROVE  kin = {} <=> \A f \in Reach(n, q) : f.branch[Host] = Any
  <2>1. ASSUME NEW f \in Reach(n, q), f.branch[Host] # Any PROVE kin # {}
    <3> DEFINE m == Upto(f.branch, Len(n) + 1)
    <3>1. IsBelow(m, n) /\ m[Len(m)] = f.branch[Len(m)] /\ Met(m[Len(m)], q) /\ f \in Reach(m, q)
          /\ (m[Len(m)] # Any => m \in Children(n))
      BY ReachedThrough
    <3>2. Len(m) = Host
      BY <1>4, <3>1 DEF IsBelow
    <3>3. m \in MetKin(n, q)
      BY <2>1, <3>1, <3>2 DEF MetKin
    <3>4. AskedIn(f, m, q, always)
      BY <3>1, <3>2, AskedBelow
    <3>5. f.route \in Told(m, q, always)
      BY <3>1, <3>4 DEF Told
    <3> QED
      BY <3>3, <3>5 DEF FromKin
  <2>2. ASSUME NEW m \in MetKin(n, q), NEW r \in Told(m, q, always)
        PROVE  \E f \in Reach(n, q) : f.branch[Host] # Any
    <3>1. PICK f \in Reach(m, q) : f.route = r
      BY DEF Told
    <3>2. IsBelow(m, n) /\ Met(m[Len(m)], q) /\ m[Len(m)] # Any
      BY <1>2
    <3>3. f \in Reach(n, q) /\ f.branch[Len(m)] = m[Len(m)]
      BY <3>2, ReachedFrom
    <3>4. Len(m) = Host
      BY <1>4, <3>2 DEF IsBelow
    <3> QED
      BY <3>2, <3>3, <3>4
  <2> QED
    BY <2>1, <2>2 DEF FromKin
<1>5. ASSUME NEW r \in Told(n, q, always) PROVE r \in kin \cup any
  <2>1. PICK e \in Reach(n, q) : e.route = r /\ AskedIn(e, n, q, always)
    BY DEF Told
  <2> DEFINE m == Upto(e.branch, Len(n) + 1)
  <2>2. IsBelow(m, n) /\ m[Len(m)] = e.branch[Len(m)] /\ Met(m[Len(m)], q) /\ e \in Reach(m, q)
        /\ (m[Len(m)] # Any => m \in Children(n)) /\ (m[Len(m)] = Any => m = AnyChild(n))
    BY ReachedThrough
  <2> HIDE DEF m
  <2>3. AskedIn(e, m, q, always)
    BY <2>1, <2>2, AskedBelow
  <2>4. r \in Told(m, q, always)
    BY <2>1, <2>2, <2>3 DEF Told
  <2>5. CASE m[Len(m)] # Any
    <3>1. m \in MetKin(n, q)
      BY <2>2, <2>5 DEF MetKin
    <3> QED
      BY <2>4, <3>1 DEF FromKin
  <2>6. CASE m[Len(m)] = Any
    <3>1. m = AnyChild(n) /\ AnyChild(n) \in Node
      BY <2>2, <2>6 DEF IsBelow
    <3>2. r \in FromAny(n, q, always)
      BY <2>4, <3>1 DEF FromAny
    <3>3. Len(n) + 1 # Host \/ always \/ kin = {}
      <4>1. SUFFICES ASSUME Len(n) + 1 = Host PROVE always \/ kin = {}
        OBVIOUS
      <4>2. Len(m) = Host
        BY <2>2, <4>1 DEF IsBelow
      <4>3. always \/ \A f \in Reach(n, q) : f.branch[Host] = Any
        BY <2>1, <2>2, <2>6, <4>2, AskedBelow
      <4> QED
        BY <1>4, <4>1, <4>3
    <3> QED
      BY <3>2, <3>3
  <2> QED
    BY <2>5, <2>6
<1>6. ASSUME NEW m, IsBelow(m, n), Met(m[Len(m)], q), NEW r \in Told(m, q, always),
             Len(m) # Host \/ always \/ m[Len(m)] # Any \/ \A f \in Reach(n, q) : f.branch[Host] = Any
      PROVE  r \in Told(n, q, always)
  <2>1. PICK e \in Reach(m, q) : e.route = r /\ AskedIn(e, m, q, always)
    BY DEF Told
  <2>2. e \in Reach(n, q)
    BY <1>6, ReachedFrom
  <2>3. AskedIn(e, n, q, always)
    BY <1>6, <2>1, AskedBelow
  <2> QED
    BY <2>1, <2>2, <2>3 DEF Told
<1>7. kin \subseteq Told(n, q, always)
  BY <1>2, <1>6 DEF FromKin
<1>8. any \subseteq Told(n, q, always)
  <2> SUFFICES ASSUME NEW r \in any PROVE r \in Told(n, q, always)
    OBVIOUS
  <2>1. AnyChild(n) \in Node /\ r \in Told(AnyChild(n), q, always)
        /\ (Len(n) + 1 # Host \/ always \/ kin = {})
    BY DEF FromAny
  <2>2. IsBelow(AnyChild(n), n) /\ Met(AnyChild(n)[Len(AnyChild(n))], q)
    BY <1>3, <2>1
  <2>3. Len(AnyChild(n)) = Len(n) + 1
    BY <2>2 DEF IsBelow
  <2>4. Len(AnyChild(n)) # Host \/ always \/ \A f \in Reach(n, q) : f.branch[Host] = Any
    BY <1>4, <2>1, <2>3
  <2> QED
    BY <1>6, <2>1, <2>2, <2>4
<1> QED
  BY <1>5, <1>7, <1>8

(* Traces that lie within so many levels, and what they show: the routes   *)
(* of these levels and of any more, each below what was met and asked.     *)
Held(t) == t.storage \cup RoutesOf(t.children) # {} => t.matched /\ t.executed

Shows(traces, levels, rs) ==
  \A d \in levels..Deepest :
    /\ UNION {t.storage : t \in NodesUpto(traces)[d]} = rs
    /\ \A t \in NodesUpto(traces)[d] : Held(t)

LEMMA ShowsNothing ==
  ASSUME NEW h \in Nat
  PROVE  Shows({}, h, {}) /\ (\A d \in 0..Deepest : NodesUpto({})[d] = {}) /\ RoutesOf({}) = {}
<1>1. Deepest \in Nat
  BY DeepestIs
<1>2. ASSUME NEW d \in 0..Deepest PROVE NodesUpto({})[d] = {}
  <2>1. CASE d = 0
    BY <2>1, NodesUptoIs
  <2>2. CASE d # 0
    <3>1. d \in 1..Deepest
      BY <1>1, <2>2
    <3>2. \A t : t \notin NodesUpto({})[d]
      <4> DEFINE X == {}
      <4>1. \A t : t \in NodesUpto(X)[d] <=> t \in X \/ \E x \in X : t \in NodesUpto(x.children)[d - 1]
        BY <3>1, NodesBelow
      <4> QED
        BY <4>1
    <3> QED
      BY <3>2
  <2> QED
    BY <2>1, <2>2
<1>3. RoutesOf({}) = {}
  BY <1>1, <1>2 DEF RoutesOf, NodesOf
<1>4. \A d \in h..Deepest : d \in 0..Deepest
  BY <1>1
<1> QED
  BY <1>2, <1>3, <1>4 DEF Shows

LEMMA ShowsMore ==
  ASSUME NEW h \in Nat, NEW k \in Nat, h <= k, NEW X, NEW R, Shows(X, h, R)
  PROVE  Shows(X, k, R)
<1>1. \A d \in k..Deepest : d \in h..Deepest
  BY DeepestIs
<1> QED
  BY <1>1 DEF Shows

LEMMA ShowsRoutes ==
  ASSUME NEW h \in Nat, h <= Deepest, NEW X, NEW R, Shows(X, h, R)
  PROVE  RoutesOf(X) = R
<1>1. Deepest \in h..Deepest
  BY DeepestIs
<1> QED
  BY <1>1 DEF Shows, RoutesOf, NodesOf

(* Several traces side by side.                                            *)
Joined(I, F) == UNION {F[i] : i \in I}

EachShows(I, F, h, R) == \A i \in I : Shows(F[i], h, R[i])

LEMMA ShowsAll ==
  ASSUME NEW h \in Nat, h >= 1, NEW I, NEW F, NEW R, EachShows(I, F, h, R)
  PROVE  Shows(Joined(I, F), h, Joined(I, R))
<1> USE DEF Joined, EachShows
<1> DEFINE X == UNION {F[i] : i \in I}
<1> SUFFICES ASSUME NEW d \in h..Deepest
             PROVE  /\ UNION {t.storage : t \in NodesUpto(X)[d]} = UNION {R[i] : i \in I}
                    /\ \A t \in NodesUpto(X)[d] : Held(t)
  BY DEF Shows
<1>1. d \in 1..Deepest
  BY DeepestIs
<1>2. \A t : t \in NodesUpto(X)[d] <=> \E i \in I : t \in NodesUpto(F[i])[d]
  <2>1. \A t : t \in NodesUpto(X)[d] <=> t \in X \/ \E x \in X : t \in NodesUpto(x.children)[d - 1]
    <3> HIDE DEF X
    <3> QED
      BY <1>1, NodesBelow
  <2>2. ASSUME NEW i \in I
        PROVE  \A t : t \in NodesUpto(F[i])[d]
                        <=> t \in F[i] \/ \E x \in F[i] : t \in NodesUpto(x.children)[d - 1]
    BY <1>1, NodesBelow
  <2>3. \A x : x \in X <=> \E i \in I : x \in F[i]
    OBVIOUS
  <2> HIDE DEF X
  <2> QED
    BY <2>1, <2>2, <2>3
<1>3. \A i \in I : /\ UNION {t.storage : t \in NodesUpto(F[i])[d]} = R[i]
                   /\ \A t \in NodesUpto(F[i])[d] : Held(t)
  BY DEF Shows
<1> HIDE DEF X
<1>4. \A t \in NodesUpto(X)[d] : Held(t)
  BY <1>2, <1>3
<1>5. ASSUME NEW r PROVE r \in UNION {t.storage : t \in NodesUpto(X)[d]} <=> r \in UNION {R[i] : i \in I}
  <2>1. r \in UNION {t.storage : t \in NodesUpto(X)[d]}
          <=> \E i \in I : \E t \in NodesUpto(F[i])[d] : r \in t.storage
    BY <1>2
  <2>2. \A i \in I : r \in R[i] <=> \E t \in NodesUpto(F[i])[d] : r \in t.storage
    BY <1>3
  <2> QED
    BY <2>1, <2>2
<1> QED
  BY <1>4, <1>5

LEMMA ShowsBoth ==
  ASSUME NEW h \in Nat, h >= 1, NEW X, NEW Y, NEW R, NEW S, Shows(X, h, R), Shows(Y, h, S)
  PROVE  Shows(X \cup Y, h, R \cup S)
<1> DEFINE F == [i \in {1, 2} |-> IF i = 1 THEN X ELSE Y]
           G == [i \in {1, 2} |-> IF i = 1 THEN R ELSE S]
<1>1. F[1] = X /\ F[2] = Y /\ G[1] = R /\ G[2] = S
  OBVIOUS
<1> HIDE DEF F, G
<1>2. EachShows({1, 2}, F, h, G)
  BY <1>1 DEF EachShows
<1>3. Shows(Joined({1, 2}, F), h, Joined({1, 2}, G))
  BY <1>2, ShowsAll
<1>4. Joined({1, 2}, F) = X \cup Y /\ Joined({1, 2}, G) = R \cup S
  BY <1>1 DEF Joined
<1> QED
  BY <1>3, <1>4

(* A node with traces below it, and one without.                           *)
LEMMA ShowsNode ==
  ASSUME NEW h \in Nat, h <= Deepest, NEW t, t.storage = {}, NEW R, Shows(t.children, h, R),
         R # {} => t.matched /\ t.executed
  PROVE  Shows({t}, h + 1, R)
<1> SUFFICES ASSUME NEW d \in (h + 1)..Deepest
             PROVE  /\ UNION {s.storage : s \in NodesUpto({t})[d]} = R
                    /\ \A s \in NodesUpto({t})[d] : Held(s)
  BY DEF Shows
<1>1. d \in 1..Deepest /\ d - 1 \in h..Deepest
  BY DeepestIs
<1>2. \A s : s \in NodesUpto({t})[d] <=> s \in {t} \/ \E x \in {t} : s \in NodesUpto(x.children)[d - 1]
  BY <1>1, NodesBelow
<1>3. NodesUpto({t})[d] = {t} \cup NodesUpto(t.children)[d - 1]
  BY <1>2
<1>4. /\ UNION {s.storage : s \in NodesUpto(t.children)[d - 1]} = R
      /\ \A s \in NodesUpto(t.children)[d - 1] : Held(s)
  BY <1>1 DEF Shows
<1>5. Held(t)
  <2>1. RoutesOf(t.children) = R
    BY ShowsRoutes
  <2> QED
    BY <2>1 DEF Held
<1> QED
  BY <1>3, <1>4, <1>5

LEMMA ShowsLeaf ==
  ASSUME NEW t, t.children = {}, t.storage # {} => t.matched /\ t.executed
  PROVE  Shows({t}, 1, t.storage)
<1> SUFFICES ASSUME NEW d \in 1..Deepest
             PROVE  /\ UNION {s.storage : s \in NodesUpto({t})[d]} = t.storage
                    /\ \A s \in NodesUpto({t})[d] : Held(s)
  BY DEF Shows
<1>1. d - 1 \in 0..Deepest
  BY DeepestIs
<1>2. NodesUpto(t.children)[d - 1] = {} /\ RoutesOf(t.children) = {}
  <2>1. 0 \in Nat
    OBVIOUS
  <2>2. (\A k \in 0..Deepest : NodesUpto({})[k] = {}) /\ RoutesOf({}) = {}
    BY <2>1, ShowsNothing
  <2> QED
    BY <1>1, <2>2
<1>3. \A s : s \in NodesUpto({t})[d] <=> s \in {t} \/ \E x \in {t} : s \in NodesUpto(x.children)[d - 1]
  BY NodesBelow
<1>4. NodesUpto({t})[d] = {t}
  BY <1>2, <1>3
<1> QED
  BY <1>2, <1>4 DEF Held

(* The radix tree shows what its regexes show: those of them that match    *)
(* are tried.                                                              *)
EachLeaf(regexes, leaf, h, R, q) ==
  \A r \in regexes : /\ Shows({leaf[r]}, h, R[r])
                     /\ leaf[r].matched <=> q \in Meets[r]
                     /\ R[r] # {} => q \in Meets[r]

LEMMA ShowsTree ==
  ASSUME NEW n \in Node, NEW q \in Traced, NEW leaf, NEW size, NEW h \in Nat, h >= 1, h + 2 <= Deepest,
         NEW regexes \in (SUBSET RegexHost) \cup (SUBSET RegexPath), DOMAIN leaf = regexes, NEW R,
         EachLeaf(regexes, leaf, h, R, q)
  PROVE  Shows({RegexNode(TraceTree(n, leaf, size, q))}, h + 2, Joined(regexes, R))
<1> USE DEF EachLeaf
<1> DEFINE tree == TraceTree(n, leaf, size, q)
           rs == UNION {R[r] : r \in regexes}
           begun == Begun(n, regexes, q)
<1>1. /\ Tried(n, regexes, q) \subseteq regexes
      /\ \A r \in regexes : q \in Meets[r] => begun /\ r \in Tried(n, regexes, q)
  BY TraceAssumption
<1>2. Deepest \in Nat /\ h + 1 \in Nat /\ h <= Deepest /\ h + 1 <= Deepest /\ 1 <= h + 1 /\ h + 2 = (h + 1) + 1
  BY DeepestIs
<1>3. Shows({tree}, h + 1, rs) /\ (rs # {} => tree.matched)
  <2>1. CASE regexes = {}
    <3>1. tree = TraceNode(TRUE, TRUE, 0, {}, {})
      BY <2>1 DEF TraceTree
    <3>2. tree.children = {} /\ tree.storage = {}
      BY <3>1 DEF TraceNode
    <3>3. Shows({tree}, 1, {})
      <4> HIDE DEF tree
      <4> QED
        BY <3>2, ShowsLeaf
    <3>4. rs = {}
      BY <2>1
    <3> HIDE DEF tree
    <3> QED
      BY <1>2, <3>3, <3>4, ShowsMore
  <2>2. CASE \E r \in regexes : regexes = {r}
    <3>1. PICK r : regexes = {r}
      BY <2>2
    <3>2. tree = leaf[CHOOSE s \in regexes : TRUE]
      BY <2>2, <3>1 DEF TraceTree
    <3>3. tree = leaf[r]
      <4>1. (CHOOSE s \in regexes : TRUE) = r
        BY <3>1
      <4> QED
        BY <3>2, <4>1
    <3>4. rs = R[r]
      BY <3>1
    <3> HIDE DEF tree, rs
    <3>5. Shows({tree}, h, rs)
      BY <3>1, <3>3, <3>4
    <3>6. rs # {} => tree.matched
      BY <3>1, <3>3, <3>4
    <3> QED
      BY <1>2, <3>5, <3>6, ShowsMore
  <2>3. CASE regexes # {} /\ ~ \E r \in regexes : regexes = {r}
    <3> DEFINE below == IF begun THEN {leaf[r] : r \in Tried(n, regexes, q)} ELSE {}
    <3>1. tree = TraceNode(begun, TRUE, size, below, {})
      BY <2>3 DEF TraceTree
    <3>2. tree.storage = {} /\ tree.children = below /\ tree.matched = begun /\ tree.executed
      BY <3>1 DEF TraceNode
    <3>3. rs # {} => begun
      <4>1. SUFFICES ASSUME NEW x \in rs PROVE begun
        OBVIOUS
      <4>2. PICK r \in regexes : x \in R[r]
        OBVIOUS
      <4>3. q \in Meets[r]
        BY <4>2
      <4> QED
        BY <1>1, <4>3
    <3>4. Shows(below, h, rs)
      <4>1. CASE begun
        <5> DEFINE asked == Tried(n, regexes, q)
                   F == [r \in asked |-> {leaf[r]}]
        <5>1. EachShows(asked, F, h, R)
          BY <1>1 DEF EachShows
        <5>2. Shows(Joined(asked, F), h, Joined(asked, R))
          <6> HIDE DEF F, asked
          <6> QED
            BY <5>1, ShowsAll
        <5>3. Joined(asked, F) = below
          BY <4>1 DEF Joined
        <5>4. Joined(asked, R) = rs
          <6>1. ASSUME NEW r \in regexes, NEW x \in R[r] PROVE r \in asked
            <7>1. q \in Meets[r]
              BY <6>1
            <7> QED
              BY <1>1, <7>1
          <6>2. asked \subseteq regexes
            BY <1>1
          <6> HIDE DEF asked
          <6> QED
            BY <6>1, <6>2 DEF Joined
        <5> QED
          BY <5>2, <5>3, <5>4
      <4>2. CASE ~ begun
        <5>1. below = {} /\ rs = {}
          BY <3>3, <4>2
        <5> HIDE DEF below, rs
        <5> QED
          BY <5>1, ShowsNothing
      <4> QED
        BY <4>1, <4>2
    <3> HIDE DEF tree, rs, below, begun
    <3>5. tree.matched => rs = {} \/ tree.matched
      OBVIOUS
    <3>6. rs # {} => tree.matched /\ tree.executed
      BY <3>2, <3>3, Zenon
    <3>7. Shows({tree}, h + 1, rs)
      BY <1>2, <3>2, <3>4, <3>6, ShowsNode
    <3> QED
      BY <3>6, <3>7
  <2> QED
    BY <2>1, <2>2, <2>3
<1>4. /\ RegexNode(tree).storage = {} /\ RegexNode(tree).children = {tree}
      /\ RegexNode(tree).matched = tree.matched /\ RegexNode(tree).executed
  BY DEF RegexNode, TraceNode
<1> HIDE DEF tree, rs
<1>5. rs # {} => RegexNode(tree).matched /\ RegexNode(tree).executed
  BY <1>3, <1>4, Zenon
<1>6. Shows({RegexNode(tree)}, (h + 1) + 1, rs)
  BY <1>2, <1>3, <1>4, <1>5, ShowsNode
<1> QED
  BY <1>2, <1>6 DEF tree, rs, Joined

(* What is stored under a path, and shown if it matches.                   *)
LEMMA ShowsStorage ==
  ASSUME NEW met \in BOOLEAN, NEW found
  PROVE  Shows({StorageNode(met, found)}, 1, IF met THEN found ELSE {})
<1> DEFINE t == StorageNode(met, found)
<1>1. /\ t.children = {} /\ t.storage = (IF met THEN found ELSE {})
      /\ t.matched = met /\ t.executed = TRUE
  BY DEF StorageNode, TraceNode
<1>2. t.storage # {} => t.matched /\ t.executed
  BY <1>1
<1> HIDE DEF t
<1> QED
  BY <1>1, <1>2, ShowsLeaf DEF t

LEMMA ShowsPaths ==
  ASSUME stored \subseteq Entry, NEW q \in Traced, NEW always, NEW n \in Node, Len(n) = Depth
  PROVE  Shows(TracePaths(n, q), 4, Told(n, q, always))
<1> DEFINE regexes == Paths(n) \cap RegexPath
           leaf == PathLeaves(n, q)
           size == Cardinality({e \in stored : e.branch = n /\ e.route.path \in RegexPath})
           static == {p \in Paths(n) \ RegexPath : q \in Meets[p]}
           R == [p \in Paths(n) |-> IF q \in Meets[p] THEN At(n, p) ELSE {}]
           node == TraceNode(static # {}, TRUE, Cardinality(Paths(n) \ RegexPath),
                             {StorageNode(TRUE, At(n, p)) : p \in static}, {})
<1>1. Deepest \in Nat /\ 4 <= Deepest /\ 2 <= Deepest /\ 1 <= Deepest
  BY DeepestIs
<1>2. TracePaths(n, q) = {RegexNode(TraceTree(n, leaf, size, q))} \cup {node}
  BY DEF TracePaths
<1>3. Shows({RegexNode(TraceTree(n, leaf, size, q))}, 4, Joined(regexes, R))
  <2>1. DOMAIN leaf = regexes
    BY DEF PathLeaves
  <2>2. ASSUME NEW p \in regexes
        PROVE  /\ Shows({leaf[p]}, 2, R[p])
               /\ leaf[p].matched <=> q \in Meets[p]
               /\ R[p] # {} => q \in Meets[p]
    <3> DEFINE store == StorageNode(q \in Meets[p], At(n, p))
               t == leaf[p]
    <3>1. t = TraceNode(q \in Meets[p], TRUE, Cardinality(At(n, p)), {store}, {})
      BY DEF PathLeaves
    <3>2. /\ t.children = {store} /\ t.storage = {} /\ t.executed = TRUE
          /\ t.matched = (q \in Meets[p])
      BY <3>1 DEF TraceNode
    <3>3. R[p] = IF q \in Meets[p] THEN At(n, p) ELSE {}
      OBVIOUS
    <3>4. (q \in Meets[p]) \in BOOLEAN
      OBVIOUS
    <3>5. Shows({store}, 1, IF q \in Meets[p] THEN At(n, p) ELSE {})
      BY <3>4, ShowsStorage
    <3>6. R[p] # {} => t.matched /\ t.executed
      BY <3>2, <3>3
    <3> HIDE DEF t, store, R
    <3>7. Shows(t.children, 1, R[p])
      BY <3>2, <3>3, <3>5
    <3>8. Shows({t}, 1 + 1, R[p])
      BY <1>1, <3>2, <3>6, <3>7, ShowsNode
    <3>9. t.matched <=> q \in Meets[p]
      BY <3>2, Zenon
    <3>10. R[p] # {} => q \in Meets[p]
      BY <3>3
    <3> QED
      BY <3>8, <3>9, <3>10 DEF t
  <2>3. regexes \in (SUBSET RegexHost) \cup (SUBSET RegexPath)
    OBVIOUS
  <2> HIDE DEF regexes, leaf, R, size
  <2>5. EachLeaf(regexes, leaf, 2, R, q)
    BY <2>2 DEF EachLeaf
  <2>4. ASSUME NEW k \in Nat, k = 2
        PROVE  Shows({RegexNode(TraceTree(n, leaf, size, q))}, k + 2, Joined(regexes, R))
    <3>1. k >= 1 /\ k + 2 <= Deepest /\ EachLeaf(regexes, leaf, k, R, q)
      BY <1>1, <2>4, <2>5
    <3> QED
      BY <2>1, <2>3, <3>1, ShowsTree
  <2>6. Shows({RegexNode(TraceTree(n, leaf, size, q))}, 2 + 2, Joined(regexes, R))
    BY <2>4
  <2> QED
    BY <2>6
<1>4. Shows({node}, 2, Joined(static, R))
  <2> DEFINE F == [p \in static |-> {StorageNode(TRUE, At(n, p))}]
  <2>1. ASSUME NEW p \in static PROVE Shows(F[p], 1, R[p])
    <3>1. Shows({StorageNode(TRUE, At(n, p))}, 1, IF TRUE THEN At(n, p) ELSE {})
      BY ShowsStorage
    <3>2. R[p] = At(n, p) /\ F[p] = {StorageNode(TRUE, At(n, p))}
      OBVIOUS
    <3> QED
      BY <3>1, <3>2
  <2>2. /\ node.children = Joined(static, F) /\ node.storage = {} /\ node.executed = TRUE
        /\ node.matched = (static # {})
    BY DEF TraceNode, Joined
  <2> HIDE DEF F, R, node, static
  <2>3. EachShows(static, F, 1, R)
    BY <2>1 DEF EachShows
  <2>6. Shows(Joined(static, F), 1, Joined(static, R))
    BY <2>3, ShowsAll
  <2>4. Joined(static, R) # {} => node.matched /\ node.executed
    BY <2>2 DEF Joined
  <2>5. Shows({node}, 1 + 1, Joined(static, R))
    BY <1>1, <2>2, <2>4, <2>6, ShowsNode
  <2> QED
    BY <2>5
<1>5. Told(n, q, always) = Joined(regexes, R) \cup Joined(static, R)
  <2>1. Depth \in Nat /\ Host \in 1..Depth
    BY RouterAssumption DEF Level
  <2>2. \A e \in stored : Under(n, e.branch) <=> e.branch = n
    <3> SUFFICES ASSUME NEW e \in stored PROVE Under(n, e.branch) <=> e.branch = n
      OBVIOUS
    <3>1. e.branch \in Seq(Key \cup {Any}) /\ Len(e.branch) = Depth
      BY EntryBranch
    <3>2. n \in Seq(Key \cup {Any})
      BY NodeLength
    <3> QED
      BY <3>1, <3>2 DEF Under
  <2>3. Reach(n, q) = {e \in stored : e.branch = n /\ q \in Meets[e.route.path]}
    <3>1. (Len(n) + 1)..Depth = {}
      BY <2>1
    <3> QED
      BY <2>2, <3>1 DEF Reach
  <2>4. \A e : AskedIn(e, n, q, always)
    BY <2>1 DEF AskedIn
  <2>5. Told(n, q, always) = {e.route : e \in Reach(n, q)}
    BY <2>4 DEF Told
  <2>6. ASSUME NEW r
        PROVE  r \in Told(n, q, always) <=> \E p \in Paths(n) : q \in Meets[p] /\ r \in At(n, p)
    <3>1. r \in Told(n, q, always)
            <=> \E e \in stored : e.branch = n /\ q \in Meets[e.route.path] /\ r = e.route
      BY <2>3, <2>5
    <3> QED
      BY <3>1 DEF Paths, At
  <2>7. ASSUME NEW r
        PROVE  r \in Joined(regexes, R) \cup Joined(static, R)
                 <=> \E p \in Paths(n) : q \in Meets[p] /\ r \in At(n, p)
    <3>1. \A p \in Paths(n) : R[p] = IF q \in Meets[p] THEN At(n, p) ELSE {}
      OBVIOUS
    <3>2. /\ regexes \subseteq Paths(n) /\ static \subseteq Paths(n)
          /\ \A p \in Paths(n) : q \in Meets[p] => p \in regexes \/ p \in static
          /\ \A p \in Paths(n) : p \in static => q \in Meets[p]
      OBVIOUS
    <3> HIDE DEF regexes, static, R
    <3> QED
      BY <3>1, <3>2 DEF Joined
  <2> QED
    BY <2>6, <2>7
<1> HIDE DEF regexes, leaf, R, node, size, static
<1>6. Shows({node}, 4, Joined(static, R))
  BY <1>1, <1>4, ShowsMore
<1>7. Shows({RegexNode(TraceTree(n, leaf, size, q))} \cup {node}, 4,
            Joined(regexes, R) \cup Joined(static, R))
  BY <1>3, <1>6, ShowsBoth
<1> QED
  BY <1>2, <1>5, <1>7

LEMMA ShowsNoChild ==
  ASSUME NEW n, NEW q
  PROVE  Shows(NoChild(n, q), 1, {})
<1> DEFINE t == TraceNode(TRUE, FALSE, 0, {}, {})
<1>1. t.children = {} /\ t.storage = {}
  BY DEF TraceNode
<1>2. Shows({t}, 1, {})
  <2> HIDE DEF t
  <2> QED
    BY <1>1, ShowsLeaf
<1>3. Shows({}, 1, {})
  BY ShowsNothing
<1> QED
  BY <1>2, <1>3 DEF NoChild

(* Below the children with a condition lies what they show, each child     *)
(* with its own node or among the regexes of the HostMatcher.              *)
KinNamed(n, q) == MetKin(n, q) \cap Named(n, q)

ToldBy(kin, q, always) == UNION {Told(m, q, always) : m \in kin}

LEMMA ShowsNamed ==
  ASSUME NEW n \in Node, NEW q, NEW always, NEW f, NEW h \in Nat, h <= Deepest,
         \A m \in MetKin(n, q) : Shows(f[m], h, Told(m, q, always))
  PROVE  Shows({TraceChild(m, q, f[m]) : m \in Named(n, q)}, h + 1, ToldBy(KinNamed(n, q), q, always))
<1> DEFINE F == [m \in Named(n, q) |-> {TraceChild(m, q, f[m])}]
           R == [m \in Named(n, q) |-> IF m \in MetKin(n, q) THEN Told(m, q, always) ELSE {}]
<1>1. ASSUME NEW m \in Named(n, q) PROVE Shows(F[m], h + 1, R[m])
  <2> DEFINE t == TraceChild(m, q, f[m])
  <2>1. m \in MetKin(n, q) <=> Met(m[Len(m)], q)
    BY DEF MetKin, Named
  <2>2. /\ t.children = (IF m \in MetKin(n, q) THEN f[m] ELSE {}) /\ t.storage = {}
        /\ m \in MetKin(n, q) => t.matched /\ t.executed
    BY <2>1 DEF TraceChild, TraceNode
  <2>3. F[m] = {t} /\ R[m] = IF m \in MetKin(n, q) THEN Told(m, q, always) ELSE {}
    OBVIOUS
  <2> HIDE DEF t, F, R
  <2>4. Shows(t.children, h, R[m])
    <3>1. CASE m \in MetKin(n, q)
      BY <2>2, <2>3, <3>1
    <3>2. CASE m \notin MetKin(n, q)
      BY <2>2, <2>3, <3>2, ShowsNothing
    <3> QED
      BY <3>1, <3>2
  <2>5. R[m] # {} => t.matched /\ t.executed
    BY <2>2, <2>3
  <2>6. Shows({t}, h + 1, R[m])
    BY <2>2, <2>4, <2>5, ShowsNode
  <2> QED
    BY <2>3, <2>6
<1>2. Joined(Named(n, q), F) = {TraceChild(m, q, f[m]) : m \in Named(n, q)}
  BY DEF Joined
<1>3. Joined(Named(n, q), R) = ToldBy(KinNamed(n, q), q, always)
  BY DEF ToldBy, KinNamed, Joined
<1> HIDE DEF F, R
<1>4. h + 1 \in Nat /\ h + 1 >= 1
  OBVIOUS
<1>6. EachShows(Named(n, q), F, h + 1, R)
  BY <1>1 DEF EachShows
<1>5. Shows(Joined(Named(n, q), F), h + 1, Joined(Named(n, q), R))
  BY <1>4, <1>6, ShowsAll
<1> QED
  BY <1>2, <1>3, <1>5

(* A request without a host meets no regex of a host.                      *)
LEMMA LackingMeetsNone ==
  ASSUME NEW n \in Node, NEW q, NEW m \in MetKin(n, q)
  PROVE  q \notin Lacking[Len(m)]
<1>1. m \in Node /\ m[Len(m)] # Any /\ Met(m[Len(m)], q) /\ Len(m) = Len(n) + 1
  BY ChildIsNode DEF MetKin
<1>2. PICK r \in Route : \E c \in r.branches : \E k \in 0..Depth : m = Upto(c, k)
  BY <1>1 DEF Node
<1>3. PICK c \in r.branches, k \in 0..Depth : m = Upto(c, k)
  BY <1>2
<1>4. c \in Seq(Key \cup {Any}) /\ Len(c) = Depth /\ Depth \in Nat
  BY BranchIsSeq, RouterAssumption
<1>5. Len(m) = k /\ Len(n) \in Nat
  BY <1>3, <1>4, NodeLength DEF Upto
<1>6. k \in 1..Depth /\ m[k] = c[k]
  BY <1>1, <1>3, <1>4, <1>5 DEF Upto
<1>7. Meets[c[k]] \cap Lacking[k] = {}
  BY <1>1, <1>5, <1>6, TraceAssumption DEF Level
<1>8. q \in Meets[c[k]]
  BY <1>1, <1>5, <1>6 DEF Met
<1> QED
  BY <1>5, <1>7, <1>8

LEMMA ShowsHosts ==
  ASSUME NEW n \in Node, NEW q \in Traced, NEW always, NEW f, NEW h \in Nat, h + 3 <= Deepest,
         \A m \in MetKin(n, q) : Shows(f[m], h, Told(m, q, always))
  PROVE  /\ Len(n) + 1 # Host => TraceHosts(n, q, f) = {}
         /\ Len(n) + 1 = Host =>
              Shows(TraceHosts(n, q, f), h + 3, ToldBy({m \in MetKin(n, q) : IsRegex(m)}, q, always))
<1>1. Len(n) + 1 # Host => TraceHosts(n, q, f) = {}
  BY DEF TraceHosts
<1>2. Deepest \in Nat /\ h + 1 \in Nat /\ h + 1 >= 1 /\ h + 1 <= Deepest /\ h <= Deepest
      /\ (h + 1) + 2 <= Deepest /\ (h + 1) + 2 = h + 3 /\ h + 3 \in Nat
  BY DeepestIs
<1>3. ASSUME Len(n) + 1 = Host, q \in Lacking[Host]
      PROVE  Shows(TraceHosts(n, q, f), h + 3, ToldBy({m \in MetKin(n, q) : IsRegex(m)}, q, always))
  <2>1. TraceHosts(n, q, f) = {}
    BY <1>3 DEF TraceHosts
  <2>2. {m \in MetKin(n, q) : IsRegex(m)} = {}
    BY <1>3, LackingMeetsNone DEF IsRegex
  <2>3. ToldBy({}, q, always) = {}
    BY DEF ToldBy
  <2>4. Shows({}, h + 3, {})
    BY <1>2, ShowsNothing
  <2> QED
    BY <2>1, <2>2, <2>3, <2>4
<1>4. ASSUME Len(n) + 1 = Host, q \notin Lacking[Host]
      PROVE  Shows(TraceHosts(n, q, f), h + 3, ToldBy({m \in MetKin(n, q) : IsRegex(m)}, q, always))
  <2> DEFINE kin == {k \in Children(n) : IsRegex(k)}
             regexes == {m[Len(m)] : m \in kin}
             leaf == HostLeaves(n, q, f)
             R == [r \in regexes |-> IF q \in Meets[r] THEN Told(Append(n, r), q, always) ELSE {}]
  <2>1. \A m \in kin : Append(n, m[Len(m)]) = m
    BY ChildIsAppend
  <2>2. \A m \in kin : m \in MetKin(n, q) <=> q \in Meets[m[Len(m)]]
    BY ChildIsNode DEF MetKin, Met
  <2>3. DOMAIN leaf = regexes
    BY DEF HostLeaves
  <2>4. ASSUME NEW r \in regexes
        PROVE  /\ Shows({leaf[r]}, h + 1, R[r])
               /\ leaf[r].matched <=> q \in Meets[r]
               /\ R[r] # {} => q \in Meets[r]
    <3> DEFINE t == leaf[r]
    <3>1. t = TraceNode(q \in Meets[r], TRUE, 1, IF q \in Meets[r] THEN f[Append(n, r)] ELSE {}, {})
      BY DEF HostLeaves
    <3>2. /\ t.children = (IF q \in Meets[r] THEN f[Append(n, r)] ELSE {}) /\ t.storage = {}
          /\ t.executed = TRUE /\ t.matched = (q \in Meets[r])
      BY <3>1 DEF TraceNode
    <3>3. R[r] = IF q \in Meets[r] THEN Told(Append(n, r), q, always) ELSE {}
      OBVIOUS
    <3>4. PICK m \in kin : r = m[Len(m)]
      OBVIOUS
    <3>5. Append(n, r) = m /\ (q \in Meets[r] => m \in MetKin(n, q))
      BY <2>1, <2>2, <3>4
    <3> HIDE DEF t, kin, regexes, R, leaf
    <3>6. Shows(t.children, h, R[r])
      <4>1. CASE q \in Meets[r]
        BY <3>2, <3>3, <3>5, <4>1
      <4>2. CASE q \notin Meets[r]
        BY <3>2, <3>3, <4>2, ShowsNothing
      <4> QED
        BY <4>1, <4>2
    <3>7. R[r] # {} => t.matched /\ t.executed
      BY <3>2, <3>3
    <3>8. Shows({t}, h + 1, R[r])
      BY <1>2, <3>2, <3>6, <3>7, ShowsNode
    <3> QED
      BY <3>2, <3>3, <3>8 DEF t
  <2>5. regexes \in (SUBSET RegexHost) \cup (SUBSET RegexPath)
    BY DEF IsRegex
  <2>6. Joined(regexes, R) = ToldBy({m \in MetKin(n, q) : IsRegex(m)}, q, always)
    <3>1. {m \in MetKin(n, q) : IsRegex(m)} = {m \in kin : q \in Meets[m[Len(m)]]}
      BY <2>2 DEF MetKin
    <3>2. \A m \in kin : R[m[Len(m)]] = IF q \in Meets[m[Len(m)]] THEN Told(m, q, always) ELSE {}
      BY <2>1
    <3>3. Joined(regexes, R) = UNION {R[m[Len(m)]] : m \in kin}
      <4> HIDE DEF R, kin
      <4> QED
        BY DEF Joined
    <3>4. UNION {R[m[Len(m)]] : m \in kin}
            = UNION {Told(m, q, always) : m \in {k \in kin : q \in Meets[k[Len(k)]]}}
      <4> HIDE DEF R, kin, regexes
      <4> QED
        BY <3>2
    <3> HIDE DEF R, kin, regexes
    <3> QED
      BY <3>1, <3>3, <3>4 DEF ToldBy
  <2>7. TraceHosts(n, q, f) = {RegexNode(TraceTree(n, leaf, Cardinality(DOMAIN leaf), q))}
    BY <1>4 DEF TraceHosts
  <2> HIDE DEF kin, regexes, leaf, R
  <2>9. EachLeaf(regexes, leaf, h + 1, R, q)
    BY <2>4 DEF EachLeaf
  <2>8. Shows({RegexNode(TraceTree(n, leaf, Cardinality(DOMAIN leaf), q))}, (h + 1) + 2,
              Joined(regexes, R))
    BY <1>2, <2>3, <2>5, <2>9, ShowsTree
  <2> QED
    BY <1>2, <2>6, <2>7, <2>8
<1> QED
  BY <1>1, <1>3, <1>4

(* How many levels of nodes a matcher has under it, at most.               *)
Height(n) == (Depth - Len(n)) + 4 + (IF Len(n) < Host THEN 2 ELSE 0)

LEMMA ShowsKin ==
  ASSUME NEW n \in Node, Len(n) < Depth, NEW q \in Traced, NEW always, NEW f, NEW h \in Nat,
         h = Height(n) - 1 - (IF Len(n) + 1 = Host THEN 2 ELSE 0), Height(n) <= Deepest,
         \A m \in MetKin(n, q) : Shows(f[m], h, Told(m, q, always))
  PROVE  Shows({TraceChild(m, q, f[m]) : m \in Named(n, q)} \cup TraceHosts(n, q, f) \cup NoChild(n, q),
               Height(n), FromKin(n, q, always))
<1> DEFINE named == {TraceChild(m, q, f[m]) : m \in Named(n, q)}
           regexes == {m \in MetKin(n, q) : IsRegex(m)}
<1>1. /\ Deepest \in Nat /\ h \in Nat /\ h <= Deepest /\ h + 1 \in Nat /\ Height(n) \in Nat
      /\ h + 1 <= Height(n) /\ 1 <= Height(n) /\ Height(n) >= 1
      /\ Len(n) + 1 = Host => h + 3 = Height(n) /\ h + 3 <= Deepest
  <2>1. Depth \in Nat /\ Host \in 1..Depth /\ Len(n) \in 0..Depth /\ Deepest \in Nat
    BY DeepestIs, NodeLength, RouterAssumption DEF Level
  <2>2. CASE Len(n) < Host
    BY <2>1, <2>2 DEF Height
  <2>3. CASE ~ (Len(n) < Host)
    BY <2>1, <2>3 DEF Height
  <2> QED
    BY <2>2, <2>3
<1>2. Shows(named, Height(n), ToldBy(KinNamed(n, q), q, always))
  <2>1. Shows(named, h + 1, ToldBy(KinNamed(n, q), q, always))
    BY <1>1, ShowsNamed
  <2> HIDE DEF named
  <2> QED
    BY <1>1, <2>1, ShowsMore
<1>3. Shows(NoChild(n, q), Height(n), {})
  BY <1>1, ShowsNoChild, ShowsMore
<1>4. Shows(TraceHosts(n, q, f), Height(n), ToldBy(regexes, q, always))
  <2>1. CASE Len(n) + 1 = Host
    BY <1>1, <2>1, ShowsHosts
  <2>2. CASE Len(n) + 1 # Host
    <3>1. TraceHosts(n, q, f) = {}
      BY <2>2 DEF TraceHosts
    <3>2. \A m \in MetKin(n, q) : ~ IsRegex(m)
      BY <2>2, ChildIsNode DEF MetKin, IsRegex
    <3>3. ToldBy(regexes, q, always) = {}
      BY <3>2 DEF ToldBy
    <3> HIDE DEF regexes
    <3> QED
      BY <1>1, <3>1, <3>3, ShowsNothing
  <2> QED
    BY <2>1, <2>2
<1>5. FromKin(n, q, always) = ToldBy(KinNamed(n, q), q, always) \cup ToldBy(regexes, q, always)
  <2>1. MetKin(n, q) = KinNamed(n, q) \cup regexes
    <3>1. ASSUME NEW m \in MetKin(n, q), ~ IsRegex(m) PROVE m \in Named(n, q)
      BY <3>1, LackingMeetsNone DEF Named, MetKin
    <3> QED
      BY <3>1 DEF KinNamed
  <2> HIDE DEF regexes
  <2> QED
    BY <2>1 DEF FromKin, ToldBy
<1> HIDE DEF named, regexes
<1>6. Shows(named \cup TraceHosts(n, q, f), Height(n), FromKin(n, q, always))
  BY <1>1, <1>2, <1>4, <1>5, ShowsBoth
<1>7. Shows((named \cup TraceHosts(n, q, f)) \cup NoChild(n, q), Height(n), FromKin(n, q, always) \cup {})
  BY <1>1, <1>3, <1>6, ShowsBoth
<1>8. FromKin(n, q, always) \cup {} = FromKin(n, q, always)
  OBVIOUS
<1> QED
  BY <1>7, <1>8 DEF named

(* The trace of a matcher shows what is found under it.                    *)
LEMMA TraceShows ==
  ASSUME stored \subseteq Entry, CountsCover, NEW q \in Traced, NEW always
  PROVE  \A n \in Node : Shows(TraceMatcher(q, always)[n], Height(n), Told(n, q, always))
<1> DEFINE trace == TraceMatcher(q, always)
           Fails(h) == \E n \in Node : Len(n) = Depth - h /\ ~ Shows(trace[n], Height(n), Told(n, q, always))
           S == {h \in 0..Depth : Fails(h)}
<1>1. Depth \in Nat /\ Host \in 1..Depth /\ Deepest = Depth + 6 /\ \A n \in Node : Len(n) \in 0..Depth
  BY RouterAssumption, NodeLength, DeepestIs DEF Level
<1>2. S = {}
  <2>1. SUFFICES ASSUME S # {} PROVE FALSE
    OBVIOUS
  <2>2. PICK h \in S : \A k \in S : h <= k
    <3>1. S \subseteq Nat
      BY <1>1
    <3> HIDE DEF S
    <3> QED
      BY <2>1, <3>1, Least
  <2>3. h \in 0..Depth /\ Fails(h)
    BY <2>2
  <2>4. PICK n \in Node : Len(n) = Depth - h /\ ~ Shows(trace[n], Height(n), Told(n, q, always))
    BY <2>3
  <2> HIDE DEF trace
  <2>5. trace[n] = TraceOne(n, q, always, trace)
    BY TraceIs DEF trace
  <2>6. CASE h = 0
    <3>1. Len(n) = Depth /\ Height(n) \in Nat /\ 4 <= Height(n) /\ 4 \in Nat
      BY <1>1, <2>4, <2>6 DEF Height
    <3>2. trace[n] = TracePaths(n, q)
      BY <2>5, <3>1 DEF TraceOne
    <3>3. Shows(trace[n], 4, Told(n, q, always))
      BY <3>1, <3>2, ShowsPaths
    <3> QED
      BY <2>4, <3>1, <3>3, ShowsMore
  <2>7. CASE h # 0
    <3> DEFINE traces == {TraceChild(m, q, trace[m]) : m \in Named(n, q)}
                           \cup TraceHosts(n, q, trace) \cup NoChild(n, q)
               any == IF AnyChild(n) \in Node /\ AsksAny(n, traces, always) THEN trace[AnyChild(n)] ELSE {}
               low == Height(n) - 1 - (IF Len(n) + 1 = Host THEN 2 ELSE 0)
    <3>1. /\ Len(n) < Depth /\ Len(n) # Depth /\ Height(n) \in Nat /\ Height(n) <= Deepest /\ Height(n) >= 1
          /\ h - 1 \in 0..Depth /\ h - 1 < h /\ low \in Nat /\ low <= Height(n)
      BY <1>1, <2>3, <2>4, <2>7 DEF Height
    <3>2. trace[n] = traces \cup any
      BY <2>5, <3>1 DEF TraceOne
    <3>3. ASSUME NEW m \in Node, Len(m) = Len(n) + 1
          PROVE  Shows(trace[m], low, Told(m, q, always))
      <4>1. h - 1 \notin S
        <5> HIDE DEF S
        <5> QED
          BY <1>1, <2>2, <2>3, <3>1
      <4>2. ~ Fails(h - 1)
        <5> HIDE DEF Fails
        <5> QED
          BY <3>1, <4>1
      <4>3. Len(m) = Depth - (h - 1)
        BY <1>1, <2>3, <2>4, <3>3
      <4>4. Height(m) = low
        BY <1>1, <3>3 DEF Height
      <4> QED
        BY <4>2, <4>3, <4>4
    <3>4. Shows(traces, Height(n), FromKin(n, q, always))
      <4>1. \A m \in MetKin(n, q) : Shows(trace[m], low, Told(m, q, always))
        BY <3>3, ChildIsNode DEF MetKin
      <4> QED
        BY <3>1, <4>1, ShowsKin
    <3>5. RoutesOf(traces) = FromKin(n, q, always)
      <4> HIDE DEF traces
      <4> QED
        BY <3>1, <3>4, ShowsRoutes
    <3> HIDE DEF traces
    <3>6. AsksAny(n, traces, always) <=> Len(n) + 1 # Host \/ always \/ FromKin(n, q, always) = {}
      BY <3>5 DEF AsksAny
    <3>7. Shows(any, Height(n), IF Len(n) + 1 # Host \/ always \/ FromKin(n, q, always) = {}
                                THEN FromAny(n, q, always) ELSE {})
      <4>1. AnyChild(n) \in Node => Shows(trace[AnyChild(n)], Height(n), Told(AnyChild(n), q, always))
        <5>1. Len(AnyChild(n)) = Len(n) + 1
          BY NodeLength DEF AnyChild
        <5>2. AnyChild(n) \in Node => Shows(trace[AnyChild(n)], low, Told(AnyChild(n), q, always))
          BY <3>3, <5>1
        <5> HIDE DEF low
        <5> QED
          BY <3>1, <5>2, ShowsMore
      <4>2. Shows({}, Height(n), {})
        BY <3>1, ShowsNothing
      <4> QED
        BY <3>6, <4>1, <4>2 DEF FromAny
    <3> HIDE DEF any
    <3>8. Shows(traces \cup any, Height(n), Told(n, q, always))
      BY <3>1, <3>4, <3>7, ShowsBoth, ToldOfChildren
    <3> QED
      BY <2>4, <3>2, <3>8
  <2> QED
    BY <2>6, <2>7
<1>3. ASSUME NEW n \in Node PROVE Shows(trace[n], Height(n), Told(n, q, always))
  <2>1. Depth - Len(n) \in 0..Depth /\ Depth - (Depth - Len(n)) = Len(n)
    BY <1>1
  <2>2. ~ Fails(Depth - Len(n))
    <3> HIDE DEF Fails
    <3> QED
      BY <1>2, <2>1
  <2> HIDE DEF trace
  <2> QED
    BY <2>1, <2>2
<1> QED
  BY <1>3

LEMMA FoundIsTold ==
  ASSUME stored \subseteq Entry, NEW q, NEW always
  PROVE  MatchRequest(q, always) = Told(<<>>, q, always)
<1>1. Depth \in Nat /\ Host \in 1..Depth /\ Len(<<>>) = 0 /\ ~ (Len(<<>>) >= Host)
  BY RouterAssumption DEF Level
<1>2. \A b : Under(<<>>, b) <=> 0 <= Len(b)
  BY <1>1 DEF Under
<1> DEFINE hits == {e \in stored : Leads(e.branch, q) /\ q \in Meets[e.route.path]}
           asked(e) == \/ always \/ e.branch[Host] # Any
                       \/ \A f \in hits : Under(Upto(e.branch, Host - 1), f.branch)
                                            => f.branch[Host] = Any
<1>3. MatchRequest(q, always) = {e.route : e \in {f \in hits : asked(f)}}
  BY DEF MatchRequest, Found
<1>4. Reach(<<>>, q) = hits
  <2>1. \A e \in stored : Under(<<>>, e.branch)
    BY <1>1, <1>2, EntryBranch
  <2>2. (Len(<<>>) + 1)..Depth = Level
    BY <1>1 DEF Level
  <2> QED
    BY <2>1, <2>2, Zenon DEF Reach, Leads
<1> QED
  BY <1>1, <1>3, <1>4 DEF Told, AskedIn

(* The explanation of a request (Router::get_trace) finds the routes that  *)
(* the request finds (match_request), for any number of levels, however    *)
(* the Router was edited, and also after ids were inserted twice: the two  *)
(* walks, written apart, agree.  It rests on the counts, by which the walk *)
(* passes over a matcher only if nothing is in it.                         *)
THEOREM ExplanationFindsTheRoutes == Spec => []TraceTellsTheRoutes
<1>1. ASSUME CoverInv, NEW q \in Traced, NEW always \in BOOLEAN,
             NEW traces, traces = GetTrace(q, always)
      PROVE  /\ RoutesOf(traces) = MatchRequest(q, always)
             /\ \A t \in NodesOf(traces) :
                  t.storage \cup RoutesOf(t.children) # {} => t.matched /\ t.executed
  <2>1. stored \subseteq Entry /\ CountsCover
    BY <1>1, CoverCounts DEF CoverInv
  <2>2. <<>> \in Node /\ Len(<<>>) = 0 /\ Depth \in Nat
    <3>1. PICK r \in Route : TRUE
      BY TraceAssumption
    <3>2. PICK b \in r.branches : TRUE
      BY RouterAssumption
    <3>3. b \in Seq(Key \cup {Any}) /\ Len(b) = Depth /\ Depth \in Nat
      BY BranchIsSeq, RouterAssumption
    <3>4. Upto(b, 0) = <<>>
      BY <3>3 DEF Upto
    <3>5. Upto(b, 0) \in Node
      BY <3>3, UptoIsNode
    <3> QED
      BY <3>3, <3>4, <3>5
  <2>3. Height(<<>>) = Deepest
    BY <2>2, DeepestIs, RouterAssumption DEF Height, Level
  <2>4. Shows(traces, Deepest, Told(<<>>, q, always))
    BY <1>1, <2>1, <2>2, <2>3, TraceShows DEF GetTrace
  <2>5. Told(<<>>, q, always) = MatchRequest(q, always)
    BY <2>1, FoundIsTold
  <2>6. Deepest \in Deepest..Deepest
    BY DeepestIs
  <2> QED
    BY <2>4, <2>5, <2>6 DEF Shows, Held, RoutesOf, NodesOf
<1>2. CoverInv => TraceTellsTheRoutes
  BY <1>1 DEF TraceTellsTheRoutes
<1> QED
  BY CoverAlways, <1>2, PTL

=============================================================================
