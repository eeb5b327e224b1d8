-------------------------- MODULE RegexTree_proofs --------------------------
(***************************************************************************)
(* Theorems about RegexTree, for any regexes, paths and ids, and any       *)
(* sequence of operations.                                                 *)
(*                                                                         *)
(* The tree is well (Well): a node has two children at least, none empty,  *)
(* its regex is a beginning of theirs at which they may be cut (Cut), and  *)
(* no entry is below two of them.  What it holds (Held) is what was        *)
(* inserted and not removed (TreeInv).  Every walk over it is compared     *)
(* with these two, by induction over items (TreeInduction): what is found  *)
(* by a word or a text, told by a trace or the iterator, counted.          *)
(*                                                                         *)
(* A word that a regex matches begins with one that its beginning matches, *)
(* if that is cut outside of groups, classes and escapes: so a node hides  *)
(* no entry below it (TreeFindsAll).                                       *)
(***************************************************************************)
EXTENDS RegexTree, FiniteSetTheorems, WellFoundedInduction, TLAPS

(* Induction over the turns of a loop.                                     *)
LEMMA Turns ==
  ASSUME NEW N \in Nat, NEW S, 0 \in S,
         \A n \in 1..N : n - 1 \in S => n \in S
  PROVE  0..N \subseteq S
<1>1. SUFFICES ASSUME ~ (0..N \subseteq S) PROVE FALSE
  OBVIOUS
<1> DEFINE T == {n \in 0..N : n \notin S}
           R == OpToRel(<, Nat)
<1>2. \A a, b \in Nat : a < b => <<a, b>> \in R
  <2>1. \A a, b \in Nat : (a < b) => <<a, b>> \in {ss \in Nat \X Nat : ss[1] < ss[2]}
    OBVIOUS
  <2> QED
    BY <2>1, Zenon DEF OpToRel
<1>3. IsWellFoundedOn(R, Nat)
  BY NatLessThanWellFounded, Zenon
<1>4. T \subseteq Nat /\ T # {}
  BY <1>1
<1> HIDE DEF R
<1>5. PICK m \in T : \A k \in T : <<k, m>> \notin R
  BY <1>3, <1>4, WFMin, Zenon
<1>6. m \in 1..N /\ m - 1 \in 0..N
  BY <1>5
<1>7. <<m - 1, m>> \in R
  <2>1. m - 1 \in Nat /\ m \in Nat /\ m - 1 < m
    BY <1>6
  <2> QED
    BY <2>1, <1>2, Zenon
<1>8. m - 1 \in S
  BY <1>5, <1>6, <1>7
<1> QED
  BY <1>5, <1>6, <1>8

----------------------------------------------------------------------------
(* Items.                                                                  *)

(* Those of at most d nodes one below the other, by what is below them.    *)
ItemsOver(below) ==
  [kind : {"empty"}, fold : BOOLEAN]
    \cup [kind : {"leaf"}, regex : Regex, ids : SUBSET RouteId, compiled : BOOLEAN, fold : BOOLEAN]
    \cup [kind : {"node"}, regex : Beginnings, children : Seq(below), compiled : BOOLEAN, fold : BOOLEAN]

Level(d, f) == ItemsOver(IF d = 0 THEN {} ELSE f[d - 1])

LEMMA ItemsUnfold ==
  /\ MaxChange \in Nat
  /\ \A d \in 0..MaxChange : ItemsOf[d] = ItemsOver(IF d = 0 THEN {} ELSE ItemsOf[d - 1])
<1> DEFINE T == {n \in 0..MaxChange : \E f : f = [d \in 0..n |-> Level(d, f)]}
<1>0. MaxChange \in Nat
  BY TreeAssumption
<1>1. 0 \in T
  <2> DEFINE f == [d \in 0..0 |-> Level(0, d)]
  <2>1. f = [d \in 0..0 |-> Level(d, f)]
    BY DEF Level
  <2> QED
    BY <2>1, <1>0
<1>2. ASSUME NEW n \in 1..MaxChange, n - 1 \in T PROVE n \in T
  <2>1. PICK f : f = [d \in 0..(n - 1) |-> Level(d, f)]
    BY <1>2
  <2> DEFINE g == [d \in 0..n |-> Level(d, f)]
  <2>2. \A d \in 0..(n - 1) : g[d] = f[d]
    <3> HIDE DEF Level
    <3>1. \A d \in 0..(n - 1) : d \in 0..n /\ f[d] = Level(d, f)
      BY <2>1, <1>0
    <3> QED
      BY <3>1
  <2>3. \A d \in 0..n : Level(d, f) = Level(d, g)
    <3> HIDE DEF g
    <3> TAKE d \in 0..n
    <3>1. d # 0 => d - 1 \in 0..(n - 1)
      BY <1>0
    <3>2. d # 0 => f[d - 1] = g[d - 1]
      BY <3>1, <2>2
    <3> QED
      BY <3>2 DEF Level
  <2>4. g = [d \in 0..n |-> Level(d, g)]
    BY <2>3
  <2> QED
    <3> HIDE DEF g
    <3> QED
      BY <2>4
<1>3. MaxChange \in T
  <2> HIDE DEF T
  <2> QED
    BY <1>0, <1>1, <1>2, Turns
<1>4. ItemsOf = [d \in 0..MaxChange |-> Level(d, ItemsOf)]
  <2>1. ItemsOf = CHOOSE f : f = [d \in 0..MaxChange |-> Level(d, f)]
    BY DEF ItemsOf, Level, ItemsOver
  <2> QED
    BY <2>1, <1>3
<1> QED
  <2> HIDE DEF Level
  <2>1. \A d \in 0..MaxChange : ItemsOf[d] = Level(d, ItemsOf)
    BY <1>4
  <2> QED
    BY <2>1, <1>0 DEF Level

LEMMA ItemsGrow ==
  ASSUME NEW d \in 1..MaxChange
  PROVE  ItemsOf[d - 1] \subseteq ItemsOf[d]
<1> DEFINE T == {n \in 0..MaxChange : n > 0 => ItemsOf[n - 1] \subseteq ItemsOf[n]}
<1>1. 0 \in T
  BY ItemsUnfold
<1>2. ASSUME NEW n \in 1..MaxChange, n - 1 \in T PROVE n \in T
  <2>0. n - 1 \in 0..MaxChange /\ n \in 0..MaxChange /\ MaxChange \in Nat /\ n # 0
    BY ItemsUnfold
  <2>1. ItemsOf[n] = ItemsOver(ItemsOf[n - 1])
    BY <2>0, ItemsUnfold
  <2>2. PICK below : ItemsOf[n - 1] = ItemsOver(below) /\ below \subseteq ItemsOf[n - 1]
    <3>1. CASE n - 1 = 0
      BY <3>1, <2>0, ItemsUnfold
    <3>2. CASE n - 1 # 0
      <4>1. n - 1 > 0
        BY <3>2, <2>0
      <4> QED
        BY <3>2, <2>0, <4>1, <1>2, ItemsUnfold
    <3> QED
      BY <3>1, <3>2
  <2>3. Seq(below) \subseteq Seq(ItemsOf[n - 1])
    BY <2>2
  <2>4. ItemsOver(below) \subseteq ItemsOver(ItemsOf[n - 1])
    BY <2>3 DEF ItemsOver
  <2> QED
    BY <2>0, <2>1, <2>2, <2>4
<1>3. 0..MaxChange \subseteq T
  <2> HIDE DEF T
  <2> QED
    BY <1>1, <1>2, ItemsUnfold, Turns
<1> QED
  BY <1>3, ItemsUnfold

LEMMA ItemsWithin ==
  ASSUME NEW d \in 0..MaxChange
  PROVE  ItemsOf[d] \subseteq Items
<1> DEFINE T == {n \in 0..MaxChange : ItemsOf[MaxChange - n] \subseteq Items}
<1>1. 0 \in T
  BY ItemsUnfold DEF Items
<1>2. ASSUME NEW n \in 1..MaxChange, n - 1 \in T PROVE n \in T
  <2>1. MaxChange - (n - 1) \in 1..MaxChange /\ MaxChange - n = (MaxChange - (n - 1)) - 1
    BY ItemsUnfold
  <2>2. ItemsOf[MaxChange - n] \subseteq ItemsOf[MaxChange - (n - 1)]
    BY <2>1, ItemsGrow
  <2> QED
    BY <2>2, <1>2
<1>3. 0..MaxChange \subseteq T
  <2> HIDE DEF T
  <2> QED
    BY <1>1, <1>2, ItemsUnfold, Turns
<1>4. MaxChange - d \in 0..MaxChange /\ MaxChange - (MaxChange - d) = d
  BY ItemsUnfold
<1> QED
  BY <1>3, <1>4

(* What is known of an item by its kind.                                   *)
LEMMA ItemKinds ==
  ASSUME NEW d \in 0..MaxChange, NEW x \in ItemsOf[d]
  PROVE  /\ x.kind \in {"empty", "leaf", "node"} /\ x.fold \in BOOLEAN
         /\ x.kind = "empty" => x = [kind |-> "empty", fold |-> x.fold]
         /\ x.kind = "leaf" => /\ x.regex \in Regex /\ x.ids \in SUBSET RouteId /\ x.compiled \in BOOLEAN
                               /\ x = [kind |-> "leaf", regex |-> x.regex, ids |-> x.ids,
                                       compiled |-> x.compiled, fold |-> x.fold]
         /\ x.kind = "node" => /\ x.regex \in Beginnings /\ x.compiled \in BOOLEAN
                               /\ x.children \in Seq(IF d = 0 THEN {} ELSE ItemsOf[d - 1])
                               /\ x = [kind |-> "node", regex |-> x.regex, children |-> x.children,
                                       compiled |-> x.compiled, fold |-> x.fold]
<1>1. x \in ItemsOver(IF d = 0 THEN {} ELSE ItemsOf[d - 1])
  BY ItemsUnfold
<1> QED
  BY <1>1 DEF ItemsOver

(* The children of a node are items of fewer nodes.                        *)
LEMMA ChildrenBelow ==
  ASSUME NEW d \in 0..MaxChange, NEW x \in ItemsOf[d], x.kind = "node"
  PROVE  /\ Len(x.children) \in Nat /\ DOMAIN x.children = 1..Len(x.children)
         /\ x.children = [i \in 1..Len(x.children) |-> x.children[i]]
         /\ \A i \in DOMAIN x.children :
              d > 0 /\ d - 1 \in 0..MaxChange /\ x.children[i] \in ItemsOf[d - 1] /\ x.children[i] \in Items
<1>1. x.children \in Seq(IF d = 0 THEN {} ELSE ItemsOf[d - 1])
  BY ItemKinds
<1>2. Len(x.children) \in Nat /\ DOMAIN x.children = 1..Len(x.children)
  BY <1>1
<1>3. ASSUME NEW i \in DOMAIN x.children
      PROVE  d > 0 /\ d - 1 \in 0..MaxChange /\ x.children[i] \in ItemsOf[d - 1] /\ x.children[i] \in Items
  <2>1. x.children[i] \in (IF d = 0 THEN {} ELSE ItemsOf[d - 1])
    BY <1>1
  <2>2. d # 0 /\ x.children[i] \in ItemsOf[d - 1]
    BY <2>1
  <2>3. d > 0 /\ d - 1 \in 0..MaxChange
    BY <2>2, ItemsUnfold
  <2> QED
    BY <2>2, <2>3, ItemsWithin
<1> QED
  BY <1>1, <1>2, <1>3

LEMMA ChildrenIn ==
  ASSUME NEW n \in 0..MaxChange, NEW x \in ItemsOf[n], x.kind = "node", NEW i \in DOMAIN x.children
  PROVE  n # 0 /\ x.children[i] \in ItemsOf[n - 1] /\ x.children[i] \in ItemsOf[n]
<1>1. n > 0 /\ x.children[i] \in ItemsOf[n - 1]
  BY ChildrenBelow
<1>2. n \in 1..MaxChange
  BY <1>1, ItemsUnfold
<1> QED
  BY <1>1, <1>2, ItemsGrow

(* Unfolding the functions over items, one step at a time: the length.     *)
LenOf(x, f) ==
  CASE x.kind = "empty" -> 0
    [] x.kind = "leaf"  -> Cardinality(x.ids)
    [] OTHER -> Total([i \in DOMAIN x.children |-> f[x.children[i]]])

LEMMA ItemLenUnfold ==
  \A x \in Items : ItemLen[x] = LenOf(x, ItemLen)
<1> DEFINE T == {n \in 0..MaxChange : \E f : f = [x \in ItemsOf[n] |-> LenOf(x, f)]}
<1>1. ASSUME NEW n \in 0..MaxChange, NEW f,
             n # 0 => f = [x \in ItemsOf[n - 1] |-> LenOf(x, f)]
      PROVE  n \in T
  <2> DEFINE g == [x \in ItemsOf[n] |-> LenOf(x, f)]
  <2>1. ASSUME NEW x \in ItemsOf[n] PROVE LenOf(x, f) = LenOf(x, g)
    <3>1. ASSUME x.kind = "node", NEW i \in DOMAIN x.children
          PROVE  f[x.children[i]] = g[x.children[i]]
      <4> DEFINE c == x.children[i]
      <4>1. n # 0 /\ c \in ItemsOf[n - 1] /\ c \in ItemsOf[n]
        BY <3>1, ChildrenIn
      <4> HIDE DEF c
      <4>3. f[c] = LenOf(c, f) /\ g[c] = LenOf(c, f)
        BY <1>1, <4>1
      <4> QED
        BY <4>3 DEF c
    <3>2. x.kind \in {"empty", "leaf", "node"}
      BY ItemKinds
    <3>3. x.kind = "node" => {f[x.children[i]] : i \in DOMAIN x.children}
                              = {g[x.children[i]] : i \in DOMAIN x.children}
      <4> HIDE DEF g
      <4> QED
        BY <3>1
    <3> HIDE DEF g
    <3> QED
      BY <3>1, <3>2, <3>3 DEF LenOf
  <2>2. g = [x \in ItemsOf[n] |-> LenOf(x, g)]
    <3> HIDE DEF LenOf
    <3> QED
      BY <2>1
  <2> QED
    BY <2>2
<1>2. MaxChange \in T
  <2>1. 0 \in T
    BY <1>1, ItemsUnfold
  <2>2. ASSUME NEW n \in 1..MaxChange, n - 1 \in T PROVE n \in T
    <3>1. n \in 0..MaxChange
      BY ItemsUnfold
    <3>2. PICK f : f = [x \in ItemsOf[n - 1] |-> LenOf(x, f)]
      BY <2>2
    <3> HIDE DEF T
    <3> QED
      BY <1>1, <3>1, <3>2
  <2> HIDE DEF T
  <2> QED
    BY <2>1, <2>2, ItemsUnfold, Turns
<1>3. ItemLen = [x \in Items |-> LenOf(x, ItemLen)]
  <2>1. ItemLen = CHOOSE f : f = [x \in Items |-> LenOf(x, f)]
    BY DEF ItemLen, LenOf
  <2>2. \E f : f = [x \in Items |-> LenOf(x, f)]
    BY <1>2 DEF Items
  <2> HIDE DEF LenOf
  <2> QED
    BY <2>1, <2>2
<1> QED
  <2> HIDE DEF LenOf
  <2> QED
    BY <1>3

(* What is inserted.                                                       *)
InsertOf(regex, id, x, f) ==
  CASE x.kind = "empty" -> Leaf(regex, {id}, x.fold)
    [] x.kind = "leaf"  -> LeafInsert(x, regex, id)
    [] OTHER -> NodeInsert(x, [i \in DOMAIN x.children |-> f[x.children[i]]], regex, id)

LEMMA InsertionUnfold ==
  ASSUME NEW regex, NEW id
  PROVE  \A x \in Items : Insertion(regex, id)[x] = InsertOf(regex, id, x, Insertion(regex, id))
<1> DEFINE T == {n \in 0..MaxChange : \E f : f = [x \in ItemsOf[n] |-> InsertOf(regex, id, x, f)]}
<1>1. ASSUME NEW n \in 0..MaxChange, NEW f,
             n # 0 => f = [x \in ItemsOf[n - 1] |-> InsertOf(regex, id, x, f)]
      PROVE  n \in T
  <2> DEFINE g == [x \in ItemsOf[n] |-> InsertOf(regex, id, x, f)]
  <2>1. ASSUME NEW x \in ItemsOf[n] PROVE InsertOf(regex, id, x, f) = InsertOf(regex, id, x, g)
    <3>1. ASSUME x.kind = "node", NEW i \in DOMAIN x.children
          PROVE  f[x.children[i]] = g[x.children[i]]
      <4> DEFINE c == x.children[i]
      <4>1. n # 0 /\ c \in ItemsOf[n - 1] /\ c \in ItemsOf[n]
        BY <3>1, ChildrenIn
      <4> HIDE DEF c
      <4>3. f[c] = InsertOf(regex, id, c, f) /\ g[c] = InsertOf(regex, id, c, f)
        BY <1>1, <4>1
      <4> QED
        BY <4>3 DEF c
    <3>2. x.kind \in {"empty", "leaf", "node"}
      BY ItemKinds
    <3>3. x.kind = "node" => {f[x.children[i]] : i \in DOMAIN x.children}
                              = {g[x.children[i]] : i \in DOMAIN x.children}
      <4> HIDE DEF g
      <4> QED
        BY <3>1
    <3> HIDE DEF g
    <3> QED
      BY <3>1, <3>2, <3>3 DEF InsertOf
  <2>2. g = [x \in ItemsOf[n] |-> InsertOf(regex, id, x, g)]
    <3> HIDE DEF InsertOf
    <3> QED
      BY <2>1
  <2> QED
    BY <2>2
<1>2. MaxChange \in T
  <2>1. 0 \in T
    BY <1>1, ItemsUnfold
  <2>2. ASSUME NEW n \in 1..MaxChange, n - 1 \in T PROVE n \in T
    <3>1. n \in 0..MaxChange
      BY ItemsUnfold
    <3>2. PICK f : f = [x \in ItemsOf[n - 1] |-> InsertOf(regex, id, x, f)]
      BY <2>2
    <3> HIDE DEF T
    <3> QED
      BY <1>1, <3>1, <3>2
  <2> HIDE DEF T
  <2> QED
    BY <2>1, <2>2, ItemsUnfold, Turns
<1>3. Insertion(regex, id) = [x \in Items |-> InsertOf(regex, id, x, Insertion(regex, id))]
  <2>1. Insertion(regex, id) = CHOOSE f : f = [x \in Items |-> InsertOf(regex, id, x, f)]
    BY DEF Insertion, InsertOf
  <2>2. \E f : f = [x \in Items |-> InsertOf(regex, id, x, f)]
    BY <1>2 DEF Items
  <2> HIDE DEF InsertOf
  <2> QED
    BY <2>1, <2>2
<1> QED
  <2> HIDE DEF InsertOf
  <2> QED
    BY <1>3

(* What is found.                                                          *)
FindOf(word, x, f) ==
  CASE x.kind = "empty" -> {}
    [] x.kind = "leaf"  -> IF LeafMatches(x.regex, x.fold, word) THEN EntriesOf(x) ELSE {}
    [] OTHER -> IF NodeMatches(x.regex, x.fold, word)
                           THEN UNION {f[x.children[i]] : i \in DOMAIN x.children} ELSE {}

LEMMA FoundUnfold ==
  ASSUME NEW word
  PROVE  \A x \in Items : Found(word)[x] = FindOf(word, x, Found(word))
<1> DEFINE T == {n \in 0..MaxChange : \E f : f = [x \in ItemsOf[n] |-> FindOf(word, x, f)]}
<1>1. ASSUME NEW n \in 0..MaxChange, NEW f,
             n # 0 => f = [x \in ItemsOf[n - 1] |-> FindOf(word, x, f)]
      PROVE  n \in T
  <2> DEFINE g == [x \in ItemsOf[n] |-> FindOf(word, x, f)]
  <2>1. ASSUME NEW x \in ItemsOf[n] PROVE FindOf(word, x, f) = FindOf(word, x, g)
    <3>1. ASSUME x.kind = "node", NEW i \in DOMAIN x.children
          PROVE  f[x.children[i]] = g[x.children[i]]
      <4> DEFINE c == x.children[i]
      <4>1. n # 0 /\ c \in ItemsOf[n - 1] /\ c \in ItemsOf[n]
        BY <3>1, ChildrenIn
      <4> HIDE DEF c
      <4>3. f[c] = FindOf(word, c, f) /\ g[c] = FindOf(word, c, f)
        BY <1>1, <4>1
      <4> QED
        BY <4>3 DEF c
    <3>2. x.kind \in {"empty", "leaf", "node"}
      BY ItemKinds
    <3>3. x.kind = "node" => {f[x.children[i]] : i \in DOMAIN x.children}
                              = {g[x.children[i]] : i \in DOMAIN x.children}
      <4> HIDE DEF g
      <4> QED
        BY <3>1
    <3> HIDE DEF g
    <3> QED
      BY <3>1, <3>2, <3>3 DEF FindOf
  <2>2. g = [x \in ItemsOf[n] |-> FindOf(word, x, g)]
    <3> HIDE DEF FindOf
    <3> QED
      BY <2>1
  <2> QED
    BY <2>2
<1>2. MaxChange \in T
  <2>1. 0 \in T
    BY <1>1, ItemsUnfold
  <2>2. ASSUME NEW n \in 1..MaxChange, n - 1 \in T PROVE n \in T
    <3>1. n \in 0..MaxChange
      BY ItemsUnfold
    <3>2. PICK f : f = [x \in ItemsOf[n - 1] |-> FindOf(word, x, f)]
      BY <2>2
    <3> HIDE DEF T
    <3> QED
      BY <1>1, <3>1, <3>2
  <2> HIDE DEF T
  <2> QED
    BY <2>1, <2>2, ItemsUnfold, Turns
<1>3. Found(word) = [x \in Items |-> FindOf(word, x, Found(word))]
  <2>1. Found(word) = CHOOSE f : f = [x \in Items |-> FindOf(word, x, f)]
    BY DEF Found, FindOf
  <2>2. \E f : f = [x \in Items |-> FindOf(word, x, f)]
    BY <1>2 DEF Items
  <2> HIDE DEF FindOf
  <2> QED
    BY <2>1, <2>2
<1> QED
  <2> HIDE DEF FindOf
  <2> QED
    BY <1>3

(* What is got.                                                            *)
GetOf(regex, x, f) ==
  CASE x.kind = "empty" -> {}
    [] x.kind = "leaf"  -> IF x.regex = regex THEN EntriesOf(x) ELSE {}
    [] OTHER -> IF IsPrefix(x.regex, regex)
                           THEN UNION {f[x.children[i]] : i \in DOMAIN x.children} ELSE {}

LEMMA GotUnfold ==
  ASSUME NEW regex
  PROVE  \A x \in Items : Got(regex)[x] = GetOf(regex, x, Got(regex))
<1> DEFINE T == {n \in 0..MaxChange : \E f : f = [x \in ItemsOf[n] |-> GetOf(regex, x, f)]}
<1>1. ASSUME NEW n \in 0..MaxChange, NEW f,
             n # 0 => f = [x \in ItemsOf[n - 1] |-> GetOf(regex, x, f)]
      PROVE  n \in T
  <2> DEFINE g == [x \in ItemsOf[n] |-> GetOf(regex, x, f)]
  <2>1. ASSUME NEW x \in ItemsOf[n] PROVE GetOf(regex, x, f) = GetOf(regex, x, g)
    <3>1. ASSUME x.kind = "node", NEW i \in DOMAIN x.children
          PROVE  f[x.children[i]] = g[x.children[i]]
      <4> DEFINE c == x.children[i]
      <4>1. n # 0 /\ c \in ItemsOf[n - 1] /\ c \in ItemsOf[n]
        BY <3>1, ChildrenIn
      <4> HIDE DEF c
      <4>3. f[c] = GetOf(regex, c, f) /\ g[c] = GetOf(regex, c, f)
        BY <1>1, <4>1
      <4> QED
        BY <4>3 DEF c
    <3>2. x.kind \in {"empty", "leaf", "node"}
      BY ItemKinds
    <3>3. x.kind = "node" => {f[x.children[i]] : i \in DOMAIN x.children}
                              = {g[x.children[i]] : i \in DOMAIN x.children}
      <4> HIDE DEF g
      <4> QED
        BY <3>1
    <3> HIDE DEF g
    <3> QED
      BY <3>1, <3>2, <3>3 DEF GetOf
  <2>2. g = [x \in ItemsOf[n] |-> GetOf(regex, x, g)]
    <3> HIDE DEF GetOf
    <3> QED
      BY <2>1
  <2> QED
    BY <2>2
<1>2. MaxChange \in T
  <2>1. 0 \in T
    BY <1>1, ItemsUnfold
  <2>2. ASSUME NEW n \in 1..MaxChange, n - 1 \in T PROVE n \in T
    <3>1. n \in 0..MaxChange
      BY ItemsUnfold
    <3>2. PICK f : f = [x \in ItemsOf[n - 1] |-> GetOf(regex, x, f)]
      BY <2>2
    <3> HIDE DEF T
    <3> QED
      BY <1>1, <3>1, <3>2
  <2> HIDE DEF T
  <2> QED
    BY <2>1, <2>2, ItemsUnfold, Turns
<1>3. Got(regex) = [x \in Items |-> GetOf(regex, x, Got(regex))]
  <2>1. Got(regex) = CHOOSE f : f = [x \in Items |-> GetOf(regex, x, f)]
    BY DEF Got, GetOf
  <2>2. \E f : f = [x \in Items |-> GetOf(regex, x, f)]
    BY <1>2 DEF Items
  <2> HIDE DEF GetOf
  <2> QED
    BY <2>1, <2>2
<1> QED
  <2> HIDE DEF GetOf
  <2> QED
    BY <1>3

(* What is removed.                                                        *)
RemoveOf(id, x, f) ==
  CASE x.kind = "empty" -> [item |-> x, value |-> NoEntry]
    [] x.kind = "leaf"  -> LeafRemoval(x, id)
    [] OTHER -> NodeRemoval(x, [i \in DOMAIN x.children |-> f[x.children[i]]])

LEMMA RemovalUnfold ==
  ASSUME NEW id
  PROVE  \A x \in Items : Removal(id)[x] = RemoveOf(id, x, Removal(id))
<1> DEFINE T == {n \in 0..MaxChange : \E f : f = [x \in ItemsOf[n] |-> RemoveOf(id, x, f)]}
<1>1. ASSUME NEW n \in 0..MaxChange, NEW f,
             n # 0 => f = [x \in ItemsOf[n - 1] |-> RemoveOf(id, x, f)]
      PROVE  n \in T
  <2> DEFINE g == [x \in ItemsOf[n] |-> RemoveOf(id, x, f)]
  <2>1. ASSUME NEW x \in ItemsOf[n] PROVE RemoveOf(id, x, f) = RemoveOf(id, x, g)
    <3>1. ASSUME x.kind = "node", NEW i \in DOMAIN x.children
          PROVE  f[x.children[i]] = g[x.children[i]]
      <4> DEFINE c == x.children[i]
      <4>1. n # 0 /\ c \in ItemsOf[n - 1] /\ c \in ItemsOf[n]
        BY <3>1, ChildrenIn
      <4> HIDE DEF c
      <4>3. f[c] = RemoveOf(id, c, f) /\ g[c] = RemoveOf(id, c, f)
        BY <1>1, <4>1
      <4> QED
        BY <4>3 DEF c
    <3>2. x.kind \in {"empty", "leaf", "node"}
      BY ItemKinds
    <3>3. x.kind = "node" => {f[x.children[i]] : i \in DOMAIN x.children}
                              = {g[x.children[i]] : i \in DOMAIN x.children}
      <4> HIDE DEF g
      <4> QED
        BY <3>1
    <3> HIDE DEF g
    <3> QED
      BY <3>1, <3>2, <3>3 DEF RemoveOf
  <2>2. g = [x \in ItemsOf[n] |-> RemoveOf(id, x, g)]
    <3> HIDE DEF RemoveOf
    <3> QED
      BY <2>1
  <2> QED
    BY <2>2
<1>2. MaxChange \in T
  <2>1. 0 \in T
    BY <1>1, ItemsUnfold
  <2>2. ASSUME NEW n \in 1..MaxChange, n - 1 \in T PROVE n \in T
    <3>1. n \in 0..MaxChange
      BY ItemsUnfold
    <3>2. PICK f : f = [x \in ItemsOf[n - 1] |-> RemoveOf(id, x, f)]
      BY <2>2
    <3> HIDE DEF T
    <3> QED
      BY <1>1, <3>1, <3>2
  <2> HIDE DEF T
  <2> QED
    BY <2>1, <2>2, ItemsUnfold, Turns
<1>3. Removal(id) = [x \in Items |-> RemoveOf(id, x, Removal(id))]
  <2>1. Removal(id) = CHOOSE f : f = [x \in Items |-> RemoveOf(id, x, f)]
    BY DEF Removal, RemoveOf
  <2>2. \E f : f = [x \in Items |-> RemoveOf(id, x, f)]
    BY <1>2 DEF Items
  <2> HIDE DEF RemoveOf
  <2> QED
    BY <2>1, <2>2
<1> QED
  <2> HIDE DEF RemoveOf
  <2> QED
    BY <1>3

(* What is retained.                                                       *)
RetainOf(ids, x, f) ==
  CASE x.kind = "empty" -> x
    [] x.kind = "leaf"  -> LeafWithout(x, ids)
    [] OTHER -> NodeRetained(x, [i \in DOMAIN x.children |-> f[x.children[i]]])

LEMMA RetainedUnfold ==
  ASSUME NEW ids
  PROVE  \A x \in Items : Retained(ids)[x] = RetainOf(ids, x, Retained(ids))
<1> DEFINE T == {n \in 0..MaxChange : \E f : f = [x \in ItemsOf[n] |-> RetainOf(ids, x, f)]}
<1>1. ASSUME NEW n \in 0..MaxChange, NEW f,
             n # 0 => f = [x \in ItemsOf[n - 1] |-> RetainOf(ids, x, f)]
      PROVE  n \in T
  <2> DEFINE g == [x \in ItemsOf[n] |-> RetainOf(ids, x, f)]
  <2>1. ASSUME NEW x \in ItemsOf[n] PROVE RetainOf(ids, x, f) = RetainOf(ids, x, g)
    <3>1. ASSUME x.kind = "node", NEW i \in DOMAIN x.children
          PROVE  f[x.children[i]] = g[x.children[i]]
      <4> DEFINE c == x.children[i]
      <4>1. n # 0 /\ c \in ItemsOf[n - 1] /\ c \in ItemsOf[n]
        BY <3>1, ChildrenIn
      <4> HIDE DEF c
      <4>3. f[c] = RetainOf(ids, c, f) /\ g[c] = RetainOf(ids, c, f)
        BY <1>1, <4>1
      <4> QED
        BY <4>3 DEF c
    <3>2. x.kind \in {"empty", "leaf", "node"}
      BY ItemKinds
    <3>3. x.kind = "node" => {f[x.children[i]] : i \in DOMAIN x.children}
                              = {g[x.children[i]] : i \in DOMAIN x.children}
      <4> HIDE DEF g
      <4> QED
        BY <3>1
    <3> HIDE DEF g
    <3> QED
      BY <3>1, <3>2, <3>3 DEF RetainOf
  <2>2. g = [x \in ItemsOf[n] |-> RetainOf(ids, x, g)]
    <3> HIDE DEF RetainOf
    <3> QED
      BY <2>1
  <2> QED
    BY <2>2
<1>2. MaxChange \in T
  <2>1. 0 \in T
    BY <1>1, ItemsUnfold
  <2>2. ASSUME NEW n \in 1..MaxChange, n - 1 \in T PROVE n \in T
    <3>1. n \in 0..MaxChange
      BY ItemsUnfold
    <3>2. PICK f : f = [x \in ItemsOf[n - 1] |-> RetainOf(ids, x, f)]
      BY <2>2
    <3> HIDE DEF T
    <3> QED
      BY <1>1, <3>1, <3>2
  <2> HIDE DEF T
  <2> QED
    BY <2>1, <2>2, ItemsUnfold, Turns
<1>3. Retained(ids) = [x \in Items |-> RetainOf(ids, x, Retained(ids))]
  <2>1. Retained(ids) = CHOOSE f : f = [x \in Items |-> RetainOf(ids, x, f)]
    BY DEF Retained, RetainOf
  <2>2. \E f : f = [x \in Items |-> RetainOf(ids, x, f)]
    BY <1>2 DEF Items
  <2> HIDE DEF RetainOf
  <2> QED
    BY <2>1, <2>2
<1> QED
  <2> HIDE DEF RetainOf
  <2> QED
    BY <1>3

(* What is cached.                                                         *)
CacheOf(x, f) ==
  [left \in Nat |-> [level \in Nat |-> CacheAt(x, [i \in DOMAIN x.children |-> f[x.children[i]]], left, level)]]

LEMMA CacheItemUnfold ==
  \A x \in Items : CacheItem[x] = CacheOf(x, CacheItem)
<1> DEFINE T == {n \in 0..MaxChange : \E f : f = [x \in ItemsOf[n] |-> CacheOf(x, f)]}
<1>1. ASSUME NEW n \in 0..MaxChange, NEW f,
             n # 0 => f = [x \in ItemsOf[n - 1] |-> CacheOf(x, f)]
      PROVE  n \in T
  <2> DEFINE g == [x \in ItemsOf[n] |-> CacheOf(x, f)]
  <2>1. ASSUME NEW x \in ItemsOf[n] PROVE CacheOf(x, f) = CacheOf(x, g)
    <3>1. ASSUME x.kind = "node", NEW i \in DOMAIN x.children
          PROVE  f[x.children[i]] = g[x.children[i]]
      <4> DEFINE c == x.children[i]
      <4>1. n # 0 /\ c \in ItemsOf[n - 1] /\ c \in ItemsOf[n]
        BY <3>1, ChildrenIn
      <4> HIDE DEF c
      <4>3. f[c] = CacheOf(c, f) /\ g[c] = CacheOf(c, f)
        BY <1>1, <4>1
      <4> QED
        BY <4>3 DEF c
    <3>2. x.kind \in {"empty", "leaf", "node"}
      BY ItemKinds
    <3>3. x.kind = "node" => {f[x.children[i]] : i \in DOMAIN x.children}
                              = {g[x.children[i]] : i \in DOMAIN x.children}
      <4> HIDE DEF g
      <4> QED
        BY <3>1
    <3> HIDE DEF g
    <3> QED
      BY <3>1, <3>2, <3>3 DEF CacheOf, CacheAt
  <2>2. g = [x \in ItemsOf[n] |-> CacheOf(x, g)]
    <3> HIDE DEF CacheOf
    <3> QED
      BY <2>1
  <2> QED
    BY <2>2
<1>2. MaxChange \in T
  <2>1. 0 \in T
    BY <1>1, ItemsUnfold
  <2>2. ASSUME NEW n \in 1..MaxChange, n - 1 \in T PROVE n \in T
    <3>1. n \in 0..MaxChange
      BY ItemsUnfold
    <3>2. PICK f : f = [x \in ItemsOf[n - 1] |-> CacheOf(x, f)]
      BY <2>2
    <3> HIDE DEF T
    <3> QED
      BY <1>1, <3>1, <3>2
  <2> HIDE DEF T
  <2> QED
    BY <2>1, <2>2, ItemsUnfold, Turns
<1>3. CacheItem = [x \in Items |-> CacheOf(x, CacheItem)]
  <2>1. CacheItem = CHOOSE f : f = [x \in Items |-> CacheOf(x, f)]
    BY DEF CacheItem, CacheOf
  <2>2. \E f : f = [x \in Items |-> CacheOf(x, f)]
    BY <1>2 DEF Items
  <2> HIDE DEF CacheOf
  <2> QED
    BY <2>1, <2>2
<1> QED
  <2> HIDE DEF CacheOf
  <2> QED
    BY <1>3

(* What is compiled.                                                       *)
CachedOf(x, f) ==
  IF x.kind = "empty" THEN 0
  ELSE (IF x.compiled THEN 1 ELSE 0) + (IF x.kind = "leaf" THEN 0 ELSE Total([i \in DOMAIN x.children |-> f[x.children[i]]]))

LEMMA CachedLenUnfold ==
  \A x \in Items : CachedLen[x] = CachedOf(x, CachedLen)
<1> DEFINE T == {n \in 0..MaxChange : \E f : f = [x \in ItemsOf[n] |-> CachedOf(x, f)]}
<1>1. ASSUME NEW n \in 0..MaxChange, NEW f,
             n # 0 => f = [x \in ItemsOf[n - 1] |-> CachedOf(x, f)]
      PROVE  n \in T
  <2> DEFINE g == [x \in ItemsOf[n] |-> CachedOf(x, f)]
  <2>1. ASSUME NEW x \in ItemsOf[n] PROVE CachedOf(x, f) = CachedOf(x, g)
    <3>1. ASSUME x.kind = "node", NEW i \in DOMAIN x.children
          PROVE  f[x.children[i]] = g[x.children[i]]
      <4> DEFINE c == x.children[i]
      <4>1. n # 0 /\ c \in ItemsOf[n - 1] /\ c \in ItemsOf[n]
        BY <3>1, ChildrenIn
      <4> HIDE DEF c
      <4>3. f[c] = CachedOf(c, f) /\ g[c] = CachedOf(c, f)
        BY <1>1, <4>1
      <4> QED
        BY <4>3 DEF c
    <3>2. x.kind \in {"empty", "leaf", "node"}
      BY ItemKinds
    <3>3. x.kind = "node" => {f[x.children[i]] : i \in DOMAIN x.children}
                              = {g[x.children[i]] : i \in DOMAIN x.children}
      <4> HIDE DEF g
      <4> QED
        BY <3>1
    <3> HIDE DEF g
    <3> QED
      BY <3>1, <3>2, <3>3 DEF CachedOf
  <2>2. g = [x \in ItemsOf[n] |-> CachedOf(x, g)]
    <3> HIDE DEF CachedOf
    <3> QED
      BY <2>1
  <2> QED
    BY <2>2
<1>2. MaxChange \in T
  <2>1. 0 \in T
    BY <1>1, ItemsUnfold
  <2>2. ASSUME NEW n \in 1..MaxChange, n - 1 \in T PROVE n \in T
    <3>1. n \in 0..MaxChange
      BY ItemsUnfold
    <3>2. PICK f : f = [x \in ItemsOf[n - 1] |-> CachedOf(x, f)]
      BY <2>2
    <3> HIDE DEF T
    <3> QED
      BY <1>1, <3>1, <3>2
  <2> HIDE DEF T
  <2> QED
    BY <2>1, <2>2, ItemsUnfold, Turns
<1>3. CachedLen = [x \in Items |-> CachedOf(x, CachedLen)]
  <2>1. CachedLen = CHOOSE f : f = [x \in Items |-> CachedOf(x, f)]
    BY DEF CachedLen, CachedOf
  <2>2. \E f : f = [x \in Items |-> CachedOf(x, f)]
    BY <1>2 DEF Items
  <2> HIDE DEF CachedOf
  <2> QED
    BY <2>1, <2>2
<1> QED
  <2> HIDE DEF CachedOf
  <2> QED
    BY <1>3

(* What is traced.                                                         *)
TraceOf(word, x, f) ==
  CASE x.kind = "empty" -> [matched |-> TRUE, count |-> 0, children |-> <<>>, values |-> {}]
    [] x.kind = "leaf"  -> [matched |-> LeafMatches(x.regex, x.fold, word), count |-> Cardinality(x.ids),
                            children |-> <<>>, values |-> EntriesOf(x)]
    [] OTHER ->
         LET matched == NodeMatches(x.regex, x.fold, word)
         IN [matched |-> matched, count |-> ItemLen[x], values |-> {},
             children |-> IF matched THEN [i \in DOMAIN x.children |-> f[x.children[i]]] ELSE <<>>]

LEMMA TraceUnfold ==
  ASSUME NEW word
  PROVE  \A x \in Items : Trace(word)[x] = TraceOf(word, x, Trace(word))
<1> DEFINE T == {n \in 0..MaxChange : \E f : f = [x \in ItemsOf[n] |-> TraceOf(word, x, f)]}
<1>1. ASSUME NEW n \in 0..MaxChange, NEW f,
             n # 0 => f = [x \in ItemsOf[n - 1] |-> TraceOf(word, x, f)]
      PROVE  n \in T
  <2> DEFINE g == [x \in ItemsOf[n] |-> TraceOf(word, x, f)]
  <2>1. ASSUME NEW x \in ItemsOf[n] PROVE TraceOf(word, x, f) = TraceOf(word, x, g)
    <3>1. ASSUME x.kind = "node", NEW i \in DOMAIN x.children
          PROVE  f[x.children[i]] = g[x.children[i]]
      <4> DEFINE c == x.children[i]
      <4>1. n # 0 /\ c \in ItemsOf[n - 1] /\ c \in ItemsOf[n]
        BY <3>1, ChildrenIn
      <4> HIDE DEF c
      <4>3. f[c] = TraceOf(word, c, f) /\ g[c] = TraceOf(word, c, f)
        BY <1>1, <4>1
      <4> QED
        BY <4>3 DEF c
    <3>2. x.kind \in {"empty", "leaf", "node"}
      BY ItemKinds
    <3>3. x.kind = "node" => {f[x.children[i]] : i \in DOMAIN x.children}
                              = {g[x.children[i]] : i \in DOMAIN x.children}
      <4> HIDE DEF g
      <4> QED
        BY <3>1
    <3> HIDE DEF g
    <3> QED
      BY <3>1, <3>2, <3>3 DEF TraceOf
  <2>2. g = [x \in ItemsOf[n] |-> TraceOf(word, x, g)]
    <3> HIDE DEF TraceOf
    <3> QED
      BY <2>1
  <2> QED
    BY <2>2
<1>2. MaxChange \in T
  <2>1. 0 \in T
    BY <1>1, ItemsUnfold
  <2>2. ASSUME NEW n \in 1..MaxChange, n - 1 \in T PROVE n \in T
    <3>1. n \in 0..MaxChange
      BY ItemsUnfold
    <3>2. PICK f : f = [x \in ItemsOf[n - 1] |-> TraceOf(word, x, f)]
      BY <2>2
    <3> HIDE DEF T
    <3> QED
      BY <1>1, <3>1, <3>2
  <2> HIDE DEF T
  <2> QED
    BY <2>1, <2>2, ItemsUnfold, Turns
<1>3. Trace(word) = [x \in Items |-> TraceOf(word, x, Trace(word))]
  <2>1. Trace(word) = CHOOSE f : f = [x \in Items |-> TraceOf(word, x, f)]
    BY DEF Trace, TraceOf
  <2>2. \E f : f = [x \in Items |-> TraceOf(word, x, f)]
    BY <1>2 DEF Items
  <2> HIDE DEF TraceOf
  <2> QED
    BY <2>1, <2>2
<1> QED
  <2> HIDE DEF TraceOf
  <2> QED
    BY <1>3

(* What the turns are.                                                     *)
TurnsFor(x, f) ==
  CASE x.kind = "empty" -> 1
    [] x.kind = "leaf"  -> 1 + Cardinality(x.ids)
    [] OTHER -> 2 + Total([i \in DOMAIN x.children |-> f[x.children[i]]])

LEMMA TurnsOfUnfold ==
  \A x \in Items : TurnsOf[x] = TurnsFor(x, TurnsOf)
<1> DEFINE T == {n \in 0..MaxChange : \E f : f = [x \in ItemsOf[n] |-> TurnsFor(x, f)]}
<1>1. ASSUME NEW n \in 0..MaxChange, NEW f,
             n # 0 => f = [x \in ItemsOf[n - 1] |-> TurnsFor(x, f)]
      PROVE  n \in T
  <2> DEFINE g == [x \in ItemsOf[n] |-> TurnsFor(x, f)]
  <2>1. ASSUME NEW x \in ItemsOf[n] PROVE TurnsFor(x, f) = TurnsFor(x, g)
    <3>1. ASSUME x.kind = "node", NEW i \in DOMAIN x.children
          PROVE  f[x.children[i]] = g[x.children[i]]
      <4> DEFINE c == x.children[i]
      <4>1. n # 0 /\ c \in ItemsOf[n - 1] /\ c \in ItemsOf[n]
        BY <3>1, ChildrenIn
      <4> HIDE DEF c
      <4>3. f[c] = TurnsFor(c, f) /\ g[c] = TurnsFor(c, f)
        BY <1>1, <4>1
      <4> QED
        BY <4>3 DEF c
    <3>2. x.kind \in {"empty", "leaf", "node"}
      BY ItemKinds
    <3>3. x.kind = "node" => {f[x.children[i]] : i \in DOMAIN x.children}
                              = {g[x.children[i]] : i \in DOMAIN x.children}
      <4> HIDE DEF g
      <4> QED
        BY <3>1
    <3> HIDE DEF g
    <3> QED
      BY <3>1, <3>2, <3>3 DEF TurnsFor
  <2>2. g = [x \in ItemsOf[n] |-> TurnsFor(x, g)]
    <3> HIDE DEF TurnsFor
    <3> QED
      BY <2>1
  <2> QED
    BY <2>2
<1>2. MaxChange \in T
  <2>1. 0 \in T
    BY <1>1, ItemsUnfold
  <2>2. ASSUME NEW n \in 1..MaxChange, n - 1 \in T PROVE n \in T
    <3>1. n \in 0..MaxChange
      BY ItemsUnfold
    <3>2. PICK f : f = [x \in ItemsOf[n - 1] |-> TurnsFor(x, f)]
      BY <2>2
    <3> HIDE DEF T
    <3> QED
      BY <1>1, <3>1, <3>2
  <2> HIDE DEF T
  <2> QED
    BY <2>1, <2>2, ItemsUnfold, Turns
<1>3. TurnsOf = [x \in Items |-> TurnsFor(x, TurnsOf)]
  <2>1. TurnsOf = CHOOSE f : f = [x \in Items |-> TurnsFor(x, f)]
    BY DEF TurnsOf, TurnsFor
  <2>2. \E f : f = [x \in Items |-> TurnsFor(x, f)]
    BY <1>2 DEF Items
  <2> HIDE DEF TurnsFor
  <2> QED
    BY <2>1, <2>2
<1> QED
  <2> HIDE DEF TurnsFor
  <2> QED
    BY <1>3

(* That the flag is one.                                                   *)
OKOf(x, f) ==
  /\ x.fold = ignoreCase
  /\ x.kind = "leaf" => x.ids # {}
  /\ x.kind = "node" => \A i \in DOMAIN x.children : f[x.children[i]]

LEMMA ItemOKUnfold ==
  \A x \in Items : ItemOK[x] = OKOf(x, ItemOK)
<1> DEFINE T == {n \in 0..MaxChange : \E f : f = [x \in ItemsOf[n] |-> OKOf(x, f)]}
<1>1. ASSUME NEW n \in 0..MaxChange, NEW f,
             n # 0 => f = [x \in ItemsOf[n - 1] |-> OKOf(x, f)]
      PROVE  n \in T
  <2> DEFINE g == [x \in ItemsOf[n] |-> OKOf(x, f)]
  <2>1. ASSUME NEW x \in ItemsOf[n] PROVE OKOf(x, f) = OKOf(x, g)
    <3>1. ASSUME x.kind = "node", NEW i \in DOMAIN x.children
          PROVE  f[x.children[i]] = g[x.children[i]]
      <4> DEFINE c == x.children[i]
      <4>1. n # 0 /\ c \in ItemsOf[n - 1] /\ c \in ItemsOf[n]
        BY <3>1, ChildrenIn
      <4> HIDE DEF c
      <4>3. f[c] = OKOf(c, f) /\ g[c] = OKOf(c, f)
        BY <1>1, <4>1
      <4> QED
        BY <4>3 DEF c
    <3>2. x.kind \in {"empty", "leaf", "node"}
      BY ItemKinds
    <3>3. x.kind = "node" => {f[x.children[i]] : i \in DOMAIN x.children}
                              = {g[x.children[i]] : i \in DOMAIN x.children}
      <4> HIDE DEF g
      <4> QED
        BY <3>1
    <3> HIDE DEF g
    <3> QED
      BY <3>1, <3>2, <3>3 DEF OKOf
  <2>2. g = [x \in ItemsOf[n] |-> OKOf(x, g)]
    <3> HIDE DEF OKOf
    <3> QED
      BY <2>1
  <2> QED
    BY <2>2
<1>2. MaxChange \in T
  <2>1. 0 \in T
    BY <1>1, ItemsUnfold
  <2>2. ASSUME NEW n \in 1..MaxChange, n - 1 \in T PROVE n \in T
    <3>1. n \in 0..MaxChange
      BY ItemsUnfold
    <3>2. PICK f : f = [x \in ItemsOf[n - 1] |-> OKOf(x, f)]
      BY <2>2
    <3> HIDE DEF T
    <3> QED
      BY <1>1, <3>1, <3>2
  <2> HIDE DEF T
  <2> QED
    BY <2>1, <2>2, ItemsUnfold, Turns
<1>3. ItemOK = [x \in Items |-> OKOf(x, ItemOK)]
  <2>1. ItemOK = CHOOSE f : f = [x \in Items |-> OKOf(x, f)]
    BY DEF ItemOK, OKOf
  <2>2. \E f : f = [x \in Items |-> OKOf(x, f)]
    BY <1>2 DEF Items
  <2> HIDE DEF OKOf
  <2> QED
    BY <2>1, <2>2
<1> QED
  <2> HIDE DEF OKOf
  <2> QED
    BY <1>3

(* That a node branches.                                                   *)
BranchesOf(x, f) ==
  x.kind = "node" =>
    /\ Len(x.children) >= 2
    /\ \A i \in DOMAIN x.children :
         /\ ~IsEmptyItem(x.children[i]) /\ IsPrefix(x.regex, RegexOf(x.children[i]))
         /\ f[x.children[i]]

LEMMA BranchesUnfold ==
  \A x \in Items : Branches[x] = BranchesOf(x, Branches)
<1> DEFINE T == {n \in 0..MaxChange : \E f : f = [x \in ItemsOf[n] |-> BranchesOf(x, f)]}
<1>1. ASSUME NEW n \in 0..MaxChange, NEW f,
             n # 0 => f = [x \in ItemsOf[n - 1] |-> BranchesOf(x, f)]
      PROVE  n \in T
  <2> DEFINE g == [x \in ItemsOf[n] |-> BranchesOf(x, f)]
  <2>1. ASSUME NEW x \in ItemsOf[n] PROVE BranchesOf(x, f) = BranchesOf(x, g)
    <3>1. ASSUME x.kind = "node", NEW i \in DOMAIN x.children
          PROVE  f[x.children[i]] = g[x.children[i]]
      <4> DEFINE c == x.children[i]
      <4>1. n # 0 /\ c \in ItemsOf[n - 1] /\ c \in ItemsOf[n]
        BY <3>1, ChildrenIn
      <4> HIDE DEF c
      <4>3. f[c] = BranchesOf(c, f) /\ g[c] = BranchesOf(c, f)
        BY <1>1, <4>1
      <4> QED
        BY <4>3 DEF c
    <3>2. x.kind \in {"empty", "leaf", "node"}
      BY ItemKinds
    <3>3. x.kind = "node" => {f[x.children[i]] : i \in DOMAIN x.children}
                              = {g[x.children[i]] : i \in DOMAIN x.children}
      <4> HIDE DEF g
      <4> QED
        BY <3>1
    <3> HIDE DEF g
    <3> QED
      BY <3>1, <3>2, <3>3 DEF BranchesOf
  <2>2. g = [x \in ItemsOf[n] |-> BranchesOf(x, g)]
    <3> HIDE DEF BranchesOf
    <3> QED
      BY <2>1
  <2> QED
    BY <2>2
<1>2. MaxChange \in T
  <2>1. 0 \in T
    BY <1>1, ItemsUnfold
  <2>2. ASSUME NEW n \in 1..MaxChange, n - 1 \in T PROVE n \in T
    <3>1. n \in 0..MaxChange
      BY ItemsUnfold
    <3>2. PICK f : f = [x \in ItemsOf[n - 1] |-> BranchesOf(x, f)]
      BY <2>2
    <3> HIDE DEF T
    <3> QED
      BY <1>1, <3>1, <3>2
  <2> HIDE DEF T
  <2> QED
    BY <2>1, <2>2, ItemsUnfold, Turns
<1>3. Branches = [x \in Items |-> BranchesOf(x, Branches)]
  <2>1. Branches = CHOOSE f : f = [x \in Items |-> BranchesOf(x, f)]
    BY DEF Branches, BranchesOf
  <2>2. \E f : f = [x \in Items |-> BranchesOf(x, f)]
    BY <1>2 DEF Items
  <2> HIDE DEF BranchesOf
  <2> QED
    BY <2>1, <2>2
<1> QED
  <2> HIDE DEF BranchesOf
  <2> QED
    BY <1>3

(* The entries below an item.                                              *)
Held[item \in Items] ==
  CASE item.kind = "empty" -> {}
    [] item.kind = "leaf"  -> EntriesOf(item)
    [] OTHER -> UNION {Held[item.children[i]] : i \in DOMAIN item.children}

HoldsOf(x, f) ==
  CASE x.kind = "empty" -> {}
    [] x.kind = "leaf"  -> EntriesOf(x)
    [] OTHER -> UNION {f[x.children[i]] : i \in DOMAIN x.children}

LEMMA HeldUnfold ==
  \A x \in Items : Held[x] = HoldsOf(x, Held)
<1> DEFINE T == {n \in 0..MaxChange : \E f : f = [x \in ItemsOf[n] |-> HoldsOf(x, f)]}
<1>1. ASSUME NEW n \in 0..MaxChange, NEW f,
             n # 0 => f = [x \in ItemsOf[n - 1] |-> HoldsOf(x, f)]
      PROVE  n \in T
  <2> DEFINE g == [x \in ItemsOf[n] |-> HoldsOf(x, f)]
  <2>1. ASSUME NEW x \in ItemsOf[n] PROVE HoldsOf(x, f) = HoldsOf(x, g)
    <3>1. ASSUME x.kind = "node", NEW i \in DOMAIN x.children
          PROVE  f[x.children[i]] = g[x.children[i]]
      <4> DEFINE c == x.children[i]
      <4>1. n # 0 /\ c \in ItemsOf[n - 1] /\ c \in ItemsOf[n]
        BY <3>1, ChildrenIn
      <4> HIDE DEF c
      <4>3. f[c] = HoldsOf(c, f) /\ g[c] = HoldsOf(c, f)
        BY <1>1, <4>1
      <4> QED
        BY <4>3 DEF c
    <3>2. x.kind \in {"empty", "leaf", "node"}
      BY ItemKinds
    <3>3. x.kind = "node" => {f[x.children[i]] : i \in DOMAIN x.children}
                              = {g[x.children[i]] : i \in DOMAIN x.children}
      <4> HIDE DEF g
      <4> QED
        BY <3>1
    <3> HIDE DEF g
    <3> QED
      BY <3>1, <3>2, <3>3 DEF HoldsOf
  <2>2. g = [x \in ItemsOf[n] |-> HoldsOf(x, g)]
    <3> HIDE DEF HoldsOf
    <3> QED
      BY <2>1
  <2> QED
    BY <2>2
<1>2. MaxChange \in T
  <2>1. 0 \in T
    BY <1>1, ItemsUnfold
  <2>2. ASSUME NEW n \in 1..MaxChange, n - 1 \in T PROVE n \in T
    <3>1. n \in 0..MaxChange
      BY ItemsUnfold
    <3>2. PICK f : f = [x \in ItemsOf[n - 1] |-> HoldsOf(x, f)]
      BY <2>2
    <3> HIDE DEF T
    <3> QED
      BY <1>1, <3>1, <3>2
  <2> HIDE DEF T
  <2> QED
    BY <2>1, <2>2, ItemsUnfold, Turns
<1>3. Held = [x \in Items |-> HoldsOf(x, Held)]
  <2>1. Held = CHOOSE f : f = [x \in Items |-> HoldsOf(x, f)]
    BY DEF Held, HoldsOf
  <2>2. \E f : f = [x \in Items |-> HoldsOf(x, f)]
    BY <1>2 DEF Items
  <2> HIDE DEF HoldsOf
  <2> QED
    BY <2>1, <2>2
<1> QED
  <2> HIDE DEF HoldsOf
  <2> QED
    BY <1>3

(* A beginning of r at which no group and no escape is open.               *)
Cut(b, r) ==
  \E i \in 0..Len(r) :
    b = SubSeq(r, 1, i) /\ Scan(r)[i].level = 0 /\ ~Scan(r)[i].escape

(* A tree of beginnings, no entry twice, no item empty but the whole.      *)
Well[item \in Items] ==
  /\ item.kind = "leaf" => item.ids # {} /\ IsFiniteSet(item.ids)
  /\ item.kind = "node" =>
       /\ Len(item.children) >= 2
       /\ \A i \in DOMAIN item.children :
            /\ item.children[i].kind # "empty" /\ item.children[i].fold = item.fold
            /\ Cut(item.regex, RegexOf(item.children[i])) /\ Well[item.children[i]]
            /\ \A j \in DOMAIN item.children :
                 i # j => Held[item.children[i]] \cap Held[item.children[j]] = {}

WellOf(x, f) ==
  /\ x.kind = "leaf" => x.ids # {} /\ IsFiniteSet(x.ids)
  /\ x.kind = "node" =>
       /\ Len(x.children) >= 2
       /\ \A i \in DOMAIN x.children :
            /\ x.children[i].kind # "empty" /\ x.children[i].fold = x.fold
            /\ Cut(x.regex, RegexOf(x.children[i])) /\ f[x.children[i]]
            /\ \A j \in DOMAIN x.children :
                 i # j => Held[x.children[i]] \cap Held[x.children[j]] = {}

LEMMA WellUnfold ==
  \A x \in Items : Well[x] = WellOf(x, Well)
<1> DEFINE T == {n \in 0..MaxChange : \E f : f = [x \in ItemsOf[n] |-> WellOf(x, f)]}
<1>1. ASSUME NEW n \in 0..MaxChange, NEW f,
             n # 0 => f = [x \in ItemsOf[n - 1] |-> WellOf(x, f)]
      PROVE  n \in T
  <2> DEFINE g == [x \in ItemsOf[n] |-> WellOf(x, f)]
  <2>1. ASSUME NEW x \in ItemsOf[n] PROVE WellOf(x, f) = WellOf(x, g)
    <3>1. ASSUME x.kind = "node", NEW i \in DOMAIN x.children
          PROVE  f[x.children[i]] = g[x.children[i]]
      <4> DEFINE c == x.children[i]
      <4>1. n # 0 /\ c \in ItemsOf[n - 1] /\ c \in ItemsOf[n]
        BY <3>1, ChildrenIn
      <4> HIDE DEF c
      <4>3. f[c] = WellOf(c, f) /\ g[c] = WellOf(c, f)
        BY <1>1, <4>1
      <4> QED
        BY <4>3 DEF c
    <3>2. x.kind \in {"empty", "leaf", "node"}
      BY ItemKinds
    <3>3. x.kind = "node" => {f[x.children[i]] : i \in DOMAIN x.children}
                              = {g[x.children[i]] : i \in DOMAIN x.children}
      <4> HIDE DEF g
      <4> QED
        BY <3>1
    <3> HIDE DEF g
    <3> QED
      BY <3>1, <3>2, <3>3 DEF WellOf
  <2>2. g = [x \in ItemsOf[n] |-> WellOf(x, g)]
    <3> HIDE DEF WellOf
    <3> QED
      BY <2>1
  <2> QED
    BY <2>2
<1>2. MaxChange \in T
  <2>1. 0 \in T
    BY <1>1, ItemsUnfold
  <2>2. ASSUME NEW n \in 1..MaxChange, n - 1 \in T PROVE n \in T
    <3>1. n \in 0..MaxChange
      BY ItemsUnfold
    <3>2. PICK f : f = [x \in ItemsOf[n - 1] |-> WellOf(x, f)]
      BY <2>2
    <3> HIDE DEF T
    <3> QED
      BY <1>1, <3>1, <3>2
  <2> HIDE DEF T
  <2> QED
    BY <2>1, <2>2, ItemsUnfold, Turns
<1>3. Well = [x \in Items |-> WellOf(x, Well)]
  <2>1. Well = CHOOSE f : f = [x \in Items |-> WellOf(x, f)]
    BY DEF Well, WellOf
  <2>2. \E f : f = [x \in Items |-> WellOf(x, f)]
    BY <1>2 DEF Items
  <2> HIDE DEF WellOf
  <2> QED
    BY <2>1, <2>2
<1> QED
  <2> HIDE DEF WellOf
  <2> QED
    BY <1>3

----------------------------------------------------------------------------
(* Where regexes are cut.                                                  *)

Char == UNION {{r[i] : i \in 1..Len(r)} : r \in Regex}

LEMMA Texts ==
  /\ Regex \subseteq Seq(Char) /\ Beginnings \subseteq Seq(Char)
  /\ Regex \subseteq Beginnings
  /\ \A b \in Beginnings, n \in Nat : n <= Len(b) => SubSeq(b, 1, n) \in Beginnings
<1>1. ASSUME NEW r \in Regex PROVE r \in Seq(Char) /\ SubSeq(r, 1, Len(r)) = r
  <2>1. Len(r) \in Nat /\ r = [i \in 1..Len(r) |-> r[i]]
    BY TreeAssumption
  <2>2. \A i \in 1..Len(r) : r[i] \in Char
    BY DEF Char
  <2>3. r \in Seq(Char)
    BY <2>1, <2>2
  <2> QED
    BY <2>3
<1>2. ASSUME NEW r \in Regex, NEW i \in 0..Len(r)
      PROVE  /\ SubSeq(r, 1, i) \in Seq(Char) /\ Len(SubSeq(r, 1, i)) = i
             /\ \A n \in Nat : n <= i => SubSeq(SubSeq(r, 1, i), 1, n) = SubSeq(r, 1, n) /\ n \in 0..Len(r)
  BY <1>1
<1>3. \A b \in Beginnings : \E r \in Regex : \E i \in 0..Len(r) : b = SubSeq(r, 1, i)
  BY DEF Beginnings
<1>4. \A r \in Regex : \A i \in 0..Len(r) : SubSeq(r, 1, i) \in Beginnings
  BY DEF Beginnings
<1>5. Regex \subseteq Beginnings
  <2> SUFFICES ASSUME NEW r \in Regex PROVE r \in Beginnings
    OBVIOUS
  <2>1. Len(r) \in 0..Len(r)
    BY <1>1
  <2> QED
    BY <1>1, <1>4, <2>1
<1>6. ASSUME NEW b \in Beginnings, NEW n \in Nat, n <= Len(b)
      PROVE  SubSeq(b, 1, n) \in Beginnings
  <2>0. PICK r \in Regex : \E i \in 0..Len(r) : b = SubSeq(r, 1, i)
    BY <1>3
  <2>1. PICK i \in 0..Len(r) : b = SubSeq(r, 1, i)
    BY <2>0
  <2>2. n <= i
    BY <1>2, <2>1, <1>6
  <2>3. SubSeq(b, 1, n) = SubSeq(r, 1, n) /\ n \in 0..Len(r)
    BY <1>2, <2>1, <2>2
  <2> QED
    BY <1>4, <2>3
<1> QED
  BY <1>1, <1>2, <1>3, <1>5, <1>6, ZenonT(30)

LEMMA MaxOfRange ==
  ASSUME NEW N \in Nat, NEW S \in SUBSET (0..N), S # {}
  PROVE  Max(S) \in S /\ \A k \in S : k <= Max(S)
<1> DEFINE T == {n \in 0..N : \A U \in SUBSET (0..n) : U # {} => \E m \in U : \A k \in U : m >= k}
<1>1. 0 \in T
  <2>1. \A k \in 0..0 : k = 0
    OBVIOUS
  <2>2. ASSUME NEW U \in SUBSET (0..0), U # {} PROVE \E m \in U : \A k \in U : m >= k
    <3>1. PICK m : m \in U
      BY <2>2
    <3>2. m = 0 /\ \A k \in U : k = 0
      BY <2>1, <2>2, <3>1
    <3> QED
      BY <3>1, <3>2
  <2> QED
    BY <2>2
<1>2. ASSUME NEW n \in 1..N, n - 1 \in T PROVE n \in T
  <2>1. ASSUME NEW U \in SUBSET (0..n), U # {} PROVE \E m \in U : \A k \in U : m >= k
    <3>1. CASE n \in U
      BY <3>1
    <3>2. CASE n \notin U
      <4>1. U \in SUBSET (0..(n - 1))
        BY <3>2
      <4> QED
        BY <4>1, <2>1, <1>2
    <3> QED
      BY <3>1, <3>2
  <2> QED
    BY <2>1
<1>3. N \in T
  <2> HIDE DEF T
  <2> QED
    BY <1>1, <1>2, Turns
<1>4. \E m \in S : \A k \in S : m >= k
  BY <1>3
<1> QED
  BY <1>4 DEF Max

LEMMA MinOfRange ==
  ASSUME NEW N \in Nat, NEW S \in SUBSET (1..N), S # {}
  PROVE  Min(S) \in S /\ \A k \in S : Min(S) <= k
<1> DEFINE U == {N - k : k \in S}
<1>1. U \in SUBSET (0..N) /\ U # {}
  OBVIOUS
<1>2. Max(U) \in U /\ \A k \in U : k <= Max(U)
  BY <1>1, MaxOfRange
<1>3. PICK m \in S : Max(U) = N - m
  BY <1>2
<1>4. ASSUME NEW k \in S PROVE m <= k
  <2>1. N - k \in U
    OBVIOUS
  <2>2. N - k <= N - m
    BY <2>1, <1>2, <1>3
  <2> QED
    BY <2>2
<1> QED
  BY <1>4 DEF Min

ScanStep(before, c) ==
  [level |-> IF before.escape THEN before.level
             ELSE before.level + (IF c = "(" THEN 1 ELSE 0) - (IF c = ")" THEN 1 ELSE 0),
   escape |-> c = "\\" /\ ~before.escape]

ScanStart == [level |-> 0, escape |-> FALSE]

LEMMA ScanUnfold ==
  ASSUME NEW s \in Seq(Char)
  PROVE  Scan(s)[0] = ScanStart /\ \A i \in 1..Len(s) : Scan(s)[i] = ScanStep(Scan(s)[i - 1], s[i])
<1> DEFINE B(i, f) == IF i = 0 THEN ScanStart ELSE ScanStep(f[i - 1], s[i])
           T == {n \in 0..Len(s) : \E f : f = [i \in 0..n |-> B(i, f)]}
<1>1. 0 \in T
  <2> DEFINE f == [i \in 0..0 |-> ScanStart]
  <2>1. f = [i \in 0..0 |-> B(i, f)]
    OBVIOUS
  <2> HIDE DEF f, B
  <2> QED
    BY <2>1
<1>2. ASSUME NEW n \in 1..Len(s), n - 1 \in T PROVE n \in T
  <2>1. PICK f : f = [i \in 0..(n - 1) |-> B(i, f)]
    BY <1>2
  <2> DEFINE g == [i \in 0..n |-> B(i, f)]
  <2>2. ASSUME NEW i \in 0..n PROVE B(i, f) = B(i, g)
    <3>1. CASE i = 0
      BY <3>1
    <3>2. CASE i # 0
      <4>1. i - 1 \in 0..(n - 1) /\ i - 1 \in 0..n
        BY <3>2
      <4>2. f[i - 1] = B(i - 1, f) /\ g[i - 1] = B(i - 1, f)
        <5> HIDE DEF B
        <5> QED
          BY <2>1, <4>1
      <4> HIDE DEF g
      <4> QED
        BY <4>2
    <3> QED
      BY <3>1, <3>2
  <2>3. g = [i \in 0..n |-> B(i, g)]
    <3> HIDE DEF B
    <3> QED
      BY <2>2
  <2>4. n \in 0..Len(s)
    OBVIOUS
  <2> HIDE DEF g, B
  <2> QED
    BY <2>3, <2>4
<1>3. Len(s) \in T
  <2> HIDE DEF T
  <2>1. Len(s) \in Nat /\ Len(s) \in 0..Len(s)
    OBVIOUS
  <2>2. 0..Len(s) \subseteq T
    BY <1>1, <1>2, <2>1, Turns
  <2> QED
    BY <2>1, <2>2
<1>4. Scan(s) = [i \in 0..Len(s) |-> B(i, Scan(s))]
  <2>1. Scan(s) = CHOOSE f : f = [i \in 0..Len(s) |-> B(i, f)]
    BY DEF Scan, ScanStep, ScanStart
  <2> QED
    BY <1>3, <2>1
<1>5. \A i \in 0..Len(s) : Scan(s)[i] = B(i, Scan(s))
  <2> HIDE DEF B
  <2> QED
    BY <1>4
<1>6. 0 \in 0..Len(s) /\ \A i \in 1..Len(s) : i \in 0..Len(s) /\ i # 0
  OBVIOUS
<1> QED
  BY <1>5, <1>6

(* What is scanned alike is at the same level.                             *)
LEMMA ScannedAlike ==
  ASSUME NEW s \in Seq(Char), NEW t \in Seq(Char), NEW n \in 0..Len(s), n <= Len(t),
         SubSeq(s, 1, n) = SubSeq(t, 1, n), NEW i \in 0..n
  PROVE  Scan(s)[i] = Scan(t)[i]
<1> DEFINE T == {k \in 0..n : Scan(s)[k] = Scan(t)[k]}
<1>1. 0 \in T
  BY ScanUnfold
<1>2. ASSUME NEW k \in 1..n, k - 1 \in T PROVE k \in T
  <2>1. k \in 1..Len(s) /\ k \in 1..Len(t) /\ k \in 0..n
    OBVIOUS
  <2>2. s[k] = SubSeq(s, 1, n)[k] /\ t[k] = SubSeq(t, 1, n)[k]
    BY <2>1
  <2>3. s[k] = t[k]
    BY <2>2
  <2>4. Scan(s)[k] = ScanStep(Scan(s)[k - 1], s[k]) /\ Scan(t)[k] = ScanStep(Scan(t)[k - 1], t[k])
    BY <2>1, ScanUnfold
  <2> QED
    BY <2>1, <2>3, <2>4, <1>2
<1>3. 0..n \subseteq T
  <2> HIDE DEF T
  <2>1. n \in Nat
    OBVIOUS
  <2> QED
    BY <1>1, <1>2, <2>1, Turns
<1> QED
  BY <1>3

(* A cut of a cut is one, too.                                             *)
LEMMA CutOfCut ==
  ASSUME NEW r \in Seq(Char), NEW b, NEW a, Cut(b, r), Cut(a, b)
  PROVE  Cut(a, r)
<1>1. PICK i \in 0..Len(r) : b = SubSeq(r, 1, i) /\ Scan(r)[i].level = 0 /\ ~Scan(r)[i].escape
  BY DEF Cut
<1>2. b \in Seq(Char) /\ Len(b) = i
  BY <1>1
<1>3. PICK j \in 0..Len(b) : a = SubSeq(b, 1, j) /\ Scan(b)[j].level = 0 /\ ~Scan(b)[j].escape
  BY DEF Cut
<1>4. SubSeq(b, 1, Len(b)) = SubSeq(r, 1, i) /\ Len(b) \in 0..Len(b)
  BY <1>1, <1>2
<1>5. Scan(b)[j] = Scan(r)[j]
  <2>1. SubSeq(b, 1, i) = SubSeq(r, 1, i) /\ i \in 0..Len(b) /\ i <= Len(r) /\ j \in 0..i
    BY <1>2, <1>3, <1>4
  <2> QED
    BY <1>2, <2>1, ScannedAlike
<1>6. a = SubSeq(r, 1, j) /\ j \in 0..Len(r)
  BY <1>1, <1>2, <1>3
<1> QED
  BY <1>3, <1>5, <1>6 DEF Cut

(* Of two cuts of one text the shorter one cuts the longer one.            *)
LEMMA CutWithin ==
  ASSUME NEW r \in Seq(Char), NEW i \in 0..Len(r), NEW j \in 0..i,
         Scan(r)[j].level = 0, ~Scan(r)[j].escape
  PROVE  Cut(SubSeq(r, 1, j), SubSeq(r, 1, i))
<1> DEFINE b == SubSeq(r, 1, i)
<1>1. b \in Seq(Char) /\ Len(b) = i /\ SubSeq(b, 1, i) = SubSeq(r, 1, i) /\ SubSeq(b, 1, j) = SubSeq(r, 1, j)
  OBVIOUS
<1> HIDE DEF b
<1>2. Scan(b)[j] = Scan(r)[j]
  BY <1>1, ScannedAlike
<1>3. Cut(SubSeq(r, 1, j), b)
  BY <1>1, <1>2 DEF Cut
<1> QED
  BY <1>3 DEF b

(* The common beginning cuts both.                                         *)
LEMMA CommonCuts ==
  ASSUME NEW l \in Seq(Char), NEW r \in Seq(Char), NEW n, n = CommonPrefixSize(l, r)
  PROVE  /\ n \in Nat /\ n <= Len(l) /\ n <= Len(r) /\ SubSeq(l, 1, n) = SubSeq(r, 1, n)
         /\ Cut(SubSeq(l, 1, n), l) /\ Cut(SubSeq(l, 1, n), r)
         /\ Scan(l)[n].level = 0 /\ ~Scan(l)[n].escape /\ Scan(l)[n] = Scan(r)[n]
         /\ \A i \in Common(l, r) : Scan(l)[i].level = 0 /\ ~Scan(l)[i].escape => i <= n
<1> DEFINE free == {i \in Common(l, r) : Scan(l)[i].level = 0 /\ ~Scan(l)[i].escape}
<1>1. \A i \in Common(l, r) : i \in 1..Len(l) /\ i \in 1..Len(r) /\ SubSeq(l, 1, i) = SubSeq(r, 1, i)
  BY DEF Common
<1>2. {0} \cup free \in SUBSET (0..Len(l)) /\ {0} \cup free # {} /\ Len(l) \in Nat /\ Len(r) \in Nat
  BY <1>1
<1>3. n = Max({0} \cup free)
  BY DEF CommonPrefixSize
<1>4. n \in {0} \cup free /\ \A i \in {0} \cup free : i <= n
  <2> HIDE DEF free
  <2> QED
    BY <1>2, <1>3, MaxOfRange
<1>5. n \in 0..Len(l) /\ n <= Len(r) /\ SubSeq(l, 1, n) = SubSeq(r, 1, n)
  BY <1>1, <1>2, <1>4
<1>6. Scan(l)[n] = Scan(r)[n]
  <2>1. n \in 0..n
    BY <1>5
  <2> QED
    BY <1>5, <2>1, ScannedAlike
<1>7. Scan(l)[n].level = 0 /\ ~Scan(l)[n].escape
  BY <1>4, ScanUnfold DEF ScanStart
<1>8. Cut(SubSeq(l, 1, n), l) /\ Cut(SubSeq(l, 1, n), r)
  <2>1. n \in 0..Len(l) /\ n \in 0..Len(r)
    BY <1>2, <1>5
  <2> QED
    BY <2>1, <1>5, <1>6, <1>7 DEF Cut
<1> QED
  BY <1>2, <1>4, <1>5, <1>6, <1>7, <1>8

LEMMA CommonSymmetric ==
  ASSUME NEW l \in Seq(Char), NEW r \in Seq(Char)
  PROVE  CommonPrefixSize(l, r) = CommonPrefixSize(r, l)
<1>1. Common(l, r) = Common(r, l)
  BY DEF Common
<1>2. ASSUME NEW i \in Common(l, r) PROVE Scan(l)[i] = Scan(r)[i]
  <2>1. i \in 0..Len(l) /\ i <= Len(r) /\ SubSeq(l, 1, i) = SubSeq(r, 1, i) /\ i \in 0..i
    BY <1>2 DEF Common
  <2> QED
    BY <2>1, ScannedAlike
<1>3. {i \in Common(l, r) : Scan(l)[i].level = 0 /\ ~Scan(l)[i].escape}
        = {i \in Common(r, l) : Scan(r)[i].level = 0 /\ ~Scan(r)[i].escape}
  BY <1>1, <1>2
<1> QED
  BY <1>3 DEF CommonPrefixSize

----------------------------------------------------------------------------
(* What a regex stands for, and what its beginnings do.                    *)

ReadStart == [words |-> {<<>>}, depth |-> 0, class |-> NoClass, escape |-> FALSE]

LEMMA ReadingUnfold ==
  ASSUME NEW s \in Seq(Char)
  PROVE  Reading(s)[0] = ReadStart /\ \A i \in 1..Len(s) : Reading(s)[i] = Reads(Reading(s)[i - 1], s[i])
<1> DEFINE B(i, f) == IF i = 0 THEN ReadStart ELSE Reads(f[i - 1], s[i])
           T == {n \in 0..Len(s) : \E f : f = [i \in 0..n |-> B(i, f)]}
<1>1. 0 \in T
  <2> DEFINE f == [i \in 0..0 |-> ReadStart]
  <2>1. f = [i \in 0..0 |-> B(i, f)]
    OBVIOUS
  <2> HIDE DEF f, B
  <2> QED
    BY <2>1
<1>2. ASSUME NEW n \in 1..Len(s), n - 1 \in T PROVE n \in T
  <2>1. PICK f : f = [i \in 0..(n - 1) |-> B(i, f)]
    BY <1>2
  <2> DEFINE g == [i \in 0..n |-> B(i, f)]
  <2>2. ASSUME NEW i \in 0..n PROVE B(i, f) = B(i, g)
    <3>1. CASE i = 0
      BY <3>1
    <3>2. CASE i # 0
      <4>1. i - 1 \in 0..(n - 1) /\ i - 1 \in 0..n
        BY <3>2
      <4>2. f[i - 1] = B(i - 1, f) /\ g[i - 1] = B(i - 1, f)
        <5> HIDE DEF B
        <5> QED
          BY <2>1, <4>1
      <4> HIDE DEF g
      <4> QED
        BY <4>2
    <3> QED
      BY <3>1, <3>2
  <2>3. g = [i \in 0..n |-> B(i, g)]
    <3> HIDE DEF B
    <3> QED
      BY <2>2
  <2>4. n \in 0..Len(s)
    OBVIOUS
  <2> HIDE DEF g, B
  <2> QED
    BY <2>3, <2>4
<1>3. Len(s) \in T
  <2> HIDE DEF T
  <2>1. Len(s) \in Nat /\ Len(s) \in 0..Len(s)
    OBVIOUS
  <2>2. 0..Len(s) \subseteq T
    BY <1>1, <1>2, <2>1, Turns
  <2> QED
    BY <2>1, <2>2
<1>4. Reading(s) = [i \in 0..Len(s) |-> B(i, Reading(s))]
  <2>1. Reading(s) = CHOOSE f : f = [i \in 0..Len(s) |-> B(i, f)]
    BY DEF Reading, ReadStart
  <2> QED
    BY <1>3, <2>1
<1>5. \A i \in 0..Len(s) : Reading(s)[i] = B(i, Reading(s))
  <2> HIDE DEF B
  <2> QED
    BY <1>4
<1>6. 0 \in 0..Len(s) /\ \A i \in 1..Len(s) : i \in 0..Len(s) /\ i # 0
  OBVIOUS
<1> QED
  BY <1>5, <1>6

(* What is read alike stands for the same.                                 *)
LEMMA ReadAlike ==
  ASSUME NEW s \in Seq(Char), NEW t \in Seq(Char), NEW n \in 0..Len(s), n <= Len(t),
         SubSeq(s, 1, n) = SubSeq(t, 1, n), NEW i \in 0..n
  PROVE  Reading(s)[i] = Reading(t)[i]
<1> DEFINE T == {k \in 0..n : Reading(s)[k] = Reading(t)[k]}
<1>1. 0 \in T
  BY ReadingUnfold
<1>2. ASSUME NEW k \in 1..n, k - 1 \in T PROVE k \in T
  <2>1. k \in 1..Len(s) /\ k \in 1..Len(t) /\ k \in 0..n
    OBVIOUS
  <2>2. s[k] = SubSeq(s, 1, n)[k] /\ t[k] = SubSeq(t, 1, n)[k]
    BY <2>1
  <2>3. s[k] = t[k]
    BY <2>2
  <2>4. Reading(s)[k] = Reads(Reading(s)[k - 1], s[k]) /\ Reading(t)[k] = Reads(Reading(t)[k - 1], t[k])
    BY <2>1, ReadingUnfold
  <2> QED
    BY <2>1, <2>3, <2>4, <1>2
<1>3. 0..n \subseteq T
  <2> HIDE DEF T
  <2>1. n \in Nat
    OBVIOUS
  <2> QED
    BY <1>1, <1>2, <2>1, Turns
<1> QED
  BY <1>3

ReadTyped(st) ==
  /\ st = [words |-> st.words, depth |-> st.depth, class |-> st.class, escape |-> st.escape]
  /\ st.words \in SUBSET Seq(Char) /\ st.depth \in Int /\ st.escape \in BOOLEAN
  /\ st.class = NoClass \/ st.class \subseteq Char

(* One character more: the words go on, or are as they were, or none.      *)
LEMMA ReadsOn ==
  ASSUME NEW st, ReadTyped(st), NEW c \in Char
  PROVE  /\ ReadTyped(Reads(st, c))
         /\ \A w \in Reads(st, c).words : w \in st.words \/ \E v \in st.words, x \in Char : w = Append(v, x)
         /\ Reads(st, c).escape <=> c = "\\" /\ ~st.escape
<1>1. \A chars \in SUBSET Char :
        /\ Extended(st.words, chars) \in SUBSET Seq(Char)
        /\ \A w \in Extended(st.words, chars) : \E v \in st.words, x \in Char : w = Append(v, x)
  BY DEF Extended, ReadTyped
<1>2. {c} \in SUBSET Char
  OBVIOUS
<1>3. st.class # NoClass => st.class \in SUBSET Char /\ st.class \cup {c} \in SUBSET Char
  BY DEF ReadTyped
<1> DEFINE new == Reads(st, c)
           open == st.class # NoClass
<1>4. /\ ReadTyped(new)
      /\ \A w \in new.words : w \in st.words \/ \E chars \in SUBSET Char : w \in Extended(st.words, chars)
      /\ new.escape <=> c = "\\" /\ ~st.escape
  <2>1. CASE st.escape /\ open
    BY <1>1, <1>2, <1>3, <2>1 DEF Reads, ReadTyped
  <2>2. CASE st.escape /\ ~open
    BY <1>1, <1>2, <2>2 DEF Reads, ReadTyped
  <2>3. CASE ~st.escape /\ c = "\\"
    BY <2>3 DEF Reads, ReadTyped
  <2>4. CASE ~st.escape /\ open /\ c = "]"
    BY <1>1, <1>3, <2>4 DEF Reads, ReadTyped
  <2>5. CASE ~st.escape /\ open /\ c \notin {"\\", "]"}
    BY <1>3, <2>5 DEF Reads, ReadTyped
  <2>6. CASE ~st.escape /\ ~open /\ c = "["
    BY <2>6 DEF Reads, ReadTyped
  <2>7. CASE ~st.escape /\ ~open /\ c = "("
    BY <2>7 DEF Reads, ReadTyped
  <2>8. CASE ~st.escape /\ ~open /\ c = ")"
    <3>1. new = [st EXCEPT !.depth = st.depth - 1, !.words = IF st.depth = 0 THEN {} ELSE st.words]
      BY <2>8 DEF Reads
    <3>2. new = [words |-> IF st.depth = 0 THEN {} ELSE st.words, depth |-> st.depth - 1,
                 class |-> st.class, escape |-> st.escape]
      BY <3>1 DEF ReadTyped
    <3> HIDE DEF new
    <3>3. new.words \subseteq st.words /\ new.depth = st.depth - 1
      BY <3>2
    <3>4. new.words \in SUBSET Seq(Char) /\ new.depth \in Int
      BY <3>3 DEF ReadTyped
    <3> QED
      BY <2>8, <3>2, <3>3, <3>4 DEF ReadTyped
  <2>9. CASE ~st.escape /\ ~open /\ c \notin {"\\", "[", "(", ")"}
    BY <1>1, <1>2, <2>9 DEF Reads, ReadTyped
  <2> QED
    BY <2>1, <2>2, <2>3, <2>4, <2>5, <2>6, <2>7, <2>8, <2>9
<1> HIDE DEF new
<1>5. \A w \in new.words : w \in st.words \/ \E v \in st.words, x \in Char : w = Append(v, x)
  BY <1>1, <1>4
<1> QED
  BY <1>4, <1>5 DEF new

LEMMA ReadingTyped ==
  ASSUME NEW r \in Seq(Char)
  PROVE  \A i \in 0..Len(r) : ReadTyped(Reading(r)[i])
<1> DEFINE T == {i \in 0..Len(r) : ReadTyped(Reading(r)[i])}
<1>1. 0 \in T
  <2>1. 0 \in 0..Len(r) /\ {<<>>} \in SUBSET Seq(Char)
    OBVIOUS
  <2>2. Reading(r)[0] = ReadStart
    BY ReadingUnfold
  <2>3. ReadTyped(ReadStart)
    BY <2>1 DEF ReadTyped, ReadStart
  <2> QED
    BY <2>1, <2>2, <2>3
<1>2. ASSUME NEW i \in 1..Len(r), i - 1 \in T PROVE i \in T
  <2>1. i \in 0..Len(r) /\ r[i] \in Char
    OBVIOUS
  <2>2. PICK st : st = Reading(r)[i - 1]
    OBVIOUS
  <2>3. ReadTyped(st)
    BY <1>2, <2>2
  <2>4. Reading(r)[i] = Reads(st, r[i])
    BY <2>2, ReadingUnfold
  <2>5. ReadTyped(Reads(st, r[i]))
    BY <2>1, <2>3, ReadsOn
  <2> QED
    BY <2>1, <2>4, <2>5
<1>3. 0..Len(r) \subseteq T
  <2> HIDE DEF T
  <2>1. Len(r) \in Nat
    OBVIOUS
  <2> QED
    BY <1>1, <1>2, <2>1, Turns
<1> QED
  BY <1>3

(* Reading counts groups as scanning does, and a class is in a group.      *)
LEMMA ReadAsScanned ==
  ASSUME NEW r \in Seq(Char), ClassesArePlain(r)
  PROVE  \A i \in 0..Len(r) :
           /\ Reading(r)[i].depth = Scan(r)[i].level /\ Reading(r)[i].escape = Scan(r)[i].escape
           /\ Reading(r)[i].class # NoClass => Reading(r)[i].depth > 0
<1> DEFINE P(i) == /\ Reading(r)[i].depth = Scan(r)[i].level /\ Reading(r)[i].escape = Scan(r)[i].escape
                   /\ Reading(r)[i].class # NoClass => Reading(r)[i].depth > 0
           T == {i \in 0..Len(r) : P(i)}
<1>1. 0 \in T
  <2>1. 0 \in 0..Len(r)
    OBVIOUS
  <2>2. Reading(r)[0] = ReadStart /\ Scan(r)[0] = ScanStart
    BY ReadingUnfold, ScanUnfold
  <2>3. ReadStart.depth = ScanStart.level /\ ReadStart.escape = ScanStart.escape /\ ReadStart.class = NoClass
    BY DEF ReadStart, ScanStart
  <2> QED
    BY <2>1, <2>2, <2>3
<1>2. ASSUME NEW i \in 1..Len(r), i - 1 \in T PROVE i \in T
  <2> DEFINE st == Reading(r)[i - 1]
             sc == Scan(r)[i - 1]
  <2>1. i \in 0..Len(r) /\ i - 1 \in 0..Len(r) /\ r[i] \in Char
    OBVIOUS
  <2>2. ReadTyped(st)
    BY <2>1, ReadingTyped
  <2>3. Reading(r)[i] = Reads(st, r[i]) /\ Scan(r)[i] = ScanStep(sc, r[i])
    BY ReadingUnfold, ScanUnfold
  <2>4. st.depth = sc.level /\ st.escape = sc.escape /\ (st.class # NoClass => st.depth > 0)
    BY <1>2
  <2>5. ~st.escape => /\ st.class # NoClass => r[i] \notin {"(", ")"}
                      /\ st.class = NoClass /\ r[i] = "[" => st.depth > 0
    BY DEF ClassesArePlain
  <2> HIDE DEF st, sc
  <2>6. Reads(st, r[i]).escape = ScanStep(sc, r[i]).escape
    <3>1. Reads(st, r[i]).escape \in BOOLEAN
      BY <2>1, <2>2, ReadsOn DEF ReadTyped
    <3> QED
      BY <3>1, <2>1, <2>2, <2>4, ReadsOn DEF ScanStep
  <2>7. Reads(st, r[i]).depth = ScanStep(sc, r[i]).level
    BY <2>1, <2>2, <2>4, <2>5 DEF Reads, ScanStep, ReadTyped
  <2>8. Reads(st, r[i]).class # NoClass => Reads(st, r[i]).depth > 0
    BY <2>1, <2>2, <2>4, <2>5 DEF Reads, ReadTyped
  <2> QED
    BY <2>1, <2>3, <2>6, <2>7, <2>8
<1>3. 0..Len(r) \subseteq T
  <2> HIDE DEF T
  <2>1. Len(r) \in Nat
    OBVIOUS
  <2> QED
    BY <1>1, <1>2, <2>1, Turns
<1> QED
  BY <1>3

(* What is read later begins with what was read before.                    *)
LEMMA WordsBegin ==
  ASSUME NEW r \in Seq(Char), NEW i \in 0..Len(r), NEW j \in i..Len(r), NEW w \in Reading(r)[j].words
  PROVE  w \in Seq(Char) /\ \E k \in 0..Len(w) : SubSeq(w, 1, k) \in Reading(r)[i].words
<1> DEFINE P(n) == \A v \in Reading(r)[i + n].words :
                     v \in Seq(Char) /\ \E k \in 0..Len(v) : SubSeq(v, 1, k) \in Reading(r)[i].words
           T == {n \in 0..(Len(r) - i) : P(n)}
<1>0. Len(r) \in Nat /\ Len(r) - i \in Nat
  OBVIOUS
<1>1. 0 \in T
  <2>1. ASSUME NEW v \in Reading(r)[i].words
        PROVE  v \in Seq(Char) /\ \E k \in 0..Len(v) : SubSeq(v, 1, k) \in Reading(r)[i].words
    <3>1. v \in Seq(Char)
      BY ReadingTyped DEF ReadTyped
    <3>2. Len(v) \in 0..Len(v) /\ SubSeq(v, 1, Len(v)) = v
      BY <3>1
    <3> QED
      BY <3>1, <3>2
  <2> QED
    BY <1>0, <2>1
<1>2. ASSUME NEW n \in 1..(Len(r) - i), n - 1 \in T PROVE n \in T
  <2> DEFINE st == Reading(r)[i + (n - 1)]
  <2>1. i + (n - 1) \in 0..Len(r) /\ i + n \in 1..Len(r) /\ (i + n) - 1 = i + (n - 1) /\ r[i + n] \in Char
    BY <1>0
  <2>2. ReadTyped(st) /\ Reading(r)[i + n] = Reads(st, r[i + n])
    BY <2>1, ReadingTyped, ReadingUnfold
  <2>3. \A v \in st.words : v \in Seq(Char) /\ \E k \in 0..Len(v) : SubSeq(v, 1, k) \in Reading(r)[i].words
    BY <1>2
  <2> HIDE DEF st
  <2>4. ASSUME NEW v \in Reading(r)[i + n].words
        PROVE  v \in Seq(Char) /\ \E k \in 0..Len(v) : SubSeq(v, 1, k) \in Reading(r)[i].words
    <3>1. v \in st.words \/ \E u \in st.words, x \in Char : v = Append(u, x)
      BY <2>1, <2>2, ReadsOn
    <3>2. ASSUME NEW u \in st.words, NEW x \in Char, v = Append(u, x)
          PROVE  v \in Seq(Char) /\ \E k \in 0..Len(v) : SubSeq(v, 1, k) \in Reading(r)[i].words
      <4>1. u \in Seq(Char)
        BY <2>3
      <4>2. PICK k \in 0..Len(u) : SubSeq(u, 1, k) \in Reading(r)[i].words
        BY <2>3
      <4>3. k \in 0..Len(v) /\ SubSeq(v, 1, k) = SubSeq(u, 1, k) /\ v \in Seq(Char)
        BY <3>2, <4>1
      <4> QED
        BY <4>2, <4>3
    <3> QED
      BY <2>3, <3>1, <3>2
  <2> QED
    BY <2>4
<1>3. 0..(Len(r) - i) \subseteq T
  <2> HIDE DEF T
  <2> QED
    BY <1>0, <1>1, <1>2, Turns
<1>4. j - i \in 0..(Len(r) - i) /\ i + (j - i) = j
  BY <1>0
<1>5. P(j - i)
  BY <1>3, <1>4
<1> QED
  BY <1>4, <1>5

(* A word that a regex stands for begins with one of what it is cut to.    *)
LEMMA CutLanguage ==
  ASSUME NEW r \in Seq(Char), ClassesArePlain(r), NEW b, Cut(b, r), NEW w \in LanguageOf(r)
  PROVE  w \in Seq(Char) /\ \E k \in 0..Len(w) : SubSeq(w, 1, k) \in LanguageOf(b)
<1>1. PICK i \in 0..Len(r) : b = SubSeq(r, 1, i) /\ Scan(r)[i].level = 0 /\ ~Scan(r)[i].escape
  BY DEF Cut
<1>2. b \in Seq(Char) /\ Len(b) = i /\ SubSeq(b, 1, i) = SubSeq(r, 1, i) /\ Len(r) \in Nat
  BY <1>1
<1>3. Reading(b)[i] = Reading(r)[i]
  <2>1. i \in 0..Len(b) /\ i <= Len(r) /\ i \in 0..i
    BY <1>2
  <2> QED
    BY <1>2, <2>1, ReadAlike
<1>4. Reading(r)[i].depth = 0 /\ ~Reading(r)[i].escape /\ Reading(r)[i].class = NoClass
  BY <1>1, ReadAsScanned
<1>5. LanguageOf(b) = Reading(r)[i].words
  BY <1>2, <1>3, <1>4 DEF LanguageOf
<1>6. w \in Reading(r)[Len(r)].words
  BY DEF LanguageOf
<1>7. Len(r) \in i..Len(r)
  BY <1>2
<1> QED
  BY <1>5, <1>6, <1>7, WordsBegin, SMTT(30)

(* Where a regex matches, that to which it is cut matches as a beginning.  *)
LEMMA CutMatches ==
  ASSUME NEW r \in Regex, ClassesArePlain(r), NEW b \in Beginnings, Cut(b, r),
         NEW fold \in BOOLEAN, NEW word \in Word, LeafMatches(r, fold, word)
  PROVE  NodeMatches(b, fold, word)
<1>1. r \in Seq(Char) /\ r \in Beginnings
  BY Texts
<1>2. MatchTable[r][fold].leaf = {v \in Word : \E w \in Language[r] : Folded(w, fold) = Folded(v, fold)}
  BY <1>1 DEF MatchTable
<1>3. PICK w \in LanguageOf(r) : Folded(w, fold) = Folded(word, fold)
  BY <1>1, <1>2 DEF LeafMatches, Language
<1>4. w \in Seq(Char) /\ \E k \in 0..Len(w) : SubSeq(w, 1, k) \in LanguageOf(b)
  BY <1>1, CutLanguage
<1>5. PICK k \in 0..Len(w) : SubSeq(w, 1, k) \in LanguageOf(b)
  BY <1>4
<1>6. IsPrefix(Folded(SubSeq(w, 1, k), fold), Folded(w, fold))
  <2>1. CASE fold
    <3> DEFINE lower == [i \in DOMAIN w |-> Lower[w[i]]]
               beginning == [i \in DOMAIN SubSeq(w, 1, k) |-> Lower[SubSeq(w, 1, k)[i]]]
               L == {Lower[w[i]] : i \in DOMAIN w}
    <3>1. lower \in Seq(L) /\ Len(lower) = Len(w) /\ k \in 0..Len(w) /\ Len(w) \in Nat
      BY <1>4
    <3>2. DOMAIN SubSeq(w, 1, k) = 1..k /\ \A i \in 1..k : SubSeq(w, 1, k)[i] = w[i] /\ i \in DOMAIN w
      BY <1>4
    <3>3. beginning = [i \in 1..k |-> Lower[w[i]]]
      BY <3>2
    <3>4. beginning \in Seq(L) /\ Len(beginning) = k
      <4>1. [i \in 1..k |-> Lower[w[i]]] \in Seq(L) /\ Len([i \in 1..k |-> Lower[w[i]]]) = k
        BY <3>1, <3>2
      <4> HIDE DEF beginning
      <4> QED
        BY <3>3, <4>1
    <3>5. SubSeq(lower, 1, k) = [i \in 1..k |-> Lower[w[i]]]
      BY <3>1, <3>2
    <3>6. SubSeq(beginning, 1, k) = beginning
      <4> HIDE DEF beginning
      <4> QED
        BY <3>4
    <3>7. Folded(SubSeq(w, 1, k), fold) = beginning /\ Folded(w, fold) = lower
      BY <2>1 DEF Folded
    <3>8. SubSeq(lower, 1, k) = beginning
      <4> HIDE DEF beginning, lower
      <4> QED
        BY <3>3, <3>5
    <3> HIDE DEF beginning, lower, L
    <3> QED
      BY <3>1, <3>4, <3>5, <3>6, <3>7, <3>8 DEF IsPrefix
  <2>2. CASE ~fold
    <3>1. Folded(SubSeq(w, 1, k), fold) = SubSeq(w, 1, k) /\ Folded(w, fold) = w
      BY <2>2 DEF Folded
    <3>2. Len(SubSeq(w, 1, k)) = k /\ SubSeq(SubSeq(w, 1, k), 1, k) = SubSeq(w, 1, k) /\ k <= Len(w)
      BY <1>4
    <3> QED
      BY <3>1, <3>2 DEF IsPrefix
  <2> QED
    BY <2>1, <2>2
<1>7. MatchTable[b][fold].node = {v \in Word : b = <<>> \/ \E u \in Language[b] :
                                    IsPrefix(Folded(u, fold), Folded(v, fold))}
  BY DEF MatchTable
<1>8. \E u \in Language[b] : IsPrefix(Folded(u, fold), Folded(word, fold))
  BY <1>3, <1>5, <1>6 DEF Language
<1> QED
  BY <1>7, <1>8 DEF NodeMatches

----------------------------------------------------------------------------
(* Induction over items.                                                   *)

LEMMA ItemIs ==
  ASSUME NEW x \in Items
  PROVE  /\ x.kind \in {"empty", "leaf", "node"} /\ x.fold \in BOOLEAN
         /\ x.kind = "leaf" => x.regex \in Regex /\ x.ids \in SUBSET RouteId
         /\ x.kind = "node" => /\ x.regex \in Beginnings /\ Len(x.children) \in Nat
                               /\ DOMAIN x.children = 1..Len(x.children)
                               /\ \A i \in DOMAIN x.children : x.children[i] \in Items
<1>1. MaxChange \in 0..MaxChange /\ x \in ItemsOf[MaxChange]
  BY ItemsUnfold DEF Items
<1>2. x.kind = "node" => /\ Len(x.children) \in Nat /\ DOMAIN x.children = 1..Len(x.children)
                         /\ \A i \in DOMAIN x.children : x.children[i] \in Items
  BY <1>1, ChildrenBelow
<1> QED
  BY <1>1, <1>2, ItemKinds

LEMMA TreeInduction ==
  ASSUME NEW S,
         \A x \in Items :
           (x.kind = "node" => \A i \in DOMAIN x.children : x.children[i] \in S) => x \in S
  PROVE  Items \subseteq S
<1> DEFINE T == {d \in 0..MaxChange : ItemsOf[d] \subseteq S}
<1>1. 0 \in T
  <2>1. 0 \in 0..MaxChange
    BY ItemsUnfold
  <2>2. ASSUME NEW x \in ItemsOf[0] PROVE x \in S
    <3>1. x \in Items
      BY <2>1, ItemsWithin
    <3>2. x.kind = "node" => \A i \in DOMAIN x.children : FALSE
      BY <2>1, ChildrenIn
    <3> QED
      BY <3>1, <3>2
  <2> QED
    BY <2>1, <2>2
<1>2. ASSUME NEW d \in 1..MaxChange, d - 1 \in T PROVE d \in T
  <2>1. d \in 0..MaxChange
    BY ItemsUnfold
  <2>2. ASSUME NEW x \in ItemsOf[d] PROVE x \in S
    <3>1. x \in Items
      BY <2>1, ItemsWithin
    <3>2. x.kind = "node" => \A i \in DOMAIN x.children : x.children[i] \in ItemsOf[d - 1]
      BY <2>1, ChildrenIn
    <3> QED
      BY <3>1, <3>2, <1>2
  <2> QED
    BY <2>1, <2>2
<1>3. 0..MaxChange \subseteq T
  <2> HIDE DEF T
  <2> QED
    BY <1>1, <1>2, ItemsUnfold, Turns
<1>4. MaxChange \in 0..MaxChange
  BY ItemsUnfold
<1> QED
  BY <1>3, <1>4 DEF Items

LEMMA RegexOfText ==
  ASSUME NEW x \in Items
  PROVE  RegexOf(x) \in Seq(Char) /\ (x.kind # "empty" => RegexOf(x) \in Beginnings)
BY ItemIs, Texts DEF RegexOf

(* The sum of some numbers, step by step.                                  *)
LEMMA TotalIs ==
  ASSUME NEW N \in Nat, NEW numbers \in [1..N -> Nat]
  PROVE  \E t \in [0..N -> Nat] :
           /\ t[0] = 0 /\ Total(numbers) = t[N]
           /\ \A n \in 1..N : t[n] = t[n - 1] + numbers[n]
<1> DEFINE B(i, f) == IF i = 0 THEN 0 ELSE f[i - 1] + numbers[i]
           Q(n) == \E f \in [0..n -> Nat] : f = [i \in 0..n |-> B(i, f)]
           T == {n \in 0..N : Q(n)}
<1>1. 0 \in T
  <2> DEFINE f == [i \in 0..0 |-> 0]
  <2>1. f = [i \in 0..0 |-> B(i, f)] /\ f \in [0..0 -> Nat]
    OBVIOUS
  <2> HIDE DEF f, B
  <2> QED
    BY <2>1
<1>2. ASSUME NEW n \in 1..N, n - 1 \in T PROVE n \in T
  <2>1. PICK f \in [0..(n - 1) -> Nat] : f = [i \in 0..(n - 1) |-> B(i, f)]
    BY <1>2
  <2> DEFINE g == [i \in 0..n |-> B(i, f)]
  <2>2. ASSUME NEW i \in 0..n PROVE B(i, f) = B(i, g) /\ B(i, f) \in Nat
    <3>1. CASE i = 0
      BY <3>1
    <3>2. CASE i # 0
      <4>1. i - 1 \in 0..(n - 1) /\ i - 1 \in 0..n /\ i \in 1..N
        BY <3>2
      <4>2. f[i - 1] = B(i - 1, f) /\ g[i - 1] = B(i - 1, f) /\ f[i - 1] \in Nat
        <5> HIDE DEF B
        <5> QED
          BY <2>1, <4>1
      <4> HIDE DEF g
      <4> QED
        BY <4>1, <4>2, SMTT(30)
    <3> QED
      BY <3>1, <3>2
  <2>3. g = [i \in 0..n |-> B(i, g)] /\ g \in [0..n -> Nat]
    <3> HIDE DEF B
    <3> QED
      BY <2>2
  <2>4. n \in 0..N
    OBVIOUS
  <2>5. Q(n)
    <3> HIDE DEF g, B
    <3> QED
      BY <2>3
  <2> HIDE DEF Q
  <2> QED
    BY <2>4, <2>5
<1>3. N \in T
  <2> HIDE DEF T, Q
  <2>1. 0..N \subseteq T
    BY <1>1, <1>2, Turns
  <2>2. N \in 0..N
    OBVIOUS
  <2> QED
    BY <2>1, <2>2
<1> DEFINE t == CHOOSE f : f = [i \in 0..N |-> B(i, f)]
<1>4. t = [i \in 0..N |-> B(i, t)]
  <2> HIDE DEF B
  <2> QED
    BY <1>3
<1>5. Total(numbers) = t[N]
  <2>1. Len(numbers) = N
    OBVIOUS
  <2> QED
    BY <2>1 DEF Total
<1> HIDE DEF t
<1>6. 0 \in 0..N /\ \A n \in 1..N : n \in 0..N /\ n # 0 /\ n - 1 \in 0..N
  OBVIOUS
<1>7. t[0] = 0 /\ \A n \in 1..N : t[n] = t[n - 1] + numbers[n]
  <2>1. \A i \in 0..N : t[i] = B(i, t)
    <3> HIDE DEF B
    <3> QED
      BY <1>4
  <2> QED
    BY <2>1, <1>6
<1>8. t \in [0..N -> Nat]
  <2> DEFINE U == {n \in 0..N : t[n] \in Nat}
  <2>1. 0 \in U /\ \A n \in 1..N : n - 1 \in U => n \in U
    BY <1>6, <1>7
  <2>2. 0..N \subseteq U
    <3> HIDE DEF U
    <3> QED
      BY <2>1, Turns
  <2>3. t = [i \in 0..N |-> t[i]]
    <3> HIDE DEF B
    <3> QED
      BY <1>4
  <2> QED
    BY <2>2, <2>3
<1> QED
  BY <1>5, <1>7, <1>8

----------------------------------------------------------------------------
(* What an item holds.                                                     *)

LEMMA HeldAre ==
  ASSUME NEW x \in Items
  PROVE  /\ x.kind = "empty" => Held[x] = {}
         /\ x.kind = "leaf" => Held[x] = EntriesOf(x)
         /\ x.kind = "node" => Held[x] = UNION {Held[x.children[i]] : i \in DOMAIN x.children}
BY HeldUnfold, ItemIs DEF HoldsOf

LEMMA HeldTyped ==
  ASSUME NEW x \in Items
  PROVE  Held[x] \subseteq Entry
<1> DEFINE S == {y \in Items : Held[y] \subseteq Entry}
<1>1. ASSUME NEW y \in Items, y.kind = "node" => \A i \in DOMAIN y.children : y.children[i] \in S
      PROVE  y \in S
  <2>1. CASE y.kind = "empty"
    BY <2>1, HeldAre
  <2>2. CASE y.kind = "leaf"
    BY <2>2, HeldAre, ItemIs DEF EntriesOf, Entry
  <2>3. CASE y.kind = "node"
    BY <1>1, <2>3, HeldAre
  <2> QED
    BY <2>1, <2>2, <2>3, ItemIs
<1>2. Items \subseteq S
  <2> HIDE DEF S
  <2> QED
    BY <1>1, TreeInduction
<1> QED
  BY <1>2

(* What it is for a node to be well.                                       *)
LEMMA WellIs ==
  ASSUME NEW x \in Items
  PROVE  /\ x.kind = "empty" => Well[x]
         /\ x.kind = "leaf" => (Well[x] <=> x.ids # {} /\ IsFiniteSet(x.ids))
         /\ x.kind = "node" =>
              (Well[x] <=>
                 /\ Len(x.children) >= 2
                 /\ \A i \in DOMAIN x.children :
                      /\ x.children[i].kind # "empty" /\ x.children[i].fold = x.fold
                      /\ Cut(x.regex, RegexOf(x.children[i])) /\ Well[x.children[i]]
                      /\ \A j \in DOMAIN x.children :
                           i # j => Held[x.children[i]] \cap Held[x.children[j]] = {})
<1>1. Well[x] = WellOf(x, Well)
  BY WellUnfold
<1> QED
  BY <1>1, ItemIs DEF WellOf

(* It holds finitely many entries, of regexes that begin as it does.       *)
LEMMA WellHolds ==
  ASSUME NEW x \in Items, Well[x]
  PROVE  /\ IsFiniteSet(Held[x]) /\ (x.kind # "empty" => Held[x] # {})
         /\ \A e \in Held[x] : (x.kind = "leaf" /\ e.regex = x.regex) \/ (x.kind = "node" /\ Cut(x.regex, e.regex))
<1> DEFINE P(y) == /\ IsFiniteSet(Held[y]) /\ (y.kind # "empty" => Held[y] # {})
                   /\ \A e \in Held[y] : (y.kind = "leaf" /\ e.regex = y.regex) \/ (y.kind = "node" /\ Cut(y.regex, e.regex))
           S == {y \in Items : Well[y] => P(y)}
<1>1. ASSUME NEW y \in Items, y.kind = "node" => \A i \in DOMAIN y.children : y.children[i] \in S, Well[y]
      PROVE  P(y)
  <2>1. CASE y.kind = "empty"
    BY <2>1, HeldAre, FS_EmptySet
  <2>2. CASE y.kind = "leaf"
    <3>1. Held[y] = {[regex |-> y.regex, id |-> i] : i \in y.ids} /\ y.ids # {} /\ IsFiniteSet(y.ids)
      BY <1>1, <2>2, HeldAre, WellIs DEF EntriesOf
    <3>2. IsFiniteSet({[regex |-> y.regex, id |-> i] : i \in y.ids})
      <4> DEFINE f == [i \in y.ids |-> [regex |-> y.regex, id |-> i]]
                 E == {[regex |-> y.regex, id |-> i] : i \in y.ids}
      <4>1. f \in Surjection(y.ids, E)
        BY DEF Surjection
      <4> HIDE DEF f, E
      <4>2. IsFiniteSet(E)
        BY <3>1, <4>1, FS_Surjection
      <4> QED
        BY <4>2 DEF E
    <3>3. RegexOf(y) = y.regex
      BY <2>2 DEF RegexOf
    <3>4. Held[y] # {} /\ \A e \in Held[y] : e.regex = y.regex
      <4>1. PICK i : i \in y.ids
        BY <3>1
      <4>2. [regex |-> y.regex, id |-> i] \in Held[y]
        BY <3>1, <4>1
      <4>3. ASSUME NEW e \in Held[y] PROVE e.regex = y.regex
        <5>1. PICK j \in y.ids : e = [regex |-> y.regex, id |-> j]
          BY <3>1
        <5> QED
          BY <5>1
      <4> QED
        BY <4>2, <4>3
    <3>5. IsFiniteSet(Held[y])
      BY <3>1, <3>2
    <3> QED
      BY <2>2, <3>4, <3>5
  <2>3. CASE y.kind = "node"
    <3>1. /\ Held[y] = UNION {Held[y.children[i]] : i \in DOMAIN y.children}
          /\ DOMAIN y.children = 1..Len(y.children) /\ Len(y.children) \in Nat /\ Len(y.children) >= 2
          /\ RegexOf(y) = y.regex
      BY <1>1, <2>3, HeldAre, WellIs, ItemIs DEF RegexOf
    <3>2. ASSUME NEW i \in DOMAIN y.children
          PROVE  /\ y.children[i] \in Items /\ y.children[i].kind # "empty" /\ P(y.children[i])
                 /\ Cut(y.regex, RegexOf(y.children[i]))
      BY <1>1, <2>3, WellIs
    <3>7. \A i \in DOMAIN y.children : IsFiniteSet(Held[y.children[i]])
      BY <3>2
    <3>3. IsFiniteSet({Held[y.children[i]] : i \in DOMAIN y.children})
      <4> DEFINE f == [i \in DOMAIN y.children |-> Held[y.children[i]]]
                 E == {Held[y.children[i]] : i \in DOMAIN y.children}
      <4>1. f \in Surjection(DOMAIN y.children, E)
        BY DEF Surjection
      <4>2. IsFiniteSet(DOMAIN y.children)
        BY <3>1, FS_Interval
      <4> HIDE DEF f, E
      <4>3. IsFiniteSet(E)
        BY <4>1, <4>2, FS_Surjection
      <4> QED
        BY <4>3 DEF E
    <3>4. IsFiniteSet(Held[y])
      <4> DEFINE E == {Held[y.children[i]] : i \in DOMAIN y.children}
      <4>1. \A s \in E : IsFiniteSet(s)
        BY <3>7
      <4>2. Held[y] = UNION E
        BY <3>1
      <4> HIDE DEF E
      <4>3. IsFiniteSet(E)
        BY <3>3 DEF E
      <4> QED
        BY <4>1, <4>2, <4>3, FS_UNION
    <3>5. Held[y] # {}
      <4>1. 1 \in DOMAIN y.children
        BY <3>1
      <4>2. Held[y.children[1]] # {}
        BY <3>2, <4>1
      <4>3. Held[y.children[1]] \subseteq Held[y]
        BY <3>1, <4>1
      <4> QED
        BY <4>2, <4>3
    <3>6. ASSUME NEW e \in Held[y] PROVE Cut(y.regex, e.regex)
      <4>1. PICK i \in DOMAIN y.children : e \in Held[y.children[i]]
        BY <3>1
      <4> DEFINE c == y.children[i]
      <4>2. c \in Items /\ Cut(y.regex, RegexOf(c)) /\ (e.regex = RegexOf(c) \/ Cut(RegexOf(c), e.regex))
        BY <3>2, <4>1 DEF RegexOf
      <4>3. e.regex \in Regex
        BY HeldTyped DEF Entry
      <4>4. e.regex \in Seq(Char)
        BY <4>3, Texts
      <4> HIDE DEF c
      <4> QED
        BY <3>1, <4>2, <4>4, CutOfCut
    <3> QED
      BY <2>3, <3>4, <3>5, <3>6
  <2> QED
    BY <2>1, <2>2, <2>3, ItemIs
<1>2. Items \subseteq S
  <2>1. \A y \in Items : (y.kind = "node" => \A i \in DOMAIN y.children : y.children[i] \in S) => y \in S
    <3> HIDE DEF P
    <3> QED
      BY <1>1
  <2> HIDE DEF S
  <2> QED
    BY <2>1, TreeInduction
<1> QED
  BY <1>2

(* A leaf and a node, as records.                                          *)
IsLeaf(y) ==
  /\ y = [kind |-> "leaf", regex |-> y.regex, ids |-> y.ids, compiled |-> y.compiled, fold |-> y.fold]
  /\ y.regex \in Regex /\ y.ids \in SUBSET RouteId /\ y.compiled \in BOOLEAN /\ y.fold \in BOOLEAN

IsNode(y) ==
  /\ y = [kind |-> "node", regex |-> y.regex, children |-> y.children, compiled |-> y.compiled,
          fold |-> y.fold]
  /\ y.regex \in Beginnings /\ y.compiled \in BOOLEAN /\ y.fold \in BOOLEAN

(* Its children are well, differ, and begin as it does.                    *)
WellNode(y) ==
  /\ Len(y.children) >= 2
  /\ \A i \in DOMAIN y.children :
       /\ y.children[i].kind # "empty" /\ y.children[i].fold = y.fold
       /\ Cut(y.regex, RegexOf(y.children[i])) /\ Well[y.children[i]]
       /\ \A j \in DOMAIN y.children : i # j => Held[y.children[i]] \cap Held[y.children[j]] = {}

(* A node that is put together.                                            *)
LEMMA NodeMade ==
  ASSUME NEW d \in 1..MaxChange, NEW y, IsNode(y), y.children \in Seq(ItemsOf[d - 1])
  PROVE  /\ y \in ItemsOf[d] /\ y \in Items /\ y.kind = "node" /\ RegexOf(y) = y.regex
         /\ Held[y] = UNION {Held[y.children[i]] : i \in DOMAIN y.children}
         /\ Well[y] <=> WellNode(y)
<1> DEFINE below == ItemsOf[d - 1]
<1>1. d \in 0..MaxChange /\ d # 0 /\ MaxChange \in Nat
  BY ItemsUnfold
<1>2. y.children \in Seq(below)
  OBVIOUS
<1>3. y \in ItemsOver(below)
  <2> HIDE DEF below
  <2> QED
    BY <1>2 DEF ItemsOver, IsNode
<1>4. y \in ItemsOf[d] /\ y \in Items
  BY <1>1, <1>3, ItemsUnfold, ItemsWithin
<1>5. y.kind = "node" /\ RegexOf(y) = y.regex
  BY DEF IsNode, RegexOf
<1> QED
  BY <1>4, <1>5, HeldAre, WellIs DEF WellNode

LEMMA LeafMade ==
  ASSUME NEW d \in 0..MaxChange, NEW y, IsLeaf(y), IsFiniteSet(y.ids), y.ids # {}
  PROVE  /\ y \in ItemsOf[d] /\ y \in Items /\ y.kind = "leaf" /\ RegexOf(y) = y.regex
         /\ Well[y] /\ Held[y] = EntriesOf(y)
<1>1. y \in ItemsOf[d] /\ y.kind = "leaf" /\ RegexOf(y) = y.regex
  BY ItemsUnfold DEF ItemsOver, IsLeaf, RegexOf
<1>2. y \in Items
  BY <1>1, ItemsWithin
<1> QED
  BY <1>1, <1>2, HeldAre, WellIs

(* Those that are there are such records.                                  *)
LEMMA AreRecords ==
  ASSUME NEW d \in 0..MaxChange, NEW x \in ItemsOf[d]
  PROVE  /\ x.kind \in {"empty", "leaf", "node"} /\ x.fold \in BOOLEAN
         /\ x.kind = "leaf" => IsLeaf(x)
         /\ x.kind = "node" => IsNode(x)
BY ItemKinds DEF IsLeaf, IsNode

LEMMA EmptyMade ==
  ASSUME NEW d \in 0..MaxChange, NEW fold, fold \in BOOLEAN
  PROVE  /\ Empty(fold) \in ItemsOf[d] /\ Empty(fold) \in Items /\ Well[Empty(fold)] /\ Held[Empty(fold)] = {}
         /\ Empty(fold).kind = "empty" /\ Empty(fold).fold = fold
<1>1. Empty(fold) \in ItemsOf[d] /\ Empty(fold).kind = "empty" /\ Empty(fold).fold = fold
  BY ItemsUnfold DEF ItemsOver, Empty
<1>2. Empty(fold) \in Items
  BY <1>1, ItemsWithin
<1> QED
  BY <1>1, <1>2, HeldAre, WellIs

----------------------------------------------------------------------------
(* insert                                                                  *)

(* That y is x with the entry e in it: it begins as x does, or with what   *)
(* is common to x and the regex.                                           *)
InsertedAs(x, y, e) ==
  /\ Well[y] /\ y.kind # "empty" /\ y.fold = x.fold
  /\ Held[y] = Held[x] \cup {e}
  /\ x.kind # "empty" =>
       RegexOf(y) \in {RegexOf(x), SubSeq(RegexOf(x), 1, CommonPrefixSize(e.regex, RegexOf(x)))}

(* That y is a leaf of its own for the regex and the id, below x.          *)
New(y, x, r, id) ==
  /\ Well[y] /\ Held[y] = {[regex |-> r, id |-> id]}
  /\ y.kind = "leaf" /\ y.fold = x.fold /\ RegexOf(y) = r

LEMMA NewLeaf ==
  ASSUME NEW d \in 0..MaxChange, NEW r \in Regex, NEW id \in RouteId, NEW x \in Items,
         NEW y, y = Leaf(r, {id}, x.fold)
  PROVE  y \in ItemsOf[d] /\ New(y, x, r, id)
<1>0. x.fold \in BOOLEAN
  BY ItemIs
<1>1. y = [kind |-> "leaf", regex |-> r, ids |-> {id}, compiled |-> FALSE, fold |-> x.fold]
  BY DEF Leaf
<1>2. IsLeaf(y) /\ y.fold = x.fold /\ y.regex = r /\ y.ids = {id}
  <2>1. y.fold = x.fold /\ y.regex = r /\ y.ids = {id} /\ y.compiled = FALSE
    BY <1>1
  <2>2. y = [kind |-> "leaf", regex |-> y.regex, ids |-> y.ids, compiled |-> y.compiled, fold |-> y.fold]
    BY <1>1
  <2>3. y.regex \in Regex /\ y.ids \in SUBSET RouteId /\ y.compiled \in BOOLEAN /\ y.fold \in BOOLEAN
    BY <1>0, <2>1
  <2> QED
    BY <2>1, <2>2, <2>3, Zenon DEF IsLeaf
<1>3. IsFiniteSet(y.ids) /\ y.ids # {}
  BY <1>2, FS_Singleton
<1>4. /\ y \in ItemsOf[d] /\ y \in Items /\ y.kind = "leaf" /\ RegexOf(y) = y.regex
      /\ Well[y] /\ Held[y] = EntriesOf(y)
  BY <1>2, <1>3, LeafMade
<1>5. EntriesOf(y) = {[regex |-> r, id |-> id]}
  BY <1>2 DEF EntriesOf
<1> QED
  BY <1>2, <1>4, <1>5 DEF New

(* Two items below what they have in common.                               *)
LEMMA PairMade ==
  ASSUME NEW d \in 1..MaxChange, NEW x \in ItemsOf[d - 1], NEW z \in ItemsOf[d - 1], NEW b \in Beginnings,
         Well[x], Well[z], x.kind # "empty", z.kind # "empty", Held[x] \cap Held[z] = {},
         x.fold = z.fold, Cut(b, RegexOf(x)), Cut(b, RegexOf(z)),
         NEW y, y = Node(b, <<x, z>>, x.fold)
  PROVE  /\ y \in ItemsOf[d] /\ Well[y] /\ Held[y] = Held[x] \cup Held[z]
         /\ y.kind = "node" /\ y.fold = x.fold /\ RegexOf(y) = b
<1>1. x.fold \in BOOLEAN
  BY ItemsUnfold, AreRecords
<1>2. y = [kind |-> "node", regex |-> b, children |-> <<x, z>>, compiled |-> FALSE, fold |-> x.fold]
  BY DEF Node
<1>3. IsNode(y) /\ y.regex = b /\ y.fold = x.fold /\ y.children = <<x, z>>
  <2>1. y.kind = "node" /\ y.regex = b /\ y.children = <<x, z>> /\ y.compiled = FALSE /\ y.fold = x.fold
    BY <1>2
  <2>2. y = [kind |-> "node", regex |-> y.regex, children |-> y.children, compiled |-> y.compiled,
             fold |-> y.fold]
    BY <1>2
  <2>3. y.regex \in Beginnings /\ y.compiled \in BOOLEAN /\ y.fold \in BOOLEAN
    BY <1>1, <2>1
  <2> QED
    BY <2>1, <2>2, <2>3, Zenon DEF IsNode
<1>4. <<x, z>> \in Seq(ItemsOf[d - 1]) /\ Len(<<x, z>>) = 2 /\ DOMAIN <<x, z>> = {1, 2}
  <2> DEFINE below == ItemsOf[d - 1]
  <2>1. x \in below /\ z \in below
    OBVIOUS
  <2> HIDE DEF below
  <2>2. <<x, z>> \in Seq(below)
    BY <2>1
  <2>3. Len(<<x, z>>) = 2 /\ DOMAIN <<x, z>> = {1, 2}
    OBVIOUS
  <2> QED
    BY <2>2, <2>3 DEF below
<1>5. /\ y \in ItemsOf[d] /\ y \in Items /\ y.kind = "node" /\ RegexOf(y) = y.regex
      /\ Held[y] = UNION {Held[y.children[i]] : i \in DOMAIN y.children}
      /\ Well[y] <=> WellNode(y)
  BY <1>3, <1>4, NodeMade, SMTT(30)
<1>6. Len(y.children) >= 2 /\ DOMAIN y.children = {1, 2} /\ y.children[1] = x /\ y.children[2] = z
  BY <1>3, <1>4
<1>7. Held[y] = Held[x] \cup Held[z]
  BY <1>5, <1>6
<1>8. \A i \in {1, 2} : (i = 1 /\ y.children[i] = x) \/ (i = 2 /\ y.children[i] = z)
  BY <1>6
<1>9. WellNode(y)
  <2>1. ASSUME NEW i \in DOMAIN y.children
        PROVE  /\ y.children[i].kind # "empty" /\ y.children[i].fold = y.fold
               /\ Cut(y.regex, RegexOf(y.children[i])) /\ Well[y.children[i]]
    <3>1. y.children[i] \in {x, z}
      BY <1>6, <1>8
    <3> QED
      BY <3>1, <1>3
  <2>2. ASSUME NEW i \in DOMAIN y.children, NEW j \in DOMAIN y.children, i # j
        PROVE  Held[y.children[i]] \cap Held[y.children[j]] = {}
    <3>1. \/ y.children[i] = x /\ y.children[j] = z
          \/ y.children[i] = z /\ y.children[j] = x
      BY <1>6, <1>8, <2>2
    <3> QED
      BY <3>1
  <2> QED
    BY <1>6, <2>1, <2>2 DEF WellNode
<1> QED
  BY <1>3, <1>5, <1>7, <1>9

LEMMA LeafInserted ==
  ASSUME NEW d \in 1..MaxChange, NEW x \in ItemsOf[d - 1], x.kind = "leaf", Well[x],
         NEW r \in Regex, NEW id \in RouteId, [regex |-> r, id |-> id] \notin Held[x]
  PROVE  LeafInsert(x, r, id) \in ItemsOf[d] /\ InsertedAs(x, LeafInsert(x, r, id), [regex |-> r, id |-> id])
<1> DEFINE e == [regex |-> r, id |-> id]
           y == LeafInsert(x, r, id)
<1>0. d - 1 \in 0..MaxChange /\ d \in 0..MaxChange
  BY ItemsUnfold
<1>1. PICK p \in 0..MaxChange : p = d - 1
  BY <1>0
<1>2. x \in Items /\ x \in ItemsOf[d] /\ IsLeaf(x) /\ x.fold \in BOOLEAN
  BY <1>0, ItemsWithin, ItemsGrow, AreRecords
<1>3. /\ x.regex \in Regex /\ x.ids \in SUBSET RouteId /\ IsFiniteSet(x.ids) /\ x.ids # {}
      /\ Held[x] = EntriesOf(x) /\ RegexOf(x) = x.regex
  BY <1>2, HeldAre, WellIs DEF IsLeaf, RegexOf
<1>4. e.regex = r
  OBVIOUS
<1>5. CASE r = x.regex
  <2>1. /\ IsLeaf(y) /\ y.regex = r /\ y.ids = x.ids \cup {id} /\ y.fold = x.fold
    BY <1>2, <1>3, <1>5 DEF LeafInsert, IsLeaf
  <2> HIDE DEF y
  <2>2. IsFiniteSet(y.ids) /\ y.ids # {}
    BY <1>3, <2>1, FS_AddElement
  <2>3. y \in ItemsOf[d] /\ Well[y] /\ Held[y] = EntriesOf(y) /\ y.kind = "leaf" /\ RegexOf(y) = y.regex
    BY <1>0, <2>1, <2>2, LeafMade
  <2>4. EntriesOf(y) = EntriesOf(x) \cup {e}
    BY <1>5, <2>1 DEF EntriesOf
  <2>5. Held[y] = Held[x] \cup {e} /\ RegexOf(y) = RegexOf(x)
    BY <1>3, <1>5, <2>1, <2>3, <2>4
  <2>6. InsertedAs(x, y, e)
    <3> HIDE DEF e
    <3> QED
      BY <2>1, <2>3, <2>5 DEF InsertedAs
  <2> QED
    BY <2>3, <2>6 DEF y
<1>6. CASE r # x.regex
  <2> DEFINE n == CommonPrefixSize(x.regex, r)
             b == SubSeq(r, 1, n)
             z == Leaf(r, {id}, x.fold)
  <2>1. x.regex \in Seq(Char) /\ r \in Seq(Char) /\ r \in Beginnings
    BY <1>3, Texts
  <2>2. /\ n \in Nat /\ n <= Len(r) /\ SubSeq(x.regex, 1, n) = b
        /\ Cut(b, x.regex) /\ Cut(b, r) /\ n = CommonPrefixSize(r, x.regex)
    BY <2>1, CommonCuts, CommonSymmetric, SMTT(30)
  <2>3. b \in Beginnings
    BY <2>1, <2>2, Texts
  <2>4. /\ z \in ItemsOf[d - 1] /\ Well[z] /\ Held[z] = {e}
        /\ z.kind = "leaf" /\ z.fold = x.fold /\ RegexOf(z) = r
    <3>1. z = Leaf(r, {id}, x.fold)
      OBVIOUS
    <3> HIDE DEF z
    <3>2. z \in ItemsOf[p] /\ New(z, x, r, id)
      BY <1>2, <3>1, NewLeaf
    <3> QED
      BY <1>1, <3>2 DEF New
  <2>5. y = Node(b, <<x, z>>, x.fold)
    BY <1>6 DEF LeafInsert
  <2> HIDE DEF z, y, n, b
  <2>6. Held[x] \cap Held[z] = {}
    BY <2>4
  <2>7. /\ y \in ItemsOf[d] /\ Well[y] /\ Held[y] = Held[x] \cup Held[z]
        /\ y.kind = "node" /\ y.fold = x.fold /\ RegexOf(y) = b
    BY <1>3, <2>2, <2>3, <2>4, <2>5, <2>6, PairMade
  <2>8. RegexOf(y) = SubSeq(RegexOf(x), 1, CommonPrefixSize(e.regex, RegexOf(x)))
    BY <1>3, <1>4, <2>2, <2>7
  <2>9. InsertedAs(x, y, e)
    <3> HIDE DEF e
    <3> QED
      BY <2>4, <2>7, <2>8 DEF InsertedAs
  <2> QED
    BY <2>7, <2>9 DEF y
<1> QED
  BY <1>5, <1>6

LEMMA JoinedAt ==
  ASSUME NEW S, NEW a \in Seq(S), NEW b \in Seq(S)
  PROVE  \A j \in 1..(Len(a) + Len(b)) : (a \o b)[j] = IF j <= Len(a) THEN a[j] ELSE b[j - Len(a)]
<1> TAKE j \in 1..(Len(a) + Len(b))
<1> QED
  OBVIOUS

(* A child that goes to the end, changed: where each of the others is.     *)
PutLast(t, s, m, v, S) ==
  /\ t \in Seq(S) /\ Len(t) = Len(s)
  /\ \E g \in [1..Len(s) -> 1..Len(s)] :
       /\ \A j \in 1..Len(s) : t[j] = IF g[j] = m THEN v ELSE s[g[j]]
       /\ \A j, k \in 1..Len(s) : g[j] = g[k] => j = k
       /\ \A i \in 1..Len(s) : \E j \in 1..Len(s) : g[j] = i

LEMMA PutBackIs ==
  ASSUME NEW S, NEW s \in Seq(S), NEW m \in DOMAIN s, NEW v \in S, NEW z, z = PutBack(s, m, v)
  PROVE  PutLast(z, s, m, v, S)
<1> DEFINE N == Len(s)
           t == RemoveAt(s, m)
           g == [j \in 1..N |-> IF j < m THEN j ELSE IF j < N THEN j + 1 ELSE m]
<1>0. m \in 1..Len(s)
  OBVIOUS
<1>1. t \in Seq(S) /\ Len(t) = N - 1 /\ \A j \in 1..(N - 1) : t[j] = IF j < m THEN s[j] ELSE s[j + 1]
  <2> DEFINE a == SubSeq(s, 1, m - 1)
             b == SubSeq(s, m + 1, N)
  <2>1. t = a \o b
    BY DEF RemoveAt
  <2>2. /\ a \in Seq(S) /\ Len(a) = m - 1 /\ b \in Seq(S) /\ Len(b) = N - m
        /\ \A j \in 1..(m - 1) : a[j] = s[j]
        /\ \A j \in 1..(N - m) : b[j] = s[j + m]
    BY <1>0
  <2> HIDE DEF t, a, b
  <2>0. N \in Nat /\ (m - 1) + (N - m) = N - 1
    BY <1>0
  <2>3. t \in Seq(S) /\ Len(t) = N - 1
    <3>3. t \in Seq(S)
      BY <2>1, <2>2
    <3>1. t \in Seq(S) /\ Len(t) = Len(a) + Len(b)
      BY <2>1, <2>2, <3>3
    <3> QED
      <4> HIDE DEF N
      <4>1. Len(a) + Len(b) = N - 1
        BY <2>0, <2>2
      <4> QED
        BY <3>1, <4>1
  <2>5. \A j \in 1..(Len(a) + Len(b)) : t[j] = IF j <= Len(a) THEN a[j] ELSE b[j - Len(a)]
    BY <2>1, <2>2, JoinedAt
  <2>4. ASSUME NEW j \in 1..(N - 1) PROVE t[j] = IF j < m THEN s[j] ELSE s[j + 1]
    <3>1. CASE j < m
      <4>1. j \in 1..(m - 1) /\ j <= Len(a) /\ j \in 1..(Len(a) + Len(b))
        BY <1>0, <2>0, <2>2, <3>1, SMTT(30)
      <4> QED
        BY <2>2, <2>5, <3>1, <4>1
    <3>2. CASE ~(j < m)
      <4>1. j - (m - 1) \in 1..(N - m) /\ (j - (m - 1)) + m = j + 1
        BY <1>0, <3>2
      <4>2. t[j] = b[j - (m - 1)]
        <5>1. j \in 1..(Len(a) + Len(b)) /\ ~(j <= Len(a)) /\ j - Len(a) = j - (m - 1)
          BY <1>0, <2>0, <2>2, <3>2, SMTT(30)
        <5> QED
          BY <2>5, <5>1
      <4> QED
        BY <2>2, <3>2, <4>1, <4>2
    <3> QED
      BY <3>1, <3>2
  <2> QED
    BY <2>3, <2>4
<1>2. PutBack(s, m, v) = Append(t, v)
  BY DEF PutBack
<1> HIDE DEF t
<1>3. /\ Append(t, v) \in Seq(S) /\ Len(Append(t, v)) = N
      /\ \A j \in 1..(N - 1) : Append(t, v)[j] = t[j]
      /\ Append(t, v)[N] = v
  BY <1>0, <1>1
<1>4. g \in [1..N -> 1..N] /\ \A j \in 1..N : g[j] = IF j < m THEN j ELSE IF j < N THEN j + 1 ELSE m
  BY <1>0
<1> HIDE DEF g
<1>5. \A j \in 1..N : Append(t, v)[j] = IF g[j] = m THEN v ELSE s[g[j]]
  <2> TAKE j \in 1..N
  <2>1. CASE j = N
    BY <1>3, <1>4, <2>1
  <2>2. CASE j # N
    <3>1. j \in 1..(N - 1)
      BY <2>2
    <3> QED
      BY <1>1, <1>3, <1>4, <3>1
  <2> QED
    BY <2>1, <2>2
<1>6. \A j, k \in 1..N : g[j] = g[k] => j = k
  BY <1>0, <1>4
<1>7. \A i \in 1..N : \E j \in 1..N : g[j] = i
  <2> TAKE i \in 1..N
  <2>1. CASE i < m
    BY <1>0, <1>4, <2>1
  <2>2. CASE i = m
    <3>1. N \in 1..N /\ g[N] = m
      BY <1>0, <1>4
    <3> QED
      BY <2>2, <3>1
  <2>3. CASE i > m
    <3>1. i - 1 \in 1..N /\ ~(i - 1 < m) /\ i - 1 < N /\ (i - 1) + 1 = i
      BY <1>0, <2>3
    <3>2. g[i - 1] = i
      BY <1>4, <3>1
    <3> QED
      BY <3>1, <3>2
  <2> QED
    BY <2>1, <2>2, <2>3
<1>8. z = Append(t, v)
  BY <1>2
<1> HIDE DEF N
<1>9. z \in Seq(S) /\ Len(z) = N
  BY <1>3, <1>8
<1>10. \A j \in 1..N : z[j] = IF g[j] = m THEN v ELSE s[g[j]]
  BY <1>5, <1>8
<1>11. /\ z \in Seq(S) /\ Len(z) = N
       /\ \E h \in [1..N -> 1..N] :
            /\ \A j \in 1..N : z[j] = IF h[j] = m THEN v ELSE s[h[j]]
            /\ \A j, k \in 1..N : h[j] = h[k] => j = k
            /\ \A i \in 1..N : \E j \in 1..N : h[j] = i
  BY <1>4, <1>6, <1>7, <1>9, <1>10, Zenon
<1> QED
  BY <1>11, Zenon DEF PutLast, N

LEMMA NearestIs ==
  ASSUME NEW x, NEW r, NEW i \in Nearest(x, r)
  PROVE  i \in DOMAIN x.children /\ CommonPrefixSize(r, RegexOf(x.children[i])) > ByteLen(x.regex)
BY DEF Nearest

LEMMA ByteLenIs ==
  ASSUME NEW b \in Seq(Char)
  PROVE  ByteLen(b) \in Nat /\ ByteLen(b) >= Len(b)
<1>1. IsFiniteSet(DOMAIN b)
  BY FS_Interval
<1>2. IsFiniteSet({i \in DOMAIN b : b[i] \in WideChar})
  BY <1>1, FS_Subset
<1>3. Cardinality({i \in DOMAIN b : b[i] \in WideChar}) \in Nat
  BY <1>2, FS_CardinalityType
<1> QED
  BY <1>3 DEF ByteLen

(* What is common to a regex and a child, longer than the node, is cut by  *)
(* the node.                                                               *)
LEMMA LongerIsCut ==
  ASSUME NEW r \in Seq(Char), NEW c \in Seq(Char), NEW b, Cut(b, c), CommonPrefixSize(r, c) >= Len(b)
  PROVE  Cut(b, SubSeq(c, 1, CommonPrefixSize(r, c)))
<1> DEFINE n == CommonPrefixSize(r, c)
<1>1. n \in Nat /\ n <= Len(c)
  BY CommonCuts
<1>2. PICK j \in 0..Len(c) : b = SubSeq(c, 1, j) /\ Scan(c)[j].level = 0 /\ ~Scan(c)[j].escape
  BY DEF Cut
<1>3. Len(b) = j
  BY <1>2
<1> HIDE DEF n
<1>4. n >= Len(b)
  BY DEF n
<1>5. n \in 0..Len(c) /\ j \in 0..n
  BY <1>1, <1>3, <1>4
<1>6. Cut(b, SubSeq(c, 1, n))
  BY <1>2, <1>5, CutWithin
<1> QED
  BY <1>6 DEF n

InsertedBelow(x, below, d, e) ==
  \A i \in DOMAIN x.children : below[i] \in ItemsOf[d - 1] /\ InsertedAs(x.children[i], below[i], e)

LEMMA NodeInserted ==
  ASSUME NEW d \in 1..MaxChange, NEW x \in ItemsOf[d - 1], x.kind = "node", Well[x],
         NEW r \in Regex, NEW id \in RouteId, [regex |-> r, id |-> id] \notin Held[x],
         NEW below, InsertedBelow(x, below, d, [regex |-> r, id |-> id])
  PROVE  /\ NodeInsert(x, below, r, id) \in ItemsOf[d]
         /\ InsertedAs(x, NodeInsert(x, below, r, id), [regex |-> r, id |-> id])
<1> DEFINE e == [regex |-> r, id |-> id]
           size == CommonPrefixSize(r, x.regex)
           new == Leaf(r, {id}, x.fold)
           y == NodeInsert(x, below, r, id)
           under == ItemsOf[d - 1]
<1>0. PICK p \in 0..MaxChange : p = d - 1
  BY ItemsUnfold
<1>1. x \in Items /\ IsNode(x) /\ x.fold \in BOOLEAN /\ x.regex \in Beginnings /\ RegexOf(x) = x.regex
  BY <1>0, ItemsWithin, AreRecords DEF IsNode, RegexOf
<1>2. WellNode(x) /\ Held[x] = UNION {Held[x.children[i]] : i \in DOMAIN x.children}
  BY <1>1, WellIs, HeldAre DEF WellNode
<1>3. x.regex \in Seq(Char) /\ r \in Seq(Char) /\ r \in Beginnings
  BY <1>1, Texts
<1>4. new \in under /\ Well[new] /\ Held[new] = {e} /\ new.kind = "leaf" /\ new.fold = x.fold /\ RegexOf(new) = r
  <2>1. new = Leaf(r, {id}, x.fold)
    OBVIOUS
  <2> HIDE DEF new
  <2>2. new \in ItemsOf[p] /\ New(new, x, r, id)
    BY <1>1, <2>1, NewLeaf
  <2> HIDE DEF y
  <2> QED
    BY <1>0, <2>2 DEF New
<1>5. /\ size \in Nat /\ size <= Len(x.regex) /\ size <= Len(r) /\ SubSeq(r, 1, size) = SubSeq(x.regex, 1, size)
      /\ Cut(SubSeq(r, 1, size), r) /\ Cut(SubSeq(r, 1, size), x.regex)
  <2> DEFINE b == x.regex
  <2>1. b \in Seq(Char)
    BY <1>3
  <2> HIDE DEF b
  <2>2. size = CommonPrefixSize(r, b)
    BY DEF b
  <2> HIDE DEF size
  <2>3. /\ size \in Nat /\ size <= Len(b) /\ size <= Len(r) /\ SubSeq(r, 1, size) = SubSeq(b, 1, size)
        /\ Cut(SubSeq(r, 1, size), r) /\ Cut(SubSeq(r, 1, size), b)
    BY <1>3, <2>1, <2>2, CommonCuts, SMTT(30)
  <2> QED
    BY <2>3 DEF b
<1>6. x.children \in Seq(under)
  <2>1. p \in 0..MaxChange /\ x \in ItemsOf[p]
    BY <1>0
  <2>2. /\ Len(x.children) \in Nat /\ x.children = [i \in 1..Len(x.children) |-> x.children[i]]
        /\ DOMAIN x.children = 1..Len(x.children)
    BY <2>1, ChildrenBelow
  <2>3. \A i \in 1..Len(x.children) : x.children[i] \in under
    BY <2>1, <2>2, <1>0, ChildrenIn
  <2> HIDE DEF under
  <2> QED
    BY <2>2, <2>3
<1>7. CASE size < ByteLen(x.regex)
  <2> DEFINE b == SubSeq(x.regex, 1, size)
  <2>1. y = Node(b, <<new, x>>, x.fold)
    BY <1>7 DEF NodeInsert
  <2>2. b \in Beginnings /\ Cut(b, r) /\ Cut(b, x.regex)
    BY <1>1, <1>5, Texts
  <2> HIDE DEF y, new, b
  <2>3. y = Node(b, <<new, x>>, new.fold) /\ Held[new] \cap Held[x] = {}
    BY <1>4, <2>1
  <2>4. /\ y \in ItemsOf[d] /\ Well[y] /\ Held[y] = Held[new] \cup Held[x]
        /\ y.kind = "node" /\ y.fold = new.fold /\ RegexOf(y) = b
    BY <1>1, <1>4, <2>2, <2>3, PairMade
  <2>5. RegexOf(y) = SubSeq(RegexOf(x), 1, CommonPrefixSize(e.regex, RegexOf(x)))
    BY <1>1, <2>4 DEF b
  <2>6. InsertedAs(x, y, e)
    <3> HIDE DEF e
    <3> QED
      BY <1>4, <2>4, <2>5 DEF InsertedAs
  <2> QED
    BY <2>4, <2>6 DEF y
<1>8. CASE ~(size < ByteLen(x.regex))
  <2>1. ByteLen(x.regex) = Len(x.regex) /\ size = Len(x.regex)
    BY <1>3, <1>5, <1>8, ByteLenIs
  <2>2. Cut(x.regex, r)
    <3>1. SubSeq(x.regex, 1, Len(x.regex)) = x.regex
      BY <1>3
    <3> HIDE DEF size
    <3> QED
      BY <1>5, <2>1, <3>1
  <2>3. ASSUME NEW kids \in Seq(under), y = [x EXCEPT !.children = kids]
        PROVE  IsNode(y) /\ y.children = kids /\ y.regex = x.regex /\ y.fold = x.fold
    <3>1. y = [kind |-> "node", regex |-> x.regex, children |-> kids, compiled |-> x.compiled, fold |-> x.fold]
      BY <1>1, <2>3 DEF IsNode
    <3> HIDE DEF y
    <3> QED
      BY <1>1, <3>1 DEF IsNode
  <2>4. ASSUME NEW kids \in Seq(under), y = [x EXCEPT !.children = kids],
               NEW held, held = UNION {Held[kids[i]] : i \in DOMAIN kids}, held = Held[x] \cup {e},
               Len(kids) >= 2,
               \A i \in DOMAIN kids : /\ kids[i].kind # "empty" /\ kids[i].fold = x.fold
                                      /\ Cut(x.regex, RegexOf(kids[i])) /\ Well[kids[i]],
               \A i, j \in DOMAIN kids : i # j => Held[kids[i]] \cap Held[kids[j]] = {}
        PROVE  y \in ItemsOf[d] /\ InsertedAs(x, y, e)
    <3>1. IsNode(y) /\ y.children = kids /\ y.regex = x.regex /\ y.fold = x.fold
      BY <2>3, <2>4
    <3>2. y.children \in Seq(ItemsOf[d - 1])
      BY <3>1
    <3> HIDE DEF y, e
    <3>3. /\ y \in ItemsOf[d] /\ y.kind = "node" /\ RegexOf(y) = y.regex
          /\ Held[y] = UNION {Held[y.children[i]] : i \in DOMAIN y.children}
          /\ Well[y] <=> WellNode(y)
      BY <3>1, <3>2, NodeMade
    <3>4. WellNode(y)
      BY <2>4, <3>1 DEF WellNode
    <3>5. Held[y] = Held[x] \cup {e}
      BY <2>4, <3>1, <3>3
    <3> QED
      BY <1>1, <3>1, <3>3, <3>4, <3>5 DEF InsertedAs
  <2>5. CASE Nearest(x, r) = {}
    <3> DEFINE kids == Append(x.children, new)
               N == Len(x.children)
    <3>1. y = [x EXCEPT !.children = kids]
      BY <1>8, <2>5 DEF NodeInsert
    <3> HIDE DEF y, new, under, e
    <3>2. /\ kids \in Seq(under) /\ N \in Nat /\ Len(kids) = N + 1 /\ DOMAIN kids = 1..(N + 1)
          /\ DOMAIN x.children = 1..N
          /\ \A i \in 1..N : kids[i] = x.children[i]
          /\ kids[N + 1] = new
      BY <1>4, <1>6
    <3> HIDE DEF kids, N
    <3>3. \A i \in DOMAIN kids : (i \in DOMAIN x.children /\ kids[i] = x.children[i]) \/ (i = N + 1 /\ kids[i] = new)
      BY <3>2
    <3>4. UNION {Held[kids[i]] : i \in DOMAIN kids} = Held[x] \cup {e}
      <4>1. ASSUME NEW f \in Held[x] PROVE f \in UNION {Held[kids[i]] : i \in DOMAIN kids}
        <5>1. PICK i \in DOMAIN x.children : f \in Held[x.children[i]]
          BY <1>2
        <5>2. i \in DOMAIN kids /\ kids[i] = x.children[i]
          BY <3>2
        <5> QED
          BY <5>1, <5>2
      <4>2. e \in UNION {Held[kids[i]] : i \in DOMAIN kids}
        <5>1. N + 1 \in DOMAIN kids
          BY <3>2
        <5> QED
          BY <1>4, <3>2, <5>1
      <4>3. ASSUME NEW i \in DOMAIN kids PROVE Held[kids[i]] \subseteq Held[x] \cup {e}
        BY <1>2, <1>4, <3>3
      <4> QED
        BY <4>1, <4>2, <4>3
    <3>5. \A i \in DOMAIN kids : /\ kids[i].kind # "empty" /\ kids[i].fold = x.fold
                                 /\ Cut(x.regex, RegexOf(kids[i])) /\ Well[kids[i]]
      BY <1>2, <1>4, <2>2, <3>3 DEF WellNode
    <3>6. \A i, j \in DOMAIN kids : i # j => Held[kids[i]] \cap Held[kids[j]] = {}
      <4>1. ASSUME NEW i \in DOMAIN kids, NEW j \in DOMAIN kids, i # j
            PROVE  Held[kids[i]] \cap Held[kids[j]] = {}
        <5>0. e \notin Held[x]
          BY DEF e
        <5>1. CASE i \in DOMAIN x.children /\ kids[i] = x.children[i] /\ j \in DOMAIN x.children /\ kids[j] = x.children[j]
          BY <1>2, <4>1, <5>1 DEF WellNode
        <5>2. CASE i \in DOMAIN x.children /\ kids[i] = x.children[i] /\ kids[j] = new
          BY <1>2, <1>4, <5>0, <5>2
        <5>3. CASE kids[i] = new /\ j \in DOMAIN x.children /\ kids[j] = x.children[j]
          BY <1>2, <1>4, <5>0, <5>3
        <5> QED
          BY <3>3, <4>1, <5>1, <5>2, <5>3
      <4> QED
        BY <4>1
    <3>7. Len(kids) >= 2
      BY <1>2, <3>2 DEF WellNode, N
    <3>8. y \in ItemsOf[d] /\ InsertedAs(x, y, e)
      BY <2>4, <3>1, <3>2, <3>4, <3>5, <3>6, <3>7
    <3> QED
      BY <3>8 DEF y, e
  <2>6. CASE Nearest(x, r) # {}
    <3> DEFINE m == Min(Nearest(x, r))
               kids == PutBack(x.children, m, below[m])
               N == Len(x.children)
    <3>1. y = [x EXCEPT !.children = kids]
      BY <1>8, <2>6 DEF NodeInsert
    <3>2. N \in Nat /\ DOMAIN x.children = 1..N
      BY <1>6
    <3>3. m \in DOMAIN x.children /\ CommonPrefixSize(r, RegexOf(x.children[m])) > ByteLen(x.regex)
      <4>1. Nearest(x, r) \in SUBSET (1..N)
        BY <3>2, NearestIs
      <4>2. m \in Nearest(x, r)
        BY <2>6, <3>2, <4>1, MinOfRange
      <4> QED
        BY <4>2, NearestIs
    <3> DEFINE c == x.children[m]
               v == below[m]
    <3>4. v \in under /\ InsertedAs(c, v, e)
      BY <3>3 DEF InsertedBelow
    <3> HIDE DEF y, new, under, e, m
    <3>5. /\ kids \in Seq(under) /\ Len(kids) = N
          /\ \E g \in [1..N -> 1..N] :
               /\ \A j \in 1..N : kids[j] = IF g[j] = m THEN v ELSE x.children[g[j]]
               /\ \A j, k \in 1..N : g[j] = g[k] => j = k
               /\ \A i \in 1..N : \E j \in 1..N : g[j] = i
      <4> HIDE DEF c, v, N
      <4>1. kids = PutBack(x.children, m, v)
        BY DEF v
      <4> HIDE DEF kids
      <4>2. PutLast(kids, x.children, m, v, under)
        BY <1>6, <3>3, <3>4, <4>1, PutBackIs
      <4> QED
        BY <4>2, Zenon DEF PutLast, N
    <3> HIDE DEF kids, N
    <3>6. PICK g \in [1..N -> 1..N] :
               /\ \A j \in 1..N : kids[j] = IF g[j] = m THEN v ELSE x.children[g[j]]
               /\ \A j, k \in 1..N : g[j] = g[k] => j = k
               /\ \A i \in 1..N : \E j \in 1..N : g[j] = i
      BY <3>5
    <3>7. DOMAIN kids = 1..N
      BY <3>5
    <3>8. c \in Items /\ c.kind # "empty" /\ c.fold = x.fold /\ Cut(x.regex, RegexOf(c)) /\ Well[c]
      BY <1>1, <1>2, <3>3, ItemIs DEF WellNode
    <3>9. /\ v.kind # "empty" /\ v.fold = x.fold /\ Well[v] /\ Held[v] = Held[c] \cup {e}
          /\ RegexOf(v) \in {RegexOf(c), SubSeq(RegexOf(c), 1, CommonPrefixSize(r, RegexOf(c)))}
      <4>1. e.regex = r
        BY DEF e
      <4> QED
        BY <3>4, <3>8, <4>1 DEF InsertedAs
    <3>10. Cut(x.regex, RegexOf(v))
      <4>1. RegexOf(c) \in Seq(Char)
        BY <3>8, RegexOfText
      <4>2. CommonPrefixSize(r, RegexOf(c)) >= Len(x.regex)
        <5>1. CommonPrefixSize(r, RegexOf(c)) \in Nat
          BY <1>3, <4>1, CommonCuts
        <5>2. Len(x.regex) \in Nat
          BY <1>3
        <5> QED
          BY <2>1, <3>3, <5>1, <5>2
      <4>3. Cut(x.regex, SubSeq(RegexOf(c), 1, CommonPrefixSize(r, RegexOf(c))))
        BY <1>3, <3>8, <4>1, <4>2, LongerIsCut
      <4> QED
        BY <3>8, <3>9, <4>3
    <3>11. \A i \in DOMAIN x.children : Held[x.children[i]] \subseteq Held[x]
      BY <1>2
    <3>12. e \notin Held[x]
      BY DEF e
    <3>13. ASSUME NEW j \in 1..N
           PROVE  /\ g[j] \in DOMAIN x.children
                  /\ \/ g[j] = m /\ kids[j] = v
                     \/ g[j] # m /\ kids[j] = x.children[g[j]]
      BY <3>2, <3>6
    <3> HIDE DEF c, v
    <3>14. UNION {Held[kids[i]] : i \in DOMAIN kids} = Held[x] \cup {e}
      <4>1. ASSUME NEW f \in Held[x] PROVE f \in UNION {Held[kids[i]] : i \in DOMAIN kids}
        <5>1. PICK i \in DOMAIN x.children : f \in Held[x.children[i]]
          BY <1>2
        <5>2. PICK j \in 1..N : g[j] = i
          BY <3>2, <3>6
        <5>3. f \in Held[kids[j]]
          <6>1. CASE i = m
            BY <3>9, <3>13, <5>1, <5>2, <6>1 DEF c
          <6>2. CASE i # m
            BY <3>13, <5>1, <5>2, <6>2
          <6> QED
            BY <6>1, <6>2
        <5> QED
          BY <3>7, <5>3
      <4>2. e \in UNION {Held[kids[i]] : i \in DOMAIN kids}
        <5>1. PICK j \in 1..N : g[j] = m
          BY <3>2, <3>3, <3>6
        <5>2. e \in Held[kids[j]]
          BY <3>9, <3>13, <5>1
        <5> QED
          BY <3>7, <5>2
      <4>3. ASSUME NEW i \in DOMAIN kids PROVE Held[kids[i]] \subseteq Held[x] \cup {e}
        BY <3>3, <3>7, <3>9, <3>11, <3>13 DEF c
      <4> QED
        BY <4>1, <4>2, <4>3
    <3>15. \A i \in DOMAIN kids : /\ kids[i].kind # "empty" /\ kids[i].fold = x.fold
                                  /\ Cut(x.regex, RegexOf(kids[i])) /\ Well[kids[i]]
      BY <1>2, <3>7, <3>9, <3>10, <3>13 DEF WellNode
    <3>16. \A i, j \in DOMAIN kids : i # j => Held[kids[i]] \cap Held[kids[j]] = {}
      <4>1. ASSUME NEW i \in DOMAIN kids, NEW j \in DOMAIN kids, i # j
            PROVE  Held[kids[i]] \cap Held[kids[j]] = {}
        <5>1. g[i] # g[j] /\ g[i] \in DOMAIN x.children /\ g[j] \in DOMAIN x.children
          BY <3>6, <3>7, <3>13, <4>1
        <5>2. Held[x.children[g[i]]] \cap Held[x.children[g[j]]] = {}
          BY <1>2, <5>1 DEF WellNode
        <5>3. /\ Held[kids[i]] \subseteq Held[x.children[g[i]]] \cup {e}
              /\ g[i] # m => Held[kids[i]] = Held[x.children[g[i]]]
          BY <3>7, <3>9, <3>13 DEF c
        <5>4. /\ Held[kids[j]] \subseteq Held[x.children[g[j]]] \cup {e}
              /\ g[j] # m => Held[kids[j]] = Held[x.children[g[j]]]
          BY <3>7, <3>9, <3>13 DEF c
        <5>5. e \notin Held[x.children[g[i]]] /\ e \notin Held[x.children[g[j]]]
          BY <3>11, <3>12, <5>1
        <5> QED
          BY <5>1, <5>2, <5>3, <5>4, <5>5
      <4> QED
        BY <4>1
    <3>17. Len(kids) >= 2
      BY <1>2, <3>5 DEF WellNode, N
    <3>18. y \in ItemsOf[d] /\ InsertedAs(x, y, e)
      BY <2>4, <3>1, <3>5, <3>14, <3>15, <3>16, <3>17
    <3> QED
      BY <3>18 DEF y, e
  <2> QED
    BY <2>5, <2>6
<1> QED
  BY <1>7, <1>8

(* What an insertion does to an item, however deep.                        *)
LEMMA InsertionIs ==
  ASSUME NEW r \in Regex, NEW id \in RouteId
  PROVE  \A d \in 1..MaxChange : \A x \in ItemsOf[d - 1] :
           Well[x] /\ [regex |-> r, id |-> id] \notin Held[x] =>
             /\ Insertion(r, id)[x] \in ItemsOf[d]
             /\ InsertedAs(x, Insertion(r, id)[x], [regex |-> r, id |-> id])
<1> DEFINE e == [regex |-> r, id |-> id]
           P(d) == \A x \in ItemsOf[d - 1] :
                     Well[x] /\ e \notin Held[x] =>
                       Insertion(r, id)[x] \in ItemsOf[d] /\ InsertedAs(x, Insertion(r, id)[x], e)
           T == {n \in 0..MaxChange : n = 0 \/ P(n)}
<1>1. 0 \in T
  BY ItemsUnfold
<1>2. ASSUME NEW n \in 1..MaxChange, n - 1 \in T PROVE n \in T
  <2>0. n - 1 \in 0..MaxChange /\ n \in 0..MaxChange
    BY ItemsUnfold
  <2>1. ASSUME NEW x \in ItemsOf[n - 1], Well[x], e \notin Held[x]
        PROVE  Insertion(r, id)[x] \in ItemsOf[n] /\ InsertedAs(x, Insertion(r, id)[x], e)
    <3>1. x \in Items /\ x.kind \in {"empty", "leaf", "node"} /\ x.fold \in BOOLEAN
      BY <2>0, ItemsWithin, AreRecords
    <3>2. Insertion(r, id)[x] = InsertOf(r, id, x, Insertion(r, id))
      BY <3>1, InsertionUnfold
    <3>3. CASE x.kind = "empty"
      <4> DEFINE y == Leaf(r, {id}, x.fold)
      <4>1. Insertion(r, id)[x] = y
        BY <3>2, <3>3 DEF InsertOf
      <4>2. y = Leaf(r, {id}, x.fold)
        OBVIOUS
      <4> HIDE DEF y
      <4>3. y \in ItemsOf[n] /\ New(y, x, r, id)
        BY <2>0, <3>1, <4>2, NewLeaf
      <4>4. Held[x] = {}
        BY <3>1, <3>3, HeldAre
      <4>5. Held[y] = Held[x] \cup {e} /\ Well[y] /\ y.kind = "leaf" /\ y.fold = x.fold
        BY <4>3, <4>4 DEF New
      <4>6. InsertedAs(x, y, e)
        <5> HIDE DEF e
        <5> QED
          BY <3>3, <4>5 DEF InsertedAs
      <4> QED
        BY <4>1, <4>3, <4>6
    <3>4. CASE x.kind = "leaf"
      <4>1. Insertion(r, id)[x] = LeafInsert(x, r, id)
        BY <3>2, <3>4 DEF InsertOf
      <4> QED
        BY <2>1, <3>4, <4>1, LeafInserted
    <3>5. CASE x.kind = "node"
      <4> DEFINE below == [i \in DOMAIN x.children |-> Insertion(r, id)[x.children[i]]]
      <4>1. Insertion(r, id)[x] = NodeInsert(x, below, r, id)
        BY <3>2, <3>5 DEF InsertOf
      <4>2. ASSUME NEW i \in DOMAIN x.children
            PROVE  below[i] \in ItemsOf[n - 1] /\ InsertedAs(x.children[i], below[i], e)
        <5> DEFINE c == x.children[i]
        <5>1. n - 1 # 0 /\ c \in ItemsOf[(n - 1) - 1]
          BY <2>0, <3>5, ChildrenIn
        <5>2. Well[c] /\ Held[c] \subseteq Held[x]
          BY <2>1, <3>1, <3>5, WellIs, HeldAre
        <5>3. below[i] = Insertion(r, id)[c]
          OBVIOUS
        <5>4. P(n - 1)
          BY <1>2, <5>1
        <5> HIDE DEF c, below, e
        <5>5. Insertion(r, id)[c] \in ItemsOf[n - 1] /\ InsertedAs(c, Insertion(r, id)[c], e)
          BY <2>1, <5>1, <5>2, <5>4
        <5> QED
          BY <5>3, <5>5 DEF c
      <4> HIDE DEF below
      <4> QED
        <5>1. InsertedBelow(x, below, n, e)
          BY <4>2 DEF InsertedBelow
        <5> QED
          BY <2>1, <3>5, <4>1, <5>1, NodeInserted
    <3> QED
      BY <3>1, <3>3, <3>4, <3>5
  <2>2. P(n)
    BY <2>1
  <2> HIDE DEF P
  <2> QED
    BY <2>0, <2>2
<1>3. 0..MaxChange \subseteq T
  <2> HIDE DEF T
  <2> QED
    BY <1>1, <1>2, ItemsUnfold, Turns
<1> QED
  BY <1>3

----------------------------------------------------------------------------
(* find, get and what is told of the shape.                                *)

Matching(x, w) == {e \in Held[x] : LeafMatches(e.regex, x.fold, w)}

LEMMA FoundIs ==
  ASSUME \A r \in Regex : ClassesArePlain(r), NEW w \in Word
  PROVE  \A x \in Items : Well[x] => Found(w)[x] = Matching(x, w)
<1> DEFINE S == {x \in Items : Well[x] => Found(w)[x] = Matching(x, w)}
<1>1. ASSUME NEW x \in Items, x.kind = "node" => \A i \in DOMAIN x.children : x.children[i] \in S, Well[x]
      PROVE  Found(w)[x] = Matching(x, w)
  <2>1. Found(w)[x] = FindOf(w, x, Found(w)) /\ x.kind \in {"empty", "leaf", "node"}
    BY FoundUnfold, ItemIs
  <2>2. CASE x.kind = "empty"
    BY <2>1, <2>2, HeldAre DEF FindOf, Matching
  <2>3. CASE x.kind = "leaf"
    <3>1. Held[x] = EntriesOf(x) /\ \A e \in EntriesOf(x) : e.regex = x.regex
      BY <2>3, HeldAre DEF EntriesOf
    <3>2. Found(w)[x] = IF LeafMatches(x.regex, x.fold, w) THEN EntriesOf(x) ELSE {}
      BY <2>1, <2>3 DEF FindOf
    <3> QED
      BY <3>1, <3>2 DEF Matching
  <2>4. CASE x.kind = "node"
    <3>1. Held[x] = UNION {Held[x.children[i]] : i \in DOMAIN x.children}
      BY <2>4, HeldAre
    <3>2. \A i \in DOMAIN x.children :
            /\ x.children[i].fold = x.fold
            /\ Found(w)[x.children[i]] = Matching(x.children[i], w)
      BY <1>1, <2>4, WellIs
    <3>3. Matching(x, w) = UNION {Found(w)[x.children[i]] : i \in DOMAIN x.children}
      <4>1. \A i \in DOMAIN x.children :
              Found(w)[x.children[i]] = {e \in Held[x.children[i]] : LeafMatches(e.regex, x.fold, w)}
        BY <3>2 DEF Matching
      <4> QED
        BY <3>1, <4>1 DEF Matching
    <3>4. Found(w)[x] = IF NodeMatches(x.regex, x.fold, w)
                        THEN UNION {Found(w)[x.children[i]] : i \in DOMAIN x.children} ELSE {}
      BY <2>1, <2>4 DEF FindOf
    <3>5. CASE NodeMatches(x.regex, x.fold, w)
      BY <3>3, <3>4, <3>5
    <3>6. CASE ~NodeMatches(x.regex, x.fold, w)
      <4>1. ASSUME NEW e \in Held[x] PROVE ~LeafMatches(e.regex, x.fold, w)
        <5>1. e.regex \in Regex /\ Cut(x.regex, e.regex) /\ ClassesArePlain(e.regex)
          BY <1>1, <2>4, WellHolds, HeldTyped DEF Entry
        <5>2. x.regex \in Beginnings /\ x.fold \in BOOLEAN
          BY <2>4, ItemIs
        <5>3. LeafMatches(e.regex, x.fold, w) => NodeMatches(x.regex, x.fold, w)
          BY <5>1, <5>2, CutMatches
        <5> QED
          BY <3>6, <5>3
      <4> QED
        BY <3>4, <3>6, <4>1 DEF Matching
    <3> QED
      BY <3>5, <3>6
  <2> QED
    BY <2>1, <2>2, <2>3, <2>4
<1>2. Items \subseteq S
  <2> HIDE DEF S
  <2>1. \A x \in Items : (x.kind = "node" => \A i \in DOMAIN x.children : x.children[i] \in S) => x \in S
    BY <1>1 DEF S
  <2> QED
    BY <2>1, TreeInduction
<1> QED
  BY <1>2

(* A cut of a text is a beginning of it.                                   *)
LEMMA CutIsPrefix ==
  ASSUME NEW r \in Seq(Char), NEW b, Cut(b, r)
  PROVE  IsPrefix(b, r)
<1>1. PICK i \in 0..Len(r) : b = SubSeq(r, 1, i)
  BY DEF Cut
<1>2. Len(b) = i /\ i <= Len(r) /\ SubSeq(r, 1, Len(b)) = b
  BY <1>1
<1>3. SubSeq(b, 1, Len(b)) = SubSeq(r, 1, Len(b))
  BY <1>1, <1>2
<1> QED
  BY <1>2, <1>3 DEF IsPrefix

LEMMA GotIs ==
  ASSUME NEW r \in Regex
  PROVE  \A x \in Items : Well[x] => Got(r)[x] = {e \in Held[x] : e.regex = r}
<1> DEFINE S == {x \in Items : Well[x] => Got(r)[x] = {e \in Held[x] : e.regex = r}}
<1>1. ASSUME NEW x \in Items, x.kind = "node" => \A i \in DOMAIN x.children : x.children[i] \in S, Well[x]
      PROVE  Got(r)[x] = {e \in Held[x] : e.regex = r}
  <2>1. Got(r)[x] = GetOf(r, x, Got(r)) /\ x.kind \in {"empty", "leaf", "node"}
    BY GotUnfold, ItemIs
  <2>2. CASE x.kind = "empty"
    BY <2>1, <2>2, HeldAre DEF GetOf
  <2>3. CASE x.kind = "leaf"
    <3>1. Held[x] = EntriesOf(x) /\ \A e \in EntriesOf(x) : e.regex = x.regex
      BY <2>3, HeldAre DEF EntriesOf
    <3>2. Got(r)[x] = IF x.regex = r THEN EntriesOf(x) ELSE {}
      BY <2>1, <2>3 DEF GetOf
    <3> QED
      BY <3>1, <3>2
  <2>4. CASE x.kind = "node"
    <3>1. Held[x] = UNION {Held[x.children[i]] : i \in DOMAIN x.children}
      BY <2>4, HeldAre
    <3>2. \A i \in DOMAIN x.children :
            Got(r)[x.children[i]] = {e \in Held[x.children[i]] : e.regex = r}
      BY <1>1, <2>4, WellIs
    <3>3. {e \in Held[x] : e.regex = r} = UNION {Got(r)[x.children[i]] : i \in DOMAIN x.children}
      BY <3>1, <3>2
    <3>4. Got(r)[x] = IF IsPrefix(x.regex, r)
                      THEN UNION {Got(r)[x.children[i]] : i \in DOMAIN x.children} ELSE {}
      BY <2>1, <2>4 DEF GetOf
    <3>5. CASE IsPrefix(x.regex, r)
      BY <3>3, <3>4, <3>5
    <3>6. CASE ~IsPrefix(x.regex, r)
      <4>1. ASSUME NEW e \in Held[x] PROVE e.regex # r
        <5>1. e.regex \in Regex /\ Cut(x.regex, e.regex)
          BY <1>1, <2>4, WellHolds, HeldTyped DEF Entry
        <5>2. e.regex \in Seq(Char)
          BY <5>1, Texts
        <5>3. IsPrefix(x.regex, e.regex)
          BY <5>1, <5>2, CutIsPrefix
        <5> QED
          BY <3>6, <5>3
      <4> QED
        BY <3>4, <3>6, <4>1
    <3> QED
      BY <3>5, <3>6
  <2> QED
    BY <2>1, <2>2, <2>3, <2>4
<1>2. Items \subseteq S
  <2> HIDE DEF S
  <2>1. \A x \in Items : (x.kind = "node" => \A i \in DOMAIN x.children : x.children[i] \in S) => x \in S
    BY <1>1 DEF S
  <2> QED
    BY <2>1, TreeInduction
<1> QED
  BY <1>2

(* The number of entries of some that have none in common.                 *)
Counted(lens, H, N) ==
  /\ lens = [i \in 1..N |-> Cardinality(H[i])]
  /\ \A i \in 1..N : IsFiniteSet(H[i])
  /\ \A i, j \in 1..N : i # j => H[i] \cap H[j] = {}

LEMMA DisjointTotal ==
  ASSUME NEW N \in Nat, NEW H, NEW lens, Counted(lens, H, N)
  PROVE  Total(lens) = Cardinality(UNION {H[i] : i \in 1..N})
<1>0. /\ lens = [i \in 1..N |-> Cardinality(H[i])]
      /\ \A i \in 1..N : IsFiniteSet(H[i])
      /\ \A i, j \in 1..N : i # j => H[i] \cap H[j] = {}
  BY DEF Counted
<1>1. lens \in [1..N -> Nat] /\ \A i \in 1..N : lens[i] = Cardinality(H[i])
  <2>1. \A i \in 1..N : Cardinality(H[i]) \in Nat
    BY <1>0, FS_CardinalityType
  <2> QED
    BY <1>0, <2>1
<1>2. PICK t \in [0..N -> Nat] : /\ t[0] = 0 /\ Total(lens) = t[N]
                                 /\ \A n \in 1..N : t[n] = t[n - 1] + lens[n]
  BY <1>1, TotalIs
<1> DEFINE U(n) == UNION {H[i] : i \in 1..n}
           Q(n) == IsFiniteSet(U(n)) /\ t[n] = Cardinality(U(n))
           T == {n \in 0..N : Q(n)}
<1>3. 0 \in T
  <2>1. U(0) = {} /\ 0 \in 0..N
    OBVIOUS
  <2> HIDE DEF U
  <2> QED
    BY <1>2, <2>1, FS_EmptySet
<1>4. ASSUME NEW n \in 1..N, n - 1 \in T PROVE n \in T
  <2>1. n \in 0..N /\ U(n) = U(n - 1) \cup H[n]
    <3>1. \A i \in 1..n : i \in 1..(n - 1) \/ i = n
      OBVIOUS
    <3>2. n \in 1..n /\ \A i \in 1..(n - 1) : i \in 1..n
      OBVIOUS
    <3> QED
      BY <3>1, <3>2
  <2>2. U(n - 1) \cap H[n] = {}
    <3>1. \A i \in 1..(n - 1) : i \in 1..N /\ i # n
      OBVIOUS
    <3> QED
      BY <1>0, <3>1
  <2>3. IsFiniteSet(U(n - 1)) /\ t[n - 1] = Cardinality(U(n - 1)) /\ IsFiniteSet(H[n])
    BY <1>0, <1>4
  <2> HIDE DEF U
  <2>4. /\ IsFiniteSet(U(n - 1) \cup H[n])
        /\ Cardinality(U(n - 1) \cup H[n])
             = Cardinality(U(n - 1)) + Cardinality(H[n]) - Cardinality(U(n - 1) \cap H[n])
    BY <2>3, FS_Union
  <2>5. Cardinality(U(n - 1) \cap H[n]) = 0 /\ Cardinality(U(n - 1)) \in Nat /\ Cardinality(H[n]) \in Nat
    BY <2>2, <2>3, FS_EmptySet, FS_CardinalityType
  <2>6. t[n] = t[n - 1] + Cardinality(H[n])
    BY <1>1, <1>2
  <2>7. Cardinality(U(n)) = Cardinality(U(n - 1)) + Cardinality(H[n])
    BY <2>1, <2>4, <2>5
  <2>8. Q(n)
    BY <2>1, <2>3, <2>4, <2>6, <2>7
  <2>9. n \in 0..N
    BY <2>1
  <2> HIDE DEF Q
  <2> QED
    BY <2>8, <2>9
<1>5. N \in T
  <2> HIDE DEF T
  <2> HIDE DEF Q
  <2>1. 0..N \subseteq T
    BY <1>3, <1>4, Turns
  <2>2. N \in 0..N
    OBVIOUS
  <2> QED
    BY <2>1, <2>2
<1> QED
  BY <1>1, <1>2, <1>5

(* len counts what is held.                                                *)
LEMMA LenIs ==
  \A x \in Items : Well[x] => ItemLen[x] = Cardinality(Held[x])
<1> DEFINE S == {x \in Items : Well[x] => ItemLen[x] = Cardinality(Held[x])}
<1>1. ASSUME NEW x \in Items, x.kind = "node" => \A i \in DOMAIN x.children : x.children[i] \in S, Well[x]
      PROVE  ItemLen[x] = Cardinality(Held[x])
  <2>1. ItemLen[x] = LenOf(x, ItemLen) /\ x.kind \in {"empty", "leaf", "node"}
    BY ItemLenUnfold, ItemIs
  <2>2. CASE x.kind = "empty"
    BY <2>1, <2>2, HeldAre, FS_EmptySet DEF LenOf
  <2>3. CASE x.kind = "leaf"
    <3>1. Held[x] = EntriesOf(x) /\ IsFiniteSet(x.ids) /\ ItemLen[x] = Cardinality(x.ids)
      BY <1>1, <2>1, <2>3, HeldAre, WellIs DEF LenOf
    <3> DEFINE f == [i \in x.ids |-> [regex |-> x.regex, id |-> i]]
               E == EntriesOf(x)
    <3>2. f \in Bijection(x.ids, E)
      <4>1. f \in [x.ids -> E]
        BY DEF EntriesOf
      <4>2. \A a, b \in x.ids : f[a] = f[b] => a = b
        OBVIOUS
      <4>3. \A y \in E : \E a \in x.ids : f[a] = y
        BY DEF EntriesOf
      <4> HIDE DEF f, E
      <4>4. f \in Surjection(x.ids, E)
        BY <4>1, <4>3 DEF Surjection
      <4>5. f \in Injection(x.ids, E)
        <5>1. DOMAIN f = x.ids
          BY <4>1
        <5> QED
          BY <4>1, <4>2, <5>1 DEF Injection, IsInjective
      <4> QED
        BY <4>4, <4>5 DEF Bijection
    <3> HIDE DEF f, E
    <3>3. Cardinality(E) = Cardinality(x.ids)
      <4>1. ExistsBijection(x.ids, E)
        BY <3>2 DEF ExistsBijection
      <4> QED
        BY <3>1, <4>1, FS_Bijection
    <3> QED
      BY <3>1, <3>3 DEF E
  <2>4. CASE x.kind = "node"
    <3> DEFINE N == Len(x.children)
               H == [i \in 1..N |-> Held[x.children[i]]]
               lens == [i \in DOMAIN x.children |-> ItemLen[x.children[i]]]
    <3>1. N \in Nat /\ DOMAIN x.children = 1..N
      BY <2>4, ItemIs
    <3>2. Held[x] = UNION {H[i] : i \in 1..N}
      <4>1. \A i \in 1..N : H[i] = Held[x.children[i]]
        OBVIOUS
      <4>2. Held[x] = UNION {Held[x.children[i]] : i \in 1..N}
        BY <2>4, <3>1, HeldAre
      <4> HIDE DEF H, N
      <4> QED
        BY <4>1, <4>2
    <3>3. ASSUME NEW i \in 1..N
          PROVE  /\ x.children[i] \in Items /\ Well[x.children[i]]
                 /\ ItemLen[x.children[i]] = Cardinality(Held[x.children[i]]) /\ IsFiniteSet(Held[x.children[i]])
                 /\ \A j \in 1..N : i # j => Held[x.children[i]] \cap Held[x.children[j]] = {}
      <4>1. /\ x.children[i] \in Items /\ Well[x.children[i]]
            /\ ItemLen[x.children[i]] = Cardinality(Held[x.children[i]])
            /\ \A j \in 1..N : i # j => Held[x.children[i]] \cap Held[x.children[j]] = {}
        BY <1>1, <2>4, <3>1, WellIs
      <4> QED
        BY <4>1, WellHolds
    <3>4. lens = [i \in 1..N |-> Cardinality(H[i])]
      BY <3>1, <3>3
    <3>5. H = [i \in 1..N |-> H[i]] /\ \A i \in 1..N : IsFiniteSet(H[i])
      BY <3>3
    <3>6. \A i, j \in 1..N : i # j => H[i] \cap H[j] = {}
      BY <3>3
    <3>7. ItemLen[x] = Total(lens)
      BY <2>1, <2>4 DEF LenOf
    <3> HIDE DEF lens, H, N
    <3>8. Total(lens) = Cardinality(UNION {H[i] : i \in 1..N})
      <4>1. Counted(lens, H, N)
        BY <3>4, <3>5, <3>6 DEF Counted
      <4> QED
        BY <3>1, <4>1, DisjointTotal
    <3> QED
      BY <3>2, <3>7, <3>8
  <2> QED
    BY <2>1, <2>2, <2>3, <2>4
<1>2. Items \subseteq S
  <2> HIDE DEF S
  <2>1. \A x \in Items : (x.kind = "node" => \A i \in DOMAIN x.children : x.children[i] \in S) => x \in S
    BY <1>1 DEF S
  <2> QED
    BY <2>1, TreeInduction
<1> QED
  BY <1>2

(* An item is empty when it holds nothing.                                 *)
LEMMA EmptyIs ==
  ASSUME NEW x \in Items, Well[x]
  PROVE  /\ IsEmptyItem(x) <=> Held[x] = {}
         /\ IsEmptyItem(x) <=> x.kind = "empty"
<1>1. IsFiniteSet(Held[x]) /\ ItemLen[x] = Cardinality(Held[x])
  BY WellHolds, LenIs
<1>2. ItemLen[x] = 0 <=> Held[x] = {}
  BY <1>1, FS_EmptySet
<1>3. Held[x] = {} <=> x.kind = "empty"
  BY WellHolds, HeldAre
<1> QED
  BY <1>2, <1>3 DEF IsEmptyItem

LEMMA BranchesIs ==
  \A x \in Items : Well[x] => Branches[x]
<1> DEFINE S == {x \in Items : Well[x] => Branches[x]}
<1>1. ASSUME NEW x \in Items, x.kind = "node" => \A i \in DOMAIN x.children : x.children[i] \in S, Well[x]
      PROVE  Branches[x]
  <2>1. Branches[x] = BranchesOf(x, Branches)
    BY BranchesUnfold
  <2>2. ASSUME x.kind = "node", NEW i \in DOMAIN x.children
        PROVE  /\ ~IsEmptyItem(x.children[i]) /\ IsPrefix(x.regex, RegexOf(x.children[i]))
               /\ Branches[x.children[i]]
    <3> DEFINE c == x.children[i]
    <3>1. c \in Items /\ c.kind # "empty" /\ Well[c] /\ Cut(x.regex, RegexOf(c)) /\ Branches[c]
      BY <1>1, <2>2, WellIs
    <3> HIDE DEF c
    <3>2. RegexOf(c) \in Seq(Char)
      BY <3>1, RegexOfText
    <3>3. ~IsEmptyItem(c) /\ IsPrefix(x.regex, RegexOf(c))
      BY <3>1, <3>2, EmptyIs, CutIsPrefix
    <3> QED
      BY <3>1, <3>3 DEF c
  <2>3. x.kind = "node" => Len(x.children) >= 2
    BY <1>1, WellIs
  <2> QED
    BY <2>1, <2>2, <2>3 DEF BranchesOf
<1>2. Items \subseteq S
  <2> HIDE DEF S
  <2>1. \A x \in Items : (x.kind = "node" => \A i \in DOMAIN x.children : x.children[i] \in S) => x \in S
    BY <1>1 DEF S
  <2> QED
    BY <2>1, TreeInduction
<1> QED
  BY <1>2

LEMMA OKIs ==
  \A x \in Items : Well[x] /\ x.fold = ignoreCase => ItemOK[x]
<1> DEFINE S == {x \in Items : Well[x] /\ x.fold = ignoreCase => ItemOK[x]}
<1>1. ASSUME NEW x \in Items, x.kind = "node" => \A i \in DOMAIN x.children : x.children[i] \in S, Well[x],
             x.fold = ignoreCase
      PROVE  ItemOK[x]
  <2>1. ItemOK[x] = OKOf(x, ItemOK)
    BY ItemOKUnfold
  <2>2. x.kind = "leaf" => x.ids # {}
    BY <1>1, WellIs
  <2>3. x.kind = "node" => \A i \in DOMAIN x.children : ItemOK[x.children[i]]
    BY <1>1, WellIs
  <2> QED
    BY <1>1, <2>1, <2>2, <2>3 DEF OKOf
<1>2. Items \subseteq S
  <2> HIDE DEF S
  <2>1. \A x \in Items : (x.kind = "node" => \A i \in DOMAIN x.children : x.children[i] \in S) => x \in S
    BY <1>1 DEF S
  <2> QED
    BY <2>1, TreeInduction
<1> QED
  BY <1>2

----------------------------------------------------------------------------
(* What stays when entries go.                                             *)

(* t is s without what is empty: from where each item comes.               *)
Kept(t, s, S) ==
  /\ t \in Seq(S)
  /\ \E g \in [1..Len(t) -> 1..Len(s)] :
       /\ \A j \in 1..Len(t) : t[j] = s[g[j]] /\ ~IsEmptyItem(s[g[j]])
       /\ \A j, k \in 1..Len(t) : g[j] = g[k] => j = k
       /\ \A i \in 1..Len(s) : ~IsEmptyItem(s[i]) => \E j \in 1..Len(t) : g[j] = i

FirstKept(f, i, s) ==
  IF i = 0 THEN <<>>
  ELSE IF IsEmptyItem(s[i]) THEN f[i - 1] ELSE Append(f[i - 1], s[i])

LEMMA NotEmptyUnfold ==
  ASSUME NEW S, NEW s \in Seq(S)
  PROVE  \E first : /\ NotEmpty(s) = first[Len(s)]
                    /\ \A i \in 0..Len(s) : first[i] = FirstKept(first, i, s)
<1> DEFINE N == Len(s)
           Q(n) == \E f : f = [i \in 0..n |-> FirstKept(f, i, s)]
           T == {n \in 0..N : Q(n)}
<1>0. N \in Nat /\ N \in 0..N
  OBVIOUS
<1>1. 0 \in T
  <2> DEFINE f == [i \in 0..0 |-> <<>>]
  <2>1. f = [i \in 0..0 |-> FirstKept(f, i, s)]
    BY DEF FirstKept
  <2>2. Q(0)
    <3> HIDE DEF f
    <3> QED
      BY <2>1
  <2> HIDE DEF Q
  <2> QED
    BY <1>0, <2>2
<1>2. ASSUME NEW n \in 1..N, n - 1 \in T PROVE n \in T
  <2>1. PICK f : f = [i \in 0..(n - 1) |-> FirstKept(f, i, s)]
    BY <1>2
  <2> DEFINE g == [i \in 0..n |-> FirstKept(f, i, s)]
  <2>2. ASSUME NEW i \in 0..n PROVE FirstKept(f, i, s) = FirstKept(g, i, s)
    <3>1. CASE i = 0
      BY <3>1 DEF FirstKept
    <3>2. CASE i # 0
      <4>1. i - 1 \in 0..(n - 1) /\ i - 1 \in 0..n
        BY <3>2
      <4>2. f[i - 1] = FirstKept(f, i - 1, s) /\ g[i - 1] = FirstKept(f, i - 1, s)
        BY <2>1, <4>1
      <4>3. f[i - 1] = g[i - 1]
        BY <4>2
      <4> HIDE DEF g
      <4> QED
        BY <4>3, <3>2 DEF FirstKept
    <3> QED
      BY <3>1, <3>2
  <2>3. g = [i \in 0..n |-> FirstKept(g, i, s)]
    BY <2>2
  <2>4. Q(n)
    <3> HIDE DEF g
    <3> QED
      BY <2>3
  <2>5. n \in 0..N
    OBVIOUS
  <2> HIDE DEF Q
  <2> QED
    BY <2>4, <2>5
<1>3. N \in T
  <2> HIDE DEF T, Q
  <2>1. 0..N \subseteq T
    BY <1>0, <1>1, <1>2, Turns
  <2> QED
    BY <1>0, <2>1
<1> DEFINE first == CHOOSE f : f = [i \in 0..N |-> FirstKept(f, i, s)]
<1>4. first = [i \in 0..N |-> FirstKept(first, i, s)]
  BY <1>3
<1>5. NotEmpty(s) = first[N]
  BY DEF NotEmpty, FirstKept
<1> HIDE DEF first
<1>6. \A i \in 0..N : first[i] = FirstKept(first, i, s)
  BY <1>4
<1> QED
  BY <1>5, <1>6

(* The first n of them.                                                    *)
KeptOf(t, n, s, S) ==
  /\ t \in Seq(S)
  /\ \E g \in [1..Len(t) -> 1..n] :
       /\ \A j \in 1..Len(t) : t[j] = s[g[j]] /\ ~IsEmptyItem(s[g[j]])
       /\ \A j, k \in 1..Len(t) : g[j] = g[k] => j = k
       /\ \A i \in 1..n : ~IsEmptyItem(s[i]) => \E j \in 1..Len(t) : g[j] = i

LEMMA NotEmptyIs ==
  ASSUME NEW S, NEW s \in Seq(S)
  PROVE  Kept(NotEmpty(s), s, S)
<1> DEFINE N == Len(s)
<1>0. N \in Nat /\ N \in 0..N
  OBVIOUS
<1>1. PICK first : /\ NotEmpty(s) = first[N]
                   /\ \A i \in 0..N : first[i] = FirstKept(first, i, s)
  BY NotEmptyUnfold
<1> DEFINE T == {n \in 0..N : KeptOf(first[n], n, s, S)}
<1>2. 0 \in T
  <2>1. first[0] = <<>>
    BY <1>0, <1>1 DEF FirstKept
  <2> DEFINE g == [j \in 1..0 |-> 0]
  <2>2. 1..Len(<<>>) = {} /\ 1..0 = {} /\ <<>> \in Seq(S)
    OBVIOUS
  <2>3. g \in [1..Len(<<>>) -> 1..0]
    BY <2>2
  <2>4. KeptOf(<<>>, 0, s, S)
    <3> HIDE DEF g
    <3> QED
      BY <2>2, <2>3 DEF KeptOf
  <2> QED
    BY <1>0, <2>1, <2>4
<1>3. ASSUME NEW n \in 1..N, n - 1 \in T PROVE n \in T
  <2> DEFINE t == first[n - 1]
  <2>1. n \in 0..N /\ n # 0 /\ n \in 1..Len(s) /\ s[n] \in S
    OBVIOUS
  <2>2. first[n] = IF IsEmptyItem(s[n]) THEN t ELSE Append(t, s[n])
    BY <1>1, <2>1 DEF FirstKept
  <2>3. KeptOf(t, n - 1, s, S)
    BY <1>3
  <2> HIDE DEF t
  <2>4. t \in Seq(S) /\ Len(t) \in Nat
    BY <2>3 DEF KeptOf
  <2>5. PICK g \in [1..Len(t) -> 1..(n - 1)] :
          /\ \A j \in 1..Len(t) : t[j] = s[g[j]] /\ ~IsEmptyItem(s[g[j]])
          /\ \A j, k \in 1..Len(t) : g[j] = g[k] => j = k
          /\ \A i \in 1..(n - 1) : ~IsEmptyItem(s[i]) => \E j \in 1..Len(t) : g[j] = i
    BY <2>3 DEF KeptOf
  <2>6. \A i \in 1..n : i \in 1..(n - 1) \/ i = n
    OBVIOUS
  <2>7. \A j \in 1..Len(t) : g[j] \in 1..n /\ g[j] # n
    OBVIOUS
  <2>8. CASE IsEmptyItem(s[n])
    <3>1. g \in [1..Len(t) -> 1..n]
      BY <2>5, <2>7
    <3>2. \A i \in 1..n : ~IsEmptyItem(s[i]) => \E j \in 1..Len(t) : g[j] = i
      BY <2>5, <2>6, <2>8
    <3>3. KeptOf(t, n, s, S)
      BY <2>4, <2>5, <3>1, <3>2 DEF KeptOf
    <3> QED
      BY <2>1, <2>2, <2>8, <3>3
  <2>9. CASE ~IsEmptyItem(s[n])
    <3> DEFINE u == Append(t, s[n])
               M == Len(t) + 1
               h == [j \in 1..M |-> IF j = M THEN n ELSE g[j]]
    <3>1. /\ u \in Seq(S) /\ Len(u) = M /\ u[M] = s[n] /\ \A j \in 1..Len(t) : u[j] = t[j]
      BY <2>1, <2>4
    <3>2. M \in 1..M /\ \A j \in 1..M : j \in 1..Len(t) \/ j = M
      BY <2>4
    <3>3. \A j \in 1..Len(t) : j \in 1..M /\ j # M
      BY <2>4
    <3>4. h \in [1..M -> 1..n] /\ h[M] = n /\ \A j \in 1..Len(t) : h[j] = g[j]
      <4>1. n \in 1..n
        OBVIOUS
      <4> HIDE DEF M
      <4> QED
        BY <2>7, <3>2, <3>3, <4>1
    <3> HIDE DEF u, M, h
    <3>5. \A j \in 1..M : u[j] = s[h[j]] /\ ~IsEmptyItem(s[h[j]])
      BY <2>5, <2>9, <3>1, <3>2, <3>4
    <3>6. \A j, k \in 1..M : h[j] = h[k] => j = k
      BY <2>5, <2>7, <3>2, <3>4
    <3>7. \A i \in 1..n : ~IsEmptyItem(s[i]) => \E j \in 1..M : h[j] = i
      <4> TAKE i \in 1..n
      <4> HAVE ~IsEmptyItem(s[i])
      <4>1. CASE i = n
        BY <3>2, <3>4, <4>1
      <4>2. CASE i # n
        <5>1. PICK j \in 1..Len(t) : g[j] = i
          BY <2>5, <2>6, <4>2
        <5> QED
          BY <3>3, <3>4, <5>1
      <4> QED
        BY <4>1, <4>2
    <3>8. h \in [1..Len(u) -> 1..n]
      BY <3>1, <3>4
    <3>10. \A j \in 1..Len(u) : u[j] = s[h[j]] /\ ~IsEmptyItem(s[h[j]])
      BY <3>1, <3>5
    <3>11. \A j, k \in 1..Len(u) : h[j] = h[k] => j = k
      BY <3>1, <3>6
    <3>12. \A i \in 1..n : ~IsEmptyItem(s[i]) => \E j \in 1..Len(u) : h[j] = i
      BY <3>1, <3>7
    <3>13. KeptOf(u, n, s, S)
      BY <3>1, <3>8, <3>10, <3>11, <3>12, Zenon DEF KeptOf
    <3> QED
      BY <2>1, <2>2, <2>9, <3>13 DEF u
  <2> QED
    BY <2>8, <2>9
<1>4. N \in T
  <2> HIDE DEF T
  <2>1. 0..N \subseteq T
    BY <1>0, <1>2, <1>3, Turns
  <2> QED
    BY <1>0, <2>1
<1>5. KeptOf(NotEmpty(s), N, s, S)
  BY <1>1, <1>4
<1> QED
  BY <1>5 DEF Kept, KeptOf

(* That y is x or part of it, for whoever is above.                        *)
PartOf(x, y) ==
  /\ Well[y] /\ y.fold = x.fold
  /\ y.kind # "empty" => x.kind # "empty" /\ (RegexOf(y) = RegexOf(x) \/ Cut(RegexOf(x), RegexOf(y)))

(* Each of c is part of the child of x in its place, or has nothing left.  *)
Less(c, x) ==
  /\ Len(c) = Len(x.children)
  /\ \A i \in DOMAIN x.children :
       PartOf(x.children[i], c[i]) /\ Held[c[i]] \subseteq Held[x.children[i]]

(* What is held below a node.                                              *)
HeldBelow(s) == UNION {Held[s[i]] : i \in DOMAIN s}

LEMMA NodeHolds ==
  ASSUME NEW y \in Items, y.kind = "node"
  PROVE  Held[y] = HeldBelow(y.children)
BY HeldAre DEF HeldBelow

LEMMA NodeLeft ==
  ASSUME NEW d \in 1..MaxChange, NEW x \in ItemsOf[d], x.kind = "node", Well[x],
         NEW below, below = ItemsOf[d - 1], NEW c \in Seq(below), Less(c, x),
         NEW y, y = Collapsed(x, NotEmpty(c)), NEW held, held = HeldBelow(c)
  PROVE  /\ NotEmpty(c) = <<>> => held = {}
         /\ NotEmpty(c) # <<>> => /\ y \in ItemsOf[d] /\ PartOf(x, y) /\ y.kind # "empty"
                                  /\ Held[y] = held
<1> DEFINE N == Len(c)
           kids == NotEmpty(c)
           M == Len(kids)
<1>0. d \in 0..MaxChange /\ d - 1 \in 0..MaxChange
  BY ItemsUnfold
<1>1. x \in Items /\ IsNode(x) /\ x.fold \in BOOLEAN /\ x.regex \in Beginnings /\ RegexOf(x) = x.regex
  BY <1>0, ItemsWithin, AreRecords DEF IsNode, RegexOf
<1>2. WellNode(x)
  BY <1>1, WellIs DEF WellNode
<1>3. /\ N \in Nat /\ N = Len(x.children) /\ DOMAIN x.children = 1..N /\ DOMAIN c = 1..N
      /\ held = UNION {Held[c[i]] : i \in 1..N}
  <2>1. N \in Nat /\ N = Len(x.children) /\ DOMAIN x.children = 1..N /\ DOMAIN c = 1..N
    BY <1>1, ItemIs DEF Less
  <2> QED
    BY <2>1 DEF HeldBelow
<1>4. \A i \in 1..N : /\ c[i] \in below /\ c[i] \in Items /\ Well[c[i]] /\ c[i].fold = x.fold
                      /\ IsEmptyItem(c[i]) <=> c[i].kind = "empty"
                      /\ IsEmptyItem(c[i]) <=> Held[c[i]] = {}
                      /\ Held[c[i]] \subseteq Held[x.children[i]]
  <2> TAKE i \in 1..N
  <2>1. c[i] \in below
    BY <1>3
  <2>2. c[i] \in Items
    BY <1>0, <2>1, ItemsWithin
  <2>3. Well[c[i]] /\ c[i].fold = x.children[i].fold /\ Held[c[i]] \subseteq Held[x.children[i]]
    BY <1>3 DEF Less, PartOf
  <2>4. x.children[i].fold = x.fold
    BY <1>2, <1>3 DEF WellNode
  <2> QED
    BY <2>1, <2>2, <2>3, <2>4, EmptyIs
<1>5. \A i \in 1..N : c[i].kind # "empty" => Cut(x.regex, RegexOf(c[i]))
  <2> SUFFICES ASSUME NEW i \in 1..N, c[i].kind # "empty" PROVE Cut(x.regex, RegexOf(c[i]))
    OBVIOUS
  <2>1. Cut(x.regex, RegexOf(x.children[i]))
    BY <1>2, <1>3 DEF WellNode
  <2>2. RegexOf(c[i]) = RegexOf(x.children[i]) \/ Cut(RegexOf(x.children[i]), RegexOf(c[i]))
    BY <1>3 DEF Less, PartOf
  <2>3. RegexOf(c[i]) \in Seq(Char)
    BY <1>4, RegexOfText
  <2> QED
    BY <2>1, <2>2, <2>3, CutOfCut
<1>6. Kept(kids, c, below)
  BY NotEmptyIs
<1> HIDE DEF kids, N
<1>7. kids \in Seq(below) /\ M \in Nat /\ DOMAIN kids = 1..M
  BY <1>6 DEF Kept
<1>8. PICK g \in [1..M -> 1..N] :
        /\ \A j \in 1..M : kids[j] = c[g[j]] /\ ~IsEmptyItem(c[g[j]])
        /\ \A j, k \in 1..M : g[j] = g[k] => j = k
        /\ \A i \in 1..N : ~IsEmptyItem(c[i]) => \E j \in 1..M : g[j] = i
  BY <1>6 DEF Kept, N
<1> HIDE DEF M
<1>9. \A j \in 1..M : /\ g[j] \in 1..N /\ kids[j] = c[g[j]] /\ kids[j] \in Items /\ kids[j] \in below
                      /\ kids[j].kind # "empty" /\ kids[j].fold = x.fold
                      /\ Cut(x.regex, RegexOf(kids[j])) /\ Well[kids[j]]
  BY <1>4, <1>5, <1>8
<1>10. held = UNION {Held[kids[j]] : j \in 1..M}
  <2> DEFINE K == UNION {Held[kids[j]] : j \in 1..M}
  <2>1. ASSUME NEW e \in held PROVE e \in K
    <3>1. PICK i \in 1..N : e \in Held[c[i]]
      BY <1>3
    <3>2. PICK j \in 1..M : g[j] = i
      BY <1>4, <1>8, <3>1
    <3> QED
      BY <1>9, <3>1, <3>2
  <2>2. ASSUME NEW j \in 1..M PROVE Held[kids[j]] \subseteq held
    BY <1>3, <1>9
  <2>3. K \subseteq held
    BY <2>2
  <2> HIDE DEF K
  <2>4. held = K
    BY <2>1, <2>3
  <2> QED
    BY <2>4 DEF K
<1>11. \A i, j \in 1..M : i # j => Held[kids[i]] \cap Held[kids[j]] = {}
  <2> SUFFICES ASSUME NEW i \in 1..M, NEW j \in 1..M, i # j PROVE Held[kids[i]] \cap Held[kids[j]] = {}
    OBVIOUS
  <2>1. g[i] # g[j] /\ g[i] \in 1..N /\ g[j] \in 1..N
    BY <1>8, <1>9
  <2>2. Held[x.children[g[i]]] \cap Held[x.children[g[j]]] = {}
    BY <1>2, <1>3, <2>1 DEF WellNode
  <2>3. Held[kids[i]] \subseteq Held[x.children[g[i]]] /\ Held[kids[j]] \subseteq Held[x.children[g[j]]]
    BY <1>4, <1>9, <2>1
  <2> QED
    BY <2>2, <2>3
<1>12. CASE kids = <<>>
  <2>1. M = 0
    BY <1>12 DEF M
  <2>2. 1..M = {}
    BY <2>1
  <2>3. held = {}
    BY <1>10, <2>2
  <2> QED
    BY <1>12, <2>3 DEF kids
<1>13. CASE kids # <<>> /\ M = 1
  <2>1. y = kids[1]
    BY <1>13 DEF Collapsed, M, kids
  <2>2. 1..M = {1}
    BY <1>13
  <2>3. Held[y] = held
    BY <1>10, <2>1, <2>2
  <2>4. y \in below /\ y.kind # "empty" /\ y.fold = x.fold /\ Cut(x.regex, RegexOf(y)) /\ Well[y]
    BY <1>9, <2>1, <2>2
  <2>5. y \in ItemsOf[d]
    BY <2>4, ItemsGrow
  <2>6. PartOf(x, y)
    BY <1>1, <2>4 DEF PartOf
  <2> QED
    BY <1>13, <2>3, <2>4, <2>5, <2>6 DEF kids
<1>14. CASE kids # <<>> /\ M # 1
  <2>1. M >= 2
    <3>1. M # 0
      BY <1>7, <1>14 DEF M
    <3> QED
      BY <1>7, <1>14, <3>1
  <2>2. y = [x EXCEPT !.children = kids]
    BY <1>14 DEF Collapsed, M, kids
  <2>3. y = [kind |-> "node", regex |-> x.regex, children |-> kids, compiled |-> x.compiled, fold |-> x.fold]
    BY <1>1, <2>2 DEF IsNode
  <2>4. IsNode(y) /\ y.children = kids /\ y.regex = x.regex /\ y.fold = x.fold
    BY <1>1, <2>3 DEF IsNode
  <2>5. y.children \in Seq(ItemsOf[d - 1])
    BY <1>7, <2>4
  <2>6. /\ y \in ItemsOf[d] /\ y.kind = "node" /\ RegexOf(y) = y.regex
        /\ Held[y] = HeldBelow(y.children)
        /\ Well[y] <=> WellNode(y)
    <3>1. IsNode(y)
      BY <2>4
    <3>2. y \in ItemsOf[d]
      BY <2>5, <3>1, NodeMade, Zenon
    <3>3. y.kind = "node" /\ RegexOf(y) = y.regex
      BY <2>5, <3>1, NodeMade, Zenon
    <3>6. y \in Items
      BY <2>5, <3>1, NodeMade, Zenon
    <3>4. Held[y] = HeldBelow(y.children)
      BY <3>3, <3>6, NodeHolds, Zenon
    <3>5. Well[y] <=> WellNode(y)
      BY <2>5, <3>1, NodeMade, Zenon
    <3> QED
      BY <3>2, <3>3, <3>4, <3>5
  <2>7. Held[y] = held
    <3>1. HeldBelow(kids) = UNION {Held[kids[j]] : j \in 1..M}
      BY <1>7 DEF HeldBelow
    <3> QED
      BY <1>10, <2>4, <2>6, <3>1
  <2>8. WellNode(y)
    BY <1>7, <1>9, <1>11, <2>1, <2>4 DEF WellNode, M
  <2>9. PartOf(x, y)
    BY <1>1, <2>4, <2>6, <2>8 DEF PartOf
  <2> QED
    BY <1>14, <2>6, <2>7, <2>9 DEF kids
<1> QED
  BY <1>12, <1>13, <1>14

----------------------------------------------------------------------------
(* remove and retain.                                                      *)

(* An entry that is held is not the one that stands for none.              *)
LEMMA NoneIsHeld ==
  ASSUME NEW x \in Items
  PROVE  NoEntry \notin Held[x] /\ \A e \in Held[x] : e \in Entry /\ e.id \in RouteId /\ e # NoEntry
<1>1. Held[x] \subseteq Entry /\ "none" \notin RouteId
  BY HeldTyped, TreeAssumption
<1>2. \A e \in Entry : e.id \in RouteId /\ e.id # NoEntry.id
  BY <1>1 DEF Entry, NoEntry
<1> QED
  BY <1>1, <1>2

(* What is without the entries of some ids.                                *)
RetainedAs(x, y, d, ids) ==
  /\ y \in ItemsOf[d] /\ PartOf(x, y)
  /\ Held[y] = {e \in Held[x] : e.id \notin ids}

(* Every item is part of itself, and so is none.                           *)
LEMMA PartOfItself ==
  ASSUME NEW x \in Items, Well[x]
  PROVE  PartOf(x, x)
BY DEF PartOf

LEMMA PartOfNone ==
  ASSUME NEW d \in 0..MaxChange, NEW x \in ItemsOf[d]
  PROVE  LET y == Empty(x.fold) IN y \in ItemsOf[d] /\ PartOf(x, y) /\ Held[y] = {}
<1>1. x.fold \in BOOLEAN
  BY AreRecords
<1> QED
  BY <1>1, EmptyMade DEF PartOf

LEMMA LeafWithoutIs ==
  ASSUME NEW d \in 0..MaxChange, NEW x \in ItemsOf[d], x.kind = "leaf", Well[x], NEW ids,
         NEW y, y = LeafWithout(x, ids)
  PROVE  RetainedAs(x, y, d, ids)
<1>1. x \in Items /\ IsLeaf(x)
  BY ItemsWithin, AreRecords
<1>2. Held[x] = EntriesOf(x) /\ x.ids # {} /\ IsFiniteSet(x.ids)
  BY <1>1, HeldAre, WellIs
<1>3. CASE x.ids \subseteq ids
  <2>1. y = Empty(x.fold)
    BY <1>3 DEF LeafWithout
  <2>2. y \in ItemsOf[d] /\ PartOf(x, y) /\ Held[y] = {}
    BY <2>1, PartOfNone
  <2>3. {e \in Held[x] : e.id \notin ids} = {}
    BY <1>2, <1>3 DEF EntriesOf
  <2> QED
    BY <2>2, <2>3 DEF RetainedAs
<1>4. CASE ~ (x.ids \subseteq ids)
  <2> DEFINE left == x.ids \ ids
  <2>1. left # {} /\ IsFiniteSet(left) /\ left \in SUBSET RouteId
    BY <1>1, <1>2, <1>4, FS_Subset DEF IsLeaf
  <2>2. y = [x EXCEPT !.ids = left]
    BY <1>4 DEF LeafWithout
  <2> HIDE DEF left
  <2>3. y = [kind |-> "leaf", regex |-> x.regex, ids |-> left, compiled |-> x.compiled, fold |-> x.fold]
    BY <1>1, <2>2 DEF IsLeaf
  <2>4. IsLeaf(y) /\ y.ids = left /\ y.regex = x.regex /\ y.fold = x.fold
    BY <1>1, <2>1, <2>3 DEF IsLeaf
  <2>5. y \in ItemsOf[d] /\ RegexOf(y) = y.regex /\ Well[y] /\ Held[y] = EntriesOf(y)
    BY <2>1, <2>4, LeafMade
  <2>6. RegexOf(x) = x.regex
    BY DEF RegexOf
  <2>7. PartOf(x, y)
    BY <2>4, <2>5, <2>6 DEF PartOf
  <2>8. EntriesOf(y) = {e \in EntriesOf(x) : e.id \notin ids}
    BY <2>4 DEF EntriesOf, left
  <2> QED
    BY <1>2, <2>5, <2>7, <2>8 DEF RetainedAs
<1> QED
  BY <1>3, <1>4

(* What becomes of the children of a node.                                 *)
RetainedBelow(x, results, d, ids) ==
  /\ results \in Seq(ItemsOf[d - 1]) /\ Len(results) = Len(x.children)
  /\ \A i \in DOMAIN x.children : RetainedAs(x.children[i], results[i], d - 1, ids)

LEMMA NodeRetainedIs ==
  ASSUME NEW d \in 1..MaxChange, NEW x \in ItemsOf[d], x.kind = "node", Well[x], NEW ids,
         NEW results, RetainedBelow(x, results, d, ids), NEW y, y = NodeRetained(x, results)
  PROVE  RetainedAs(x, y, d, ids)
<1>0. d \in 0..MaxChange /\ x \in Items
  BY ItemsUnfold, ItemsWithin
<1>1. Less(results, x)
  BY DEF RetainedBelow, RetainedAs, Less
<1>2. PICK held : held = HeldBelow(results)
  OBVIOUS
<1>3. held = {e \in Held[x] : e.id \notin ids}
  <2>1. Held[x] = UNION {Held[x.children[i]] : i \in DOMAIN x.children}
    BY <1>0, HeldAre
  <2>2. \A i \in DOMAIN x.children : Held[results[i]] = {e \in Held[x.children[i]] : e.id \notin ids}
    BY DEF RetainedBelow, RetainedAs
  <2>3. DOMAIN results = DOMAIN x.children
    <3>1. DOMAIN results = 1..Len(results) /\ DOMAIN x.children = 1..Len(x.children)
      BY <1>0, ItemIs DEF RetainedBelow
    <3> QED
      BY <3>1 DEF RetainedBelow
  <2> QED
    BY <1>2, <2>1, <2>2, <2>3 DEF HeldBelow
<1>4. PICK below : below = ItemsOf[d - 1]
  OBVIOUS
<1>5. results \in Seq(below)
  BY <1>4 DEF RetainedBelow
<1>6. PICK z : z = Collapsed(x, NotEmpty(results))
  OBVIOUS
<1>7. /\ NotEmpty(results) = <<>> => held = {}
      /\ NotEmpty(results) # <<>> => z \in ItemsOf[d] /\ PartOf(x, z) /\ z.kind # "empty" /\ Held[z] = held
  BY <1>1, <1>2, <1>4, <1>5, <1>6, NodeLeft
<1>8. CASE NotEmpty(results) = <<>>
  <2>1. y = Empty(x.fold)
    BY <1>8 DEF NodeRetained
  <2>2. y \in ItemsOf[d] /\ PartOf(x, y) /\ Held[y] = {}
    BY <1>0, <2>1, PartOfNone
  <2> QED
    BY <1>3, <1>7, <1>8, <2>2 DEF RetainedAs
<1>9. CASE NotEmpty(results) # <<>>
  <2>1. y = z
    BY <1>6, <1>9 DEF NodeRetained
  <2> QED
    BY <1>3, <1>7, <1>9, <2>1 DEF RetainedAs
<1> QED
  BY <1>8, <1>9

(* A node that is well has children, which are a level below it.           *)
LEMMA NotTheLast ==
  ASSUME NEW d \in 0..MaxChange, NEW x \in ItemsOf[d], x.kind = "node", Well[x]
  PROVE  /\ d # 0 /\ d \in 1..MaxChange
         /\ \A i \in DOMAIN x.children : x.children[i] \in ItemsOf[d - 1]
<1>1. x \in Items
  BY ItemsWithin
<1>2. Len(x.children) >= 2 /\ Len(x.children) \in Nat /\ DOMAIN x.children = 1..Len(x.children)
  BY <1>1, WellIs, ItemIs
<1>3. 1 \in DOMAIN x.children
  BY <1>2
<1>4. d # 0
  BY <1>3, ChildrenIn
<1>5. \A i \in DOMAIN x.children : x.children[i] \in ItemsOf[d - 1]
  BY ChildrenIn
<1> QED
  BY <1>4, <1>5, ItemsUnfold

(* Every entry stays whose id is not to go.                                *)
LEMMA RetainedIs ==
  ASSUME NEW ids
  PROVE  \A d \in 0..MaxChange : \A x \in ItemsOf[d] : Well[x] => RetainedAs(x, Retained(ids)[x], d, ids)
<1> DEFINE T == {d \in 0..MaxChange : \A x \in ItemsOf[d] : Well[x] => RetainedAs(x, Retained(ids)[x], d, ids)}
<1>1. ASSUME NEW d \in 0..MaxChange, NEW x \in ItemsOf[d], Well[x],
             d # 0 => d - 1 \in T, NEW y, y = Retained(ids)[x]
      PROVE  RetainedAs(x, y, d, ids)
  <2>0. x \in Items
    BY ItemsWithin
  <2>1. Retained(ids)[x] = RetainOf(ids, x, Retained(ids)) /\ x.kind \in {"empty", "leaf", "node"}
    BY <2>0, RetainedUnfold, ItemIs
  <2>2. CASE x.kind = "empty"
    <3>1. Retained(ids)[x] = x /\ Held[x] = {}
      BY <2>0, <2>1, <2>2, HeldAre DEF RetainOf
    <3>2. PartOf(x, x)
      BY <1>1, <2>0, PartOfItself
    <3> QED
      BY <1>1, <3>1, <3>2 DEF RetainedAs
  <2>3. CASE x.kind = "leaf"
    <3>1. y = LeafWithout(x, ids)
      BY <1>1, <2>1, <2>3 DEF RetainOf
    <3> QED
      BY <1>1, <2>3, <3>1, LeafWithoutIs, Zenon
  <2>4. CASE x.kind = "node"
    <3>1. PICK results : results = [i \in DOMAIN x.children |-> Retained(ids)[x.children[i]]]
      OBVIOUS
    <3>2. y = NodeRetained(x, results)
      BY <1>1, <2>1, <2>4, <3>1 DEF RetainOf
    <3>3. Len(x.children) \in Nat /\ DOMAIN x.children = 1..Len(x.children)
      BY <2>0, <2>4, ItemIs
    <3>7. d # 0 /\ d \in 1..MaxChange /\ \A i \in DOMAIN x.children : x.children[i] \in ItemsOf[d - 1]
      BY <1>1, <2>4, NotTheLast, Zenon
    <3>4. d - 1 \in T
      <4> HIDE DEF T
      <4> QED
        BY <1>1, <3>7
    <3>5. \A i \in DOMAIN x.children : RetainedAs(x.children[i], results[i], d - 1, ids)
      <4>1. \A i \in DOMAIN x.children : Well[x.children[i]] /\ results[i] = Retained(ids)[x.children[i]]
        BY <1>1, <2>0, <2>4, <3>1, WellIs
      <4> QED
        BY <3>4, <3>7, <4>1
    <3>6. RetainedBelow(x, results, d, ids)
      <4>1. PICK below : below = ItemsOf[d - 1]
        OBVIOUS
      <4>2. \A i \in DOMAIN x.children : results[i] \in below
        BY <3>5, <4>1 DEF RetainedAs
      <4>3. results \in Seq(below) /\ Len(results) = Len(x.children)
        BY <3>1, <3>3, <4>2
      <4> QED
        BY <3>5, <4>1, <4>3, Zenon DEF RetainedBelow
    <3> QED
      BY <1>1, <2>4, <3>2, <3>6, <3>7, NodeRetainedIs, Zenon
  <2> QED
    BY <2>1, <2>2, <2>3, <2>4
<1>2. 0..MaxChange \subseteq T
  <2>1. 0 \in T
    BY <1>1, ItemsUnfold
  <2>2. ASSUME NEW n \in 1..MaxChange, n - 1 \in T PROVE n \in T
    BY <1>1, <2>2, ItemsUnfold
  <2> HIDE DEF T
  <2> QED
    BY <2>1, <2>2, ItemsUnfold, Turns
<1> QED
  BY <1>2

(* What is without one entry, when there is one of that id.                *)
RemovedAs(x, r, d, id) ==
  /\ r.item \in ItemsOf[d] /\ PartOf(x, r.item)
  /\ Held[r.item] = Held[x] \ {r.value}
  /\ IF \E e \in Held[x] : e.id = id THEN r.value \in Held[x] /\ r.value.id = id ELSE r.value = NoEntry

LEMMA LeafRemovalIs ==
  ASSUME NEW d \in 0..MaxChange, NEW x \in ItemsOf[d], x.kind = "leaf", Well[x], NEW id,
         NEW r, r = LeafRemoval(x, id)
  PROVE  RemovedAs(x, r, d, id)
<1>0. x \in Items
  BY ItemsWithin
<1>1. PICK y : y = LeafWithout(x, {id})
  OBVIOUS
<1>2. r.item = y /\ r.value = IF id \in x.ids THEN [regex |-> x.regex, id |-> id] ELSE NoEntry
  BY <1>1 DEF LeafRemoval
<1>3. RetainedAs(x, y, d, {id})
  BY <1>1, LeafWithoutIs, Zenon
<1>4. Held[x] = {[regex |-> x.regex, id |-> i] : i \in x.ids}
  BY <1>0, HeldAre DEF EntriesOf
<1>5. y \in ItemsOf[d] /\ PartOf(x, y) /\ Held[y] = {e \in Held[x] : e.id # id}
  BY <1>3 DEF RetainedAs
<1>6. CASE id \in x.ids
  <2>1. r.value \in Held[x] /\ r.value.id = id
    BY <1>2, <1>4, <1>6
  <2>2. \A e \in Held[x] : e.id = id <=> e = r.value
    BY <1>2, <1>4, <1>6
  <2> QED
    BY <1>2, <1>5, <2>1, <2>2 DEF RemovedAs
<1>7. CASE id \notin x.ids
  <2>1. \A e \in Held[x] : e.id # id
    BY <1>4, <1>7
  <2>2. r.value = NoEntry /\ NoEntry \notin Held[x]
    BY <1>0, <1>2, <1>7, NoneIsHeld
  <2>3. Held[y] = Held[x] \ {r.value}
    BY <1>5, <2>1, <2>2
  <2> QED
    BY <1>2, <1>5, <2>1, <2>2, <2>3 DEF RemovedAs
<1> QED
  BY <1>6, <1>7

(* What becomes of the children of a node, were they to lose it.           *)
RemovedBelow(x, results, d, id) ==
  /\ DOMAIN results = DOMAIN x.children
  /\ \A i \in DOMAIN x.children : RemovedAs(x.children[i], results[i], d - 1, id)

LEMMA NodeRemovalIs ==
  ASSUME NEW d \in 1..MaxChange, NEW x \in ItemsOf[d], x.kind = "node", Well[x], NEW id,
         NEW results, RemovedBelow(x, results, d, id), NEW r, r = NodeRemoval(x, results)
  PROVE  RemovedAs(x, r, d, id)
<1>0. d \in 0..MaxChange /\ x \in Items
  BY ItemsUnfold, ItemsWithin
<1> DEFINE holding == Holding(results)
           N == Len(x.children)
<1>1. N \in Nat /\ N >= 2 /\ DOMAIN x.children = 1..N /\ DOMAIN results = 1..N
  BY <1>0, ItemIs, WellIs DEF RemovedBelow
<1>2. \A i \in 1..N : /\ x.children[i] \in Items /\ Well[x.children[i]] /\ x.children[i].kind # "empty"
                      /\ \A j \in 1..N : i # j => Held[x.children[i]] \cap Held[x.children[j]] = {}
  BY <1>0, <1>1, ItemIs, WellIs
<1>3. \A i \in 1..N : x.children[i] \in ItemsOf[d - 1]
  BY <1>0, <1>1, NotTheLast
<1>4. Held[x] = UNION {Held[x.children[i]] : i \in 1..N}
  BY <1>0, <1>1, HeldAre
<1>5. ASSUME NEW i \in 1..N
      PROVE  /\ results[i].item \in ItemsOf[d - 1] /\ PartOf(x.children[i], results[i].item)
             /\ Held[results[i].item] = Held[x.children[i]] \ {results[i].value}
             /\ results[i].value # NoEntry => results[i].value \in Held[x.children[i]] /\ results[i].value.id = id
             /\ results[i].value = NoEntry => \A e \in Held[x.children[i]] : e.id # id
  <2>1. RemovedAs(x.children[i], results[i], d - 1, id)
    BY <1>1 DEF RemovedBelow
  <2> DEFINE c == x.children[i]
             u == results[i]
  <2>2. \A e \in Held[c] : e # NoEntry
    BY <1>2, NoneIsHeld
  <2>3. RemovedAs(c, u, d - 1, id)
    BY <2>1
  <2> HIDE DEF c, u
  <2>4. /\ u.item \in ItemsOf[d - 1] /\ PartOf(c, u.item) /\ Held[u.item] = Held[c] \ {u.value}
        /\ u.value # NoEntry => u.value \in Held[c] /\ u.value.id = id
        /\ u.value = NoEntry => \A e \in Held[c] : e.id # id
    BY <2>2, <2>3 DEF RemovedAs
  <2> QED
    BY <2>4 DEF c, u
<1>6. holding = {i \in 1..N : results[i].value # NoEntry}
  BY <1>1 DEF Holding
<1>7. PICK below : below = ItemsOf[d - 1]
  OBVIOUS
<1>8. x.children \in Seq(below)
  <2>1. x.children \in Seq(IF d = 0 THEN {} ELSE ItemsOf[d - 1]) /\ d # 0
    BY <1>0, ItemKinds
  <2> QED
    BY <1>7, <2>1
<1>9. ASSUME NEW c \in Seq(below), Less(c, x), NEW i \in 1..N, Held[c[i]] # {},
             NEW y, y = Collapsed(x, NotEmpty(c))
      PROVE  /\ y \in ItemsOf[d] /\ PartOf(x, y)
             /\ Held[y] = UNION {Held[c[j]] : j \in 1..N}
  <2>1. PICK held : held = HeldBelow(c)
    OBVIOUS
  <2>2. /\ NotEmpty(c) = <<>> => held = {}
        /\ NotEmpty(c) # <<>> => y \in ItemsOf[d] /\ PartOf(x, y) /\ y.kind # "empty" /\ Held[y] = held
    BY <1>7, <1>9, <2>1, NodeLeft
  <2>3. DOMAIN c = 1..N
    BY <1>1, <1>9 DEF Less
  <2>4. held = UNION {Held[c[j]] : j \in 1..N}
    BY <2>1, <2>3 DEF HeldBelow
  <2>5. held # {}
    BY <1>9, <2>4
  <2> QED
    BY <2>2, <2>4, <2>5
<1>10. CASE holding = {}
  <2>1. PICK y : y = Collapsed(x, NotEmpty(x.children))
    OBVIOUS
  <2>2. r.item = y /\ r.value = NoEntry
    BY <1>10, <2>1 DEF NodeRemoval
  <2>3. Less(x.children, x)
    BY <1>1, <1>2, PartOfItself DEF Less
  <2>4. 1 \in 1..N /\ Held[x.children[1]] # {}
    BY <1>1, <1>2, WellHolds
  <2>5. y \in ItemsOf[d] /\ PartOf(x, y) /\ Held[y] = Held[x]
    BY <1>4, <1>8, <1>9, <2>1, <2>3, <2>4
  <2>6. \A e \in Held[x] : e.id # id
    BY <1>4, <1>5, <1>6, <1>10
  <2>7. Held[y] = Held[x] \ {r.value}
    BY <1>0, <2>2, <2>5, NoneIsHeld
  <2> QED
    BY <2>2, <2>5, <2>6, <2>7 DEF RemovedAs
<1>11. CASE holding # {}
  <2> DEFINE m == Min(holding)
             u == results[m].item
             v == results[m].value
  <2>1. m \in 1..N /\ v # NoEntry
    <3>1. holding \in SUBSET (1..N)
      BY <1>6
    <3>2. m \in holding
      BY <1>1, <1>11, <3>1, MinOfRange
    <3> QED
      BY <1>6, <3>2
  <2>2. PICK c : c = [x.children EXCEPT ![m] = u]
    OBVIOUS
  <2>3. PICK y : y = Collapsed(x, NotEmpty(c))
    OBVIOUS
  <2>4. r.item = y /\ r.value = v
    BY <1>11, <2>2, <2>3 DEF NodeRemoval
  <2> HIDE DEF m
  <2>5. /\ u \in below /\ PartOf(x.children[m], u)
        /\ Held[u] = Held[x.children[m]] \ {v} /\ v \in Held[x.children[m]] /\ v.id = id
    BY <1>5, <1>7, <2>1
  <2> HIDE DEF u, v
  <2>6. c \in Seq(below) /\ Len(c) = N /\ c[m] = u /\ \A i \in 1..N : i # m => c[i] = x.children[i]
    BY <1>1, <1>8, <2>1, <2>2, <2>5
  <2>7. Less(c, x)
    <3>1. \A i \in 1..N : PartOf(x.children[i], c[i]) /\ Held[c[i]] \subseteq Held[x.children[i]]
      BY <1>2, <2>5, <2>6, PartOfItself
    <3> QED
      BY <1>1, <2>6, <3>1 DEF Less
  <2>8. PICK i \in 1..N : i # m
    <3>1. 1 \in 1..N /\ 2 \in 1..N
      BY <1>1
    <3> QED
      BY <3>1
  <2>9. Held[c[i]] # {}
    <3>1. PICK z : z = x.children[i]
      OBVIOUS
    <3>2. z \in Items /\ Well[z] /\ z.kind # "empty" /\ c[i] = z
      BY <1>2, <2>6, <2>8, <3>1
    <3>3. Held[z] # {}
      BY <3>2, WellHolds
    <3> QED
      BY <3>2, <3>3
  <2>10. y \in ItemsOf[d] /\ PartOf(x, y) /\ Held[y] = UNION {Held[c[j]] : j \in 1..N}
    BY <1>9, <2>3, <2>6, <2>7, <2>8, <2>9
  <2>11. \A j \in 1..N : Held[c[j]] = Held[x.children[j]] \ {v}
    <3> TAKE j \in 1..N
    <3>1. CASE j = m
      BY <2>5, <2>6, <3>1
    <3>2. CASE j # m
      <4>1. v \notin Held[x.children[j]]
        BY <1>2, <2>1, <2>5, <3>2
      <4> QED
        BY <2>6, <3>2, <4>1
    <3> QED
      BY <3>1, <3>2
  <2>12. Held[y] = Held[x] \ {v}
    <3>1. ASSUME NEW e \in Held[y] PROVE e \in Held[x] \ {v}
      <4>1. PICK j \in 1..N : e \in Held[c[j]]
        BY <2>10
      <4> QED
        BY <1>4, <2>11, <4>1
    <3>2. ASSUME NEW e \in Held[x], e # v PROVE e \in Held[y]
      <4>1. PICK j \in 1..N : e \in Held[x.children[j]]
        BY <1>4
      <4>2. e \in Held[c[j]]
        BY <2>11, <3>2, <4>1
      <4> QED
        BY <2>10, <4>2
    <3> QED
      BY <3>1, <3>2
  <2>13. v \in Held[x]
    BY <1>4, <2>1, <2>5
  <2> QED
    BY <2>4, <2>5, <2>10, <2>12, <2>13 DEF RemovedAs
<1> QED
  BY <1>10, <1>11

(* One entry of the id goes, if there is one.                              *)
LEMMA RemovalIs ==
  ASSUME NEW id
  PROVE  \A d \in 0..MaxChange : \A x \in ItemsOf[d] : Well[x] => RemovedAs(x, Removal(id)[x], d, id)
<1> DEFINE T == {d \in 0..MaxChange : \A x \in ItemsOf[d] : Well[x] => RemovedAs(x, Removal(id)[x], d, id)}
<1>1. ASSUME NEW d \in 0..MaxChange, NEW x \in ItemsOf[d], Well[x],
             d # 0 => d - 1 \in T, NEW r, r = Removal(id)[x]
      PROVE  RemovedAs(x, r, d, id)
  <2>0. x \in Items
    BY ItemsWithin
  <2>1. Removal(id)[x] = RemoveOf(id, x, Removal(id)) /\ x.kind \in {"empty", "leaf", "node"}
    BY <2>0, RemovalUnfold, ItemIs
  <2>2. CASE x.kind = "empty"
    <3>1. r = [item |-> x, value |-> NoEntry] /\ Held[x] = {}
      BY <1>1, <2>0, <2>1, <2>2, HeldAre DEF RemoveOf
    <3>2. PartOf(x, x)
      BY <1>1, <2>0, PartOfItself
    <3> QED
      BY <1>1, <3>1, <3>2 DEF RemovedAs
  <2>3. CASE x.kind = "leaf"
    <3>1. r = LeafRemoval(x, id)
      BY <1>1, <2>1, <2>3 DEF RemoveOf
    <3> QED
      BY <1>1, <2>3, <3>1, LeafRemovalIs, Zenon
  <2>4. CASE x.kind = "node"
    <3>1. PICK results : results = [i \in DOMAIN x.children |-> Removal(id)[x.children[i]]]
      OBVIOUS
    <3>2. r = NodeRemoval(x, results)
      BY <1>1, <2>1, <2>4, <3>1 DEF RemoveOf
    <3>3. d # 0 /\ d \in 1..MaxChange /\ \A i \in DOMAIN x.children : x.children[i] \in ItemsOf[d - 1]
      BY <1>1, <2>4, NotTheLast, Zenon
    <3>4. d - 1 \in T
      <4> HIDE DEF T
      <4> QED
        BY <1>1, <3>3
    <3>5. \A i \in DOMAIN x.children : RemovedAs(x.children[i], results[i], d - 1, id)
      <4>1. \A i \in DOMAIN x.children : Well[x.children[i]] /\ results[i] = Removal(id)[x.children[i]]
        BY <1>1, <2>0, <2>4, <3>1, WellIs
      <4> QED
        BY <3>3, <3>4, <4>1
    <3>6. RemovedBelow(x, results, d, id)
      BY <3>1, <3>5 DEF RemovedBelow
    <3> QED
      BY <1>1, <2>4, <3>2, <3>3, <3>6, NodeRemovalIs, Zenon
  <2> QED
    BY <2>1, <2>2, <2>3, <2>4
<1>2. 0..MaxChange \subseteq T
  <2>1. 0 \in T
    BY <1>1, ItemsUnfold
  <2>2. ASSUME NEW n \in 1..MaxChange, n - 1 \in T PROVE n \in T
    BY <1>1, <2>2, ItemsUnfold
  <2> HIDE DEF T
  <2> QED
    BY <2>1, <2>2, ItemsUnfold, Turns
<1> QED
  BY <1>2

----------------------------------------------------------------------------
(* The cache.                                                              *)

(* How many are compiled below a node.                                     *)
CachedBelow(s) == Total([i \in DOMAIN s |-> CachedLen[s[i]]])

LEMMA CachedLenIs ==
  ASSUME NEW x \in Items
  PROVE  /\ x.kind = "empty" => CachedLen[x] = 0
         /\ x.kind = "leaf" => CachedLen[x] = IF x.compiled THEN 1 ELSE 0
         /\ x.kind = "node" => CachedLen[x] = (IF x.compiled THEN 1 ELSE 0) + CachedBelow(x.children)
<1>1. CachedLen[x] = CachedOf(x, CachedLen)
  BY CachedLenUnfold
<1>2. CASE x.kind = "empty"
  BY <1>1, <1>2 DEF CachedOf
<1>3. CASE x.kind = "leaf"
  BY <1>1, <1>3 DEF CachedOf
<1>4. CASE x.kind = "node"
  <2>1. CachedLen[x] = (IF x.compiled THEN 1 ELSE 0) + Total([i \in DOMAIN x.children |-> CachedLen[x.children[i]]])
    BY <1>1, <1>4 DEF CachedOf
  <2> QED
    BY <1>4, <2>1 DEF CachedBelow
<1> QED
  BY <1>2, <1>3, <1>4, ItemIs

(* They are added up from left to right.                                   *)
AddedUp(s, t) ==
  /\ t \in [0..Len(s) -> Nat] /\ t[0] = 0 /\ CachedBelow(s) = t[Len(s)]
  /\ \A n \in 1..Len(s) : t[n] = t[n - 1] + CachedLen[s[n]]

LEMMA CachedBelowIs ==
  ASSUME NEW S, NEW s \in Seq(S), \A i \in 1..Len(s) : CachedLen[s[i]] \in Nat
  PROVE  CachedBelow(s) \in Nat /\ \E t : AddedUp(s, t)
<1> DEFINE N == Len(s)
           numbers == [i \in DOMAIN s |-> CachedLen[s[i]]]
<1>1. N \in Nat /\ DOMAIN s = 1..N /\ N \in 0..N
  OBVIOUS
<1>2. numbers \in [1..N -> Nat] /\ \A i \in 1..N : numbers[i] = CachedLen[s[i]]
  BY <1>1
<1>3. CachedBelow(s) = Total(numbers)
  BY DEF CachedBelow
<1> HIDE DEF numbers
<1>4. PICK t \in [0..N -> Nat] : /\ t[0] = 0 /\ Total(numbers) = t[N]
                                 /\ \A n \in 1..N : t[n] = t[n - 1] + numbers[n]
  BY <1>1, <1>2, TotalIs
<1>5. AddedUp(s, t)
  BY <1>2, <1>3, <1>4 DEF AddedUp
<1>6. CachedBelow(s) \in Nat
  BY <1>1, <1>3, <1>4
<1> QED
  BY <1>5, <1>6

LEMMA CachedNode ==
  ASSUME NEW x \in Items, x.kind = "node", \A i \in DOMAIN x.children : CachedLen[x.children[i]] \in Nat
  PROVE  CachedBelow(x.children) \in Nat
<1>1. PICK s : s = x.children
  OBVIOUS
<1>2. s \in Seq(Items) /\ \A i \in 1..Len(s) : CachedLen[s[i]] \in Nat
  <2>1. MaxChange \in 0..MaxChange /\ x \in ItemsOf[MaxChange]
    BY ItemsUnfold DEF Items
  <2>2. /\ Len(s) \in Nat /\ DOMAIN s = 1..Len(s) /\ s = [i \in 1..Len(s) |-> s[i]]
        /\ \A i \in 1..Len(s) : s[i] \in Items
    BY <1>1, <2>1, ChildrenBelow
  <2> QED
    BY <1>1, <2>2
<1> QED
  BY <1>1, <1>2, CachedBelowIs

LEMMA CachedCounts ==
  \A x \in Items : CachedLen[x] \in Nat
<1> DEFINE S == {x \in Items : CachedLen[x] \in Nat}
<1>1. ASSUME NEW x \in Items, x.kind = "node" => \A i \in DOMAIN x.children : x.children[i] \in S
      PROVE  CachedLen[x] \in Nat
  <2>1. CASE x.kind = "node"
    <3>1. CachedBelow(x.children) \in Nat
      BY <1>1, <2>1, CachedNode
    <3> QED
      BY <2>1, <3>1, CachedLenIs
  <2>2. CASE x.kind \in {"empty", "leaf"}
    BY <2>2, CachedLenIs
  <2> QED
    BY <2>1, <2>2, ItemIs
<1>2. Items \subseteq S
  <2> HIDE DEF S
  <2>1. \A x \in Items : (x.kind = "node" => \A i \in DOMAIN x.children : x.children[i] \in S) => x \in S
    BY <1>1 DEF S
  <2> QED
    BY <2>1, TreeInduction
<1> QED
  BY <1>2

(* That y is x, but for what is compiled.                                  *)
Alike(x, y) ==
  /\ Well[y] /\ y.kind = x.kind /\ y.fold = x.fold /\ RegexOf(y) = RegexOf(x)
  /\ Held[y] = Held[x]

(* As many are compiled as are taken from what is left.                    *)
CachedAs(x, c, d, left) ==
  /\ c.item \in ItemsOf[d] /\ Alike(x, c.item)
  /\ c.left \in 0..left
  /\ CachedLen[c.item] = CachedLen[x] + (left - c.left)

LEMMA CachedNone ==
  ASSUME NEW d \in 0..MaxChange, NEW x \in ItemsOf[d], Well[x], NEW left \in Nat,
         NEW c, c = [item |-> x, left |-> left]
  PROVE  CachedAs(x, c, d, left)
<1>1. x \in Items
  BY ItemsWithin
<1>2. CachedLen[x] \in Nat
  BY <1>1, CachedCounts
<1>3. c.item = x /\ c.left = left
  OBVIOUS
<1> QED
  BY <1>2, <1>3 DEF CachedAs, Alike

(* One filling after the other.                                            *)
LEMMA CachedTwice ==
  ASSUME NEW d \in 0..MaxChange, NEW x \in ItemsOf[d], NEW left \in Nat, NEW b, CachedAs(x, b, d, left),
         NEW c, CachedAs(b.item, c, d, b.left)
  PROVE  CachedAs(x, c, d, left)
<1>1. x \in Items /\ b.item \in Items /\ c.item \in Items
  BY ItemsWithin DEF CachedAs
<1>2. CachedLen[x] \in Nat /\ CachedLen[b.item] \in Nat /\ CachedLen[c.item] \in Nat
  BY <1>1, CachedCounts
<1>3. Alike(x, c.item)
  BY DEF CachedAs, Alike
<1>4. /\ b.left \in 0..left /\ c.left \in 0..b.left
      /\ CachedLen[b.item] = CachedLen[x] + (left - b.left)
      /\ CachedLen[c.item] = CachedLen[b.item] + (b.left - c.left)
  BY DEF CachedAs
<1>5. c.left \in 0..left /\ CachedLen[c.item] = CachedLen[x] + (left - c.left)
  BY <1>2, <1>4
<1> QED
  BY <1>3, <1>5 DEF CachedAs

(* On its level, an item is compiled itself.                               *)
LEMMA CacheSelfIs ==
  ASSUME NEW d \in 0..MaxChange, NEW x \in ItemsOf[d], Well[x], NEW left \in Nat, left > 0,
         NEW c, c = CacheSelf(x, left)
  PROVE  CachedAs(x, c, d, left)
<1>0. x \in Items /\ x.kind \in {"empty", "leaf", "node"} /\ CachedLen[x] \in Nat
  BY ItemsWithin, AreRecords, CachedCounts
<1>1. CASE ~ (x.kind # "empty" /\ Compiles(x))
  <2>1. c = [item |-> x, left |-> left]
    BY <1>1 DEF CacheSelf
  <2> QED
    BY <2>1, CachedNone
<1>2. CASE x.kind # "empty" /\ Compiles(x)
  <2>0. PICK t \in BOOLEAN : t
    OBVIOUS
  <2>1. PICK y : y = [x EXCEPT !.compiled = t]
    OBVIOUS
  <2>2. c.item = y /\ c.left = left - 1
    <3>1. [x EXCEPT !.compiled = t] = [x EXCEPT !.compiled = TRUE]
      BY <2>0
    <3> QED
      BY <1>2, <2>1, <3>1 DEF CacheSelf
  <2>3. ~x.compiled
    BY <1>2 DEF Compiles
  <2>4. CASE x.kind = "leaf"
    <3>1. IsLeaf(x) /\ Held[x] = EntriesOf(x) /\ x.ids # {} /\ IsFiniteSet(x.ids) /\ RegexOf(x) = x.regex
      BY <1>0, <2>4, AreRecords, HeldAre, WellIs DEF RegexOf
    <3>2. y = [kind |-> "leaf", regex |-> x.regex, ids |-> x.ids, compiled |-> t, fold |-> x.fold]
      BY <2>1, <3>1 DEF IsLeaf
    <3>3. IsLeaf(y) /\ y.ids = x.ids /\ y.regex = x.regex /\ y.fold = x.fold /\ y.compiled
      <4>1. IsLeaf(y) /\ y.ids = x.ids /\ y.regex = x.regex /\ y.fold = x.fold /\ y.compiled = t
        BY <3>1, <3>2 DEF IsLeaf
      <4> QED
        BY <2>0, <4>1
    <3>4. /\ y \in ItemsOf[d] /\ y \in Items /\ y.kind = "leaf" /\ RegexOf(y) = y.regex
          /\ Well[y] /\ Held[y] = EntriesOf(y)
      BY <3>1, <3>3, LeafMade
    <3>5. EntriesOf(y) = EntriesOf(x)
      BY <3>3 DEF EntriesOf
    <3>6. Alike(x, y)
      BY <2>4, <3>1, <3>3, <3>4, <3>5 DEF Alike
    <3>7. CachedLen[y] = 1 /\ CachedLen[x] = 0
      BY <1>0, <2>3, <2>4, <3>3, <3>4, CachedLenIs
    <3> QED
      BY <2>2, <3>4, <3>6, <3>7 DEF CachedAs
  <2>5. CASE x.kind = "node"
    <3>1. d \in 1..MaxChange
      BY <2>5, NotTheLast
    <3>2. PICK s : s = x.children
      OBVIOUS
    <3>3. IsNode(x) /\ RegexOf(x) = x.regex /\ WellNode(x) /\ Held[x] = HeldBelow(s)
      BY <1>0, <2>5, <3>2, AreRecords, NodeHolds, WellIs DEF RegexOf, WellNode
    <3>4. s \in Seq(ItemsOf[d - 1])
      BY <2>5, <3>1, <3>2, ItemKinds
    <3>5. y = [kind |-> "node", regex |-> x.regex, children |-> s, compiled |-> t, fold |-> x.fold]
      BY <2>1, <3>2, <3>3 DEF IsNode
    <3>6. IsNode(y) /\ y.children = s /\ y.regex = x.regex /\ y.fold = x.fold /\ y.compiled
      <4>1. IsNode(y) /\ y.children = s /\ y.regex = x.regex /\ y.fold = x.fold /\ y.compiled = t
        BY <3>3, <3>5 DEF IsNode
      <4> QED
        BY <2>0, <4>1
    <3>7. y \in ItemsOf[d] /\ y \in Items /\ y.kind = "node" /\ RegexOf(y) = y.regex /\ (Well[y] <=> WellNode(y))
      BY <3>1, <3>4, <3>6, NodeMade
    <3>8. Held[y] = HeldBelow(s)
      BY <3>6, <3>7, NodeHolds
    <3>9. Well[y]
      BY <3>2, <3>3, <3>6, <3>7 DEF WellNode
    <3>10. Alike(x, y)
      BY <2>5, <3>3, <3>6, <3>7, <3>8, <3>9 DEF Alike
    <3>11. CachedLen[y] = 1 + CachedBelow(s) /\ CachedLen[x] = 0 + CachedBelow(s)
      BY <1>0, <2>3, <2>5, <3>2, <3>6, <3>7, CachedLenIs
    <3>12. CachedBelow(s) \in Nat
      <4>1. \A i \in DOMAIN x.children : CachedLen[x.children[i]] \in Nat
        BY <1>0, <2>5, ItemIs, CachedCounts
      <4> QED
        BY <1>0, <2>5, <3>2, <4>1, CachedNode
    <3>13. CachedLen[y] = CachedLen[x] + (left - (left - 1)) /\ left - 1 \in 0..left
      BY <3>11, <3>12
    <3> QED
      BY <2>2, <3>7, <3>10, <3>13 DEF CachedAs
  <2> QED
    BY <1>0, <1>2, <2>4, <2>5
<1> QED
  BY <1>1, <1>2

(* The children of a node, one after the other.                            *)
BelowStep(f, i, caches, left, level) ==
  IF i = 0 THEN [left |-> left, done |-> <<>>]
  ELSE [left |-> caches[i][f[i - 1].left][level].left,
        done |-> Append(f[i - 1].done, caches[i][f[i - 1].left][level].item)]

CachedBy(after, c, x, N, caches, left, level) ==
  /\ c = [item |-> [x EXCEPT !.children = after[N].done], left |-> after[N].left]
  /\ \A i \in 0..N : after[i] = BelowStep(after, i, caches, left, level)

LEMMA CacheBelowUnfold ==
  ASSUME NEW x, NEW N \in Nat, N = Len(x.children), NEW caches, NEW left, NEW level,
         NEW c, c = CacheBelow(x, caches, left, level)
  PROVE  \E after : CachedBy(after, c, x, N, caches, left, level)
<1> DEFINE Q(n) == \E f : f = [i \in 0..n |-> BelowStep(f, i, caches, left, level)]
           T == {n \in 0..N : Q(n)}
<1>0. N \in 0..N
  OBVIOUS
<1>1. 0 \in T
  <2> DEFINE f == [i \in 0..0 |-> [left |-> left, done |-> <<>>]]
  <2>1. f = [i \in 0..0 |-> BelowStep(f, i, caches, left, level)]
    BY DEF BelowStep
  <2>2. Q(0)
    <3> HIDE DEF f
    <3> QED
      BY <2>1
  <2> HIDE DEF Q
  <2> QED
    BY <1>0, <2>2
<1>2. ASSUME NEW n \in 1..N, n - 1 \in T PROVE n \in T
  <2>1. PICK f : f = [i \in 0..(n - 1) |-> BelowStep(f, i, caches, left, level)]
    BY <1>2
  <2> DEFINE g == [i \in 0..n |-> BelowStep(f, i, caches, left, level)]
  <2>2. ASSUME NEW i \in 0..n PROVE BelowStep(f, i, caches, left, level) = BelowStep(g, i, caches, left, level)
    <3>1. CASE i = 0
      BY <3>1 DEF BelowStep
    <3>2. CASE i # 0
      <4>1. i - 1 \in 0..(n - 1) /\ i - 1 \in 0..n
        BY <3>2
      <4>2. f[i - 1] = BelowStep(f, i - 1, caches, left, level) /\ g[i - 1] = BelowStep(f, i - 1, caches, left, level)
        BY <2>1, <4>1
      <4>3. f[i - 1] = g[i - 1]
        BY <4>2
      <4> HIDE DEF g
      <4> QED
        BY <4>3, <3>2 DEF BelowStep
    <3> QED
      BY <3>1, <3>2
  <2>3. g = [i \in 0..n |-> BelowStep(g, i, caches, left, level)]
    BY <2>2
  <2>4. Q(n)
    <3> HIDE DEF g
    <3> QED
      BY <2>3
  <2>5. n \in 0..N
    OBVIOUS
  <2> HIDE DEF Q
  <2> QED
    BY <2>4, <2>5
<1>3. N \in T
  <2> HIDE DEF T, Q
  <2>1. 0..N \subseteq T
    BY <1>0, <1>1, <1>2, Turns
  <2> QED
    BY <1>0, <2>1
<1> DEFINE after == CHOOSE f : f = [i \in 0..N |-> BelowStep(f, i, caches, left, level)]
<1>4. after = [i \in 0..N |-> BelowStep(after, i, caches, left, level)]
  BY <1>3
<1>5. c = [item |-> [x EXCEPT !.children = after[N].done], left |-> after[N].left]
  BY DEF CacheBelow, BelowStep
<1> HIDE DEF after
<1>6. \A i \in 0..N : after[i] = BelowStep(after, i, caches, left, level)
  BY <1>4
<1>7. CachedBy(after, c, x, N, caches, left, level)
  BY <1>5, <1>6 DEF CachedBy
<1> QED
  BY <1>7

(* What the caches of the children are.                                    *)
CachesBelow(x, caches, d, level) ==
  \A i \in DOMAIN x.children, l \in Nat : CachedAs(x.children[i], caches[i][l][level], d - 1, l)

(* The children after the first n of them, and what is left then.          *)
CachedFirst(a, n, x, below, left) ==
  /\ a.left \in 0..left /\ a.done \in Seq(below) /\ Len(a.done) = n
  /\ \A i \in 1..n : Alike(x.children[i], a.done[i])

LEMMA CacheBelowIs ==
  ASSUME NEW d \in 1..MaxChange, NEW x \in ItemsOf[d], x.kind = "node", Well[x], NEW left \in Nat, NEW level \in Nat,
         NEW caches, CachesBelow(x, caches, d, level), NEW c, c = CacheBelow(x, caches, left, level)
  PROVE  CachedAs(x, c, d, left)
<1> DEFINE N == Len(x.children)
<1>0. d \in 0..MaxChange /\ x \in Items /\ IsNode(x) /\ RegexOf(x) = x.regex
  BY ItemsUnfold, ItemsWithin, AreRecords DEF RegexOf
<1>1. N \in Nat /\ DOMAIN x.children = 1..N
  BY <1>0, ItemIs
<1>2. WellNode(x)
  BY <1>0, WellIs DEF WellNode
<1>3. PICK below : below = ItemsOf[d - 1]
  OBVIOUS
<1>33. N = Len(x.children)
  OBVIOUS
<1> HIDE DEF N
<1>34. PICK after : CachedBy(after, c, x, N, caches, left, level)
  BY <1>1, <1>33, CacheBelowUnfold
<1>4. /\ c = [item |-> [x EXCEPT !.children = after[N].done], left |-> after[N].left]
      /\ \A i \in 0..N : after[i] = BelowStep(after, i, caches, left, level)
  BY <1>34 DEF CachedBy
<1> DEFINE one(i) == caches[i][after[i - 1].left][level]
           T == {n \in 0..N : CachedFirst(after[n], n, x, below, left)}
<1>5. ASSUME NEW i \in 1..N, after[i - 1].left \in 0..left
      PROVE  /\ one(i).item \in below /\ Alike(x.children[i], one(i).item)
             /\ one(i).left \in 0..after[i - 1].left
             /\ CachedLen[one(i).item] = CachedLen[x.children[i]] + (after[i - 1].left - one(i).left)
  <2>1. after[i - 1].left \in Nat
    BY <1>5
  <2>2. CachedAs(x.children[i], one(i), d - 1, after[i - 1].left)
    BY <1>1, <2>1 DEF CachesBelow
  <2> QED
    BY <1>3, <2>2 DEF CachedAs
<1>6. ASSUME NEW i \in 1..N
      PROVE  /\ i - 1 \in 0..N /\ i \in 0..N
             /\ after[i].left = one(i).left /\ after[i].done = Append(after[i - 1].done, one(i).item)
  <2>1. i \in 0..N /\ i # 0 /\ i - 1 \in 0..N
    BY <1>1
  <2>2. after[i] = [left |-> one(i).left, done |-> Append(after[i - 1].done, one(i).item)]
    BY <1>4, <2>1 DEF BelowStep
  <2> HIDE DEF one
  <2> QED
    BY <2>1, <2>2
<1> HIDE DEF one
<1>35. 0 \in 0..N /\ after[0].left = left /\ after[0].done = <<>>
  <2>1. 0 \in 0..N
    BY <1>1
  <2>2. after[0] = [left |-> left, done |-> <<>>]
    BY <1>4, <2>1 DEF BelowStep
  <2> QED
    BY <2>1, <2>2
<1>7. 0 \in T
  <2>1. 0 \in 0..N /\ after[0].left = left /\ after[0].done = <<>>
    BY <1>35
  <2>2. CachedFirst(after[0], 0, x, below, left)
    BY <2>1 DEF CachedFirst
  <2> QED
    BY <2>1, <2>2
<1>8. ASSUME NEW n \in 1..N, n - 1 \in T PROVE n \in T
  <2>1. /\ after[n - 1].left \in 0..left /\ after[n - 1].done \in Seq(below) /\ Len(after[n - 1].done) = n - 1
        /\ \A i \in 1..(n - 1) : Alike(x.children[i], after[n - 1].done[i])
    BY <1>8 DEF CachedFirst
  <2> DEFINE s == after[n - 1].done
             t == after[n].done
             v == one(n).item
  <2>2. v \in below /\ Alike(x.children[n], v) /\ after[n].left \in 0..left /\ t = Append(s, v)
    <3>1. /\ one(n).item \in below /\ Alike(x.children[n], one(n).item)
          /\ one(n).left \in 0..after[n - 1].left
      BY <1>5, <2>1
    <3>2. after[n].left = one(n).left /\ after[n].done = Append(after[n - 1].done, one(n).item)
      BY <1>6
    <3> QED
      BY <2>1, <3>1, <3>2
  <2> HIDE DEF v
  <2>3. t \in Seq(below) /\ Len(t) = n /\ t[n] = v /\ \A i \in 1..(n - 1) : t[i] = s[i]
    BY <2>1, <2>2
  <2>4. \A i \in 1..n : i \in 1..(n - 1) \/ i = n
    OBVIOUS
  <2> HIDE DEF s, t
  <2>5. \A i \in 1..n : Alike(x.children[i], t[i])
    BY <2>1, <2>2, <2>3, <2>4 DEF s
  <2>6. CachedFirst(after[n], n, x, below, left)
    BY <2>2, <2>3, <2>5 DEF CachedFirst, t
  <2>7. n \in 0..N
    OBVIOUS
  <2> QED
    BY <2>6, <2>7
<1>9. \A n \in 0..N : CachedFirst(after[n], n, x, below, left)
  <2>1. 0..N \subseteq T
    <3> HIDE DEF T
    <3> QED
      BY <1>1, <1>7, <1>8, Turns
  <2> QED
    BY <2>1
<1> DEFINE D == after[N].done
<1>10. N \in 0..N /\ CachedFirst(after[N], N, x, below, left)
  BY <1>1, <1>9
<1>11. D \in Seq(below) /\ Len(D) = N /\ DOMAIN D = 1..N /\ after[N].left \in 0..left
  BY <1>10 DEF CachedFirst
<1>12. \A i \in 1..N : Alike(x.children[i], D[i])
  BY <1>10 DEF CachedFirst
<1>13. \A i \in 1..N : D[i] = one(i).item
  <2> DEFINE U == {n \in 0..N : \A i \in 1..n : after[n].done[i] = one(i).item}
  <2>1. 0 \in U
    BY <1>1
  <2>2. ASSUME NEW n \in 1..N, n - 1 \in U PROVE n \in U
    <3> DEFINE s == after[n - 1].done
               v == one(n).item
    <3>1. s \in Seq(below) /\ Len(s) = n - 1 /\ v \in below
      <4>1. CachedFirst(after[n - 1], n - 1, x, below, left)
        BY <1>6, <1>9
      <4>2. after[n - 1].left \in 0..left /\ s \in Seq(below) /\ Len(s) = n - 1
        BY <4>1 DEF CachedFirst
      <4> QED
        BY <1>5, <4>2
    <3>2. after[n].done = Append(s, v)
      BY <1>6
    <3>3. \A i \in 1..(n - 1) : s[i] = one(i).item
      BY <2>2
    <3>4. \A i \in 1..n : i \in 1..(n - 1) \/ i = n
      OBVIOUS
    <3> HIDE DEF s
    <3>5. \A i \in 1..n : after[n].done[i] = one(i).item
      <4> TAKE i \in 1..n
      <4>1. CASE i = n
        BY <3>1, <3>2, <4>1
      <4>2. CASE i \in 1..(n - 1)
        <5>1. after[n].done[i] = s[i]
          BY <3>1, <3>2, <4>2
        <5> QED
          BY <3>3, <4>2, <5>1
      <4> QED
        BY <3>4, <4>1, <4>2
    <3>6. n \in 0..N
      OBVIOUS
    <3> QED
      BY <3>5, <3>6
  <2>3. 0..N \subseteq U
    <3> HIDE DEF U
    <3> QED
      BY <1>1, <2>1, <2>2, Turns
  <2> QED
    BY <1>10, <2>3
<1>14. \A i \in 1..N : /\ after[i].left \in 0..after[i - 1].left /\ after[i - 1].left \in 0..left
                       /\ CachedLen[D[i]] = CachedLen[x.children[i]] + (after[i - 1].left - after[i].left)
  <2> TAKE i \in 1..N
  <2>1. CachedFirst(after[i - 1], i - 1, x, below, left)
    BY <1>6, <1>9
  <2>2. after[i - 1].left \in 0..left
    BY <2>1 DEF CachedFirst
  <2> QED
    BY <1>5, <1>6, <1>13, <2>2
<1> HIDE DEF D, one, T
<1>15. d - 1 \in 0..MaxChange
  BY ItemsUnfold
<1>16. \A i \in 1..N : CachedLen[D[i]] \in Nat /\ CachedLen[x.children[i]] \in Nat
  <2> TAKE i \in 1..N
  <2>1. D[i] \in below /\ x.children[i] \in Items
    BY <1>0, <1>1, <1>11, ItemIs
  <2>2. D[i] \in Items
    BY <1>3, <1>15, <2>1, ItemsWithin
  <2> QED
    BY <2>1, <2>2, CachedCounts
<1>17. PICK s : s = x.children
  OBVIOUS
<1>18. s \in Seq(below) /\ Len(s) = N
  <2>1. x.children \in Seq(IF d = 0 THEN {} ELSE ItemsOf[d - 1]) /\ d # 0
    BY <1>0, ItemKinds
  <2> QED
    BY <1>3, <1>17, <2>1 DEF N
<1>19. PICK t : AddedUp(s, t)
  BY <1>16, <1>17, <1>18, CachedBelowIs
<1>20. PICK u : AddedUp(D, u)
  BY <1>11, <1>16, CachedBelowIs
<1>21. CachedBelow(D) = CachedBelow(s) + (left - after[N].left)
  <2>1. /\ t \in [0..N -> Nat] /\ t[0] = 0 /\ CachedBelow(s) = t[N]
        /\ \A n \in 1..N : t[n] = t[n - 1] + CachedLen[x.children[n]]
    BY <1>17, <1>18, <1>19 DEF AddedUp
  <2>2. /\ u \in [0..N -> Nat] /\ u[0] = 0 /\ CachedBelow(D) = u[N]
        /\ \A n \in 1..N : u[n] = u[n - 1] + CachedLen[D[n]]
    BY <1>11, <1>20 DEF AddedUp
  <2> DEFINE U == {n \in 0..N : u[n] = t[n] + (left - after[n].left)}
  <2>3. 0 \in U
    <3> QED
      BY <1>35, <2>1, <2>2
  <2>4. ASSUME NEW n \in 1..N, n - 1 \in U PROVE n \in U
    <3>1. n \in 0..N /\ n - 1 \in 0..N
      BY <1>6
    <3>2. u[n - 1] = t[n - 1] + (left - after[n - 1].left) /\ t[n - 1] \in Nat /\ u[n - 1] \in Nat
      BY <2>1, <2>2, <2>4, <3>1
    <3>3. after[n].left \in Nat /\ after[n - 1].left \in Nat
      BY <1>14
    <3>5. /\ u[n] = u[n - 1] + CachedLen[D[n]] /\ t[n] = t[n - 1] + CachedLen[x.children[n]]
          /\ CachedLen[D[n]] = CachedLen[x.children[n]] + (after[n - 1].left - after[n].left)
          /\ CachedLen[D[n]] \in Nat /\ CachedLen[x.children[n]] \in Nat
      BY <1>14, <1>16, <2>1, <2>2
    <3>4. u[n] = t[n] + (left - after[n].left)
      BY <3>2, <3>3, <3>5
    <3> QED
      BY <3>1, <3>4
  <2>5. 0..N \subseteq U
    <3> HIDE DEF U
    <3> QED
      BY <1>1, <2>3, <2>4, Turns
  <2>6. u[N] = t[N] + (left - after[N].left)
    BY <1>10, <2>5
  <2> QED
    BY <2>1, <2>2, <2>6
<1>22. PICK y : y = [x EXCEPT !.children = D]
  OBVIOUS
<1>23. c.item = y /\ c.left = after[N].left
  BY <1>4, <1>22 DEF D
<1>24. y = [kind |-> "node", regex |-> x.regex, children |-> D, compiled |-> x.compiled, fold |-> x.fold]
  BY <1>0, <1>22 DEF IsNode
<1>25. IsNode(y) /\ y.children = D /\ y.regex = x.regex /\ y.fold = x.fold /\ y.compiled = x.compiled
  BY <1>0, <1>24 DEF IsNode
<1>26. D \in Seq(ItemsOf[d - 1])
  BY <1>3, <1>11
<1>27. y \in ItemsOf[d] /\ y \in Items /\ y.kind = "node" /\ RegexOf(y) = y.regex /\ (Well[y] <=> WellNode(y))
  BY <1>25, <1>26, NodeMade
<1>28. \A i \in 1..N : /\ Well[D[i]] /\ D[i].kind = s[i].kind /\ D[i].fold = s[i].fold
                       /\ RegexOf(D[i]) = RegexOf(s[i]) /\ Held[D[i]] = Held[s[i]]
  BY <1>12, <1>17 DEF Alike
<1>29. WellNode(y)
  <2>1. /\ N >= 2
        /\ \A i \in 1..N : /\ s[i].kind # "empty" /\ s[i].fold = x.fold /\ Cut(x.regex, RegexOf(s[i]))
                           /\ \A j \in 1..N : i # j => Held[s[i]] \cap Held[s[j]] = {}
    BY <1>1, <1>2, <1>17 DEF WellNode, N
  <2>2. \A i \in 1..N : /\ D[i].kind # "empty" /\ D[i].fold = x.fold /\ Cut(x.regex, RegexOf(D[i])) /\ Well[D[i]]
                        /\ \A j \in 1..N : i # j => Held[D[i]] \cap Held[D[j]] = {}
    BY <1>28, <2>1
  <2> QED
    BY <1>11, <1>25, <2>1, <2>2 DEF WellNode
<1>30. Held[y] = Held[x]
  <2>1. Held[y] = HeldBelow(D) /\ Held[x] = HeldBelow(s)
    BY <1>0, <1>17, <1>25, <1>27, NodeHolds
  <2>2. DOMAIN D = 1..N /\ DOMAIN s = 1..N
    BY <1>1, <1>11, <1>17
  <2>3. HeldBelow(D) = HeldBelow(s)
    BY <1>28, <2>2 DEF HeldBelow
  <2> QED
    BY <2>1, <2>3
<1>31. Alike(x, y)
  BY <1>0, <1>25, <1>27, <1>29, <1>30 DEF Alike
<1>32. CachedLen[y] = CachedLen[x] + (left - after[N].left)
  <2>0. PICK k \in Nat : k = IF x.compiled THEN 1 ELSE 0
    OBVIOUS
  <2>1. CachedLen[x] = k + CachedBelow(s) /\ CachedLen[y] = k + CachedBelow(D)
    <3>1. CachedLen[x] = (IF x.compiled THEN 1 ELSE 0) + CachedBelow(x.children)
      BY <1>0, CachedLenIs
    <3>2. CachedLen[y] = (IF y.compiled THEN 1 ELSE 0) + CachedBelow(y.children)
      BY <1>27, CachedLenIs
    <3> QED
      BY <1>17, <1>25, <2>0, <3>1, <3>2
  <2>2. CachedBelow(s) \in Nat
    BY <1>16, <1>17, <1>18, CachedBelowIs
  <2> QED
    BY <1>11, <1>21, <2>1, <2>2
<1> QED
  BY <1>11, <1>23, <1>27, <1>31, <1>32 DEF CachedAs

(* One level of the tree.                                                  *)
LEMMA CacheAtIs ==
  ASSUME NEW d \in 0..MaxChange, NEW x \in ItemsOf[d], Well[x], NEW left \in Nat, NEW level \in Nat, NEW caches,
         x.kind = "node" => \A n \in Nat : CachesBelow(x, caches, d, n),
         NEW c, c = CacheAt(x, caches, left, level)
  PROVE  CachedAs(x, c, d, left)
<1>1. CASE left > 0 /\ level = 0
  <2>1. c = CacheSelf(x, left)
    BY <1>1 DEF CacheAt
  <2> QED
    BY <1>1, <2>1, CacheSelfIs
<1>2. CASE left > 0 /\ level > 0 /\ x.kind = "node"
  <2>1. PICK n \in Nat : n = level - 1
    BY <1>2
  <2>2. c = CacheBelow(x, caches, left, n)
    BY <1>2, <2>1 DEF CacheAt
  <2>3. d \in 1..MaxChange
    BY <1>2, NotTheLast
  <2> QED
    BY <1>2, <2>2, <2>3, CacheBelowIs
<1>3. CASE left = 0 \/ (level > 0 /\ x.kind # "node")
  <2>1. c = [item |-> x, left |-> left]
    BY <1>3 DEF CacheAt
  <2> QED
    BY <2>1, CachedNone
<1> QED
  BY <1>1, <1>2, <1>3

CachesAs(x, d) == \A left, level \in Nat : CachedAs(x, CacheItem[x][left][level], d, left)

LEMMA CacheItemIs ==
  \A d \in 0..MaxChange : \A x \in ItemsOf[d] : Well[x] => CachesAs(x, d)
<1> DEFINE T == {d \in 0..MaxChange : \A x \in ItemsOf[d] : Well[x] => CachesAs(x, d)}
<1>1. ASSUME NEW d \in 0..MaxChange, NEW x \in ItemsOf[d], Well[x],
             d # 0 => d - 1 \in T
      PROVE  CachesAs(x, d)
  <2>0. x \in Items
    BY ItemsWithin
  <2>1. PICK caches : caches = [i \in DOMAIN x.children |-> CacheItem[x.children[i]]]
    OBVIOUS
  <2>2. \A left, level \in Nat : CacheItem[x][left][level] = CacheAt(x, caches, left, level)
    <3>1. CacheItem[x] = CacheOf(x, CacheItem)
      BY <2>0, CacheItemUnfold
    <3> QED
      BY <2>1, <3>1 DEF CacheOf
  <2>3. x.kind = "node" => \A n \in Nat : CachesBelow(x, caches, d, n)
    <3> SUFFICES ASSUME x.kind = "node", NEW n \in Nat PROVE CachesBelow(x, caches, d, n)
      OBVIOUS
    <3>1. d # 0 /\ d \in 1..MaxChange /\ \A i \in DOMAIN x.children : x.children[i] \in ItemsOf[d - 1]
      BY <1>1, NotTheLast, Zenon
    <3>2. d - 1 \in T
      <4> HIDE DEF T
      <4> QED
        BY <1>1, <3>1
    <3>3. \A i \in DOMAIN x.children : CachesAs(x.children[i], d - 1) /\ caches[i] = CacheItem[x.children[i]]
      <4>1. \A i \in DOMAIN x.children : Well[x.children[i]] /\ caches[i] = CacheItem[x.children[i]]
        BY <1>1, <2>0, <2>1, WellIs
      <4> QED
        BY <3>1, <3>2, <4>1
    <3> QED
      BY <3>3 DEF CachesAs, CachesBelow
  <2>4. ASSUME NEW left \in Nat, NEW level \in Nat PROVE CachedAs(x, CacheItem[x][left][level], d, left)
    <3>1. PICK c : c = CacheItem[x][left][level]
      OBVIOUS
    <3>2. c = CacheAt(x, caches, left, level)
      BY <2>2, <3>1
    <3>3. CachedAs(x, c, d, left)
      BY <1>1, <2>3, <3>2, CacheAtIs, Zenon
    <3> QED
      BY <3>1, <3>3
  <2> QED
    BY <2>4 DEF CachesAs
<1>2. 0..MaxChange \subseteq T
  <2>1. 0 \in T
    BY <1>1, ItemsUnfold
  <2>2. ASSUME NEW n \in 1..MaxChange, n - 1 \in T PROVE n \in T
    BY <1>1, <2>2, ItemsUnfold
  <2> HIDE DEF T
  <2> QED
    BY <2>1, <2>2, ItemsUnfold, Turns
<1> QED
  BY <1>2

(* A level more, of a tree that is filled already.                         *)
LEMMA CachedOnce ==
  ASSUME NEW d \in 0..MaxChange, NEW x \in ItemsOf[d], NEW limit \in Nat, NEW b, CachedAs(x, b, d, limit),
         NEW n \in Nat, NEW one, one = CacheItem[b.item][b.left][n]
  PROVE  CachedAs(x, one, d, limit)
<1>1. b.item \in ItemsOf[d] /\ Well[b.item] /\ b.left \in Nat
  BY DEF CachedAs, Alike
<1>2. CachesAs(b.item, d)
  BY <1>1, CacheItemIs
<1>3. CachedAs(b.item, one, d, b.left)
  BY <1>1, <1>2 DEF CachesAs
<1> QED
  BY <1>3, CachedTwice

(* The turns of RegexTreeMap::cache.                                       *)
LevelStep(f, i, x, limit) ==
  IF i = 0 THEN [item |-> x, left |-> limit, over |-> FALSE]
  ELSE LET one == CacheItem[f[i - 1].item][f[i - 1].left][i - 1]
       IN IF f[i - 1].over THEN f[i - 1]
          ELSE [item |-> one.item, left |-> one.left, over |-> one.left = f[i - 1].left]

LEMMA CacheLevelsUnfold ==
  ASSUME NEW x, NEW limit \in Nat
  PROVE  \E after : /\ CacheLevels(x, limit) = after[limit]
                    /\ \A i \in 0..limit : after[i] = LevelStep(after, i, x, limit)
<1> DEFINE N == limit
           Q(n) == \E f : f = [i \in 0..n |-> LevelStep(f, i, x, limit)]
           T == {n \in 0..N : Q(n)}
<1>0. N \in 0..N
  OBVIOUS
<1>1. 0 \in T
  <2> DEFINE v == [item |-> x, left |-> limit, over |-> FALSE]
             f == [i \in 0..0 |-> v]
  <2>1. \A g : LevelStep(g, 0, x, limit) = v
    BY DEF LevelStep
  <2> HIDE DEF v
  <2>2. f = [i \in 0..0 |-> LevelStep(f, i, x, limit)]
    BY <2>1
  <2>3. Q(0)
    <3> HIDE DEF f
    <3> QED
      BY <2>2
  <2> HIDE DEF Q
  <2> QED
    BY <1>0, <2>3
<1>2. ASSUME NEW n \in 1..N, n - 1 \in T PROVE n \in T
  <2>1. PICK f : f = [i \in 0..(n - 1) |-> LevelStep(f, i, x, limit)]
    BY <1>2
  <2> DEFINE g == [i \in 0..n |-> LevelStep(f, i, x, limit)]
  <2>2. ASSUME NEW i \in 0..n PROVE LevelStep(f, i, x, limit) = LevelStep(g, i, x, limit)
    <3>1. CASE i = 0
      BY <3>1 DEF LevelStep
    <3>2. CASE i # 0
      <4>1. i - 1 \in 0..(n - 1) /\ i - 1 \in 0..n
        BY <3>2
      <4>2. f[i - 1] = LevelStep(f, i - 1, x, limit) /\ g[i - 1] = LevelStep(f, i - 1, x, limit)
        BY <2>1, <4>1
      <4>3. f[i - 1] = g[i - 1]
        BY <4>2
      <4> HIDE DEF g
      <4> QED
        BY <4>3, <3>2 DEF LevelStep
    <3> QED
      BY <3>1, <3>2
  <2>3. g = [i \in 0..n |-> LevelStep(g, i, x, limit)]
    BY <2>2
  <2>4. Q(n)
    <3> HIDE DEF g
    <3> QED
      BY <2>3
  <2>5. n \in 0..N
    OBVIOUS
  <2> HIDE DEF Q
  <2> QED
    BY <2>4, <2>5
<1>3. N \in T
  <2> HIDE DEF T, Q
  <2>1. 0..N \subseteq T
    BY <1>0, <1>1, <1>2, Turns
  <2> QED
    BY <1>0, <2>1
<1> DEFINE after == CHOOSE f : f = [i \in 0..N |-> LevelStep(f, i, x, limit)]
<1>4. after = [i \in 0..N |-> LevelStep(after, i, x, limit)]
  BY <1>3
<1>5. CacheLevels(x, limit) = after[limit]
  BY DEF CacheLevels, LevelStep
<1> HIDE DEF after
<1>6. \A i \in 0..N : after[i] = LevelStep(after, i, x, limit)
  BY <1>4
<1> QED
  BY <1>5, <1>6

(* The same tree, as many compiled as the limit lost.                      *)
LEMMA CacheLevelsIs ==
  ASSUME NEW d \in 0..MaxChange, NEW x \in ItemsOf[d], Well[x], NEW limit \in Nat,
         NEW c, c = CacheLevels(x, limit)
  PROVE  CachedAs(x, c, d, limit)
<1>1. PICK after : /\ CacheLevels(x, limit) = after[limit]
                   /\ \A i \in 0..limit : after[i] = LevelStep(after, i, x, limit)
  BY CacheLevelsUnfold
<1> DEFINE T == {n \in 0..limit : CachedAs(x, after[n], d, limit)}
<1>2. 0 \in T
  <2>1. after[0].item = x /\ after[0].left = limit /\ 0 \in 0..limit
    <3> DEFINE v == [item |-> x, left |-> limit, over |-> FALSE]
    <3>1. \A g : LevelStep(g, 0, x, limit) = v
      BY DEF LevelStep
    <3>2. v.item = x /\ v.left = limit
      OBVIOUS
    <3> HIDE DEF v
    <3>3. 0 \in 0..limit
      OBVIOUS
    <3> QED
      BY <1>1, <3>1, <3>2, <3>3
  <2>2. PICK c0 : c0 = [item |-> x, left |-> limit]
    OBVIOUS
  <2>3. CachedAs(x, c0, d, limit)
    BY <2>2, CachedNone
  <2>4. CachedAs(x, after[0], d, limit)
    BY <2>1, <2>2, <2>3 DEF CachedAs
  <2> QED
    BY <2>1, <2>4
<1>3. ASSUME NEW n \in 1..limit, n - 1 \in T PROVE n \in T
  <2>1. PICK b : b = after[n - 1]
    OBVIOUS
  <2>2. CachedAs(x, b, d, limit)
    BY <1>3, <2>1
  <2>3. PICK one : one = CacheItem[b.item][b.left][n - 1]
    OBVIOUS
  <2>4. n - 1 \in Nat /\ n \in 0..limit /\ n # 0
    OBVIOUS
  <2>5. CachedAs(x, one, d, limit)
    <3>1. PICK m \in Nat : m = n - 1
      BY <2>4
    <3> QED
      BY <2>2, <2>3, <3>1, CachedOnce
  <2>6. after[n] = IF b.over THEN b ELSE [item |-> one.item, left |-> one.left, over |-> one.left = b.left]
    BY <1>1, <2>1, <2>3, <2>4 DEF LevelStep
  <2>7. CachedAs(x, after[n], d, limit)
    <3>1. CASE b.over
      BY <2>2, <2>6, <3>1
    <3>2. CASE ~b.over
      <4>1. after[n].item = one.item /\ after[n].left = one.left
        BY <2>6, <3>2
      <4> QED
        BY <2>5, <4>1 DEF CachedAs
    <3> QED
      BY <3>1, <3>2
  <2> QED
    BY <2>4, <2>7
<1>4. limit \in T
  <2> HIDE DEF T
  <2>1. 0..limit \subseteq T /\ limit \in 0..limit
    BY <1>2, <1>3, Turns
  <2> QED
    BY <2>1
<1> QED
  BY <1>1, <1>4

(* The turns of Router::cache.                                             *)
RetryStep(f, i, x, limit) ==
  IF i = 0 THEN [item |-> x, left |-> limit, retry |-> 0]
  ELSE LET one == CacheItem[f[i - 1].item][f[i - 1].left][i - 1]
       IN IF f[i - 1].retry > 5 THEN f[i - 1]
          ELSE [item |-> one.item, left |-> one.left,
                retry |-> IF one.left = f[i - 1].left THEN f[i - 1].retry + 1 ELSE f[i - 1].retry]

LEMMA CacheRouterUnfold ==
  ASSUME NEW x, NEW limit \in Nat
  PROVE  \E after : /\ CacheRouter(x, limit) = after[limit + 6]
                    /\ \A i \in 0..(limit + 6) : after[i] = RetryStep(after, i, x, limit)
<1> DEFINE N == limit + 6
           Q(n) == \E f : f = [i \in 0..n |-> RetryStep(f, i, x, limit)]
           T == {n \in 0..N : Q(n)}
<1>0. N \in 0..N
  OBVIOUS
<1>1. 0 \in T
  <2> DEFINE v == [item |-> x, left |-> limit, retry |-> 0]
             f == [i \in 0..0 |-> v]
  <2>1. \A g : RetryStep(g, 0, x, limit) = v
    BY DEF RetryStep
  <2> HIDE DEF v
  <2>2. f = [i \in 0..0 |-> RetryStep(f, i, x, limit)]
    BY <2>1
  <2>3. Q(0)
    <3> HIDE DEF f
    <3> QED
      BY <2>2
  <2> HIDE DEF Q
  <2> QED
    BY <1>0, <2>3
<1>2. ASSUME NEW n \in 1..N, n - 1 \in T PROVE n \in T
  <2>1. PICK f : f = [i \in 0..(n - 1) |-> RetryStep(f, i, x, limit)]
    BY <1>2
  <2> DEFINE g == [i \in 0..n |-> RetryStep(f, i, x, limit)]
  <2>2. ASSUME NEW i \in 0..n PROVE RetryStep(f, i, x, limit) = RetryStep(g, i, x, limit)
    <3>1. CASE i = 0
      BY <3>1 DEF RetryStep
    <3>2. CASE i # 0
      <4>1. i - 1 \in 0..(n - 1) /\ i - 1 \in 0..n
        BY <3>2
      <4>2. f[i - 1] = RetryStep(f, i - 1, x, limit) /\ g[i - 1] = RetryStep(f, i - 1, x, limit)
        BY <2>1, <4>1
      <4>3. f[i - 1] = g[i - 1]
        BY <4>2
      <4> HIDE DEF g
      <4> QED
        BY <4>3, <3>2 DEF RetryStep
    <3> QED
      BY <3>1, <3>2
  <2>3. g = [i \in 0..n |-> RetryStep(g, i, x, limit)]
    BY <2>2
  <2>4. Q(n)
    <3> HIDE DEF g
    <3> QED
      BY <2>3
  <2>5. n \in 0..N
    OBVIOUS
  <2> HIDE DEF Q
  <2> QED
    BY <2>4, <2>5
<1>3. N \in T
  <2> HIDE DEF T, Q
  <2>1. 0..N \subseteq T
    BY <1>0, <1>1, <1>2, Turns
  <2> QED
    BY <1>0, <2>1
<1> DEFINE after == CHOOSE f : f = [i \in 0..N |-> RetryStep(f, i, x, limit)]
<1>4. after = [i \in 0..N |-> RetryStep(after, i, x, limit)]
  BY <1>3
<1>5. CacheRouter(x, limit) = after[limit + 6]
  BY DEF CacheRouter, RetryStep
<1> HIDE DEF after
<1>6. \A i \in 0..N : after[i] = RetryStep(after, i, x, limit)
  BY <1>4
<1> QED
  BY <1>5, <1>6

LEMMA CacheRouterIs ==
  ASSUME NEW d \in 0..MaxChange, NEW x \in ItemsOf[d], Well[x], NEW limit \in Nat,
         NEW c, c = CacheRouter(x, limit)
  PROVE  CachedAs(x, c, d, limit)
<1>1. PICK after : /\ CacheRouter(x, limit) = after[limit + 6]
                   /\ \A i \in 0..(limit + 6) : after[i] = RetryStep(after, i, x, limit)
  BY CacheRouterUnfold
<1> DEFINE T == {n \in 0..(limit + 6) : CachedAs(x, after[n], d, limit)}
<1>2. 0 \in T
  <2>1. after[0].item = x /\ after[0].left = limit /\ 0 \in 0..(limit + 6)
    <3> DEFINE v == [item |-> x, left |-> limit, retry |-> 0]
    <3>1. \A g : RetryStep(g, 0, x, limit) = v
      BY DEF RetryStep
    <3>2. v.item = x /\ v.left = limit
      OBVIOUS
    <3> HIDE DEF v
    <3>3. 0 \in 0..(limit + 6)
      OBVIOUS
    <3> QED
      BY <1>1, <3>1, <3>2, <3>3
  <2>2. PICK c0 : c0 = [item |-> x, left |-> limit]
    OBVIOUS
  <2>3. CachedAs(x, c0, d, limit)
    BY <2>2, CachedNone
  <2>4. CachedAs(x, after[0], d, limit)
    BY <2>1, <2>2, <2>3 DEF CachedAs
  <2> QED
    BY <2>1, <2>4
<1>3. ASSUME NEW n \in 1..(limit + 6), n - 1 \in T PROVE n \in T
  <2>1. PICK b : b = after[n - 1]
    OBVIOUS
  <2>2. CachedAs(x, b, d, limit)
    BY <1>3, <2>1
  <2>3. PICK one : one = CacheItem[b.item][b.left][n - 1]
    OBVIOUS
  <2>4. n - 1 \in Nat /\ n \in 0..(limit + 6) /\ n # 0
    OBVIOUS
  <2>5. CachedAs(x, one, d, limit)
    <3>1. PICK m \in Nat : m = n - 1
      BY <2>4
    <3> QED
      BY <2>2, <2>3, <3>1, CachedOnce
  <2>6. after[n] = IF b.retry > 5 THEN b
                  ELSE [item |-> one.item, left |-> one.left,
                        retry |-> IF one.left = b.left THEN b.retry + 1 ELSE b.retry]
    BY <1>1, <2>1, <2>3, <2>4 DEF RetryStep
  <2>7. CachedAs(x, after[n], d, limit)
    <3>1. CASE b.retry > 5
      BY <2>2, <2>6, <3>1
    <3>2. CASE ~ (b.retry > 5)
      <4>1. after[n].item = one.item /\ after[n].left = one.left
        BY <2>6, <3>2
      <4> QED
        BY <2>5, <4>1 DEF CachedAs
    <3> QED
      BY <3>1, <3>2
  <2> QED
    BY <2>4, <2>7
<1>4. limit + 6 \in T
  <2> HIDE DEF T
  <2>1. 0..(limit + 6) \subseteq T /\ limit + 6 \in 0..(limit + 6)
    BY <1>2, <1>3, Turns
  <2> QED
    BY <2>1
<1> QED
  BY <1>1, <1>4

----------------------------------------------------------------------------
(* What a trace tells.                                                     *)

(* Traces are as deep as the items they are of.                            *)
TracesOver(below) ==
  [matched : BOOLEAN, count : Nat, values : SUBSET [regex : Regex, id : RouteId], children : Seq(below)]

TraceLevel(d, f) == TracesOver(IF d = 0 THEN {} ELSE f[d - 1])

LEMMA TracesUnfold ==
  /\ MaxChange \in Nat
  /\ \A d \in 0..MaxChange : TracesOf[d] = TracesOver(IF d = 0 THEN {} ELSE TracesOf[d - 1])
<1> DEFINE T == {n \in 0..MaxChange : \E f : f = [d \in 0..n |-> TraceLevel(d, f)]}
<1>0. MaxChange \in Nat
  BY TreeAssumption
<1>1. 0 \in T
  <2> DEFINE f == [d \in 0..0 |-> TraceLevel(0, d)]
  <2>1. f = [d \in 0..0 |-> TraceLevel(d, f)]
    BY DEF TraceLevel
  <2> QED
    BY <2>1, <1>0
<1>2. ASSUME NEW n \in 1..MaxChange, n - 1 \in T PROVE n \in T
  <2>1. PICK f : f = [d \in 0..(n - 1) |-> TraceLevel(d, f)]
    BY <1>2
  <2> DEFINE g == [d \in 0..n |-> TraceLevel(d, f)]
  <2>2. \A d \in 0..(n - 1) : g[d] = f[d]
    <3> HIDE DEF TraceLevel
    <3>1. \A d \in 0..(n - 1) : d \in 0..n /\ f[d] = TraceLevel(d, f)
      BY <2>1, <1>0
    <3> QED
      BY <3>1
  <2>3. \A d \in 0..n : TraceLevel(d, f) = TraceLevel(d, g)
    <3> HIDE DEF g
    <3> TAKE d \in 0..n
    <3>1. d # 0 => d - 1 \in 0..(n - 1)
      BY <1>0
    <3>2. d # 0 => f[d - 1] = g[d - 1]
      BY <3>1, <2>2
    <3> QED
      BY <3>2 DEF TraceLevel
  <2>4. g = [d \in 0..n |-> TraceLevel(d, g)]
    BY <2>3
  <2> QED
    <3> HIDE DEF g
    <3> QED
      BY <2>4
<1>3. MaxChange \in T
  <2> HIDE DEF T
  <2> QED
    BY <1>0, <1>1, <1>2, Turns
<1>4. TracesOf = [d \in 0..MaxChange |-> TraceLevel(d, TracesOf)]
  <2>1. TracesOf = CHOOSE f : f = [d \in 0..MaxChange |-> TraceLevel(d, f)]
    BY DEF TracesOf, TraceLevel, TracesOver
  <2> QED
    BY <2>1, <1>3
<1> QED
  <2> HIDE DEF TraceLevel
  <2>1. \A d \in 0..MaxChange : TracesOf[d] = TraceLevel(d, TracesOf)
    BY <1>4
  <2> QED
    BY <2>1, <1>0 DEF TraceLevel

LEMMA TracesGrow ==
  ASSUME NEW d \in 1..MaxChange
  PROVE  TracesOf[d - 1] \subseteq TracesOf[d]
<1> DEFINE T == {n \in 0..MaxChange : n > 0 => TracesOf[n - 1] \subseteq TracesOf[n]}
<1>1. 0 \in T
  BY TracesUnfold
<1>2. ASSUME NEW n \in 1..MaxChange, n - 1 \in T PROVE n \in T
  <2>0. n - 1 \in 0..MaxChange /\ n \in 0..MaxChange /\ MaxChange \in Nat /\ n # 0
    BY TracesUnfold
  <2>1. TracesOf[n] = TracesOver(TracesOf[n - 1])
    BY <2>0, TracesUnfold
  <2>2. PICK below : TracesOf[n - 1] = TracesOver(below) /\ below \subseteq TracesOf[n - 1]
    <3>1. CASE n - 1 = 0
      BY <3>1, <2>0, TracesUnfold
    <3>2. CASE n - 1 # 0
      <4>1. n - 1 > 0
        BY <3>2, <2>0
      <4> QED
        BY <3>2, <2>0, <4>1, <1>2, TracesUnfold
    <3> QED
      BY <3>1, <3>2
  <2>3. Seq(below) \subseteq Seq(TracesOf[n - 1])
    BY <2>2
  <2>4. TracesOver(below) \subseteq TracesOver(TracesOf[n - 1])
    BY <2>3 DEF TracesOver
  <2> QED
    BY <2>0, <2>1, <2>2, <2>4
<1>3. 0..MaxChange \subseteq T
  <2> HIDE DEF T
  <2> QED
    BY <1>1, <1>2, TracesUnfold, Turns
<1> QED
  BY <1>3, TracesUnfold

LEMMA TracesWithin ==
  ASSUME NEW d \in 0..MaxChange
  PROVE  TracesOf[d] \subseteq Traces
<1> DEFINE T == {n \in 0..MaxChange : TracesOf[MaxChange - n] \subseteq Traces}
<1>1. 0 \in T
  BY TracesUnfold DEF Traces
<1>2. ASSUME NEW n \in 1..MaxChange, n - 1 \in T PROVE n \in T
  <2>1. MaxChange - (n - 1) \in 1..MaxChange /\ MaxChange - n = (MaxChange - (n - 1)) - 1
    BY TracesUnfold
  <2>2. TracesOf[MaxChange - n] \subseteq TracesOf[MaxChange - (n - 1)]
    BY <2>1, TracesGrow
  <2> QED
    BY <2>2, <1>2
<1>3. 0..MaxChange \subseteq T
  <2> HIDE DEF T
  <2> QED
    BY <1>1, <1>2, TracesUnfold, Turns
<1>4. MaxChange - d \in 0..MaxChange /\ MaxChange - (MaxChange - d) = d
  BY TracesUnfold
<1> QED
  BY <1>3, <1>4

LEMMA TracedBelow ==
  ASSUME NEW n \in 0..MaxChange, NEW x \in TracesOf[n], NEW i \in DOMAIN x.children
  PROVE  n # 0 /\ n \in 1..MaxChange /\ x.children[i] \in TracesOf[n - 1] /\ x.children[i] \in TracesOf[n]
<1>1. x \in TracesOver(IF n = 0 THEN {} ELSE TracesOf[n - 1])
  BY TracesUnfold
<1>2. x.children \in Seq(IF n = 0 THEN {} ELSE TracesOf[n - 1])
  BY <1>1 DEF TracesOver
<1>3. x.children[i] \in (IF n = 0 THEN {} ELSE TracesOf[n - 1])
  BY <1>2
<1>4. n # 0 /\ x.children[i] \in TracesOf[n - 1]
  BY <1>3
<1>5. n \in 1..MaxChange
  BY <1>4, TracesUnfold
<1> QED
  BY <1>4, <1>5, TracesGrow

(* The values that are told.                                               *)
TracedOf(x, f) ==
  (IF x.matched THEN x.values ELSE {})
    \cup UNION {f[x.children[i]] : i \in DOMAIN x.children}

LEMMA TracedValuesUnfold ==
  \A x \in Traces : TracedValues[x] = TracedOf(x, TracedValues)
<1> DEFINE T == {n \in 0..MaxChange : \E f : f = [x \in TracesOf[n] |-> TracedOf(x, f)]}
<1>1. ASSUME NEW n \in 0..MaxChange, NEW f,
             n # 0 => f = [x \in TracesOf[n - 1] |-> TracedOf(x, f)]
      PROVE  n \in T
  <2> DEFINE g == [x \in TracesOf[n] |-> TracedOf(x, f)]
  <2>1. ASSUME NEW x \in TracesOf[n] PROVE TracedOf(x, f) = TracedOf(x, g)
    <3>1. ASSUME NEW i \in DOMAIN x.children
          PROVE  f[x.children[i]] = g[x.children[i]]
      <4> DEFINE c == x.children[i]
      <4>1. n # 0 /\ c \in TracesOf[n - 1] /\ c \in TracesOf[n]
        BY <3>1, TracedBelow
      <4> HIDE DEF c
      <4>3. f[c] = TracedOf(c, f) /\ g[c] = TracedOf(c, f)
        BY <1>1, <4>1
      <4> QED
        BY <4>3 DEF c
    <3>3. {f[x.children[i]] : i \in DOMAIN x.children}
            = {g[x.children[i]] : i \in DOMAIN x.children}
      <4> HIDE DEF g
      <4> QED
        BY <3>1
    <3> HIDE DEF g
    <3> QED
      BY <3>3 DEF TracedOf
  <2>2. g = [x \in TracesOf[n] |-> TracedOf(x, g)]
    <3> HIDE DEF TracedOf
    <3> QED
      BY <2>1
  <2> QED
    BY <2>2
<1>2. MaxChange \in T
  <2>1. 0 \in T
    BY <1>1, TracesUnfold
  <2>2. ASSUME NEW n \in 1..MaxChange, n - 1 \in T PROVE n \in T
    <3>1. n \in 0..MaxChange
      BY TracesUnfold
    <3>2. PICK f : f = [x \in TracesOf[n - 1] |-> TracedOf(x, f)]
      BY <2>2
    <3> HIDE DEF T
    <3> QED
      BY <1>1, <3>1, <3>2
  <2> HIDE DEF T
  <2> QED
    BY <2>1, <2>2, TracesUnfold, Turns
<1>3. TracedValues = [x \in Traces |-> TracedOf(x, TracedValues)]
  <2>1. TracedValues = CHOOSE f : f = [x \in Traces |-> TracedOf(x, f)]
    BY DEF TracedValues, TracedOf, Traces
  <2>2. \E f : f = [x \in Traces |-> TracedOf(x, f)]
    BY <1>2 DEF Traces
  <2> HIDE DEF TracedOf
  <2> QED
    BY <2>1, <2>2
<1> QED
  <2> HIDE DEF TracedOf
  <2> QED
    BY <1>3

ToldBelow(s) == UNION {TracedValues[s[i]] : i \in DOMAIN s}

(* What is told by a trace that is made.                                   *)
IsTrace(t, m, n, v, s) ==
  /\ t = [matched |-> m, count |-> n, values |-> v, children |-> s]
  /\ m \in BOOLEAN /\ n \in Nat /\ v \in SUBSET Entry

BelowOf(d) == IF d = 0 THEN {} ELSE TracesOf[d - 1]

Tells(d, t, m, v, s) ==
  /\ t \in TracesOf[d]
  /\ m = TRUE => TracedValues[t] = v \cup ToldBelow(s)
  /\ m = FALSE => TracedValues[t] = ToldBelow(s)

LEMMA TraceMade ==
  ASSUME NEW d \in 0..MaxChange, NEW t, NEW m, NEW n, NEW v, NEW s,
         IsTrace(t, m, n, v, s), s \in Seq(BelowOf(d))
  PROVE  Tells(d, t, m, v, s)
<1>1. t \in TracesOver(BelowOf(d)) /\ t.matched = m /\ t.values = v /\ t.children = s /\ m \in BOOLEAN
  BY DEF TracesOver, Entry, IsTrace
<1>2. t \in TracesOf[d]
  BY <1>1, TracesUnfold DEF BelowOf
<1>3. t \in Traces
  BY <1>2, TracesWithin
<1>4. TracedValues[t] = TracedOf(t, TracedValues)
  BY <1>3, TracedValuesUnfold
<1>5. TracedOf(t, TracedValues) = (IF m THEN v ELSE {}) \cup ToldBelow(s)
  BY <1>1 DEF TracedOf, ToldBelow
<1> QED
  BY <1>1, <1>2, <1>4, <1>5 DEF Tells

LEMMA NothingBelow ==
  ASSUME NEW d
  PROVE  <<>> \in Seq(BelowOf(d)) /\ ToldBelow(<<>>) = {} /\ {} \in SUBSET Entry
BY DEF ToldBelow

(* They are those that are found.                                          *)
TracedAs(x, t, d, w) == t \in TracesOf[d] /\ TracedValues[t] = Found(w)[x]

(* Of an item above those of which it is so.                               *)
LEMMA TracedHere ==
  ASSUME NEW w, NEW d \in 0..MaxChange, NEW x \in ItemsOf[d], Well[x],
         x.kind = "node" =>
           \A i \in DOMAIN x.children : d # 0 /\ TracedAs(x.children[i], Trace(w)[x.children[i]], d - 1, w)
  PROVE  TracedAs(x, Trace(w)[x], d, w)
<1>0. x \in Items
  BY ItemsWithin
<1>1. /\ Trace(w)[x] = TraceOf(w, x, Trace(w)) /\ Found(w)[x] = FindOf(w, x, Found(w))
      /\ x.kind \in {"empty", "leaf", "node"}
  BY <1>0, TraceUnfold, FoundUnfold, ItemIs
<1>2. PICK nil : nil = <<>>
  OBVIOUS
<1>3. nil \in Seq(BelowOf(d)) /\ ToldBelow(nil) = {} /\ {} \in SUBSET Entry
  BY <1>2, NothingBelow
<1>4. PICK t : t = Trace(w)[x]
  OBVIOUS
<1>5. PICK g : g = Found(w)[x]
  OBVIOUS
<1>6. SUFFICES t \in TracesOf[d] /\ TracedValues[t] = g
  BY <1>4, <1>5 DEF TracedAs
<1>7. CASE x.kind = "empty"
  <2>1. t = [matched |-> TRUE, count |-> 0, values |-> {}, children |-> nil] /\ g = {}
    BY <1>1, <1>2, <1>4, <1>5, <1>7 DEF TraceOf, FindOf
  <2>2. IsTrace(t, TRUE, 0, {}, nil)
    BY <1>3, <2>1 DEF IsTrace
  <2>3. Tells(d, t, TRUE, {}, nil)
    BY <1>3, <2>2, TraceMade
  <2> QED
    BY <1>3, <2>1, <2>3 DEF Tells
<1>8. CASE x.kind = "leaf"
  <2>0. PICK m : m = LeafMatches(x.regex, x.fold, w)
    OBVIOUS
  <2> DEFINE n == Cardinality(x.ids)
             v == EntriesOf(x)
  <2>1. m \in BOOLEAN
    BY <2>0 DEF LeafMatches
  <2>2. IsFiniteSet(x.ids) /\ v = Held[x]
    BY <1>0, <1>8, WellIs, HeldAre
  <2>3. n \in Nat
    BY <2>2, FS_CardinalityType
  <2>4. v \in SUBSET Entry
    BY <1>0, <2>2, HeldTyped
  <2>5. t = [matched |-> m, count |-> n, values |-> v, children |-> nil]
    BY <1>1, <1>2, <1>4, <1>8, <2>0 DEF TraceOf
  <2>6. g = IF m THEN v ELSE {}
    BY <1>1, <1>5, <1>8, <2>0 DEF FindOf
  <2> HIDE DEF n, v
  <2>7. IsTrace(t, m, n, v, nil)
    BY <2>1, <2>3, <2>4, <2>5 DEF IsTrace
  <2>8. Tells(d, t, m, v, nil)
    BY <1>3, <2>7, TraceMade
  <2> QED
    BY <1>3, <2>1, <2>6, <2>8 DEF Tells
<1>9. CASE x.kind = "node"
  <2>0. PICK m : m = NodeMatches(x.regex, x.fold, w)
    OBVIOUS
  <2> DEFINE n == ItemLen[x]
             s == [i \in DOMAIN x.children |-> Trace(w)[x.children[i]]]
  <2>1. m \in BOOLEAN
    BY <2>0 DEF NodeMatches
  <2>2. n \in Nat
    BY <1>0, LenIs, WellHolds, FS_CardinalityType
  <2>3. Len(x.children) \in Nat /\ DOMAIN x.children = 1..Len(x.children)
    BY <1>0, <1>9, ItemIs
  <2>4. \A i \in DOMAIN x.children : s[i] \in BelowOf(d) /\ TracedValues[s[i]] = Found(w)[x.children[i]]
    BY <1>9 DEF TracedAs, BelowOf
  <2>5. s \in Seq(BelowOf(d)) /\ DOMAIN s = DOMAIN x.children
    <3>1. s = [i \in 1..Len(x.children) |-> s[i]] /\ DOMAIN s = DOMAIN x.children
      BY <2>3
    <3>2. \A i \in 1..Len(x.children) : s[i] \in BelowOf(d)
      BY <2>3, <2>4
    <3> HIDE DEF s
    <3> QED
      BY <2>3, <3>1, <3>2
  <2>6. t = [matched |-> m, count |-> n, values |-> {}, children |-> IF m THEN s ELSE nil]
    BY <1>1, <1>2, <1>4, <1>9, <2>0 DEF TraceOf
  <2>7. g = IF m THEN UNION {Found(w)[x.children[i]] : i \in DOMAIN x.children} ELSE {}
    BY <1>1, <1>5, <1>9, <2>0 DEF FindOf
  <2> HIDE DEF n, s
  <2>8. ToldBelow(s) = UNION {Found(w)[x.children[i]] : i \in DOMAIN x.children}
    <3>1. {TracedValues[s[i]] : i \in DOMAIN s} = {Found(w)[x.children[i]] : i \in DOMAIN x.children}
      BY <2>4, <2>5
    <3> QED
      BY <3>1 DEF ToldBelow
  <2>9. CASE m
    <3>1. IsTrace(t, m, n, {}, s)
      BY <1>3, <2>1, <2>2, <2>6, <2>9 DEF IsTrace
    <3>2. Tells(d, t, m, {}, s)
      BY <2>5, <3>1, TraceMade
    <3> QED
      BY <2>1, <2>7, <2>8, <2>9, <3>2 DEF Tells
  <2>10. CASE ~m
    <3>1. IsTrace(t, m, n, {}, nil)
      BY <1>3, <2>1, <2>2, <2>6, <2>10 DEF IsTrace
    <3>2. Tells(d, t, m, {}, nil)
      BY <1>3, <3>1, TraceMade
    <3> QED
      BY <1>3, <2>1, <2>7, <2>10, <3>2 DEF Tells
  <2> QED
    BY <2>9, <2>10
<1> QED
  BY <1>1, <1>7, <1>8, <1>9

LEMMA TracedIs ==
  ASSUME NEW w, NEW x \in Items, Well[x]
  PROVE  TracedAs(x, Trace(w)[x], MaxChange, w)
<1> DEFINE T == {d \in 0..MaxChange : \A y \in ItemsOf[d] : Well[y] => TracedAs(y, Trace(w)[y], d, w)}
<1>1. ASSUME NEW d \in 0..MaxChange, d # 0 => d - 1 \in T
      PROVE  d \in T
  <2>1. ASSUME NEW y \in ItemsOf[d], Well[y]
        PROVE  TracedAs(y, Trace(w)[y], d, w)
    <3>1. ASSUME y.kind = "node", NEW i \in DOMAIN y.children
          PROVE  d # 0 /\ TracedAs(y.children[i], Trace(w)[y.children[i]], d - 1, w)
      <4>1. d # 0 /\ y.children[i] \in ItemsOf[d - 1]
        BY <3>1, ChildrenIn
      <4>2. Well[y.children[i]]
        BY <2>1, <3>1, ItemsWithin, WellIs
      <4> QED
        BY <1>1, <4>1, <4>2
    <3> QED
      BY <2>1, <3>1, TracedHere, Zenon
  <2> QED
    BY <2>1
<1>2. 0..MaxChange \subseteq T
  <2>1. 0 \in T
    BY <1>1, ItemsUnfold
  <2>2. ASSUME NEW n \in 1..MaxChange, n - 1 \in T PROVE n \in T
    BY <1>1, <2>2, ItemsUnfold
  <2> HIDE DEF T
  <2> QED
    BY <2>1, <2>2, ItemsUnfold, Turns
<1>3. MaxChange \in T /\ x \in ItemsOf[MaxChange]
  BY <1>2, ItemsUnfold DEF Items
<1> QED
  BY <1>3

----------------------------------------------------------------------------
(* What the iterator tells.                                                *)

(* So many turns lead from s to t.                                         *)
Ran(s, n, t) == \E f : f[0] = s /\ f[n] = t /\ \A i \in 1..n : f[i] = Turn(f[i - 1])

LEMMA RanNone ==
  ASSUME NEW s
  PROVE  Ran(s, 0, s)
<1> DEFINE f == [i \in {0} |-> s]
<1>1. f[0] = s /\ \A i \in 1..0 : f[i] = Turn(f[i - 1])
  OBVIOUS
<1> HIDE DEF f
<1> QED
  BY <1>1 DEF Ran

LEMMA RanOne ==
  ASSUME NEW s, NEW t, t = Turn(s)
  PROVE  Ran(s, 1, t)
<1> DEFINE f == [i \in {0, 1} |-> IF i = 0 THEN s ELSE t]
<1>1. f[0] = s /\ f[1] = t
  OBVIOUS
<1> HIDE DEF f
<1>2. \A i \in 1..1 : i = 1 /\ i - 1 = 0
  OBVIOUS
<1>3. \A i \in 1..1 : f[i] = Turn(f[i - 1])
  BY <1>1, <1>2
<1> QED
  BY <1>1, <1>3 DEF Ran

LEMMA RanOn ==
  ASSUME NEW s, NEW t, NEW u, NEW n \in Nat, NEW m \in Nat, Ran(s, n, t), Ran(t, m, u)
  PROVE  Ran(s, n + m, u)
<1>1. PICK a : a[0] = s /\ a[n] = t /\ \A i \in 1..n : a[i] = Turn(a[i - 1])
  BY DEF Ran
<1>2. PICK b : b[0] = t /\ b[m] = u /\ \A i \in 1..m : b[i] = Turn(b[i - 1])
  BY DEF Ran
<1> DEFINE f == [i \in 0..(n + m) |-> IF i <= n THEN a[i] ELSE b[i - n]]
<1>3. \A i \in 0..(n + m) : (i <= n => f[i] = a[i]) /\ (i > n => f[i] = b[i - n])
  OBVIOUS
<1> HIDE DEF f
<1>4. f[n] = b[0]
  BY <1>1, <1>2, <1>3
<1>5. f[0] = s
  BY <1>1, <1>3
<1>6. f[n + m] = u
  <2>1. CASE m = 0
    BY <2>1, <1>2, <1>4
  <2>2. CASE m # 0
    <3>1. n + m \in 0..(n + m) /\ n + m > n /\ (n + m) - n = m
      BY <2>2
    <3> QED
      BY <3>1, <1>2, <1>3
  <2> QED
    BY <2>1, <2>2
<1>7. ASSUME NEW i \in 1..(n + m) PROVE f[i] = Turn(f[i - 1])
  <2>1. CASE i <= n
    <3>1. i \in 1..n /\ i \in 0..(n + m) /\ i - 1 \in 0..(n + m) /\ i - 1 <= n
      BY <2>1
    <3>2. f[i] = a[i] /\ f[i - 1] = a[i - 1] /\ a[i] = Turn(a[i - 1])
      BY <1>1, <1>3, <2>1, <3>1
    <3> QED
      BY <3>2
  <2>2. CASE i > n
    <3>1. i - n \in 1..m /\ i \in 0..(n + m) /\ i - 1 \in 0..(n + m) /\ (i - 1) - n = (i - n) - 1
      BY <2>2
    <3>2. f[i] = b[i - n] /\ b[i - n] = Turn(b[(i - n) - 1])
      BY <1>2, <1>3, <2>2, <3>1
    <3>3. f[i - 1] = b[(i - n) - 1]
      <4>1. CASE i - 1 = n
        <5>1. (i - n) - 1 = 0
          BY <4>1
        <5> QED
          BY <1>4, <4>1, <5>1
      <4>2. CASE i - 1 # n
        <5>1. i - 1 > n
          BY <2>2, <4>2
        <5> QED
          BY <1>3, <3>1, <5>1
      <4> QED
        BY <4>1, <4>2
    <3> QED
      BY <3>2, <3>3
  <2> QED
    BY <2>1, <2>2
<1> QED
  BY <1>5, <1>6, <1>7 DEF Ran

(* What it is after them is one.                                           *)
LEMMA RanOnce ==
  ASSUME NEW s, NEW t, NEW n \in Nat, Ran(s, n, t),
         NEW g, g[0] = s, \A i \in 1..n : g[i] = Turn(g[i - 1])
  PROVE  g[n] = t
<1>1. PICK f : f[0] = s /\ f[n] = t /\ \A i \in 1..n : f[i] = Turn(f[i - 1])
  BY DEF Ran
<1> DEFINE T == {i \in 0..n : g[i] = f[i]}
<1>2. 0 \in T
  BY <1>1
<1>3. ASSUME NEW i \in 1..n, i - 1 \in T PROVE i \in T
  BY <1>1, <1>3
<1>4. 0..n \subseteq T
  <2> HIDE DEF T
  <2> QED
    BY <1>2, <1>3, Turns
<1>5. n \in T
  BY <1>4
<1> QED
  BY <1>1, <1>5

(* Sequences put one before the other.                                     *)
LEMMA Both ==
  ASSUME NEW S, NEW a \in Seq(S), NEW b \in Seq(S)
  PROVE  /\ a \o b \in Seq(S) /\ Len(a \o b) = Len(a) + Len(b)
         /\ ToSet(a \o b) = ToSet(a) \cup ToSet(b)
<1>1. a \o b \in Seq(S) /\ Len(a \o b) = Len(a) + Len(b) /\ Len(a) \in Nat /\ Len(b) \in Nat
  OBVIOUS
<1>3. DOMAIN a = 1..Len(a) /\ DOMAIN b = 1..Len(b) /\ DOMAIN (a \o b) = 1..(Len(a) + Len(b))
  OBVIOUS
<1>4. \A i \in 1..(Len(a) + Len(b)) :
        (a \o b)[i] = IF i <= Len(a) THEN a[i] ELSE b[i - Len(a)]
  OBVIOUS
<1>5. ASSUME NEW x \in ToSet(a \o b) PROVE x \in ToSet(a) \cup ToSet(b)
  <2>1. PICK i \in 1..(Len(a) + Len(b)) : x = (a \o b)[i]
    BY <1>3, <1>5 DEF ToSet
  <2>2. CASE i <= Len(a)
    <3>1. i \in DOMAIN a /\ x = a[i]
      BY <1>1, <1>3, <1>4, <2>1, <2>2
    <3> QED
      BY <3>1 DEF ToSet
  <2>3. CASE i > Len(a)
    <3>1. i - Len(a) \in DOMAIN b /\ x = b[i - Len(a)]
      BY <1>1, <1>3, <1>4, <2>1, <2>3
    <3> QED
      BY <3>1 DEF ToSet
  <2> QED
    BY <1>1, <2>2, <2>3
<1>6. ASSUME NEW x \in ToSet(a) PROVE x \in ToSet(a \o b)
  <2>1. PICK i \in 1..Len(a) : x = a[i]
    BY <1>3, <1>6 DEF ToSet
  <2>2. i \in DOMAIN (a \o b) /\ x = (a \o b)[i]
    BY <1>1, <1>3, <1>4, <2>1
  <2> QED
    BY <2>2 DEF ToSet
<1>7. ASSUME NEW x \in ToSet(b) PROVE x \in ToSet(a \o b)
  <2>1. PICK i \in 1..Len(b) : x = b[i]
    BY <1>3, <1>7 DEF ToSet
  <2>2. i + Len(a) \in 1..(Len(a) + Len(b)) /\ ~(i + Len(a) <= Len(a)) /\ (i + Len(a)) - Len(a) = i
    BY <1>1, <2>1
  <2>3. i + Len(a) \in DOMAIN (a \o b) /\ x = (a \o b)[i + Len(a)]
    BY <1>3, <1>4, <2>1, <2>2
  <2> QED
    BY <2>3 DEF ToSet
<1> QED
  BY <1>1, <1>5, <1>6, <1>7

LEMMA OneByOne ==
  ASSUME NEW S, NEW a \in Seq(S), NEW b \in Seq(S), NEW c \in Seq(S)
  PROVE  (a \o b) \o c = a \o (b \o c)
OBVIOUS

LEMMA OneAndNone ==
  ASSUME NEW S, NEW e \in S
  PROVE  /\ <<e>> \in Seq(S) /\ Len(<<e>>) = 1 /\ ToSet(<<e>>) = {e}
         /\ <<>> \in Seq(S) /\ Len(<<>>) = 0
BY DEF ToSet

LEMMA NothingThere ==
  ASSUME NEW S, NEW s \in Seq(S)
  PROVE  /\ <<>> \in Seq(S) /\ Len(<<>>) = 0 /\ ToSet(<<>>) = {}
         /\ <<>> \o s = s /\ s \o <<>> = s
BY DEF ToSet

(* The first of them, and the others.                                      *)
Starts(d, x, c) == d # <<>> /\ Head(d) = x /\ Tail(d) = c

PutBefore(c, p) == <<c>> \o p

LEMMA PutFirst ==
  ASSUME NEW S, NEW e \in S, NEW s \in Seq(S)
  PROVE  PutBefore(e, s) \in Seq(S) /\ Starts(PutBefore(e, s), e, s)
<1>1. <<e>> \o s \in Seq(S) /\ <<e>> \o s # <<>> /\ Head(<<e>> \o s) = e /\ Tail(<<e>> \o s) = s
  OBVIOUS
<1>2. PICK r : r = <<e>> \o s
  OBVIOUS
<1>3. r \in Seq(S) /\ r # <<>> /\ Head(r) = e /\ Tail(r) = s
  BY <1>1, <1>2, Zenon
<1>4. Starts(r, e, s)
  BY <1>3 DEF Starts
<1> QED
  BY <1>2, <1>3, <1>4 DEF PutBefore

(* A turn, by what the iterator is at.                                     *)
LEMMA Ats ==
  ASSUME NEW v, NEW c, NEW p, NEW o, NEW it, it = At(v, c, p, o)
  PROVE  it.values = v /\ it.children = c /\ it.parents = p /\ it.told = o
BY DEF At

(* The value e is told, u are left of v.                                   *)
TellsOne(v, e, u) == v # {} /\ e = (CHOOSE x \in v : TRUE) /\ u = v \ {e}

LEMMA TurnTells ==
  ASSUME NEW v, NEW e, NEW u, TellsOne(v, e, u), NEW c, NEW p, NEW o
  PROVE  Turn(At(v, c, p, o)) = At(u, c, p, Append(o, e))
<1>1. PICK it : it = At(v, c, p, o)
  OBVIOUS
<1>2. it.values = v /\ it.children = c /\ it.parents = p /\ it.told = o
  BY <1>1, Ats
<1>3. Turn(it) = At(u, c, p, Append(o, e))
  BY <1>2 DEF Turn, TellsOne
<1> QED
  BY <1>1, <1>3

LEMMA TurnBack ==
  ASSUME NEW c, NEW d, NEW p, NEW q, NEW o, c = <<>>, Starts(q, d, p)
  PROVE  Turn(At({}, c, q, o)) = At({}, d, p, o)
<1>1. PICK it : it = At({}, c, q, o)
  OBVIOUS
<1>2. it.values = {} /\ it.children = c /\ it.parents = q /\ it.told = o
  BY <1>1, Ats
<1>3. Turn(it) = At({}, d, p, o)
  BY <1>2 DEF Turn, Starts
<1> QED
  BY <1>1, <1>3

LEMMA TurnEmpty ==
  ASSUME NEW x, NEW c, NEW d, NEW p, NEW o, Starts(d, x, c), x.kind = "empty"
  PROVE  Turn(At({}, d, p, o)) = At({}, c, p, o)
<1>1. PICK it : it = At({}, d, p, o)
  OBVIOUS
<1>2. it.values = {} /\ it.children = d /\ it.parents = p /\ it.told = o
  BY <1>1, Ats
<1>3. Turn(it) = At({}, c, p, o)
  BY <1>2 DEF Turn, Starts, PutBefore
<1> QED
  BY <1>1, <1>3

LEMMA TurnLeaf ==
  ASSUME NEW x, NEW c, NEW d, NEW p, NEW o, Starts(d, x, c), x.kind = "leaf"
  PROVE  Turn(At({}, d, p, o)) = At(EntriesOf(x), c, p, o)
<1>1. PICK it : it = At({}, d, p, o)
  OBVIOUS
<1>2. it.values = {} /\ it.children = d /\ it.parents = p /\ it.told = o
  BY <1>1, Ats
<1>3. Turn(it) = At(EntriesOf(x), c, p, o)
  BY <1>2 DEF Turn, Starts, PutBefore
<1> QED
  BY <1>1, <1>3

LEMMA TurnNode ==
  ASSUME NEW x, NEW c, NEW d, NEW p, NEW o, Starts(d, x, c), x.kind = "node"
  PROVE  Turn(At({}, d, p, o)) = At({}, x.children, PutBefore(c, p), o)
<1>1. PICK it : it = At({}, d, p, o)
  OBVIOUS
<1>2. it.values = {} /\ it.children = d /\ it.parents = p /\ it.told = o
  BY <1>1, Ats
<1>3. Turn(it) = At({}, x.children, PutBefore(c, p), o)
  BY <1>2 DEF Turn, Starts, PutBefore
<1> QED
  BY <1>1, <1>3

(* Told are the values v, of which there are n.                            *)
Out(w, v, n) == w \in Seq(Entry) /\ Len(w) = n /\ ToSet(w) = v

OutIn(o, w) == o \o w

LEMMA OutNone ==
  ASSUME NEW o \in Seq(Entry)
  PROVE  \E w : Out(w, {}, 0) /\ OutIn(o, w) = o
<1>1. PICK w : w = <<>>
  OBVIOUS
<1>2. Out(w, {}, 0) /\ OutIn(o, w) = o
  BY <1>1, NothingThere DEF Out, OutIn
<1> QED
  BY <1>2

LEMMA OutOne ==
  ASSUME NEW o \in Seq(Entry), NEW e \in Entry
  PROVE  \E w : Out(w, {e}, 1) /\ OutIn(o, w) = Append(o, e) /\ Append(o, e) \in Seq(Entry)
<1>1. PICK w : w = <<e>>
  OBVIOUS
<1>2. Out(w, {e}, 1)
  BY <1>1, OneAndNone DEF Out
<1>3. OutIn(o, w) = Append(o, e) /\ Append(o, e) \in Seq(Entry)
  BY <1>1 DEF OutIn
<1> QED
  BY <1>2, <1>3

Joined(o, a, b, s, k) == \E w : Out(w, s, k) /\ OutIn(OutIn(o, a), b) = OutIn(o, w)

LEMMA OutBoth ==
  ASSUME NEW o \in Seq(Entry), NEW a, NEW b, NEW u, NEW v, NEW n \in Nat, NEW m \in Nat,
         Out(a, u, n), Out(b, v, m), NEW s, s = u \cup v, NEW k, k = n + m
  PROVE  OutIn(o, a) \in Seq(Entry) /\ Joined(o, a, b, s, k)
<1>1. a \in Seq(Entry) /\ b \in Seq(Entry) /\ Len(a) = n /\ Len(b) = m /\ ToSet(a) = u /\ ToSet(b) = v
  BY DEF Out
<1>2. PICK w : w = a \o b
  OBVIOUS
<1>3. w \in Seq(Entry) /\ Len(w) = Len(a) + Len(b) /\ ToSet(w) = ToSet(a) \cup ToSet(b)
  BY <1>1, <1>2, Both, ZenonT(30)
<1>4. Out(w, s, k)
  BY <1>1, <1>3 DEF Out
<1>5. OutIn(OutIn(o, a), b) = OutIn(o, w) /\ OutIn(o, a) \in Seq(Entry)
  BY <1>1, <1>2, Both, OneByOne DEF OutIn
<1> QED
  BY <1>4, <1>5 DEF Joined

(* Turn by turn, the values of a leaf are told.                            *)
TellsAll(u, m, c, p) ==
  \A o \in Seq(Entry) : \E w : Out(w, u, m) /\ Ran(At(u, c, p, o), m, At({}, c, p, OutIn(o, w)))

LEMMA Telling ==
  ASSUME NEW v, v \subseteq Entry, IsFiniteSet(v), NEW c, NEW p
  PROVE  Cardinality(v) \in Nat /\ TellsAll(v, Cardinality(v), c, p)
<1> DEFINE n == Cardinality(v)
           T == {m \in 0..n : \A u \in SUBSET v : Cardinality(u) = m => TellsAll(u, m, c, p)}
<1>0. n \in Nat
  BY FS_CardinalityType
<1>1. \A u \in SUBSET v : IsFiniteSet(u)
  BY FS_Subset
<1>2. 0 \in T
  <2>1. ASSUME NEW u \in SUBSET v, Cardinality(u) = 0, NEW o \in Seq(Entry)
        PROVE  \E w : Out(w, u, 0) /\ Ran(At(u, c, p, o), 0, At({}, c, p, OutIn(o, w)))
    <3>1. u = {}
      BY <1>1, <2>1, FS_EmptySet
    <3>2. PICK w : Out(w, {}, 0) /\ OutIn(o, w) = o
      BY OutNone
    <3>3. Ran(At(u, c, p, o), 0, At({}, c, p, OutIn(o, w)))
      BY <3>1, <3>2, RanNone
    <3> QED
      BY <3>1, <3>2, <3>3
  <2>2. \A u \in SUBSET v : Cardinality(u) = 0 => TellsAll(u, 0, c, p)
    BY <2>1 DEF TellsAll
  <2> QED
    BY <1>0, <2>2
<1>3. ASSUME NEW m \in 1..n, m - 1 \in T PROVE m \in T
  <2>1. ASSUME NEW u \in SUBSET v, Cardinality(u) = m, NEW o \in Seq(Entry)
        PROVE  \E w : Out(w, u, m) /\ Ran(At(u, c, p, o), m, At({}, c, p, OutIn(o, w)))
    <3>1. u # {}
      <4>1. SUFFICES ASSUME u = {} PROVE FALSE
        OBVIOUS
      <4>2. Cardinality(u) = 0
        BY <4>1, FS_EmptySet
      <4> QED
        BY <1>0, <2>1, <4>2
    <3>2. PICK e : e = CHOOSE x \in u : TRUE
      OBVIOUS
    <3>3. e \in u /\ e \in Entry
      BY <3>1, <3>2
    <3>4. PICK t : t = u \ {e}
      OBVIOUS
    <3>5. t \in SUBSET v /\ Cardinality(t) = m - 1
      BY <1>1, <2>1, <3>3, <3>4, FS_RemoveElement
    <3>6. TellsAll(t, m - 1, c, p)
      BY <1>3, <3>5
    <3>7. PICK a : Out(a, {e}, 1) /\ OutIn(o, a) = Append(o, e) /\ Append(o, e) \in Seq(Entry)
      BY <3>3, OutOne
    <3>8. PICK q : q = OutIn(o, a)
      OBVIOUS
    <3>9. PICK b : Out(b, t, m - 1) /\ Ran(At(t, c, p, q), m - 1, At({}, c, p, OutIn(q, b)))
      BY <3>6, <3>7, <3>8 DEF TellsAll
    <3>10. {e} \cup t = u /\ 1 + (m - 1) = m /\ 1 \in Nat /\ m - 1 \in Nat
      BY <1>0, <3>3, <3>4
    <3>11. Joined(o, a, b, u, m)
      <4>1. PICK one, l : one = {e} /\ l = m - 1
        OBVIOUS
      <4>2. Out(a, one, 1) /\ Out(b, t, l) /\ u = one \cup t /\ m = 1 + l /\ l \in Nat
        BY <3>7, <3>9, <3>10, <4>1
      <4> QED
        BY <4>2, <3>10, OutBoth
    <3>12. PICK w : Out(w, u, m) /\ OutIn(q, b) = OutIn(o, w)
      BY <3>8, <3>11 DEF Joined
    <3>13. Ran(At(u, c, p, o), 1, At(t, c, p, q))
      <4>1. At(t, c, p, q) = Turn(At(u, c, p, o))
        <5>1. TellsOne(u, e, t)
          BY <3>1, <3>2, <3>4 DEF TellsOne
        <5>2. Turn(At(u, c, p, o)) = At(t, c, p, Append(o, e))
          BY <5>1, TurnTells
        <5> QED
          BY <3>7, <3>8, <5>2
      <4> QED
        BY <4>1, RanOne
    <3>14. Ran(At(u, c, p, o), 1 + (m - 1), At({}, c, p, OutIn(o, w)))
      BY <3>9, <3>10, <3>12, <3>13, RanOn
    <3> QED
      BY <3>10, <3>12, <3>14
  <2>2. \A u \in SUBSET v : Cardinality(u) = m => TellsAll(u, m, c, p)
    BY <2>1 DEF TellsAll
  <2>3. m \in 0..n
    BY <1>0
  <2> QED
    BY <2>2, <2>3
<1>4. 0..n \subseteq T
  <2> HIDE DEF T
  <2> QED
    BY <1>0, <1>2, <1>3, Turns
<1>5. n \in T /\ v \in SUBSET v
  BY <1>0, <1>4
<1> QED
  BY <1>0, <1>5

(* How many turns an item takes, and how many values it has.               *)
TurnsBelow(s) == [i \in DOMAIN s |-> TurnsOf[s[i]]]
LensBelow(s) == [i \in DOMAIN s |-> ItemLen[s[i]]]

LEMMA TurnsAre ==
  ASSUME NEW x \in Items
  PROVE  /\ x.kind = "empty" => TurnsOf[x] = 1 /\ ItemLen[x] = 0
         /\ x.kind = "leaf" => TurnsOf[x] = 1 + Cardinality(x.ids) /\ ItemLen[x] = Cardinality(x.ids)
         /\ x.kind = "node" => /\ TurnsOf[x] = 2 + Total(TurnsBelow(x.children))
                               /\ ItemLen[x] = Total(LensBelow(x.children))
<1>1. TurnsOf[x] = TurnsFor(x, TurnsOf) /\ ItemLen[x] = LenOf(x, ItemLen)
  BY TurnsOfUnfold, ItemLenUnfold
<1> QED
  BY <1>1 DEF TurnsFor, LenOf, TurnsBelow, LensBelow

(* The values of an item are told, in the turns it takes, and it is gone   *)
(* from the items to visit.                                                *)
Visits(x) ==
  /\ TurnsOf[x] \in Nat /\ ItemLen[x] \in Nat
  /\ \A c \in Seq(Items), d \in Seq(Items), p \in Seq(Seq(Items)), o \in Seq(Entry) :
       Starts(d, x, c) =>
         \E w : Out(w, Held[x], ItemLen[x]) /\ Ran(At({}, d, p, o), TurnsOf[x], At({}, c, p, OutIn(o, w)))

HeldUpTo(s, n) == UNION {Held[s[i]] : i \in 1..n}

LEMMA HeldOneMore ==
  ASSUME NEW N \in Nat, NEW s
  PROVE  /\ HeldUpTo(s, 0) = {}
         /\ \A n \in 1..N : HeldUpTo(s, n) = HeldUpTo(s, n - 1) \cup Held[s[n]]
<1>1. ASSUME NEW n \in 1..N PROVE HeldUpTo(s, n) = HeldUpTo(s, n - 1) \cup Held[s[n]]
  <2>1. \A i \in 1..n : i = n \/ i \in 1..(n - 1)
    OBVIOUS
  <2>2. \A i \in 1..(n - 1) : i \in 1..n
    OBVIOUS
  <2>3. n \in 1..n
    OBVIOUS
  <2> QED
    BY <2>1, <2>2, <2>3 DEF HeldUpTo
<1> QED
  BY <1>1 DEF HeldUpTo

(* What is left of them after the first n.                                 *)
After(s, n) == SubSeq(s, n + 1, Len(s))

LEMMA AfterIs ==
  ASSUME NEW S, NEW s \in Seq(S), NEW n \in 1..Len(s)
  PROVE  /\ After(s, n) \in Seq(S) /\ After(s, n - 1) \in Seq(S)
         /\ Starts(After(s, n - 1), s[n], After(s, n))
<1>1. Len(s) \in Nat /\ n \in Nat /\ n > 0 /\ n <= Len(s)
  OBVIOUS
<1>2. After(s, n - 1) = SubSeq(s, n, Len(s))
  BY <1>1 DEF After
<1>3. After(s, n) \in Seq(S) /\ After(s, n - 1) \in Seq(S)
  BY <1>1, <1>2 DEF After
<1>4. Len(After(s, n - 1)) = Len(s) - n + 1 /\ After(s, n - 1)[1] = s[n]
  BY <1>1, <1>2
<1>5. After(s, n - 1) # <<>> /\ Head(After(s, n - 1)) = s[n]
  BY <1>1, <1>3, <1>4
<1>6. Tail(After(s, n - 1)) = After(s, n)
  BY <1>1, <1>2 DEF After
<1> QED
  BY <1>3, <1>5, <1>6 DEF Starts

LEMMA AfterAll ==
  ASSUME NEW S, NEW s \in Seq(S)
  PROVE  After(s, 0) = s /\ After(s, Len(s)) = <<>>
BY DEF After

(* The first n of some items are visited, one after the other.             *)
VisitsSome(s, n, turns, len, p, o) ==
  \E w : Out(w, HeldUpTo(s, n), len) /\ Ran(At({}, s, p, o), turns, At({}, After(s, n), p, OutIn(o, w)))

LEMMA VisitsOneMore ==
  ASSUME NEW s \in Seq(Items), NEW n \in 1..Len(s), Visits(s[n]),
         NEW p \in Seq(Seq(Items)), NEW o \in Seq(Entry), NEW turns \in Nat, NEW len \in Nat,
         VisitsSome(s, n - 1, turns, len, p, o)
  PROVE  VisitsSome(s, n, turns + TurnsOf[s[n]], len + ItemLen[s[n]], p, o)
<1> DEFINE x == s[n]
<1>0. Len(s) \in Nat /\ TurnsOf[x] \in Nat /\ ItemLen[x] \in Nat
  BY DEF Visits
<1>1. PICK a : /\ Out(a, HeldUpTo(s, n - 1), len)
               /\ Ran(At({}, s, p, o), turns, At({}, After(s, n - 1), p, OutIn(o, a)))
  BY DEF VisitsSome
<1>2. PICK c, d : c = After(s, n) /\ d = After(s, n - 1)
  OBVIOUS
<1>3. c \in Seq(Items) /\ d \in Seq(Items) /\ Starts(d, x, c)
  BY <1>2, AfterIs
<1>4. PICK q : q = OutIn(o, a)
  OBVIOUS
<1>5. q \in Seq(Entry)
  BY <1>1, <1>4 DEF OutIn, Out
<1>6. PICK b : Out(b, Held[x], ItemLen[x]) /\ Ran(At({}, d, p, q), TurnsOf[x], At({}, c, p, OutIn(q, b)))
  BY <1>3, <1>5 DEF Visits
<1>7. PICK u, k : u = HeldUpTo(s, n) /\ k = len + ItemLen[x]
  OBVIOUS
<1>8. Joined(o, a, b, u, k)
  <2>1. u = HeldUpTo(s, n - 1) \cup Held[x]
    BY <1>0, <1>7, HeldOneMore, SMTT(30)
  <2> QED
    BY <1>0, <1>1, <1>6, <1>7, <2>1, OutBoth
<1>9. PICK w : Out(w, u, k) /\ OutIn(q, b) = OutIn(o, w)
  BY <1>4, <1>8 DEF Joined
<1>10. Ran(At({}, s, p, o), turns + TurnsOf[x], At({}, c, p, OutIn(o, w)))
  <2>1. Ran(At({}, s, p, o), turns, At({}, d, p, q))
    BY <1>1, <1>2, <1>4
  <2>2. Ran(At({}, d, p, q), TurnsOf[x], At({}, c, p, OutIn(o, w)))
    BY <1>6, <1>9
  <2> QED
    BY <1>0, <2>1, <2>2, RanOn
<1> QED
  BY <1>2, <1>7, <1>9, <1>10 DEF VisitsSome

LEMMA VisitsAll ==
  ASSUME NEW s \in Seq(Items), \A i \in DOMAIN s : Visits(s[i])
  PROVE  /\ Total(TurnsBelow(s)) \in Nat /\ Total(LensBelow(s)) \in Nat
         /\ \A p \in Seq(Seq(Items)), o \in Seq(Entry) :
              VisitsSome(s, Len(s), Total(TurnsBelow(s)), Total(LensBelow(s)), p, o)
<1> DEFINE N == Len(s)
<1>0. N \in Nat /\ DOMAIN s = 1..N
  OBVIOUS
<1>1. TurnsBelow(s) \in [1..N -> Nat] /\ LensBelow(s) \in [1..N -> Nat]
  <2>1. \A i \in DOMAIN s : TurnsOf[s[i]] \in Nat /\ ItemLen[s[i]] \in Nat
    BY DEF Visits
  <2> QED
    BY <1>0, <2>1 DEF TurnsBelow, LensBelow
<1>2. PICK t \in [0..N -> Nat] : /\ t[0] = 0 /\ Total(TurnsBelow(s)) = t[N]
                                 /\ \A n \in 1..N : t[n] = t[n - 1] + TurnsBelow(s)[n]
  BY <1>0, <1>1, TotalIs
<1>3. PICK l \in [0..N -> Nat] : /\ l[0] = 0 /\ Total(LensBelow(s)) = l[N]
                                 /\ \A n \in 1..N : l[n] = l[n - 1] + LensBelow(s)[n]
  BY <1>0, <1>1, TotalIs
<1>4. t[N] \in Nat /\ l[N] \in Nat /\ N \in 0..N
  BY <1>0, <1>2, <1>3
<1>5. ASSUME NEW p \in Seq(Seq(Items)), NEW o \in Seq(Entry)
      PROVE  VisitsSome(s, N, t[N], l[N], p, o)
  <2> DEFINE T == {n \in 0..N : VisitsSome(s, n, t[n], l[n], p, o)}
  <2>1. 0 \in T
    <3>1. PICK w : Out(w, {}, 0) /\ OutIn(o, w) = o
      BY OutNone
    <3>2. Ran(At({}, s, p, o), 0, At({}, After(s, 0), p, OutIn(o, w)))
      BY <3>1, AfterAll, RanNone
    <3>3. HeldUpTo(s, 0) = {}
      BY <1>0, HeldOneMore
    <3>4. VisitsSome(s, 0, 0, 0, p, o)
      BY <3>1, <3>2, <3>3 DEF VisitsSome
    <3> QED
      BY <1>0, <1>2, <1>3, <3>4
  <2>2. ASSUME NEW n \in 1..N, n - 1 \in T PROVE n \in T
    <3>1. n - 1 \in 0..N /\ n \in 0..N /\ n \in DOMAIN s
      BY <1>0
    <3>2. t[n - 1] \in Nat /\ l[n - 1] \in Nat /\ Visits(s[n])
      BY <1>2, <1>3, <3>1
    <3>3. VisitsSome(s, n, t[n - 1] + TurnsOf[s[n]], l[n - 1] + ItemLen[s[n]], p, o)
      BY <2>2, <3>2, VisitsOneMore
    <3>4. t[n] = t[n - 1] + TurnsOf[s[n]] /\ l[n] = l[n - 1] + ItemLen[s[n]]
      BY <1>2, <1>3, <3>1 DEF TurnsBelow, LensBelow
    <3> QED
      BY <3>1, <3>3, <3>4
  <2>3. 0..N \subseteq T
    <3> HIDE DEF T, N
    <3> QED
      BY <1>0, <2>1, <2>2, Turns
  <2> QED
    BY <1>4, <2>3
<1> QED
  BY <1>2, <1>3, <1>4, <1>5

LEMMA VisitsEmpty ==
  ASSUME NEW x \in Items, x.kind = "empty"
  PROVE  Visits(x)
<1>1. TurnsOf[x] = 1 /\ ItemLen[x] = 0 /\ Held[x] = {}
  BY TurnsAre, HeldAre
<1>2. ASSUME NEW c \in Seq(Items), NEW d \in Seq(Items), NEW p \in Seq(Seq(Items)), NEW o \in Seq(Entry),
             Starts(d, x, c)
      PROVE  \E w : Out(w, Held[x], ItemLen[x]) /\ Ran(At({}, d, p, o), TurnsOf[x], At({}, c, p, OutIn(o, w)))
  <2>1. PICK w : Out(w, {}, 0) /\ OutIn(o, w) = o
    BY OutNone
  <2>2. Turn(At({}, d, p, o)) = At({}, c, p, o)
    BY <1>2, TurnEmpty
  <2>3. Ran(At({}, d, p, o), 1, At({}, c, p, o))
    BY <2>2, RanOne
  <2> QED
    BY <1>1, <2>1, <2>3
<1> QED
  BY <1>1, <1>2 DEF Visits

LEMMA VisitsLeaf ==
  ASSUME NEW x \in Items, Well[x], x.kind = "leaf"
  PROVE  Visits(x)
<1>1. TurnsOf[x] = 1 + ItemLen[x] /\ Held[x] = EntriesOf(x)
  BY TurnsAre, HeldAre
<1>2. IsFiniteSet(Held[x]) /\ Held[x] \subseteq Entry /\ ItemLen[x] = Cardinality(Held[x])
  BY WellHolds, HeldTyped, LenIs
<1>3. ItemLen[x] \in Nat
  BY <1>2, FS_CardinalityType
<1>4. ASSUME NEW c \in Seq(Items), NEW d \in Seq(Items), NEW p \in Seq(Seq(Items)), NEW o \in Seq(Entry),
             Starts(d, x, c)
      PROVE  \E w : Out(w, Held[x], ItemLen[x]) /\ Ran(At({}, d, p, o), TurnsOf[x], At({}, c, p, OutIn(o, w)))
  <2>1. TellsAll(Held[x], ItemLen[x], c, p)
    BY <1>2, Telling
  <2>2. PICK w : Out(w, Held[x], ItemLen[x]) /\ Ran(At(Held[x], c, p, o), ItemLen[x], At({}, c, p, OutIn(o, w)))
    BY <2>1 DEF TellsAll
  <2>3. Turn(At({}, d, p, o)) = At(Held[x], c, p, o)
    BY <1>1, <1>4, TurnLeaf
  <2>4. Ran(At({}, d, p, o), 1, At(Held[x], c, p, o))
    BY <2>3, RanOne
  <2>5. Ran(At({}, d, p, o), 1 + ItemLen[x], At({}, c, p, OutIn(o, w)))
    BY <1>3, <2>2, <2>4, RanOn
  <2> QED
    BY <1>1, <2>2, <2>5
<1> QED
  BY <1>1, <1>3, <1>4 DEF Visits

LEMMA VisitsNode ==
  ASSUME NEW x \in Items, x.kind = "node", \A i \in DOMAIN x.children : Visits(x.children[i])
  PROVE  Visits(x)
<1> DEFINE s == x.children
<1>0. s \in Seq(Items) /\ Len(s) \in Nat /\ DOMAIN s = 1..Len(s)
  <2>1. MaxChange \in 0..MaxChange /\ x \in ItemsOf[MaxChange]
    BY ItemsUnfold DEF Items
  <2>2. /\ Len(s) \in Nat /\ DOMAIN s = 1..Len(s) /\ s = [i \in 1..Len(s) |-> s[i]]
        /\ \A i \in DOMAIN s : s[i] \in Items
    BY <2>1, ChildrenBelow
  <2> HIDE DEF s
  <2> QED
    BY <2>2
<1>1. PICK t, l : t = Total(TurnsBelow(s)) /\ l = Total(LensBelow(s))
  OBVIOUS
<1>2. TurnsOf[x] = 2 + t /\ ItemLen[x] = l
  BY <1>1, TurnsAre
<1>3. Held[x] = HeldUpTo(s, Len(s))
  BY <1>0, HeldAre DEF HeldUpTo
<1>4. /\ t \in Nat /\ l \in Nat
      /\ \A p \in Seq(Seq(Items)), o \in Seq(Entry) : VisitsSome(s, Len(s), t, l, p, o)
  <2>1. \A i \in DOMAIN s : Visits(s[i])
    OBVIOUS
  <2> HIDE DEF s
  <2> QED
    BY <1>0, <1>1, <2>1, VisitsAll
<1>5. ASSUME NEW c \in Seq(Items), NEW d \in Seq(Items), NEW p \in Seq(Seq(Items)), NEW o \in Seq(Entry),
             Starts(d, x, c)
      PROVE  \E w : Out(w, Held[x], ItemLen[x]) /\ Ran(At({}, d, p, o), TurnsOf[x], At({}, c, p, OutIn(o, w)))
  <2>1. PICK q : q = PutBefore(c, p)
    OBVIOUS
  <2>2. q \in Seq(Seq(Items)) /\ Starts(q, c, p)
    <3>1. PICK S : S = Seq(Items)
      OBVIOUS
    <3>2. c \in S /\ p \in Seq(S)
      BY <3>1
    <3>3. PutBefore(c, p) \in Seq(S) /\ Starts(PutBefore(c, p), c, p)
      BY <3>2, PutFirst
    <3> QED
      BY <2>1, <3>1, <3>3
  <2>3. PICK nil : nil = <<>> /\ nil = After(s, Len(s))
    BY <1>0, AfterAll
  <2>4. PICK w : Out(w, HeldUpTo(s, Len(s)), l) /\ Ran(At({}, s, q, o), t, At({}, nil, q, OutIn(o, w)))
    BY <1>4, <2>2, <2>3 DEF VisitsSome
  <2>5. Ran(At({}, d, p, o), 1, At({}, s, q, o))
    <3>1. Turn(At({}, d, p, o)) = At({}, x.children, PutBefore(c, p), o)
      BY <1>5, TurnNode
    <3> QED
      BY <2>1, <3>1, RanOne
  <2>6. Ran(At({}, nil, q, OutIn(o, w)), 1, At({}, c, p, OutIn(o, w)))
    <3>1. Turn(At({}, nil, q, OutIn(o, w))) = At({}, c, p, OutIn(o, w))
      BY <2>2, <2>3, TurnBack
    <3> QED
      BY <3>1, RanOne
  <2>7. Ran(At({}, d, p, o), 1 + t, At({}, nil, q, OutIn(o, w)))
    BY <1>4, <2>4, <2>5, RanOn
  <2>8. Ran(At({}, d, p, o), (1 + t) + 1, At({}, c, p, OutIn(o, w)))
    <3>1. 1 + t \in Nat /\ 1 \in Nat
      BY <1>4
    <3> QED
      BY <2>6, <2>7, <3>1, RanOn
  <2>9. (1 + t) + 1 = TurnsOf[x]
    BY <1>2, <1>4
  <2> QED
    BY <1>2, <1>3, <2>4, <2>8, <2>9
<1>6. TurnsOf[x] \in Nat /\ ItemLen[x] \in Nat
  BY <1>2, <1>4
<1> QED
  BY <1>5, <1>6 DEF Visits

LEMMA VisitsEach ==
  \A x \in Items : Well[x] => Visits(x)
<1> DEFINE S == {x \in Items : Well[x] => Visits(x)}
<1>1. ASSUME NEW x \in Items, x.kind = "node" => \A i \in DOMAIN x.children : x.children[i] \in S, Well[x]
      PROVE  Visits(x)
  <2>1. CASE x.kind = "node"
    <3>1. \A i \in DOMAIN x.children : Well[x.children[i]]
      BY <1>1, <2>1, WellIs
    <3>2. \A i \in DOMAIN x.children : Visits(x.children[i])
      BY <1>1, <2>1, <3>1
    <3> QED
      BY <2>1, <3>2, VisitsNode
  <2> QED
    BY <1>1, <2>1, VisitsEmpty, VisitsLeaf, ItemIs
<1>2. Items \subseteq S
  <2> HIDE DEF S
  <2>1. \A x \in Items : (x.kind = "node" => \A i \in DOMAIN x.children : x.children[i] \in S) => x \in S
    BY <1>1 DEF S
  <2> QED
    BY <2>1, TreeInduction
<1> QED
  BY <1>2

(* What the iterator is at after the turns that the whole takes.           *)
LEMMA IteratedIs ==
  ASSUME NEW x \in Items, Well[x]
  PROVE  \E w : Out(w, Held[x], ItemLen[x]) /\ Iterated(x) = At({}, <<>>, <<>>, w)
<1> DEFINE N == TurnsOf[x]
           B(n, f) == IF n = 0 THEN Iterator(x) ELSE Turn(f[n - 1])
<1>0. Visits(x)
  BY VisitsEach
<1>1. N \in Nat
  BY <1>0 DEF Visits
<1>2. PICK nil, d : nil = <<>> /\ d = <<x>>
  OBVIOUS
<1>3. nil \in Seq(Items) /\ nil \in Seq(Seq(Items)) /\ nil \in Seq(Entry) /\ d \in Seq(Items)
  BY <1>2
<1>4. Starts(d, x, nil)
  BY <1>2 DEF Starts
<1>5. PICK w : Out(w, Held[x], ItemLen[x]) /\ Ran(At({}, d, nil, nil), N, At({}, nil, nil, OutIn(nil, w)))
  BY <1>0, <1>3, <1>4 DEF Visits
<1>6. OutIn(nil, w) = w
  <2>1. w \in Seq(Entry)
    BY <1>5 DEF Out
  <2> QED
    BY <1>2, <2>1, NothingThere DEF OutIn
<1>7. Iterator(x) = At({}, d, nil, nil)
  BY <1>2 DEF Iterator
<1>8. PICK f : f[0] = Iterator(x) /\ \A i \in 1..N : f[i] = Turn(f[i - 1])
  BY <1>5, <1>7 DEF Ran
<1> DEFINE g == [n \in 0..N |-> f[n]]
<1>9. g = [n \in 0..N |-> B(n, g)]
  <2>1. ASSUME NEW n \in 0..N PROVE f[n] = B(n, g)
    <3>1. CASE n = 0
      BY <1>8, <3>1
    <3>2. CASE n # 0
      <4>1. n \in 1..N /\ n - 1 \in 0..N
        BY <1>1, <3>2
      <4>2. f[n] = Turn(f[n - 1]) /\ g[n - 1] = f[n - 1]
        BY <1>8, <4>1
      <4> HIDE DEF g
      <4> QED
        BY <3>2, <4>2
    <3> QED
      BY <3>1, <3>2
  <2> HIDE DEF B
  <2> QED
    BY <2>1
<1> DEFINE turn == CHOOSE h : h = [n \in 0..N |-> B(n, h)]
<1>10. turn = [n \in 0..N |-> B(n, turn)]
  <2> HIDE DEF B, g
  <2> QED
    BY <1>9
<1>11. Iterated(x) = turn[N]
  BY DEF Iterated
<1> HIDE DEF turn
<1>12. turn[0] = Iterator(x) /\ \A i \in 1..N : turn[i] = Turn(turn[i - 1])
  <2>1. \A n \in 0..N : turn[n] = B(n, turn)
    <3> HIDE DEF B
    <3> QED
      BY <1>10
  <2>2. 0 \in 0..N /\ \A i \in 1..N : i \in 0..N /\ i # 0
    BY <1>1
  <2> QED
    BY <2>1, <2>2
<1>13. turn[N] = At({}, nil, nil, w)
  BY <1>1, <1>5, <1>6, <1>7, <1>12, RanOnce
<1> QED
  BY <1>2, <1>5, <1>11, <1>13

----------------------------------------------------------------------------
(* The tree, from one operation to the next.                               *)

(* The inductive invariant: the tree is well, holds what is there, and is  *)
(* no deeper than there were operations.                                   *)
TreeInv ==
  /\ changes \in 0..MaxChange /\ ignoreCase \in BOOLEAN
  /\ tree \in ItemsOf[changes] /\ Well[tree] /\ tree.fold = ignoreCase
  /\ Held[tree] = content /\ content \in SUBSET Entry

LEMMA TreeInvInit == TreeInit => TreeInv
<1> SUFFICES ASSUME TreeInit PROVE TreeInv
  OBVIOUS
<1>1. changes = 0 /\ 0 \in 0..MaxChange /\ ignoreCase \in BOOLEAN /\ tree = Empty(ignoreCase) /\ content = {}
  BY ItemsUnfold DEF TreeInit
<1>2. PICK t : t = Empty(ignoreCase)
  OBVIOUS
<1>3. t \in ItemsOf[0] /\ Well[t] /\ Held[t] = {} /\ t.fold = ignoreCase
  BY <1>1, <1>2, EmptyMade
<1> QED
  BY <1>1, <1>2, <1>3 DEF TreeInv

(* What every operation keeps, given what it makes of the tree.            *)
LEMMA Called ==
  ASSUME TreeInv, NEW op, NEW i, NEW v, NEW u, Call(op, i, v, u),
         tree' \in ItemsOf[changes + 1], Well[tree'], tree'.fold = tree.fold,
         Held[tree'] = content', content' \in SUBSET Entry
  PROVE  TreeInv'
<1>1. changes' = changes + 1 /\ ignoreCase' = ignoreCase /\ changes < MaxChange
  BY DEF Call
<1>2. changes + 1 \in 0..MaxChange
  BY <1>1, ItemsUnfold DEF TreeInv
<1>3. tree'.fold = ignoreCase' /\ ignoreCase' \in BOOLEAN
  BY <1>1 DEF TreeInv
<1> QED
  BY <1>1, <1>2, <1>3 DEF TreeInv

(* What it is of the state that they start from.                           *)
LEMMA Before ==
  ASSUME TreeInv, changes < MaxChange
  PROVE  /\ changes \in 0..MaxChange /\ changes + 1 \in 1..MaxChange
         /\ tree \in ItemsOf[changes] /\ Well[tree] /\ Held[tree] = content /\ content \in SUBSET Entry
         /\ tree \in Items /\ ItemsOf[changes] \subseteq ItemsOf[changes + 1]
<1>1. changes \in 0..MaxChange /\ tree \in ItemsOf[changes] /\ Well[tree] /\ Held[tree] = content /\ content \in SUBSET Entry
  BY DEF TreeInv
<1>2. changes + 1 \in 1..MaxChange
  BY <1>1, ItemsUnfold
<1>3. PICK n \in 1..MaxChange : n = changes + 1
  BY <1>2
<1>4. n - 1 = changes
  BY <1>1, <1>3
<1>5. ItemsOf[n - 1] \subseteq ItemsOf[n]
  BY ItemsGrow
<1>6. ItemsOf[changes] \subseteq ItemsOf[changes + 1]
  BY <1>3, <1>4, <1>5
<1>7. tree \in Items
  BY <1>1, ItemsWithin
<1> QED
  BY <1>1, <1>2, <1>6, <1>7

LEMMA InsertStep ==
  ASSUME TreeInv, NEW r \in Regex, NEW i \in RouteId, InsertedOnce(r, i), Insert(r, i)
  PROVE  TreeInv'
<1> DEFINE e == [regex |-> r, id |-> i]
<1>0. Call("insert", i, NoEntry, 0) /\ tree' = Insertion(r, i)[tree] /\ content' = content \cup {e}
  BY DEF Insert
<1>1. changes < MaxChange
  BY <1>0 DEF Call
<1>2. /\ changes \in 0..MaxChange /\ tree \in ItemsOf[changes] /\ Well[tree] /\ Held[tree] = content
      /\ content \in SUBSET Entry
  BY <1>1, Before
<1>3. PICK d \in 1..MaxChange : d = changes + 1
  BY <1>1, Before
<1>4. d - 1 = changes
  BY <1>2, <1>3
<1>5. tree \in ItemsOf[d - 1] /\ [regex |-> r, id |-> i] \notin Held[tree]
  BY <1>2, <1>4 DEF InsertedOnce
<1>6. PICK y : y = Insertion(r, i)[tree]
  OBVIOUS
<1>7. y \in ItemsOf[d] /\ InsertedAs(tree, y, [regex |-> r, id |-> i])
  BY <1>2, <1>5, <1>6, InsertionIs
<1>8. tree' = y /\ Well[y] /\ y.fold = tree.fold /\ Held[y] = content'
  BY <1>0, <1>2, <1>6, <1>7 DEF InsertedAs
<1>9. content' \in SUBSET Entry
  BY <1>0, <1>2 DEF Entry
<1> QED
  BY <1>0, <1>3, <1>7, <1>8, <1>9, Called

LEMMA RemoveStep ==
  ASSUME TreeInv, NEW i \in RouteId, RemoveId(i)
  PROVE  /\ TreeInv'
         /\ IF \E e \in content : e.id = called'.id
            THEN called'.value.id = called'.id /\ called'.value \in content
            ELSE called'.value = NoEntry
<1>1. PICK r : r = Removal(i)[tree]
  OBVIOUS
<1>2. Call("remove", i, r.value, 0) /\ tree' = r.item /\ content' = content \ {r.value}
  BY <1>1 DEF RemoveId
<1>3. changes < MaxChange
  BY <1>2 DEF Call
<1>4. /\ changes \in 0..MaxChange /\ tree \in ItemsOf[changes] /\ Well[tree] /\ Held[tree] = content
      /\ content \in SUBSET Entry /\ ItemsOf[changes] \subseteq ItemsOf[changes + 1]
  BY <1>3, Before
<1>5. RemovedAs(tree, r, changes, i)
  BY <1>1, <1>4, RemovalIs
<1>6. /\ r.item \in ItemsOf[changes] /\ Well[r.item] /\ r.item.fold = tree.fold
      /\ Held[r.item] = content \ {r.value}
      /\ IF \E e \in content : e.id = i THEN r.value \in content /\ r.value.id = i ELSE r.value = NoEntry
  BY <1>4, <1>5 DEF RemovedAs, PartOf
<1>7. TreeInv'
  BY <1>2, <1>4, <1>6, Called
<1>8. called'.id = i /\ called'.value = r.value
  BY <1>2 DEF Call
<1> QED
  BY <1>6, <1>7, <1>8

LEMMA RetainStep ==
  ASSUME TreeInv, NEW ids, Retain(ids)
  PROVE  TreeInv'
<1>1. PICK y : y = Retained(ids)[tree]
  OBVIOUS
<1>2. Call("retain", "none", NoEntry, 0) /\ tree' = y /\ content' = {e \in content : e.id \notin ids}
  BY <1>1 DEF Retain
<1>3. changes < MaxChange
  BY <1>2 DEF Call
<1>4. /\ changes \in 0..MaxChange /\ tree \in ItemsOf[changes] /\ Well[tree] /\ Held[tree] = content
      /\ content \in SUBSET Entry /\ ItemsOf[changes] \subseteq ItemsOf[changes + 1]
  BY <1>3, Before
<1>5. RetainedAs(tree, y, changes, ids)
  BY <1>1, <1>4, RetainedIs
<1>6. y \in ItemsOf[changes] /\ Well[y] /\ y.fold = tree.fold /\ Held[y] = content'
  BY <1>2, <1>4, <1>5 DEF RetainedAs, PartOf
<1>7. content' \in SUBSET Entry
  BY <1>2, <1>4
<1> QED
  BY <1>2, <1>4, <1>6, <1>7, Called

LEMMA FilledStep ==
  ASSUME TreeInv, NEW limit \in Limit, NEW c, Filled(c, limit),
         changes < MaxChange => CachedAs(tree, c, changes, limit)
  PROVE  TreeInv' /\ CachedLen[tree'] - CachedLen[tree] = called'.used /\ called'.used >= 0
<1>1. Call("cache", "none", NoEntry, limit - c.left) /\ tree' = c.item /\ content' = content
  BY DEF Filled
<1>2. changes < MaxChange /\ called'.used = limit - c.left
  BY <1>1 DEF Call
<1>3. /\ changes \in 0..MaxChange /\ tree \in ItemsOf[changes] /\ Well[tree] /\ Held[tree] = content
      /\ content \in SUBSET Entry /\ ItemsOf[changes] \subseteq ItemsOf[changes + 1] /\ tree \in Items
  BY <1>2, Before
<1>4. /\ c.item \in ItemsOf[changes] /\ Well[c.item] /\ c.item.fold = tree.fold /\ Held[c.item] = content
      /\ c.left \in 0..limit /\ CachedLen[c.item] = CachedLen[tree] + (limit - c.left)
  BY <1>2, <1>3 DEF CachedAs, Alike
<1>5. TreeInv'
  BY <1>1, <1>3, <1>4, Called
<1>6. limit \in Nat /\ CachedLen[tree] \in Nat
  BY <1>3, TreeAssumption, CachedCounts
<1> QED
  BY <1>1, <1>2, <1>4, <1>5, <1>6

(* The three ways to fill the cache.                                       *)
LEMMA CacheStep ==
  ASSUME TreeInv, NEW l \in Limit,
         Cache(l) \/ CacheOfRouter(l) \/ \E level \in 0..1 : CacheLevel(l, level)
  PROVE  TreeInv' /\ CachedLen[tree'] - CachedLen[tree] = called'.used /\ called'.used >= 0
<1>0. l \in Nat
  BY TreeAssumption
<1>1. CASE Cache(l)
  <2>1. PICK c : c = CacheLevels(tree, l)
    OBVIOUS
  <2>2. changes < MaxChange => CachedAs(tree, c, changes, l)
    BY <1>0, <2>1, Before, CacheLevelsIs
  <2>3. Filled(c, l)
    BY <1>1, <2>1 DEF Cache
  <2> QED
    BY <2>2, <2>3, FilledStep
<1>2. CASE CacheOfRouter(l)
  <2>1. PICK c : c = CacheRouter(tree, l)
    OBVIOUS
  <2>2. changes < MaxChange => CachedAs(tree, c, changes, l)
    BY <1>0, <2>1, Before, CacheRouterIs
  <2>3. Filled(c, l)
    BY <1>2, <2>1 DEF CacheOfRouter
  <2> QED
    BY <2>2, <2>3, FilledStep
<1>3. ASSUME NEW level \in 0..1, CacheLevel(l, level)
      PROVE  TreeInv' /\ CachedLen[tree'] - CachedLen[tree] = called'.used /\ called'.used >= 0
  <2>1. PICK c : c = CacheItem[tree][l][level]
    OBVIOUS
  <2>2. changes < MaxChange => CachedAs(tree, c, changes, l)
    <3> HAVE changes < MaxChange
    <3>1. CachesAs(tree, changes)
      BY Before, CacheItemIs
    <3> QED
      BY <1>0, <2>1, <3>1 DEF CachesAs
  <2>3. Filled(c, l)
    BY <1>3, <2>1 DEF CacheLevel
  <2> QED
    BY <2>2, <2>3, FilledStep
<1> QED
  BY <1>1, <1>2, <1>3

LEMMA TreeInductive == TreeInv /\ [TreeNext]_treeVars => TreeInv'
<1> SUFFICES ASSUME TreeInv, [TreeNext]_treeVars PROVE TreeInv'
  OBVIOUS
<1>1. ASSUME NEW r \in Regex, NEW i \in RouteId, InsertedOnce(r, i) /\ Insert(r, i) PROVE TreeInv'
  BY <1>1, InsertStep
<1>2. ASSUME NEW i \in RouteId, RemoveId(i) PROVE TreeInv'
  BY <1>2, RemoveStep
<1>3. ASSUME NEW ids \in SUBSET RouteId, Retain(ids) PROVE TreeInv'
  BY <1>3, RetainStep
<1>4. ASSUME NEW l \in Limit, Cache(l) \/ CacheOfRouter(l) \/ \E level \in 0..1 : CacheLevel(l, level) PROVE TreeInv'
  BY <1>4, CacheStep
<1>5. CASE UNCHANGED treeVars
  BY <1>5 DEF TreeInv, treeVars
<1> QED
  BY <1>1, <1>2, <1>3, <1>4, <1>5 DEF TreeNext

(* After any inserts, removes, retains and fillings of the cache the tree  *)
(* is well and holds the entries inserted and not removed.                 *)
THEOREM TreeInvHolds == TreeSpec => []TreeInv
BY TreeInvInit, TreeInductive, PTL DEF TreeSpec

(* The types of the tree, and the flag of the configuration in every item. *)
LEMMA TreeTyped == TreeInv => TreeTypeOK
<1> SUFFICES ASSUME TreeInv PROVE TreeTypeOK
  OBVIOUS
<1>1. /\ changes \in 0..MaxChange /\ tree \in ItemsOf[changes] /\ Well[tree] /\ tree.fold = ignoreCase
      /\ content \in SUBSET Entry
  BY DEF TreeInv
<1>2. tree \in Items
  BY <1>1, ItemsWithin
<1>3. ItemOK[tree]
  BY <1>1, <1>2, OKIs
<1> QED
  BY <1>1, <1>3 DEF TreeTypeOK

LEMMA TreeBranches == TreeInv => WellBranched
<1> SUFFICES ASSUME TreeInv PROVE WellBranched
  OBVIOUS
<1>1. tree \in Items /\ Well[tree] /\ Held[tree] = content
  BY ItemsWithin DEF TreeInv
<1>2. Branches[tree]
  BY <1>1, BranchesIs
<1>3. ASSUME NEW r \in Regex PROVE Got(r)[tree] = {e \in content : e.regex = r}
  BY <1>1, GotIs
<1> QED
  BY <1>2, <1>3 DEF WellBranched

LEMMA TreeCounts == TreeInv => CountsItsEntries
<1>1. SUFFICES ASSUME TreeInv PROVE CountsItsEntries
  OBVIOUS
<1>2. tree \in Items /\ Well[tree] /\ Held[tree] = content
  BY <1>1, ItemsWithin DEF TreeInv
<1>3. ItemLen[tree] = Cardinality(content)
  BY <1>2, LenIs
<1>4. PICK w : Out(w, Held[tree], ItemLen[tree]) /\ Iterated(tree) = At({}, <<>>, <<>>, w)
  BY <1>2, IteratedIs
<1>5. PICK all : all = Iterated(tree)
  OBVIOUS
<1>6. all.values = {} /\ all.children = <<>> /\ all.parents = <<>> /\ all.told = w
  BY <1>4, <1>5, Ats
<1>7. Len(all.told) = Cardinality(content) /\ ToSet(all.told) = content
  BY <1>2, <1>3, <1>4, <1>6 DEF Out
<1>8. \A u \in Word : TracedValues[Trace(u)[tree]] = Found(u)[tree]
  BY <1>2, TracedIs DEF TracedAs
<1> QED
  BY <1>3, <1>5, <1>6, <1>7, <1>8 DEF CountsItsEntries

(* The tree stays one of beginnings under one flag: what is inserted,      *)
(* removed, retained and compiled neither doubles an entry nor leaves an   *)
(* empty item or a node with one child, and len, the iterator and the      *)
(* trace tell what the answers do.                                         *)
THEOREM TreeStaysWellFormed == TreeSpec => []TreeIsWellFormed
<1>1. TreeInv => TreeIsWellFormed
  BY TreeTyped, TreeBranches, TreeCounts DEF TreeIsWellFormed
<1> QED
  BY <1>1, TreeInvHolds, PTL

(* find answers a path with every entry whose regex matches it: the common *)
(* beginning that prefix.rs cuts off hides none, where no class holds a    *)
(* parenthesis that prefix.rs would count (ClassesArePlain).               *)
THEOREM TreeFindsAll ==
  ASSUME \A r \in Regex : ClassesArePlain(r)
  PROVE  TreeSpec => []FindsAll
<1>1. TreeInv => FindsAll
  <2> SUFFICES ASSUME TreeInv, NEW w \in Word
               PROVE  Found(w)[tree] = {e \in content : LeafMatches(e.regex, ignoreCase, w)}
    BY DEF FindsAll
  <2>1. tree \in Items /\ Well[tree] /\ Held[tree] = content /\ tree.fold = ignoreCase
    BY ItemsWithin DEF TreeInv
  <2>2. Found(w)[tree] = Matching(tree, w)
    BY <2>1, FoundIs
  <2> QED
    BY <2>1, <2>2 DEF Matching
<1> QED
  BY <1>1, TreeInvHolds, PTL

(* remove takes exactly one entry, of the id it is given, if there is one, *)
(* wherever it is in the tree.                                             *)
THEOREM TreeRemovesOne == TreeSpec => RemovesOne
<1> DEFINE Good == IF \E e \in content : e.id = called'.id
                   THEN called'.value.id = called'.id /\ called'.value \in content
                   ELSE called'.value = NoEntry
<1>1. TreeInv /\ [TreeNext]_treeVars => [called'.op = "remove" /\ changes' # changes => Good]_treeVars
  <2> SUFFICES ASSUME TreeInv, TreeNext, called'.op = "remove" PROVE Good
    OBVIOUS
  <2>1. ASSUME NEW r \in Regex, NEW i \in RouteId, InsertedOnce(r, i) /\ Insert(r, i) PROVE called'.op = "insert"
    BY <2>1 DEF Insert, Call
  <2>2. ASSUME NEW i \in RouteId, RemoveId(i) PROVE Good
    BY <2>2, RemoveStep
  <2>3. ASSUME NEW ids \in SUBSET RouteId, Retain(ids) PROVE called'.op = "retain"
    BY <2>3 DEF Retain, Call
  <2>4. ASSUME NEW l \in Limit, Cache(l) \/ CacheOfRouter(l) \/ \E level \in 0..1 : CacheLevel(l, level)
        PROVE  called'.op = "cache"
    BY <2>4 DEF Cache, CacheOfRouter, CacheLevel, Filled, Call
  <2> HIDE DEF Good
  <2> QED
    BY <2>1, <2>2, <2>3, <2>4 DEF TreeNext
<1> QED
  BY <1>1, TreeInvHolds, PTL DEF TreeSpec, RemovesOne

(* Filling the cache, of one level or of all, as the tree does it or as    *)
(* the Router does, compiles as many regexes as it takes from the limit.   *)
THEOREM TreeCachesWithinLimit == TreeSpec => CacheWithinLimit
<1> DEFINE Good == CachedLen[tree'] - CachedLen[tree] = called'.used /\ called'.used >= 0
<1>1. TreeInv /\ [TreeNext]_treeVars => [called'.op = "cache" /\ changes' # changes => Good]_treeVars
  <2> SUFFICES ASSUME TreeInv, TreeNext, called'.op = "cache" PROVE Good
    OBVIOUS
  <2>1. ASSUME NEW r \in Regex, NEW i \in RouteId, InsertedOnce(r, i) /\ Insert(r, i) PROVE called'.op = "insert"
    BY <2>1 DEF Insert, Call
  <2>2. ASSUME NEW i \in RouteId, RemoveId(i) PROVE called'.op = "remove"
    BY <2>2 DEF RemoveId, Call
  <2>3. ASSUME NEW ids \in SUBSET RouteId, Retain(ids) PROVE called'.op = "retain"
    BY <2>3 DEF Retain, Call
  <2>4. ASSUME NEW l \in Limit, Cache(l) \/ CacheOfRouter(l) \/ \E level \in 0..1 : CacheLevel(l, level)
        PROVE  Good
    BY <2>4, CacheStep
  <2> HIDE DEF Good
  <2> QED
    BY <2>1, <2>2, <2>3, <2>4 DEF TreeNext
<1> QED
  BY <1>1, TreeInvHolds, PTL DEF TreeSpec, CacheWithinLimit

=============================================================================
