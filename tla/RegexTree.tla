------------------------------ MODULE RegexTree ------------------------------
(***************************************************************************)
(* The radix tree of regexes (patches/redirectionio/src/regex_radix_tree)  *)
(* in which the engine keeps the routes whose path or host holds a marker. *)
(* An inner node holds the common beginning of the regexes below it; a     *)
(* request goes down only where that beginning, as a regex of its own,     *)
(* matches.                                                                *)
(*                                                                         *)
(* A regex is a sequence of characters.  The regex crate is external: its  *)
(* Language is given for literals, escapes, groups and classes, which is   *)
(* what the cutting of a regex into a beginning and a rest depends on.     *)
(* A group is written without its "?:".                                    *)
(***************************************************************************)
EXTENDS Integers, FiniteSets, SequencesExt

CONSTANTS
  Regex,      \* the regexes of the routes
  RouteId,    \* ids of routes
  Word,       \* the paths (or hosts) asked for
  Lower,      \* the lower case of each character
  WideChar,   \* the characters that take two bytes
  Limit,      \* the limits with which the cache is filled
  MaxChange   \* bound: number of operations

ASSUME TreeAssumption ==
  /\ \A r \in Regex : r = [i \in 1..Len(r) |-> r[i]] /\ Len(r) \in Nat
  /\ "none" \notin RouteId
  /\ Limit \subseteq Nat /\ MaxChange \in Nat

VARIABLES
  tree,      \* RegexTreeMap::root
  ignoreCase,\* RouterConfig: ignore_path_and_query_case or ignore_host_case
  content,   \* history: the entries inserted and not removed
  called,    \* the last operation, what it returned and what it was asked
  changes    \* number of operations so far

treeVars == <<tree, ignoreCase, content, called, changes>>

Entry == [regex : Regex, id : RouteId]
NoEntry == [regex |-> <<>>, id |-> "none"]

----------------------------------------------------------------------------
(* The regex crate, as far as these regexes use it.                        *)

NoClass == {"no class"}

Extended(words, chars) == {Append(w, c) : w \in words, c \in chars}

(* One character more, after the words that were read, some groups and     *)
(* perhaps a class or an escape being open.  No word: it is no regex.      *)
Reads(state, c) ==
  LET plain == [state EXCEPT !.escape = FALSE]
      open == state.class # NoClass
  IN CASE state.escape /\ open -> [plain EXCEPT !.class = @ \cup {c}]
       [] state.escape /\ ~open -> [plain EXCEPT !.words = Extended(@, {c})]
       [] ~state.escape /\ c = "\\" -> [state EXCEPT !.escape = TRUE]
       [] ~state.escape /\ open /\ c = "]" ->
            [state EXCEPT !.words = Extended(@, state.class), !.class = NoClass]
       [] ~state.escape /\ open /\ c \notin {"\\", "]"} -> [state EXCEPT !.class = @ \cup {c}]
       [] ~state.escape /\ ~open /\ c = "[" -> [state EXCEPT !.class = {}]
       [] ~state.escape /\ ~open /\ c = "(" -> [state EXCEPT !.depth = @ + 1]
       [] ~state.escape /\ ~open /\ c = ")" ->
            [state EXCEPT !.depth = @ - 1, !.words = IF state.depth = 0 THEN {} ELSE @]
       [] OTHER -> [state EXCEPT !.words = Extended(@, {c})]

(* What the regex r has been read to after i characters.                   *)
Reading(r) ==
  LET state[i \in 0..Len(r)] ==
        IF i = 0 THEN [words |-> {<<>>}, depth |-> 0, class |-> NoClass, escape |-> FALSE]
        ELSE Reads(state[i - 1], r[i])
  IN state

(* The words that r stands for: none when it is not a regex.               *)
LanguageOf(r) ==
  LET all == Reading(r)[Len(r)]
  IN IF all.depth = 0 /\ all.class = NoClass /\ ~all.escape THEN all.words ELSE {}

(* Of every regex and of every beginning of one: computed once.            *)
Beginnings == UNION {{SubSeq(r, 1, i) : i \in 0..Len(r)} : r \in Regex}
Language == [r \in Beginnings |-> LanguageOf(r)]

(* MarkerString::new escapes the text of a route and puts a marker into it *)
(* as a group (marker/mod.rs:48, 55): a class is in a group.  What is in   *)
(* it is up to the marker: here no parenthesis that is not escaped.        *)
ClassesArePlain(r) ==
  \A i \in 1..Len(r) :
    LET before == Reading(r)[i - 1]
    IN ~before.escape => /\ before.class # NoClass => r[i] \notin {"(", ")"}
                         /\ before.class = NoClass /\ r[i] = "[" => before.depth > 0

Folded(word, fold) == IF fold THEN [i \in DOMAIN word |-> Lower[word[i]]] ELSE word

(* "^regex$" matches the word; ".*", or "^regex", matches it.              *)
MatchTable ==
  [r \in Beginnings |-> [fold \in BOOLEAN |->
     [leaf |-> {word \in Word : \E w \in Language[r] :
                  Folded(w, fold) = Folded(word, fold)},
      node |-> {word \in Word : r = <<>> \/ \E w \in Language[r] :
                  IsPrefix(Folded(w, fold), Folded(word, fold))}]]]
LeafMatches(regex, fold, word) == word \in MatchTable[regex][fold].leaf
NodeMatches(regex, fold, word) == word \in MatchTable[regex][fold].node

----------------------------------------------------------------------------
(* Where two regexes may be cut: prefix.rs.                                *)

(* Depth of the open groups and a pending backslash after i characters.    *)
Scan(s) ==
  LET state[i \in 0..Len(s)] ==
        IF i = 0 THEN [level |-> 0, escape |-> FALSE]
        ELSE LET before == state[i - 1]
             IN [level |-> IF before.escape THEN before.level
                           ELSE before.level + (IF s[i] = "(" THEN 1 ELSE 0)
                                             - (IF s[i] = ")" THEN 1 ELSE 0),
                 escape |-> s[i] = "\\" /\ ~before.escape]
  IN state

(* How many characters two regexes have in common.                         *)
Common(left, right) ==
  {i \in DOMAIN left \cap DOMAIN right : SubSeq(left, 1, i) = SubSeq(right, 1, i)}

(* A mutant: a backslash may end the common beginning.                     *)
CommonPrefixSizeInEscape(left, right) ==
  LET state == Scan(left) IN Max({0} \cup {i \in Common(left, right) : state[i].level = 0})

CommonPrefixSize(left, right) ==
  LET state == Scan(left)
  IN Max({0} \cup {i \in Common(left, right) : state[i].level = 0 /\ ~state[i].escape})

(* String::len counts bytes.                                               *)
ByteLen(s) == Len(s) + Cardinality({i \in DOMAIN s : s[i] \in WideChar})

----------------------------------------------------------------------------
(* Items.                                                                  *)

(* Those of at most d nodes one below the other.  An insertion adds at     *)
(* most one to them, so MaxChange is a bound.                              *)
ItemsOf[d \in 0..MaxChange] ==
  [kind : {"empty"}, fold : BOOLEAN]
    \cup [kind : {"leaf"}, regex : Regex, ids : SUBSET RouteId, compiled : BOOLEAN, fold : BOOLEAN]
    \cup [kind : {"node"}, regex : Beginnings, children : Seq(IF d = 0 THEN {} ELSE ItemsOf[d - 1]),
          compiled : BOOLEAN, fold : BOOLEAN]

Items == ItemsOf[MaxChange]

Empty(fold) == [kind |-> "empty", fold |-> fold]
Leaf(regex, ids, fold) ==
  [kind |-> "leaf", regex |-> regex, ids |-> ids, compiled |-> FALSE, fold |-> fold]
Node(regex, children, fold) ==
  [kind |-> "node", regex |-> regex, children |-> children, compiled |-> FALSE,
   fold |-> fold]

RegexOf(item) == IF item.kind = "empty" THEN <<>> ELSE item.regex

LeafInsert(leaf, regex, id) ==
  IF regex = leaf.regex
  THEN [leaf EXCEPT !.ids = @ \cup {id}]
  ELSE Node(SubSeq(regex, 1, CommonPrefixSize(leaf.regex, regex)),
            <<leaf, Leaf(regex, {id}, leaf.fold)>>, leaf.fold)

PutBack(children, i, item) == Append(RemoveAt(children, i), item)

(* The children with which the regex has more in common than the whole of  *)
(* the node's, and of those the ones with which it has most.               *)
Nearest(node, regex) ==
  LET shared == [i \in DOMAIN node.children |->
                   CommonPrefixSize(regex, RegexOf(node.children[i]))]
      longer == {i \in DOMAIN shared : shared[i] > ByteLen(node.regex)}
  IN {i \in longer : \A j \in longer : shared[j] <= shared[i]}

(* insert: of a node, below, the results of its children.                  *)
NodeInsert(node, below, regex, id) ==
  LET size == CommonPrefixSize(regex, node.regex)
      new == Leaf(regex, {id}, node.fold)
      nearest == Nearest(node, regex)
  IN IF size < ByteLen(node.regex)
     THEN Node(SubSeq(node.regex, 1, size), <<new, node>>, node.fold)
     ELSE IF nearest = {}
     THEN [node EXCEPT !.children = Append(@, new)]
     ELSE [node EXCEPT !.children = PutBack(@, Min(nearest), below[Min(nearest)])]

Insertion(regex, id) ==
  LET insert[item \in Items] ==
        CASE item.kind = "empty" -> Leaf(regex, {id}, item.fold)
          [] item.kind = "leaf"  -> LeafInsert(item, regex, id)
          [] OTHER ->
               NodeInsert(item, [i \in DOMAIN item.children |-> insert[item.children[i]]], regex, id)
  IN insert

(* The first n of some numbers, added up.                                  *)
Total(numbers) ==
  LET total[n \in 0..Len(numbers)] == IF n = 0 THEN 0 ELSE total[n - 1] + numbers[n]
  IN total[Len(numbers)]

ItemLen[item \in Items] ==
  CASE item.kind = "empty" -> 0
    [] item.kind = "leaf"  -> Cardinality(item.ids)
    [] OTHER -> Total([i \in DOMAIN item.children |-> ItemLen[item.children[i]]])

IsEmptyItem(item) == ItemLen[item] = 0

EntriesOf(leaf) == {[regex |-> leaf.regex, id |-> i] : i \in leaf.ids}

(* find: down the nodes whose beginning matches.                           *)
Found(word) ==
  LET find[item \in Items] ==
        CASE item.kind = "empty" -> {}
          [] item.kind = "leaf"  ->
               IF LeafMatches(item.regex, item.fold, word) THEN EntriesOf(item) ELSE {}
          [] OTHER ->
               IF NodeMatches(item.regex, item.fold, word)
               THEN UNION {find[item.children[i]] : i \in DOMAIN item.children} ELSE {}
  IN find

(* get and get_mut: down the nodes the text of the regex begins with.      *)
Got(regex) ==
  LET get[item \in Items] ==
        CASE item.kind = "empty" -> {}
          [] item.kind = "leaf"  -> IF item.regex = regex THEN EntriesOf(item) ELSE {}
          [] OTHER ->
               IF IsPrefix(item.regex, regex)
               THEN UNION {get[item.children[i]] : i \in DOMAIN item.children} ELSE {}
  IN get

(* A mutant: a node left with one child stays.                             *)
CollapsedNever(node, children) == [node EXCEPT !.children = children]

(* A node left with one child gives way to it.                             *)
Collapsed(node, children) ==
  IF Len(children) = 1 THEN children[1] ELSE [node EXCEPT !.children = children]

LeafWithout(leaf, ids) ==
  IF leaf.ids \subseteq ids THEN Empty(leaf.fold) ELSE [leaf EXCEPT !.ids = @ \ ids]

LeafRemoval(leaf, id) ==
  [item |-> LeafWithout(leaf, {id}),
   value |-> IF id \in leaf.ids THEN [regex |-> leaf.regex, id |-> id] ELSE NoEntry]

(* A mutant: only the first child is asked.                                *)
HoldingFirst(results) == {i \in {1} : results[i].value # NoEntry}

Holding(results) == {i \in DOMAIN results : results[i].value # NoEntry}

(* Those that are not empty.                                               *)
NotEmpty(items) ==
  LET first[n \in 0..Len(items)] ==
        IF n = 0 THEN <<>>
        ELSE IF IsEmptyItem(items[n]) THEN first[n - 1] ELSE Append(first[n - 1], items[n])
  IN first[Len(items)]

(* remove: the first child, from left to right, that holds the id loses    *)
(* it; the others stay as they are.                                        *)
NodeRemoval(node, results) ==
  LET holding == Holding(results)
      children == IF holding = {} THEN node.children
                  ELSE [node.children EXCEPT ![Min(holding)] = results[Min(holding)].item]
  IN [item |-> Collapsed(node, NotEmpty(children)),
      value |-> IF holding = {} THEN NoEntry ELSE results[Min(holding)].value]

Removal(id) ==
  LET remove[item \in Items] ==
        CASE item.kind = "empty" -> [item |-> item, value |-> NoEntry]
          [] item.kind = "leaf"  -> LeafRemoval(item, id)
          [] OTHER ->
               NodeRemoval(item, [i \in DOMAIN item.children |-> remove[item.children[i]]])
  IN remove

(* retain: every entry whose id is not to go stays.                        *)
NodeRetained(node, results) ==
  LET children == NotEmpty(results)
  IN IF children = <<>> THEN Empty(node.fold) ELSE Collapsed(node, children)

Retained(ids) ==
  LET retain[item \in Items] ==
        CASE item.kind = "empty" -> item
          [] item.kind = "leaf"  -> LeafWithout(item, ids)
          [] OTHER ->
               NodeRetained(item, [i \in DOMAIN item.children |-> retain[item.children[i]]])
  IN retain

----------------------------------------------------------------------------
(* The cache of compiled regexes.                                          *)

(* A mutant: what is compiled already is compiled, and counted, again.     *)
CompilesAgain(item) == item.regex = <<>> \/ Language[item.regex] # {}

(* LazyRegex::compile: what is no regex stays as it is.  The beginning of  *)
(* no character is ".*".                                                   *)
Compiles(item) == ~item.compiled /\ (item.regex = <<>> \/ Language[item.regex] # {})

(* A level of the tree, with "left" compilations to go: an item on it.     *)
CacheSelf(item, left) ==
  LET now == item.kind # "empty" /\ Compiles(item)
  IN [item |-> IF now THEN [item EXCEPT !.compiled = TRUE] ELSE item,
      left |-> IF now THEN left - 1 ELSE left]

(* The children of a node above it, one after the other.                   *)
CacheBelow(node, caches, left, level) ==
  LET after[n \in 0..Len(node.children)] ==
        IF n = 0 THEN [left |-> left, done |-> <<>>]
        ELSE LET before == after[n - 1]
                 c == caches[n][before.left][level]
             IN [left |-> c.left, done |-> Append(before.done, c.item)]
      all == after[Len(node.children)]
  IN [item |-> [node EXCEPT !.children = all.done], left |-> all.left]

CacheAt(item, caches, left, level) ==
  CASE left = 0 -> [item |-> item, left |-> left]
    [] left > 0 /\ level = 0 -> CacheSelf(item, left)
    [] left > 0 /\ level > 0 /\ item.kind = "node" -> CacheBelow(item, caches, left, level - 1)
    [] OTHER -> [item |-> item, left |-> left]

(* By what is left, and how far below the item the level is.               *)
CacheItem[item \in Items] ==
  LET caches == [i \in DOMAIN item.children |-> CacheItem[item.children[i]]]
  IN [left \in Nat |-> [level \in Nat |-> CacheAt(item, caches, left, level)]]

(* RegexTreeMap::cache without a level: level by level until nothing is    *)
(* left or a level adds nothing, which is after "limit" levels at most.    *)
CacheLevels(item, limit) ==
  LET level(before, n) ==
        LET one == CacheItem[before.item][before.left][n]
        IN IF before.over THEN before
           ELSE [item |-> one.item, left |-> one.left, over |-> one.left = before.left]
      after[n \in 0..limit] ==
        IF n = 0 THEN [item |-> item, left |-> limit, over |-> FALSE] ELSE level(after[n - 1], n - 1)
  IN after[limit]

(* Router::cache, over this one tree: levels that add nothing are passed   *)
(* over, six times at most.                                                *)
CacheRouter(item, limit) ==
  LET level(before, n) ==
        LET one == CacheItem[before.item][before.left][n]
        IN IF before.retry > 5 THEN before
           ELSE [item |-> one.item, left |-> one.left,
                 retry |-> IF one.left = before.left THEN before.retry + 1 ELSE before.retry]
      after[n \in 0..(limit + 6)] ==
        IF n = 0 THEN [item |-> item, left |-> limit, retry |-> 0] ELSE level(after[n - 1], n - 1)
  IN after[limit + 6]

CachedLen[item \in Items] ==
  IF item.kind = "empty" THEN 0
  ELSE (IF item.compiled THEN 1 ELSE 0) +
       (IF item.kind = "leaf" THEN 0
        ELSE Total([i \in DOMAIN item.children |-> CachedLen[item.children[i]]]))

----------------------------------------------------------------------------
(* What the tree shows of itself.                                          *)

(* trace: the values of the leaves it reports as matched.                  *)
TracesOf[d \in 0..MaxChange] ==
  [matched : BOOLEAN, count : Nat, values : SUBSET [regex : Regex, id : RouteId],
   children : Seq(IF d = 0 THEN {} ELSE TracesOf[d - 1])]

Traces == TracesOf[MaxChange]

Trace(word) ==
  LET trace[item \in Items] ==
        CASE item.kind = "empty" ->
               [matched |-> TRUE, count |-> 0, children |-> <<>>, values |-> {}]
          [] item.kind = "leaf"  ->
               [matched |-> LeafMatches(item.regex, item.fold, word),
                count |-> Cardinality(item.ids), children |-> <<>>, values |-> EntriesOf(item)]
          [] OTHER ->
               LET matched == NodeMatches(item.regex, item.fold, word)
               IN [matched |-> matched, count |-> ItemLen[item], values |-> {},
                   children |-> IF matched THEN [i \in DOMAIN item.children |-> trace[item.children[i]]]
                                           ELSE <<>>]
  IN trace

TracedValues[trace \in Traces] ==
  (IF trace.matched THEN trace.values ELSE {})
    \cup UNION {TracedValues[trace.children[i]] : i \in DOMAIN trace.children}

(* ItemIter: the values of the leaf it is in, the items still to visit,    *)
(* and those of the iterators to come back to; and what next() told.       *)
At(values, children, parents, told) ==
  [values |-> values, children |-> children, parents |-> parents, told |-> told]

Iterator(item) == At({}, <<item>>, <<>>, <<>>)

(* A turn of next(): it goes on with another turn until a value is told.   *)
Turn(it) ==
  LET v == CHOOSE v \in it.values : TRUE
      c == Head(it.children)
      rest == Tail(it.children)
  IN CASE it.values # {} -> At(it.values \ {v}, it.children, it.parents, Append(it.told, v))
       [] it.values = {} /\ it.children = <<>> /\ it.parents = <<>> -> it
       [] it.values = {} /\ it.children = <<>> /\ it.parents # <<>> ->
            At({}, Head(it.parents), Tail(it.parents), it.told)
       [] OTHER ->
            CASE c.kind = "empty" -> At({}, rest, it.parents, it.told)
              [] c.kind = "leaf"  -> At(EntriesOf(c), rest, it.parents, it.told)
              [] OTHER -> At({}, c.children, <<rest>> \o it.parents, it.told)

(* The turns an item takes: down to it, its values, back from below it.    *)
TurnsOf[item \in Items] ==
  CASE item.kind = "empty" -> 1
    [] item.kind = "leaf"  -> 1 + Cardinality(item.ids)
    [] OTHER -> 2 + Total([i \in DOMAIN item.children |-> TurnsOf[item.children[i]]])

(* The iterator after them.                                                *)
Iterated(item) ==
  LET turn[n \in 0..TurnsOf[item]] == IF n = 0 THEN Iterator(item) ELSE Turn(turn[n - 1])
  IN turn[TurnsOf[item]]

----------------------------------------------------------------------------
TreeInit ==
  /\ ignoreCase \in BOOLEAN
  /\ tree = Empty(ignoreCase)
  /\ content = {}
  /\ called = [op |-> "new", id |-> "none", value |-> NoEntry, used |-> 0]
  /\ changes = 0

Call(op, id, value, used) ==
  /\ changes < MaxChange
  /\ changes' = changes + 1
  /\ called' = [op |-> op, id |-> id, value |-> value, used |-> used]
  /\ UNCHANGED ignoreCase

Insert(regex, id) ==
  /\ Call("insert", id, NoEntry, 0)
  /\ tree' = Insertion(regex, id)[tree]
  /\ content' = content \cup {[regex |-> regex, id |-> id]}

RemoveId(id) ==
  LET result == Removal(id)[tree]
  IN /\ Call("remove", id, result.value, 0)
     /\ tree' = result.item
     /\ content' = content \ {result.value}

Retain(ids) ==
  /\ Call("retain", "none", NoEntry, 0)
  /\ tree' = Retained(ids)[tree]
  /\ content' = {e \in content : e.id \notin ids}

Filled(result, limit) ==
  /\ Call("cache", "none", NoEntry, limit - result.left)
  /\ tree' = result.item
  /\ UNCHANGED content

Cache(limit) == Filled(CacheLevels(tree, limit), limit)
CacheLevel(limit, level) == Filled(CacheItem[tree][limit][level], limit)
CacheOfRouter(limit) == Filled(CacheRouter(tree, limit), limit)

(* The router inserts an entry of a route once.  Inserted again, one whose *)
(* regex is the beginning of another would not replace itself: NodeInsert  *)
(* looks for a child with more in common than the node, and adds a leaf.   *)
InsertedOnce(regex, id) == [regex |-> regex, id |-> id] \notin content

TreeNext ==
  \/ \E r \in Regex, i \in RouteId : InsertedOnce(r, i) /\ Insert(r, i)
  \/ \E i \in RouteId : RemoveId(i)
  \/ \E ids \in SUBSET RouteId : Retain(ids)
  \/ \E l \in Limit : Cache(l) \/ CacheOfRouter(l)
  \/ \E l \in Limit, level \in 0..1 : CacheLevel(l, level)

TreeSpec == TreeInit /\ [][TreeNext]_treeVars

----------------------------------------------------------------------------
(* Properties.                                                             *)

ItemOK[item \in Items] ==
  /\ item.fold = ignoreCase
  /\ item.kind = "leaf" => item.ids # {}
  /\ item.kind = "node" => \A i \in DOMAIN item.children : ItemOK[item.children[i]]

(* The types of the tree's state; the flag of the configuration is that of *)
(* every item, through every operation that puts a new item in the place   *)
(* of another.                                                             *)
TreeTypeOK ==
  /\ tree \in ItemsOf[changes] /\ ItemOK[tree]
  /\ content \in SUBSET Entry
  /\ changes \in 0..MaxChange

(* A path is answered with every entry whose regex matches it, whatever    *)
(* was inserted, removed, retained and compiled before: the beginning a    *)
(* node holds never hides an entry below it.                               *)
FindsAll ==
  \A w \in Word :
    Found(w)[tree] = {e \in content : LeafMatches(e.regex, ignoreCase, w)}

(* The nodes stay a tree of beginnings: each has two children at least,    *)
(* none of them empty, all of them beginning with what the node holds, so  *)
(* get and get_mut find a regex by its text.                               *)
Branches[item \in Items] ==
  item.kind = "node" =>
    /\ Len(item.children) >= 2
    /\ \A i \in DOMAIN item.children :
         /\ ~IsEmptyItem(item.children[i]) /\ IsPrefix(item.regex, RegexOf(item.children[i]))
         /\ Branches[item.children[i]]

WellBranched ==
  /\ Branches[tree]
  /\ \A r \in Regex : Got(r)[tree] = {e \in content : e.regex = r}

(* No entry is there twice: len, the iterator and the trace of a request   *)
(* all tell the same entries as the answers do.                            *)
CountsItsEntries ==
  LET all == Iterated(tree)
  IN /\ ItemLen[tree] = Cardinality(content)
     /\ all.values = {} /\ all.children = <<>> /\ all.parents = <<>>
     /\ Len(all.told) = Cardinality(content) /\ ToSet(all.told) = content
     /\ \A w \in Word : TracedValues[Trace(w)[tree]] = Found(w)[tree]

(* The tree is one of beginnings, under one flag, without an entry twice,  *)
(* after any sequence of operations: what all of them rely on.             *)
TreeIsWellFormed == TreeTypeOK /\ WellBranched /\ CountsItsEntries

(* remove takes exactly one entry, of the id it is given, whenever there   *)
(* is one.                                                                 *)
RemovesOne ==
  [][called'.op = "remove" /\ changes' # changes =>
       IF \E e \in content : e.id = called'.id
       THEN called'.value.id = called'.id /\ called'.value \in content
       ELSE called'.value = NoEntry]_treeVars

(* Filling the cache compiles exactly as many regexes as it counts against *)
(* the limit, so the next tree gets what is left and never more.           *)
CacheWithinLimit ==
  [][called'.op = "cache" /\ changes' # changes =>
       CachedLen[tree'] - CachedLen[tree] = called'.used /\ called'.used >= 0]_treeVars
============================================================================
