----------------------------- MODULE Loops_proofs -----------------------------
(***************************************************************************)
(* Theorems about four parts that go on, turn by turn: until they meet     *)
(* what they look for, from one rule or from one Router to the next.       *)
(*                                                                         *)
(* Conditions: for any finite set of rules, of any number of conditions    *)
(* that they share or not, and any request, the loops over the groups find *)
(* what the conjunction of its conditions says of each rule.  A loop       *)
(* starts in a set of states and stays in it (Iterates); that a memo holds *)
(* no result but that of its condition is in the set.                      *)
(*                                                                         *)
(* Loops: for any answers of the rules, the report on redirections is what *)
(* a client sees.  Every hop leads to the next (ChainInv), so the client   *)
(* is at each of them; it meets a place twice, or not more of them than    *)
(* there are.                                                              *)
(*                                                                         *)
(* Answer: taking any rules one by one comes to the decision of Redirects, *)
(* with any ranks, resets, stops and draws.                                *)
(*                                                                         *)
(* Requests: whatever configurations a request meets, one after the other, *)
(* it is rewritten as if it met only the last.  What is kept of it is the  *)
(* text that was received (RequestsInv).  No parameter is lost, rewriting  *)
(* again changes nothing, and a rule meets a request that has the same     *)
(* parameters: a query that is written and read has the parameters it had, *)
(* but for the one that is written as nothing (RoundTrip), and in order    *)
(* they depend on their set only (SameFunction).                           *)
(***************************************************************************)
EXTENDS Answer, Conditions, Loops, Requests, FiniteSetTheorems, WellFoundedInduction, TLAPS

(* Induction over the turns of a loop.                                     *)
LEMMA Turns ==
  ASSUME NEW N \in Nat, NEW S, 0 \in S,
         \A n \in 1..N : n - 1 \in S => n \in S
  PROVE  0..N \subseteq S
<1>1. SUFFICES ASSUME ~ (0..N \subseteq S) PROVE FALSE
  OBVIOUS
<1> DEFINE T == {n \in 0..N : n \notin S}
           R == OpToRel(<, Nat)
<1>2. \A a, b \in Nat : a < b => <<a, b>> \in R
  <2>1. \A a, b \in Nat : (a < b) => <<a, b>> \in {ss \in Nat \X Nat : ss[1] < ss[2]}
    OBVIOUS
  <2> QED
    BY <2>1, Zenon DEF OpToRel
<1>3. IsWellFoundedOn(R, Nat)
  BY NatLessThanWellFounded, Zenon
<1>4. T \subseteq Nat /\ T # {}
  BY <1>1
<1> HIDE DEF R
<1>5. PICK m \in T : \A k \in T : <<k, m>> \notin R
  BY <1>3, <1>4, WFMin, Zenon
<1>6. m \in 1..N /\ m - 1 \in 0..N
  BY <1>5
<1>7. <<m - 1, m>> \in R
  <2>1. m - 1 \in Nat /\ m \in Nat /\ m - 1 < m
    BY <1>6
  <2> QED
    BY <2>1, <1>2, Zenon
<1>8. m - 1 \in S
  BY <1>5, <1>6, <1>7
<1> QED
  BY <1>5, <1>6, <1>8

(* A loop of N turns, each a function of the state before, has one course. *)
Course(N, b, F, f) ==
  f = [n \in 0..N |-> IF n = 0 THEN b ELSE F[n][f[n - 1]]]

LEMMA Iterates ==
  ASSUME NEW N \in Nat, NEW S, NEW b \in S, NEW F \in [1..N -> [S -> S]]
  PROVE  \E f \in [0..N -> S] : Course(N, b, F, f)
<1> DEFINE T == {n \in 0..N : \E f \in [0..n -> S] : Course(n, b, F, f)}
<1>1. 0 \in T
  <2> DEFINE f == [n \in 0..0 |-> b]
  <2>1. f \in [0..0 -> S] /\ Course(0, b, F, f)
    BY DEF Course
  <2> QED
    BY <2>1
<1>2. ASSUME NEW n \in 1..N, n - 1 \in T PROVE n \in T
  <2>1. PICK g \in [0..(n - 1) -> S] : Course(n - 1, b, F, g)
    BY <1>2
  <2>2. n - 1 \in 0..(n - 1) /\ g[n - 1] \in S /\ F[n] \in [S -> S] /\ F[n][g[n - 1]] \in S
    BY <2>1
  <2> DEFINE f == [k \in 0..n |-> IF k = n THEN F[n][g[n - 1]] ELSE g[k]]
  <2>3. f \in [0..n -> S]
    BY <2>2
  <2>4. ASSUME NEW k \in 0..n PROVE f[k] = IF k = 0 THEN b ELSE F[k][f[k - 1]]
    <3>1. \A i \in 0..(n - 1) : g[i] = IF i = 0 THEN b ELSE F[i][g[i - 1]]
      BY <2>1 DEF Course
    <3>2. CASE k = n
      BY <2>2, <3>2
    <3>3. CASE k # n
      <4>1. k \in 0..(n - 1) /\ f[k] = g[k] /\ (k # 0 => f[k - 1] = g[k - 1])
        BY <3>3
      <4> QED
        BY <3>1, <4>1
    <3> QED
      BY <3>2, <3>3
  <2>5. Course(n, b, F, f)
    <3> HIDE DEF f
    <3> QED
      BY <2>3, <2>4 DEF Course
  <2> QED
    BY <2>3, <2>5
<1>3. 0..N \subseteq T
  <2> HIDE DEF T
  <2> QED
    BY <1>1, <1>2, Turns
<1> QED
  BY <1>3

(* The sequence of a finite set has its elements.                          *)
LEMMA SetToSeqLists ==
  ASSUME NEW S, IsFiniteSet(S)
  PROVE  /\ Len(SetToSeq(S)) \in Nat
         /\ SetToSeq(S) \in [1..Len(SetToSeq(S)) -> S]
         /\ \A x \in S : \E n \in 1..Len(SetToSeq(S)) : SetToSeq(S)[n] = x
<1> DEFINE N == Cardinality(S)
           f == SetToSeq(S)
<1>1. N \in Nat /\ ExistsBijection(1..N, S)
  BY FS_CardinalityType
<1>2. \E g \in [1..N -> S] : IsInjective(g)
  BY <1>1 DEF ExistsBijection, Bijection, Injection
<1>3. f \in [1..N -> S] /\ IsInjective(f)
  BY <1>2 DEF SetToSeq
<1>4. f \in Injection(1..N, S) /\ IsFiniteSet(1..N) /\ Cardinality(1..N) = N
  BY <1>1, <1>3, FS_Interval DEF Injection
<1>5. f \in Surjection(1..N, S)
  BY <1>4, FS_Injection
<1>6. Len(f) = N
  BY <1>1, <1>3
<1> QED
  BY <1>1, <1>3, <1>5, <1>6 DEF Surjection

----------------------------------------------------------------------------
(* What is kept of the conditions in C.                                    *)

Memos(C, q) == {[c \in D |-> Holds(c, q)] : D \in SUBSET C}

LEMMA HoldsType ==
  ASSUME NEW c, NEW q
  PROVE  Holds(c, q) \in BOOLEAN
BY DEF Holds, MatchDate, MatchHeader

LEMMA MemoIsTrue ==
  ASSUME NEW C, NEW q, NEW memo \in Memos(C, q), NEW c \in C
  PROVE  /\ Result(c, memo, q) = Holds(c, q)
         /\ Keep(memo, c, Holds(c, q)) \in Memos(C, q)
<1>1. PICK D \in SUBSET C : memo = [d \in D |-> Holds(d, q)]
  BY DEF Memos
<1>2. Result(c, memo, q) = Holds(c, q)
  BY <1>1, Zenon DEF Result
<1>3. Keep(memo, c, Holds(c, q)) = [d \in D \cup {c} |-> Holds(d, q)]
  BY <1>1, Zenon DEF Keep
<1>4. D \cup {c} \in SUBSET C
  OBVIOUS
<1> QED
  BY <1>2, <1>3, <1>4, Zenon DEF Memos

LEMMA EmptyMemo ==
  ASSUME NEW C, NEW q
  PROVE  <<>> \in Memos(C, q)
<1>1. <<>> = [c \in {} |-> Holds(c, q)]
  OBVIOUS
<1> QED
  BY <1>1 DEF Memos

----------------------------------------------------------------------------
(* match_request: one condition, the conditions of a group, the groups.    *)

Asking(C, q) == [met : BOOLEAN, memo : Memos(C, q)]

LEMMA AskIs ==
  ASSUME NEW C, NEW q, NEW s \in Asking(C, q), NEW c \in C
  PROVE  /\ Ask(s, c, q) \in Asking(C, q)
         /\ Ask(s, c, q).met <=> s.met /\ Holds(c, q)
<1>1. s.memo \in Memos(C, q) /\ s.met \in BOOLEAN
  BY DEF Asking
<1>2. Result(c, s.memo, q) = Holds(c, q) /\ Keep(s.memo, c, Holds(c, q)) \in Memos(C, q)
  BY <1>1, MemoIsTrue
<1>3. Holds(c, q) \in BOOLEAN
  BY HoldsType
<1>4. Ask(s, c, q) = IF s.met THEN [met |-> Holds(c, q), memo |-> Keep(s.memo, c, Holds(c, q))] ELSE s
  BY <1>2 DEF Ask
<1> QED
  BY <1>1, <1>2, <1>3, <1>4 DEF Asking

LEMMA AskGroupIs ==
  ASSUME NEW C, NEW q, NEW memo \in Memos(C, q), NEW group \in SUBSET C, IsFiniteSet(group)
  PROVE  /\ AskGroup(group, memo, q) \in Asking(C, q)
         /\ AskGroup(group, memo, q).met <=> \A c \in group : Holds(c, q)
<1> DEFINE cs == SetToSeq(group)
           N == Len(cs)
           b == [met |-> TRUE, memo |-> memo]
           F == [n \in 1..N |-> [s \in Asking(C, q) |-> Ask(s, cs[n], q)]]
           Is(f) == f = [n \in 0..N |-> IF n = 0 THEN b ELSE Ask(f[n - 1], cs[n], q)]
           after == CHOOSE f : Is(f)
<1>1. /\ N \in Nat /\ cs \in [1..N -> group]
      /\ \A c \in group : \E n \in 1..N : cs[n] = c
  BY SetToSeqLists
<1> HIDE DEF cs, N
<1>2. b \in Asking(C, q)
  BY DEF Asking
<1>3. F \in [1..N -> [Asking(C, q) -> Asking(C, q)]]
  <2>1. \A n \in 1..N : cs[n] \in C
    BY <1>1
  <2> QED
    BY <2>1, AskIs
<1>4. PICK f \in [0..N -> Asking(C, q)] : Course(N, b, F, f)
  <2> HIDE DEF F, b
  <2> QED
    BY <1>1, <1>2, <1>3, Iterates
<1>5. Is(f)
  <2>1. \A n \in 1..N : n - 1 \in 0..N /\ f[n - 1] \in Asking(C, q)
    BY <1>1, <1>4
  <2>2. \A n \in 1..N : F[n][f[n - 1]] = Ask(f[n - 1], cs[n], q)
    BY <2>1
  <2> HIDE DEF F, b
  <2>3. \A n \in 0..N : f[n] = IF n = 0 THEN b ELSE F[n][f[n - 1]]
    BY <1>4, Zenon DEF Course
  <2>4. \A n \in 0..N : n = 0 \/ n \in 1..N
    BY <1>1
  <2>5. \A n \in 0..N : f[n] = IF n = 0 THEN b ELSE Ask(f[n - 1], cs[n], q)
    BY <2>2, <2>3, <2>4, Zenon
  <2> QED
    BY <1>4, <2>5
<1>6. Is(after)
  <2> HIDE DEF Is
  <2> QED
    BY <1>5
<1>7. AskGroup(group, memo, q) = after[N]
  BY Zenon DEF AskGroup, after, cs, N
<1> HIDE DEF after
<1> DEFINE T == {n \in 0..N : /\ after[n] \in Asking(C, q)
                              /\ after[n].met <=> \A k \in 1..n : Holds(cs[k], q)}
<1>8. \A n \in 0..N : after[n] = IF n = 0 THEN b ELSE Ask(after[n - 1], cs[n], q)
  BY <1>1, <1>6
<1> HIDE DEF Is
<1>9. b.met
  OBVIOUS
<1> HIDE DEF b, F
<1>10. 0 \in T
  <2>1. 0 \in 0..N
    BY <1>1
  <2>2. after[0] = b
    BY <1>8, <2>1
  <2>3. \A k \in 1..0 : Holds(cs[k], q)
    OBVIOUS
  <2> QED
    BY <1>2, <1>9, <2>1, <2>2, <2>3
<1>11. ASSUME NEW n \in 1..N, n - 1 \in T PROVE n \in T
  <2>1. n \in 0..N /\ n - 1 \in 0..N /\ cs[n] \in C /\ after[n] = Ask(after[n - 1], cs[n], q)
    BY <1>1, <1>8
  <2>2. after[n] \in Asking(C, q) /\ (after[n].met <=> after[n - 1].met /\ Holds(cs[n], q))
    BY <1>11, <2>1, AskIs
  <2>3. \A k : k \in 1..n <=> k \in 1..(n - 1) \/ k = n
    BY <1>1
  <2>4. after[n - 1].met <=> \A k \in 1..(n - 1) : Holds(cs[k], q)
    BY <1>11
  <2>5. after[n].met <=> \A k \in 1..n : Holds(cs[k], q)
    BY <2>2, <2>3, <2>4, Zenon
  <2> QED
    BY <2>1, <2>2, <2>5, Zenon
<1>12. N \in T
  <2> HIDE DEF T
  <2>1. \A n \in 1..N : n - 1 \in T => n \in T
    BY <1>11
  <2>2. 0..N \subseteq T
    BY <1>1, <1>10, <2>1, Turns
  <2> QED
    BY <1>1, <2>2
<1>13. (\A c \in group : Holds(c, q)) <=> \A k \in 1..N : Holds(cs[k], q)
  BY <1>1
<1> QED
  BY <1>7, <1>12, <1>13

(* The groups that are met are those all of whose conditions hold.         *)
AskedGroups(C, q) == [memo : Memos(C, q), met : SUBSET SUBSET C]

LEMMA AskNextIs ==
  ASSUME NEW C, NEW q, NEW s \in AskedGroups(C, q), NEW group \in SUBSET C, IsFiniteSet(group)
  PROVE  /\ AskNext(s, group, q) \in AskedGroups(C, q)
         /\ AskNext(s, group, q).met
              = s.met \cup {g \in {group} : \A c \in g : Holds(c, q)}
<1> DEFINE asked == AskGroup(group, s.memo, q)
<1>1. s.memo \in Memos(C, q) /\ s.met \in SUBSET SUBSET C
  BY DEF AskedGroups
<1>2. asked \in Asking(C, q) /\ (asked.met <=> \A c \in group : Holds(c, q))
  BY <1>1, AskGroupIs
<1>3. asked.memo \in Memos(C, q)
  BY <1>2 DEF Asking
<1>4. AskNext(s, group, q) = [memo |-> asked.memo, met |-> s.met \cup (IF asked.met THEN {group} ELSE {})]
  BY DEF AskNext
<1> HIDE DEF asked
<1> QED
  BY <1>1, <1>2, <1>3, <1>4 DEF AskedGroups

LEMMA MetGroupsIs ==
  ASSUME NEW C, NEW q, NEW groups \in SUBSET SUBSET C, IsFiniteSet(groups),
         \A g \in groups : IsFiniteSet(g)
  PROVE  MetGroups(groups, q) = {g \in groups \ {{}} : \A c \in g : Holds(c, q)}
<1> DEFINE S == AskedGroups(C, q)
           given == SetToSeq(groups \ {{}})
           N == Len(given)
           b == [memo |-> <<>>, met |-> {}]
           F == [n \in 1..N |-> [s \in S |-> AskNext(s, given[n], q)]]
           Is(f) == f = [n \in 0..N |-> IF n = 0 THEN b ELSE AskNext(f[n - 1], given[n], q)]
           after == CHOOSE f : Is(f)
<1>1. /\ N \in Nat /\ given \in [1..N -> groups \ {{}}]
      /\ \A g \in groups \ {{}} : \E n \in 1..N : given[n] = g
  <2>1. IsFiniteSet(groups \ {{}})
    BY FS_RemoveElement
  <2> QED
    BY <2>1, SetToSeqLists
<1> HIDE DEF given, N
<1>2. b \in S
  BY EmptyMemo DEF AskedGroups
<1>3. \A n \in 1..N : given[n] \in SUBSET C /\ IsFiniteSet(given[n]) /\ given[n] \in groups \ {{}}
  BY <1>1
<1>4. F \in [1..N -> [S -> S]]
  BY <1>3, AskNextIs
<1> HIDE DEF b, S
<1>5. PICK f \in [0..N -> S] : Course(N, b, F, f)
  <2> HIDE DEF F
  <2> QED
    BY <1>1, <1>2, <1>4, Iterates
<1>6. Is(f)
  <2>1. \A n \in 1..N : n - 1 \in 0..N /\ f[n - 1] \in S
    BY <1>1, <1>5
  <2>2. \A n \in 1..N : F[n][f[n - 1]] = AskNext(f[n - 1], given[n], q)
    BY <2>1
  <2> HIDE DEF F
  <2>3. \A n \in 0..N : f[n] = IF n = 0 THEN b ELSE F[n][f[n - 1]]
    BY <1>5, Zenon DEF Course
  <2>4. \A n \in 0..N : n = 0 \/ n \in 1..N
    BY <1>1
  <2>5. \A n \in 0..N : f[n] = IF n = 0 THEN b ELSE AskNext(f[n - 1], given[n], q)
    BY <2>2, <2>3, <2>4, Zenon
  <2> QED
    BY <1>5, <2>5
<1>7. Is(after)
  <2> HIDE DEF Is
  <2> QED
    BY <1>6
<1>8. MetGroups(groups, q) = after[N].met
  BY Zenon DEF MetGroups, after, given, N, b
<1>9. \A n \in 0..N : after[n] = IF n = 0 THEN b ELSE AskNext(after[n - 1], given[n], q)
  <2> HIDE DEF after
  <2> QED
    BY <1>1, <1>7
<1> HIDE DEF after, Is
<1> DEFINE T == {n \in 0..N : /\ after[n] \in S
                              /\ after[n].met = {g \in {given[k] : k \in 1..n} : \A c \in g : Holds(c, q)}}
<1>10. 0 \in T
  BY <1>1, <1>2, <1>9 DEF b
<1>11. ASSUME NEW n \in 1..N, n - 1 \in T PROVE n \in T
  <2>1. n \in 0..N /\ n - 1 \in 0..N /\ after[n] = AskNext(after[n - 1], given[n], q)
    BY <1>1, <1>9
  <2>2. /\ after[n] \in S
        /\ after[n].met = after[n - 1].met \cup {g \in {given[n]} : \A c \in g : Holds(c, q)}
    BY <1>3, <1>11, <2>1, AskNextIs DEF S
  <2>3. 1..n = 1..(n - 1) \cup {n}
    BY <1>1
  <2> QED
    BY <1>11, <2>1, <2>2, <2>3
<1>12. N \in T
  <2> HIDE DEF T
  <2>1. \A n \in 1..N : n - 1 \in T => n \in T
    BY <1>11
  <2>2. 0..N \subseteq T
    BY <1>1, <1>10, <2>1, Turns
  <2> QED
    BY <1>1, <2>2
<1>13. {given[k] : k \in 1..N} = groups \ {{}}
  BY <1>1
<1> QED
  BY <1>8, <1>12, <1>13

----------------------------------------------------------------------------
(* trace: what is told of a condition is its result, and a group is met    *)
(* exactly if all of its conditions are told to be.                        *)

Looks(C, q) ==
  {t \in [condition : C, cached : BOOLEAN, result : SUBSET BOOLEAN] :
     t.result \subseteq {Holds(t.condition, q)}}

TellsAll(met, told) == met <=> \A t \in told : t.result = {TRUE}

Looking(C, q) ==
  {s \in [met : BOOLEAN, told : SUBSET Looks(C, q), memo : Memos(C, q)] : TellsAll(s.met, s.told)}

LEMMA LookIs ==
  ASSUME NEW C, NEW q, NEW s \in Looking(C, q), NEW c \in C
  PROVE  /\ Look(s, c, q) \in Looking(C, q)
         /\ Look(s, c, q).met <=> s.met /\ Holds(c, q)
<1> DEFINE met == s.met /\ Holds(c, q)
           told == Told(s, c, q)
<1>1. s.memo \in Memos(C, q) /\ s.met \in BOOLEAN /\ s.told \in SUBSET Looks(C, q)
  BY DEF Looking
<1>2. Result(c, s.memo, q) = Holds(c, q) /\ Keep(s.memo, c, Holds(c, q)) \in Memos(C, q)
  BY <1>1, MemoIsTrue
<1>3. Holds(c, q) \in BOOLEAN /\ met \in BOOLEAN
  BY HoldsType
<1>4. Look(s, c, q) = [met |-> met, told |-> s.told \cup {told},
                       memo |-> IF s.met THEN Keep(s.memo, c, met) ELSE s.memo]
  BY <1>2, Zenon DEF Look, met, told
<1>5. told = [condition |-> c, cached |-> c \in DOMAIN s.memo,
              result |-> IF s.met THEN {Holds(c, q)} ELSE {}]
  BY <1>2, Zenon DEF Told, told
<1>6. told \in Looks(C, q)
  BY <1>3, <1>5 DEF Looks
<1>7. (IF s.met THEN Keep(s.memo, c, met) ELSE s.memo) \in Memos(C, q)
  <2>1. s.met => met = Holds(c, q)
    BY <1>3
  <2> HIDE DEF met
  <2> QED
    BY <1>1, <1>2, <2>1
<1>8. TellsAll(met, s.told \cup {told})
  <2>1. told.result = {TRUE} <=> met
    <3>1. told.result = IF s.met THEN {Holds(c, q)} ELSE {}
      BY <1>5
    <3>2. CASE s.met
      <4>1. told.result = {Holds(c, q)}
        BY <3>1, <3>2
      <4>2. Holds(c, q) = TRUE \/ Holds(c, q) = FALSE
        BY <1>3
      <4>3. {Holds(c, q)} = {TRUE} <=> Holds(c, q) = TRUE
        BY <4>2
      <4> QED
        BY <3>2, <4>1, <4>3, Zenon DEF met
    <3>3. CASE ~ s.met
      BY <3>1, <3>3
    <3> QED
      BY <3>2, <3>3
  <2>2. s.met <=> \A t \in s.told : t.result = {TRUE}
    BY DEF Looking, TellsAll
  <2> HIDE DEF told
  <2>3. met => s.met
    OBVIOUS
  <2>4. ~ met => told.result # {TRUE}
    BY <2>1
  <2>5. \A t \in s.told \cup {told} : t \in s.told \/ t = told
    OBVIOUS
  <2>6. told \in s.told \cup {told}
    OBVIOUS
  <2> HIDE DEF met
  <2> QED
    BY <2>1, <2>2, <2>3, <2>4, <2>5, <2>6, Zenon DEF TellsAll
<1> HIDE DEF told, met
<1>9. Look(s, c, q).met = met
  BY <1>4
<1>10. Look(s, c, q) \in Looking(C, q)
  BY <1>1, <1>3, <1>4, <1>6, <1>7, <1>8 DEF Looking
<1> QED
  BY <1>9, <1>10 DEF met

LEMMA TraceGroupIs ==
  ASSUME NEW C, NEW q, NEW memo \in Memos(C, q), NEW group \in SUBSET C, IsFiniteSet(group)
  PROVE  /\ TraceGroup(group, memo, q) \in Looking(C, q)
         /\ TraceGroup(group, memo, q).met <=> \A c \in group : Holds(c, q)
<1> DEFINE cs == SetToSeq(group)
           N == Len(cs)
           b == [met |-> TRUE, told |-> {}, memo |-> memo]
           F == [n \in 1..N |-> [s \in Looking(C, q) |-> Look(s, cs[n], q)]]
           Is(f) == f = [n \in 0..N |-> IF n = 0 THEN b ELSE Look(f[n - 1], cs[n], q)]
           after == CHOOSE f : Is(f)
<1>1. /\ N \in Nat /\ cs \in [1..N -> group]
      /\ \A c \in group : \E n \in 1..N : cs[n] = c
  BY SetToSeqLists
<1> HIDE DEF cs, N
<1>2. b \in Looking(C, q)
  BY DEF Looking, TellsAll
<1>3. F \in [1..N -> [Looking(C, q) -> Looking(C, q)]]
  <2>1. \A n \in 1..N : cs[n] \in C
    BY <1>1
  <2> QED
    BY <2>1, LookIs
<1>4. PICK f \in [0..N -> Looking(C, q)] : Course(N, b, F, f)
  <2> HIDE DEF F, b
  <2> QED
    BY <1>1, <1>2, <1>3, Iterates
<1>5. Is(f)
  <2>1. \A n \in 1..N : n - 1 \in 0..N /\ f[n - 1] \in Looking(C, q)
    BY <1>1, <1>4
  <2>2. \A n \in 1..N : F[n][f[n - 1]] = Look(f[n - 1], cs[n], q)
    BY <2>1
  <2> HIDE DEF F, b
  <2>3. \A n \in 0..N : f[n] = IF n = 0 THEN b ELSE F[n][f[n - 1]]
    BY <1>4, Zenon DEF Course
  <2>4. \A n \in 0..N : n = 0 \/ n \in 1..N
    BY <1>1
  <2>5. \A n \in 0..N : f[n] = IF n = 0 THEN b ELSE Look(f[n - 1], cs[n], q)
    BY <2>2, <2>3, <2>4, Zenon
  <2> QED
    BY <1>4, <2>5
<1>6. Is(after)
  <2> HIDE DEF Is
  <2> QED
    BY <1>5
<1>7. TraceGroup(group, memo, q) = after[N]
  BY Zenon DEF TraceGroup, after, cs, N
<1> HIDE DEF after
<1> DEFINE T == {n \in 0..N : /\ after[n] \in Looking(C, q)
                              /\ after[n].met <=> \A k \in 1..n : Holds(cs[k], q)}
<1>8. \A n \in 0..N : after[n] = IF n = 0 THEN b ELSE Look(after[n - 1], cs[n], q)
  BY <1>1, <1>6
<1> HIDE DEF Is
<1>9. b.met
  OBVIOUS
<1> HIDE DEF b, F
<1>10. 0 \in T
  <2>1. 0 \in 0..N
    BY <1>1
  <2>2. after[0] = b
    BY <1>8, <2>1
  <2>3. \A k \in 1..0 : Holds(cs[k], q)
    OBVIOUS
  <2> QED
    BY <1>2, <1>9, <2>1, <2>2, <2>3
<1>11. ASSUME NEW n \in 1..N, n - 1 \in T PROVE n \in T
  <2>1. n \in 0..N /\ n - 1 \in 0..N /\ cs[n] \in C /\ after[n] = Look(after[n - 1], cs[n], q)
    BY <1>1, <1>8
  <2>2. after[n] \in Looking(C, q) /\ (after[n].met <=> after[n - 1].met /\ Holds(cs[n], q))
    BY <1>11, <2>1, LookIs
  <2>3. \A k : k \in 1..n <=> k \in 1..(n - 1) \/ k = n
    BY <1>1
  <2>4. after[n - 1].met <=> \A k \in 1..(n - 1) : Holds(cs[k], q)
    BY <1>11
  <2>5. after[n].met <=> \A k \in 1..n : Holds(cs[k], q)
    BY <2>2, <2>3, <2>4, Zenon
  <2> QED
    BY <2>1, <2>2, <2>5, Zenon
<1>12. N \in T
  <2> HIDE DEF T
  <2>1. \A n \in 1..N : n - 1 \in T => n \in T
    BY <1>11
  <2>2. 0..N \subseteq T
    BY <1>1, <1>10, <2>1, Turns
  <2> QED
    BY <1>1, <2>2
<1>13. (\A c \in group : Holds(c, q)) <=> \A k \in 1..N : Holds(cs[k], q)
  BY <1>1
<1> QED
  BY <1>7, <1>12, <1>13

(* Each group has its node.                                                *)
Nodes(C, q) ==
  {n \in [group : SUBSET C, met : BOOLEAN, told : SUBSET Looks(C, q)] :
     /\ TellsAll(n.met, n.told)
     /\ n.met <=> \A c \in n.group : Holds(c, q)}

GroupsOf(nodes) == {n.group : n \in nodes}

TracedGroups(C, q) == [memo : Memos(C, q), nodes : SUBSET Nodes(C, q)]

OneMore(after, before, group, C, q) ==
  /\ after \in TracedGroups(C, q)
  /\ GroupsOf(after.nodes) = GroupsOf(before.nodes) \cup {group}

OneEach(nodes, groups, C, q) ==
  /\ nodes \in SUBSET Nodes(C, q)
  /\ GroupsOf(nodes) = groups \ {{}}

LEMMA LookNextIs ==
  ASSUME NEW C, NEW q, NEW s \in TracedGroups(C, q), NEW group \in SUBSET C, IsFiniteSet(group)
  PROVE  OneMore(LookNext(s, group, q), s, group, C, q)
<1> DEFINE traced == TraceGroup(group, s.memo, q)
           node == [group |-> group, met |-> traced.met, told |-> traced.told]
<1>1. s.memo \in Memos(C, q) /\ s.nodes \in SUBSET Nodes(C, q)
  BY DEF TracedGroups
<1>2. traced \in Looking(C, q) /\ (traced.met <=> \A c \in group : Holds(c, q))
  BY <1>1, TraceGroupIs
<1>3. /\ traced.memo \in Memos(C, q) /\ traced.met \in BOOLEAN
      /\ traced.told \in SUBSET Looks(C, q) /\ TellsAll(traced.met, traced.told)
  BY <1>2 DEF Looking
<1>4. LookNext(s, group, q) = [memo |-> traced.memo, nodes |-> s.nodes \cup {node}]
  BY DEF LookNext
<1> HIDE DEF traced
<1>5. node \in Nodes(C, q) /\ node.group = group
  BY <1>2, <1>3 DEF Nodes
<1> HIDE DEF node
<1> QED
  BY <1>1, <1>3, <1>4, <1>5 DEF OneMore, TracedGroups, GroupsOf

LEMMA TraceGroupsIs ==
  ASSUME NEW C, NEW q, NEW groups \in SUBSET SUBSET C, IsFiniteSet(groups),
         \A g \in groups : IsFiniteSet(g)
  PROVE  OneEach(TraceGroups(groups, q), groups, C, q)
<1> DEFINE S == TracedGroups(C, q)
           given == SetToSeq(groups \ {{}})
           N == Len(given)
           b == [memo |-> <<>>, nodes |-> {}]
           F == [n \in 1..N |-> [s \in S |-> LookNext(s, given[n], q)]]
           Is(f) == f = [n \in 0..N |-> IF n = 0 THEN b ELSE LookNext(f[n - 1], given[n], q)]
           after == CHOOSE f : Is(f)
<1>1. /\ N \in Nat /\ given \in [1..N -> groups \ {{}}]
      /\ \A g \in groups \ {{}} : \E n \in 1..N : given[n] = g
  <2>1. IsFiniteSet(groups \ {{}})
    BY FS_RemoveElement
  <2> QED
    BY <2>1, SetToSeqLists
<1> HIDE DEF given, N
<1>2. b \in S
  BY EmptyMemo DEF TracedGroups
<1>3. \A n \in 1..N : given[n] \in SUBSET C /\ IsFiniteSet(given[n]) /\ given[n] \in groups \ {{}}
  BY <1>1
<1>4. F \in [1..N -> [S -> S]]
  BY <1>3, LookNextIs DEF OneMore
<1> HIDE DEF b, S
<1>5. PICK f \in [0..N -> S] : Course(N, b, F, f)
  <2> HIDE DEF F
  <2> QED
    BY <1>1, <1>2, <1>4, Iterates
<1>6. Is(f)
  <2>1. \A n \in 1..N : n - 1 \in 0..N /\ f[n - 1] \in S
    BY <1>1, <1>5
  <2>2. \A n \in 1..N : F[n][f[n - 1]] = LookNext(f[n - 1], given[n], q)
    BY <2>1
  <2> HIDE DEF F
  <2>3. \A n \in 0..N : f[n] = IF n = 0 THEN b ELSE F[n][f[n - 1]]
    BY <1>5, Zenon DEF Course
  <2>4. \A n \in 0..N : n = 0 \/ n \in 1..N
    BY <1>1
  <2>5. \A n \in 0..N : f[n] = IF n = 0 THEN b ELSE LookNext(f[n - 1], given[n], q)
    BY <2>2, <2>3, <2>4, Zenon
  <2> QED
    BY <1>5, <2>5
<1>7. Is(after)
  <2> HIDE DEF Is
  <2> QED
    BY <1>6
<1>8. TraceGroups(groups, q) = after[N].nodes
  BY Zenon DEF TraceGroups, after, given, N, b
<1>9. \A n \in 0..N : after[n] = IF n = 0 THEN b ELSE LookNext(after[n - 1], given[n], q)
  <2> HIDE DEF after
  <2> QED
    BY <1>1, <1>7
<1> HIDE DEF after, Is
<1> DEFINE T == {n \in 0..N : /\ after[n] \in S
                              /\ GroupsOf(after[n].nodes) = {given[k] : k \in 1..n}}
<1>10. 0 \in T
  BY <1>1, <1>2, <1>9 DEF b, GroupsOf
<1>11. ASSUME NEW n \in 1..N, n - 1 \in T PROVE n \in T
  <2>1. n \in 0..N /\ n - 1 \in 0..N /\ after[n] = LookNext(after[n - 1], given[n], q)
    BY <1>1, <1>9
  <2>2. /\ after[n] \in S
        /\ GroupsOf(after[n].nodes) = GroupsOf(after[n - 1].nodes) \cup {given[n]}
    <3>1. after[n - 1] \in TracedGroups(C, q)
      BY <1>11 DEF S
    <3>2. given[n] \in SUBSET C /\ IsFiniteSet(given[n])
      BY <1>3
    <3>3. OneMore(LookNext(after[n - 1], given[n], q), after[n - 1], given[n], C, q)
      BY <3>1, <3>2, LookNextIs
    <3>4. OneMore(after[n], after[n - 1], given[n], C, q)
      BY <2>1, <3>3
    <3> QED
      BY <3>4 DEF OneMore, S
  <2>3. 1..n = 1..(n - 1) \cup {n}
    BY <1>1
  <2>4. {given[k] : k \in 1..n} = {given[k] : k \in 1..(n - 1)} \cup {given[n]}
    BY <2>3
  <2> QED
    BY <1>11, <2>1, <2>2, <2>4
<1>12. N \in T
  <2> HIDE DEF T
  <2>1. \A n \in 1..N : n - 1 \in T => n \in T
    BY <1>11
  <2>2. 0..N \subseteq T
    BY <1>1, <1>10, <2>1, Turns
  <2> QED
    BY <1>1, <2>2
<1>13. {given[k] : k \in 1..N} = groups \ {{}}
  BY <1>1
<1> QED
  BY <1>8, <1>12, <1>13 DEF OneEach, S, TracedGroups

----------------------------------------------------------------------------
(* The groups of rules, of which there are finitely many.                  *)

LEMMA HeadersAreFinite ==
  ASSUME NEW r, IsFiniteSet(r.headers), NEW ignoreCase
  PROVE  IsFiniteSet(Headers(r, ignoreCase))
<1> DEFINE D == {d \in r.headers : IsKept(d)}
           condition(c) == [kind |-> c.kind, name |-> Lower(c.name), ignoreCase |-> ignoreCase,
                            value |-> IF c.kind = "match_regex" THEN c.value
                                      ELSE {Folded(v, ignoreCase) : v \in c.value}]
           f == [c \in D |-> condition(c)]
<1>1. IsFiniteSet(D)
  BY FS_Subset
<1>2. Headers(r, ignoreCase) = {condition(c) : c \in D}
  BY DEF Headers
<1> HIDE DEF condition, D
<1>3. f \in Surjection(D, Headers(r, ignoreCase))
  BY <1>2 DEF Surjection
<1> QED
  BY <1>1, <1>3, FS_Surjection

LEMMA DatesAreFinite ==
  ASSUME NEW r
  PROVE  IsFiniteSet(Dates(r))
<1>1. \A x : IsFiniteSet({x})
  BY FS_Singleton
<1>2. IsFiniteSet({})
  BY FS_EmptySet
<1>3. PICK A, B : Dates(r) = A \cup B /\ IsFiniteSet(A) /\ IsFiniteSet(B)
  BY <1>1, <1>2 DEF Dates
<1> QED
  BY <1>3, FS_Union

LEMMA GroupsAreFinite ==
  ASSUME NEW rs, IsFiniteSet(rs), NEW ignoreCase
  PROVE  /\ IsFiniteSet({Headers(r, ignoreCase) : r \in rs})
         /\ IsFiniteSet({Dates(r) : r \in rs})
<1>1. [r \in rs |-> Headers(r, ignoreCase)] \in Surjection(rs, {Headers(r, ignoreCase) : r \in rs})
  BY DEF Surjection
<1>2. [r \in rs |-> Dates(r)] \in Surjection(rs, {Dates(r) : r \in rs})
  BY DEF Surjection
<1> QED
  BY <1>1, <1>2, FS_Surjection

(* What the rules of a level are asked for.                                *)
AllHold(group, q) == \A c \in group : Holds(c, q)

LEMMA GroupsAreAsked ==
  ASSUME NEW groups, IsFiniteSet(groups), \A g \in groups : IsFiniteSet(g), NEW q
  PROVE  /\ MetGroups(groups, q) = {g \in groups \ {{}} : AllHold(g, q)}
         /\ OneEach(TraceGroups(groups, q), groups, UNION groups, q)
<1> DEFINE C == UNION groups
<1>1. groups \in SUBSET SUBSET C
  OBVIOUS
<1> HIDE DEF C
<1>2. MetGroups(groups, q) = {g \in groups \ {{}} : \A c \in g : Holds(c, q)}
  BY <1>1, MetGroupsIs
<1>3. OneEach(TraceGroups(groups, q), groups, C, q)
  BY <1>1, TraceGroupsIs
<1> QED
  BY <1>2, <1>3 DEF C, AllHold

LEMMA LevelsAreAsked ==
  ASSUME NEW rs, IsFiniteSet(rs), \A r \in rs : IsFiniteSet(r.headers), NEW q, NEW ignoreCase
  PROVE  /\ MetGroups({Headers(r, ignoreCase) : r \in rs}, q)
              = {g \in {Headers(r, ignoreCase) : r \in rs} \ {{}} : AllHold(g, q)}
         /\ MetGroups({Dates(r) : r \in rs}, q)
              = {g \in {Dates(r) : r \in rs} \ {{}} : AllHold(g, q)}
<1> DEFINE G == {Headers(r, ignoreCase) : r \in rs}
           H == {Dates(r) : r \in rs}
<1>1. IsFiniteSet(G) /\ \A g \in G : IsFiniteSet(g)
  BY GroupsAreFinite, HeadersAreFinite
<1>2. IsFiniteSet(H) /\ \A g \in H : IsFiniteSet(g)
  BY GroupsAreFinite, DatesAreFinite
<1> HIDE DEF G, H
<1>3. MetGroups(G, q) = {g \in G \ {{}} : AllHold(g, q)}
  BY <1>1, GroupsAreAsked
<1>4. MetGroups(H, q) = {g \in H \ {{}} : AllHold(g, q)}
  BY <1>2, GroupsAreAsked
<1> QED
  BY <1>3, <1>4 DEF G, H

(* match_request finds the rules all of whose conditions hold, on headers  *)
(* and on time.                                                            *)
FoundBy(rs, q, ignoreCase) ==
  {r \in rs : AllHold(Headers(r, ignoreCase), q) /\ AllHold(Dates(r), q)}

LEMMA MatchDatesIs ==
  ASSUME NEW rs, IsFiniteSet(rs), \A r \in rs : IsFiniteSet(r.headers), NEW q
  PROVE  MatchDates(rs, q) = {r \in rs : AllHold(Dates(r), q)}
<1>1. MetGroups({Dates(r) : r \in rs}, q) = {g \in {Dates(r) : r \in rs} \ {{}} : AllHold(g, q)}
  BY LevelsAreAsked
<1>2. AllHold({}, q)
  BY DEF AllHold
<1> QED
  BY <1>1, <1>2 DEF MatchDates

LEMMA MatchRequestIs ==
  ASSUME NEW rs, IsFiniteSet(rs), \A r \in rs : IsFiniteSet(r.headers), NEW q, NEW ignoreCase
  PROVE  MatchRequest(rs, q, ignoreCase) = FoundBy(rs, q, ignoreCase)
<1> DEFINE groups == {Headers(r, ignoreCase) : r \in rs}
           below(g) == {r \in rs : Headers(r, ignoreCase) = g}
           met == MetGroups(groups, q)
<1>1. met = {g \in groups \ {{}} : AllHold(g, q)}
  BY LevelsAreAsked
<1>2. AllHold({}, q)
  BY DEF AllHold
<1>3. \A g : MatchDates(below(g), q) = {r \in below(g) : AllHold(Dates(r), q)}
  <2>1. \A g : IsFiniteSet(below(g)) /\ \A r \in below(g) : IsFiniteSet(r.headers)
    BY FS_Subset
  <2> HIDE DEF below
  <2> QED
    BY <2>1, MatchDatesIs
<1>4. MatchRequest(rs, q, ignoreCase) = UNION {MatchDates(below(g), q) : g \in met \cup {{}}}
  BY DEF MatchRequest
<1> HIDE DEF met
<1>5. ASSUME NEW r
      PROVE  r \in MatchRequest(rs, q, ignoreCase) <=> r \in FoundBy(rs, q, ignoreCase)
  <2>1. r \in MatchRequest(rs, q, ignoreCase)
          <=> \E g \in met \cup {{}} : r \in below(g) /\ AllHold(Dates(r), q)
    <3> DEFINE found(g) == MatchDates(below(g), q)
    <3>1. r \in MatchRequest(rs, q, ignoreCase) <=> \E g \in met \cup {{}} : r \in found(g)
      <4> HIDE DEF found
      <4> QED
        BY <1>4 DEF found
    <3>2. \A g : r \in found(g) <=> r \in below(g) /\ AllHold(Dates(r), q)
      BY <1>3
    <3> QED
      BY <3>1, <3>2, Zenon
  <2>2. (\E g \in met \cup {{}} : r \in below(g))
          <=> r \in rs /\ AllHold(Headers(r, ignoreCase), q)
    BY <1>1, <1>2
  <2> QED
    BY <2>1, <2>2 DEF FoundBy
<1> QED
  BY <1>5

(* trace finds the same rules, and its nodes tell the truth.               *)
TrueNode(n, q) ==
  /\ TellsAll(n.met, n.told)
  /\ \A t \in n.told : t.result \subseteq {Holds(t.condition, q)}

LEMMA TrueNodes ==
  ASSUME NEW nodes, NEW groups, NEW C, NEW q, OneEach(nodes, groups, C, q)
  PROVE  /\ \A n \in nodes : TrueNode(n, q)
         /\ \A g \in groups \ {{}} : (\E n \in nodes : n.met /\ n.group = g) <=> AllHold(g, q)
         /\ {n.group : n \in {m \in nodes : m.met}} = {g \in groups \ {{}} : AllHold(g, q)}
<1>1. \A n \in nodes : /\ TellsAll(n.met, n.told) /\ n.told \in SUBSET Looks(C, q)
                       /\ n.met <=> AllHold(n.group, q)
  BY DEF OneEach, Nodes, AllHold
<1>2. \A n \in nodes : \A t \in n.told : t.result \subseteq {Holds(t.condition, q)}
  BY <1>1 DEF Looks
<1>3. \A g : g \in groups \ {{}} <=> \E n \in nodes : n.group = g
  BY DEF OneEach, GroupsOf
<1>4. \A n \in nodes : TrueNode(n, q)
  BY <1>1, <1>2 DEF TrueNode
<1>5. \A g \in groups \ {{}} : (\E n \in nodes : n.met /\ n.group = g) <=> AllHold(g, q)
  BY <1>1, <1>3, Zenon
<1>6. ASSUME NEW g
      PROVE  g \in {n.group : n \in {m \in nodes : m.met}} <=> g \in {h \in groups \ {{}} : AllHold(h, q)}
  <2>1. g \in {n.group : n \in {m \in nodes : m.met}} <=> \E n \in nodes : n.met /\ n.group = g
    BY Zenon
  <2> QED
    BY <1>3, <1>5, <2>1
<1> QED
  BY <1>4, <1>5, <1>6

LEMMA TraceDatesIs ==
  ASSUME NEW rs, IsFiniteSet(rs), NEW q
  PROVE  /\ TraceDates(rs, q).found = {r \in rs : AllHold(Dates(r), q)}
         /\ \A n \in TraceDates(rs, q).nodes : TrueNode(n, q)
<1> DEFINE groups == {Dates(r) : r \in rs}
           nodes == TraceGroups(groups, q)
<1>1. IsFiniteSet(groups) /\ \A g \in groups : IsFiniteSet(g)
  BY GroupsAreFinite, DatesAreFinite
<1> HIDE DEF groups
<1>2. OneEach(nodes, groups, UNION groups, q)
  BY <1>1, GroupsAreAsked
<1> HIDE DEF nodes
<1>3. /\ \A n \in nodes : TrueNode(n, q)
      /\ \A g \in groups \ {{}} : (\E n \in nodes : n.met /\ n.group = g) <=> AllHold(g, q)
  BY <1>2, TrueNodes
<1>4. TraceDates(rs, q)
        = [nodes |-> nodes,
           found |-> {r \in rs : Dates(r) = {} \/ \E n \in nodes : n.met /\ n.group = Dates(r)}]
  BY DEF TraceDates, nodes, groups
<1>5. ASSUME NEW r \in rs
      PROVE  (Dates(r) = {} \/ \E n \in nodes : n.met /\ n.group = Dates(r)) <=> AllHold(Dates(r), q)
  <2>1. Dates(r) # {} => Dates(r) \in groups \ {{}}
    BY DEF groups
  <2>2. Dates(r) = {} => AllHold(Dates(r), q)
    BY DEF AllHold
  <2> QED
    BY <1>3, <2>1, <2>2
<1> QED
  BY <1>3, <1>4, <1>5

LEMMA TraceRequestIs ==
  ASSUME NEW rs, IsFiniteSet(rs), \A r \in rs : IsFiniteSet(r.headers), NEW q, NEW ignoreCase
  PROVE  /\ TraceRequest(rs, q, ignoreCase).found = FoundBy(rs, q, ignoreCase)
         /\ \A n \in TraceRequest(rs, q, ignoreCase).nodes : TrueNode(n, q)
<1> DEFINE groups == {Headers(r, ignoreCase) : r \in rs}
           nodes == TraceGroups(groups, q)
           under(g) == {r \in rs : Headers(r, ignoreCase) = g}
           below(g) == TraceDates(under(g), q)
           asked == {{}} \cup {n.group : n \in {m \in nodes : m.met}}
<1>1. IsFiniteSet(groups) /\ \A g \in groups : IsFiniteSet(g)
  BY GroupsAreFinite, HeadersAreFinite
<1> HIDE DEF groups
<1>2. OneEach(nodes, groups, UNION groups, q)
  BY <1>1, GroupsAreAsked
<1> HIDE DEF nodes
<1>3. /\ \A n \in nodes : TrueNode(n, q)
      /\ asked = {{}} \cup {g \in groups \ {{}} : AllHold(g, q)}
  BY <1>2, TrueNodes
<1>4. \A g : /\ below(g).found = {r \in under(g) : AllHold(Dates(r), q)}
             /\ \A n \in below(g).nodes : TrueNode(n, q)
  <2>1. \A g : IsFiniteSet(under(g))
    BY FS_Subset
  <2> HIDE DEF under
  <2> QED
    BY <2>1, TraceDatesIs
<1>5. TraceRequest(rs, q, ignoreCase)
        = [nodes |-> nodes \cup UNION {below(g).nodes : g \in asked},
           found |-> UNION {below(g).found : g \in asked}]
  BY DEF TraceRequest, nodes, groups
<1> HIDE DEF asked, below
<1>6. \A n \in TraceRequest(rs, q, ignoreCase).nodes : TrueNode(n, q)
  <2>1. TraceRequest(rs, q, ignoreCase).nodes = nodes \cup UNION {below(g).nodes : g \in asked}
    BY <1>5
  <2> QED
    BY <1>3, <1>4, <2>1
<1>7. ASSUME NEW r
      PROVE  r \in TraceRequest(rs, q, ignoreCase).found <=> r \in FoundBy(rs, q, ignoreCase)
  <2>1. TraceRequest(rs, q, ignoreCase).found = UNION {below(g).found : g \in asked}
    BY <1>5
  <2>2. r \in TraceRequest(rs, q, ignoreCase).found
          <=> \E g \in asked : r \in under(g) /\ AllHold(Dates(r), q)
    <3> HIDE DEF under
    <3> QED
      BY <1>4, <2>1
  <2>3. (\E g \in asked : r \in under(g)) <=> r \in rs /\ AllHold(Headers(r, ignoreCase), q)
    <3>1. AllHold({}, q)
      BY DEF AllHold
    <3>2. \A s \in rs : Headers(s, ignoreCase) \in groups
      BY DEF groups
    <3> QED
      BY <1>3, <3>1, <3>2
  <2> QED
    BY <2>2, <2>3 DEF FoundBy
<1>8. TraceRequest(rs, q, ignoreCase).found \subseteq rs
        /\ TraceRequest(rs, q, ignoreCase).found = FoundBy(rs, q, ignoreCase)
  BY <1>7 DEF FoundBy
<1> QED
  BY <1>6, <1>8

----------------------------------------------------------------------------
(* Texts, in lower case or as they are.                                    *)

LEMMA FoldedText ==
  ASSUME NEW v \in Seq(Char), NEW ignoreCase \in BOOLEAN
  PROVE  /\ Folded(v, ignoreCase) \in Seq(Char)
         /\ Len(Folded(v, ignoreCase)) = Len(v)
         /\ Folded(Folded(v, ignoreCase), ignoreCase) = Folded(v, ignoreCase)
         /\ \A i \in 1..(Len(v) + 1), j \in 0..Len(v) :
              Folded(SubSeq(v, i, j), ignoreCase) = SubSeq(Folded(v, ignoreCase), i, j)
<1>1. Len(v) \in Nat /\ DOMAIN v = 1..Len(v) /\ \A k \in 1..Len(v) : v[k] \in Char
  OBVIOUS
<1>2. \A c \in Char : LowerChar(c) \in Char /\ LowerChar(LowerChar(c)) = LowerChar(c)
  BY TextAssumption DEF LowerChar
<1>3. Lower(v) = [k \in 1..Len(v) |-> LowerChar(v[k])]
  BY <1>1 DEF Lower
<1>4. Lower(v) \in Seq(Char) /\ Len(Lower(v)) = Len(v)
  BY <1>1, <1>2, <1>3
<1>5. Lower(Lower(v)) = Lower(v)
  <2>1. Lower(Lower(v)) = [k \in 1..Len(v) |-> LowerChar(Lower(v)[k])]
    BY <1>3 DEF Lower
  <2>2. \A k \in 1..Len(v) : LowerChar(Lower(v)[k]) = Lower(v)[k]
    BY <1>1, <1>2, <1>3
  <2> QED
    BY <1>3, <2>1, <2>2
<1>6. ASSUME NEW i \in 1..(Len(v) + 1), NEW j \in 0..Len(v)
      PROVE  Lower(SubSeq(v, i, j)) = SubSeq(Lower(v), i, j)
  <2> DEFINE n == IF j >= i THEN j - i + 1 ELSE 0
  <2>1. /\ SubSeq(v, i, j) \in Seq(Char) /\ Len(SubSeq(v, i, j)) = n
        /\ \A k \in 1..n : SubSeq(v, i, j)[k] = v[k + i - 1]
    BY <1>1
  <2>2. /\ SubSeq(Lower(v), i, j) \in Seq(Char) /\ Len(SubSeq(Lower(v), i, j)) = n
        /\ \A k \in 1..n : SubSeq(Lower(v), i, j)[k] = Lower(v)[k + i - 1]
    BY <1>1, <1>4
  <2>3. \A k \in 1..n : k + i - 1 \in 1..Len(v)
    BY <1>1
  <2> HIDE DEF n
  <2>4. Lower(SubSeq(v, i, j)) = [k \in 1..n |-> LowerChar(v[k + i - 1])]
    BY <2>1 DEF Lower
  <2>5. SubSeq(Lower(v), i, j) = [k \in 1..n |-> Lower(v)[k + i - 1]]
    BY <2>2
  <2>6. \A k \in 1..n : Lower(v)[k + i - 1] = LowerChar(v[k + i - 1])
    BY <1>3, <2>3
  <2> QED
    BY <2>4, <2>5, <2>6
<1> QED
  BY <1>4, <1>5, <1>6 DEF Folded

LEMMA ContainsFolded ==
  ASSUME NEW v \in Seq(Char), NEW s \in Seq(Char), NEW ignoreCase \in BOOLEAN
  PROVE  Folded(s, ignoreCase) \in SubSeqs(Folded(v, ignoreCase))
           <=> \E u \in SubSeqs(v) : Folded(u, ignoreCase) = Folded(s, ignoreCase)
<1> DEFINE F(x) == Folded(x, ignoreCase)
<1>1. \A i, j \in 0..Len(v) : F(SubSeq(v, i + 1, j)) = SubSeq(F(v), i + 1, j)
  <2>1. \A i \in 0..Len(v) : i + 1 \in 1..(Len(v) + 1)
    OBVIOUS
  <2> QED
    BY <2>1, FoldedText
<1>2. Len(F(v)) = Len(v)
  BY FoldedText
<1> HIDE DEF F
<1>3. F(s) \in SubSeqs(F(v)) <=> \E i, j \in 0..Len(v) : F(s) = SubSeq(F(v), i + 1, j)
  BY <1>2 DEF SubSeqs
<1>4. (\E u \in SubSeqs(v) : F(u) = F(s)) <=> \E i, j \in 0..Len(v) : F(SubSeq(v, i + 1, j)) = F(s)
  <2>1. ASSUME NEW u \in SubSeqs(v), F(u) = F(s)
        PROVE  \E i, j \in 0..Len(v) : F(SubSeq(v, i + 1, j)) = F(s)
    <3>1. \E i, j \in 0..Len(v) : u = SubSeq(v, i + 1, j)
      BY DEF SubSeqs
    <3> QED
      BY <2>1, <3>1
  <2>2. ASSUME NEW i \in 0..Len(v), NEW j \in 0..Len(v), F(SubSeq(v, i + 1, j)) = F(s)
        PROVE  \E u \in SubSeqs(v) : F(u) = F(s)
    <3>1. SubSeq(v, i + 1, j) \in SubSeqs(v)
      BY DEF SubSeqs
    <3> QED
      BY <2>2, <3>1
  <2> QED
    BY <2>1, <2>2
<1>5. F(s) \in SubSeqs(F(v)) <=> \E u \in SubSeqs(v) : F(u) = F(s)
  BY <1>1, <1>3, <1>4
<1> QED
  BY <1>5 DEF F

LEMMA PrefixFolded ==
  ASSUME NEW v \in Seq(Char), NEW s \in Seq(Char), NEW ignoreCase \in BOOLEAN
  PROVE  IsPrefix(Folded(s, ignoreCase), Folded(v, ignoreCase))
           <=> \E n \in 0..Len(v) : Folded(SubSeq(v, 1, n), ignoreCase) = Folded(s, ignoreCase)
<1> DEFINE F(x) == Folded(x, ignoreCase)
<1>1. /\ F(v) \in Seq(Char) /\ Len(F(v)) = Len(v)
      /\ F(s) \in Seq(Char) /\ Len(F(s)) = Len(s)
      /\ \A n \in 0..Len(v) : F(SubSeq(v, 1, n)) = SubSeq(F(v), 1, n)
  <2>1. 1 \in 1..(Len(v) + 1)
    OBVIOUS
  <2>2. /\ F(v) \in Seq(Char) /\ Len(F(v)) = Len(v)
        /\ F(s) \in Seq(Char) /\ Len(F(s)) = Len(s)
    BY FoldedText
  <2>3. \A n \in 0..Len(v) : F(SubSeq(v, 1, n)) = SubSeq(F(v), 1, n)
    BY <2>1, FoldedText
  <2> QED
    BY <2>2, <2>3
<1> HIDE DEF F
<1>2. SubSeq(F(s), 1, Len(F(s))) = F(s)
  BY <1>1
<1>3. ASSUME IsPrefix(F(s), F(v)) PROVE \E n \in 0..Len(v) : F(SubSeq(v, 1, n)) = F(s)
  <2>1. Len(s) \in 0..Len(v) /\ F(s) = SubSeq(F(v), 1, Len(s))
    BY <1>1, <1>2, <1>3 DEF IsPrefix
  <2> QED
    BY <1>1, <2>1
<1>4. ASSUME NEW n \in 0..Len(v), F(SubSeq(v, 1, n)) = F(s) PROVE IsPrefix(F(s), F(v))
  <2>1. F(s) = SubSeq(F(v), 1, n)
    BY <1>1, <1>4
  <2>2. Len(F(s)) = n
    BY <1>1, <2>1
  <2> QED
    BY <1>1, <1>2, <2>1, <2>2 DEF IsPrefix
<1> QED
  BY <1>3, <1>4 DEF F

LEMMA SuffixFolded ==
  ASSUME NEW v \in Seq(Char), NEW s \in Seq(Char), NEW ignoreCase \in BOOLEAN
  PROVE  IsSuffix(Folded(s, ignoreCase), Folded(v, ignoreCase))
           <=> \E n \in 1..(Len(v) + 1) :
                 Folded(SubSeq(v, n, Len(v)), ignoreCase) = Folded(s, ignoreCase)
<1> DEFINE F(x) == Folded(x, ignoreCase)
<1>1. /\ F(v) \in Seq(Char) /\ Len(F(v)) = Len(v)
      /\ F(s) \in Seq(Char) /\ Len(F(s)) = Len(s)
      /\ \A n \in 1..(Len(v) + 1) : F(SubSeq(v, n, Len(v))) = SubSeq(F(v), n, Len(v))
  <2>1. Len(v) \in 0..Len(v)
    OBVIOUS
  <2>2. /\ F(v) \in Seq(Char) /\ Len(F(v)) = Len(v)
        /\ F(s) \in Seq(Char) /\ Len(F(s)) = Len(s)
    BY FoldedText
  <2>3. \A n \in 1..(Len(v) + 1) : F(SubSeq(v, n, Len(v))) = SubSeq(F(v), n, Len(v))
    BY <2>1, FoldedText
  <2> QED
    BY <2>2, <2>3
<1> HIDE DEF F
<1> DEFINE N == Len(v)
           M == Len(s)
<1>2. N \in Nat /\ M \in Nat
  OBVIOUS
<1>3. /\ F(s) = [k \in 1..M |-> F(s)[k]]
      /\ F(v) = [k \in 1..N |-> F(v)[k]]
  BY <1>1
<1>4. IsSuffix(F(s), F(v)) <=> M <= N /\ \A k \in 1..M : F(s)[M - k + 1] = F(v)[N - k + 1]
  <2> DEFINE a == Reverse(F(s))
             b == Reverse(F(v))
  <2>1. a = [k \in 1..M |-> F(s)[M - k + 1]] /\ b = [k \in 1..N |-> F(v)[N - k + 1]]
    BY <1>1 DEF Reverse
  <2>2. a \in Seq(Char) /\ Len(a) = M /\ b \in Seq(Char) /\ Len(b) = N
    BY <1>1, <1>2, <2>1
  <2>3. IsSuffix(F(s), F(v)) <=> M <= N /\ SubSeq(a, 1, M) = SubSeq(b, 1, M)
    BY <2>2 DEF IsSuffix, IsPrefix
  <2> HIDE DEF a, b, M, N
  <2>4. ASSUME M <= N
        PROVE  SubSeq(a, 1, M) = SubSeq(b, 1, M) <=> \A k \in 1..M : a[k] = b[k]
    <3>1. /\ SubSeq(a, 1, M) = [k \in 1..M |-> a[k]]
          /\ SubSeq(b, 1, M) = [k \in 1..M |-> b[k]]
      BY <1>2, <2>2, <2>4
    <3> QED
      BY <3>1
  <2>5. \A k \in 1..M : a[k] = F(s)[M - k + 1]
    BY <2>1
  <2>6. M <= N => \A k \in 1..M : b[k] = F(v)[N - k + 1]
    BY <1>2, <2>1
  <2>7. M <= N => ((\A k \in 1..M : a[k] = b[k])
                     <=> \A k \in 1..M : F(s)[M - k + 1] = F(v)[N - k + 1])
    BY <2>5, <2>6
  <2> QED
    BY <2>3, <2>4, <2>7, Zenon
<1>5. ASSUME NEW n \in 1..(N + 1)
      PROVE  SubSeq(F(v), n, N) = F(s)
               <=> M = N - n + 1 /\ \A k \in 1..M : F(s)[k] = F(v)[k + n - 1]
  <2> DEFINE w == SubSeq(F(v), n, N)
  <2>1. w = [k \in 1..(N - n + 1) |-> F(v)[k + n - 1]]
    BY <1>1, <1>2
  <2>2. Len(w) = N - n + 1
    BY <1>2, <2>1
  <2> HIDE DEF w, M, N
  <2>3. w = F(s) => M = N - n + 1
    BY <1>1, <2>2 DEF M
  <2>4. CASE M # N - n + 1
    BY <2>3, <2>4 DEF w
  <2>5. CASE M = N - n + 1
    <3>1. w = F(s) <=> \A k \in 1..M : w[k] = F(s)[k]
      BY <1>3, <2>1, <2>5
    <3>2. \A k \in 1..M : w[k] = F(v)[k + n - 1]
      BY <2>1, <2>5
    <3> QED
      BY <2>5, <3>1, <3>2 DEF w
  <2> QED
    BY <2>4, <2>5
<1> HIDE DEF M, N
<1>6. ASSUME M <= N, \A k \in 1..M : F(s)[M - k + 1] = F(v)[N - k + 1]
      PROVE  \E n \in 1..(N + 1) : SubSeq(F(v), n, N) = F(s)
  <2>1. N - M + 1 \in 1..(N + 1) /\ M = N - (N - M + 1) + 1
    BY <1>2, <1>6
  <2>2. ASSUME NEW k \in 1..M PROVE F(s)[k] = F(v)[k + (N - M + 1) - 1]
    <3>1. M - k + 1 \in 1..M
      BY <1>2
    <3>2. F(s)[M - (M - k + 1) + 1] = F(v)[N - (M - k + 1) + 1]
      BY <1>6, <3>1
    <3>3. M - (M - k + 1) + 1 = k /\ N - (M - k + 1) + 1 = k + (N - M + 1) - 1
      BY <1>2
    <3> QED
      BY <3>2, <3>3
  <2> QED
    BY <1>5, <2>1, <2>2
<1>7. ASSUME NEW n \in 1..(N + 1), SubSeq(F(v), n, N) = F(s)
      PROVE  M <= N /\ \A k \in 1..M : F(s)[M - k + 1] = F(v)[N - k + 1]
  <2>1. M = N - n + 1 /\ \A k \in 1..M : F(s)[k] = F(v)[k + n - 1]
    BY <1>5, <1>7
  <2>2. M <= N
    BY <1>2, <2>1
  <2>3. ASSUME NEW k \in 1..M PROVE F(s)[M - k + 1] = F(v)[N - k + 1]
    <3>1. M - k + 1 \in 1..M
      BY <1>2
    <3>2. F(s)[M - k + 1] = F(v)[(M - k + 1) + n - 1]
      BY <2>1, <3>1
    <3>3. (M - k + 1) + n - 1 = N - k + 1
      BY <1>2, <2>1
    <3> QED
      BY <3>2, <3>3
  <2> QED
    BY <2>2, <2>3
<1>8. IsSuffix(F(s), F(v)) <=> \E n \in 1..(N + 1) : F(SubSeq(v, n, N)) = F(s)
  BY <1>1, <1>4, <1>6, <1>7 DEF N
<1> QED
  BY <1>8 DEF F, N

----------------------------------------------------------------------------
(* A condition on the headers as they are added says what the constraint   *)
(* says of the headers as they were sent.                                  *)

Condition(c) ==
  [kind |-> c.kind, name |-> Lower(c.name), ignoreCase |-> foldCase,
   value |-> IF c.kind = "match_regex" THEN c.value ELSE {Folded(v, foldCase) : v \in c.value}]

Meant(v, s, kind) ==
  LET eq(x, y) == Folded(x, foldCase) = Folded(y, foldCase)
  IN CASE kind = "is_equals"   -> eq(v, s)
       [] kind = "contains"    -> \E u \in SubSeqs(v) : eq(u, s)
       [] kind = "starts_with" -> \E n \in 0..Len(v) : eq(SubSeq(v, 1, n), s)
       [] kind = "ends_with"   -> \E n \in 1..Len(v) + 1 : eq(SubSeq(v, n, Len(v)), s)
       [] kind = "match_regex" -> \E u \in Language[s] : eq(u, v)

SomeMeant(c, q, kind) == \E v \in HeaderValues(q, Lower(c.name)), s \in c.value : Meant(v, s, kind)

LEMMA ConstraintMetIs ==
  ASSUME NEW c, NEW q
  PROVE  /\ c.kind = "is_defined" => (ConstraintMet(c, q) <=> HeaderValues(q, Lower(c.name)) # {})
         /\ c.kind = "is_not_defined" => (ConstraintMet(c, q) <=> HeaderValues(q, Lower(c.name)) = {})
         /\ c.kind = "is_not_equal_to" => (ConstraintMet(c, q) <=> ~ SomeMeant(c, q, "is_equals"))
         /\ c.kind = "does_not_contain" => (ConstraintMet(c, q) <=> ~ SomeMeant(c, q, "contains"))
         /\ c.kind \in Positive => (ConstraintMet(c, q) <=> SomeMeant(c, q, c.kind))
<1>1. CASE c.kind = "is_defined"
  BY <1>1 DEF ConstraintMet, HeaderValues, Positive
<1>2. CASE c.kind = "is_not_defined"
  BY <1>2 DEF ConstraintMet, HeaderValues, Positive
<1>3. CASE c.kind = "is_not_equal_to"
  BY <1>3 DEF ConstraintMet, HeaderValues, SomeMeant, Meant, Positive
<1>4. CASE c.kind = "does_not_contain"
  BY <1>4 DEF ConstraintMet, HeaderValues, SomeMeant, Meant, Positive
<1>5. CASE c.kind \in Positive
  BY <1>5 DEF ConstraintMet, HeaderValues, SomeMeant, Meant, Positive
<1> QED
  BY <1>1, <1>2, <1>3, <1>4, <1>5

LEMMA SaysIs ==
  ASSUME foldCase \in BOOLEAN, NEW c, c.value \subseteq Seq(Char), IsKept(c), NEW v \in Seq(Char)
  PROVE  LET says == Says(Condition(c), Folded(v, foldCase))
         IN /\ c.kind \in Positive => (says <=> \E s \in c.value : Meant(v, s, c.kind))
            /\ c.kind = "is_not_equal_to" => (says <=> \E s \in c.value : Meant(v, s, "is_equals"))
            /\ c.kind = "does_not_contain" => (says <=> \E s \in c.value : Meant(v, s, "contains"))
<1> DEFINE d == Condition(c)
           F(x) == Folded(x, foldCase)
<1>1. d.kind = c.kind /\ d.ignoreCase = foldCase
  BY DEF Condition
<1>2. c.kind # "match_regex" => d.value = {F(s) : s \in c.value}
  BY DEF Condition
<1>3. c.kind = "match_regex" => d.value = c.value
  BY DEF Condition
<1>4. F(F(v)) = F(v) /\ \A s \in c.value : s \in Seq(Char)
  BY FoldedText
<1> HIDE DEF d
<1>5. CASE c.kind \in {"is_equals", "is_not_equal_to"}
  <2>1. Says(d, F(v)) <=> F(v) \in d.value
    BY <1>1, <1>5 DEF Says
  <2>2. \A s : Meant(v, s, "is_equals") <=> F(v) = F(s)
    BY DEF Meant
  <2> HIDE DEF F
  <2> QED
    BY <1>2, <1>5, <2>1, <2>2 DEF d, F, Positive
<1>6. CASE c.kind \in {"contains", "does_not_contain"}
  <2>1. Says(d, F(v)) <=> \E s \in d.value : s \in SubSeqs(F(v))
    BY <1>1, <1>6 DEF Says
  <2>2. \A s \in c.value : Meant(v, s, "contains") <=> F(s) \in SubSeqs(F(v))
    BY <1>4, ContainsFolded DEF Meant
  <2> HIDE DEF F
  <2> QED
    BY <1>2, <1>6, <2>1, <2>2 DEF d, F, Positive
<1>7. CASE c.kind = "starts_with"
  <2>1. Says(d, F(v)) <=> \E s \in d.value : IsPrefix(s, F(v))
    BY <1>1, <1>7 DEF Says
  <2>2. \A s \in c.value : Meant(v, s, "starts_with") <=> IsPrefix(F(s), F(v))
    BY <1>4, PrefixFolded DEF Meant
  <2> HIDE DEF F
  <2> QED
    BY <1>2, <1>7, <2>1, <2>2 DEF d, F, Positive
<1>8. CASE c.kind = "ends_with"
  <2>1. Says(d, F(v)) <=> \E s \in d.value : IsSuffix(s, F(v))
    BY <1>1, <1>8 DEF Says
  <2>2. \A s \in c.value : Meant(v, s, "ends_with") <=> IsSuffix(F(s), F(v))
    BY <1>4, SuffixFolded DEF Meant
  <2> HIDE DEF F
  <2> QED
    BY <1>2, <1>8, <2>1, <2>2 DEF d, F, Positive
<1>9. CASE c.kind = "match_regex"
  <2>1. Says(d, F(v)) <=> \E w \in UNION {Language[s] : s \in c.value} : F(w) = F(F(v))
    BY <1>1, <1>3, <1>9 DEF Says
  <2>2. \A s \in c.value : Meant(v, s, "match_regex") <=> \E u \in Language[s] : F(u) = F(v)
    BY DEF Meant
  <2> HIDE DEF F
  <2> QED
    BY <1>4, <1>9, <2>1, <2>2 DEF d, F, Positive
<1>10. \/ c.kind \in {"is_equals", "is_not_equal_to", "contains", "does_not_contain"}
       \/ c.kind \in {"starts_with", "ends_with", "match_regex", "is_defined", "is_not_defined"}
  BY DEF IsKept, Positive, Negative
<1>11. CASE c.kind \in {"is_defined", "is_not_defined"}
  BY <1>11 DEF Positive
<1> QED
  BY <1>5, <1>6, <1>7, <1>8, <1>9, <1>10, <1>11

LEMMA AddedHeaders ==
  ASSUME watched \in Watched, NEW name
  PROVE  /\ HeaderValues(watched, name) \subseteq Seq(Char)
         /\ HeaderValues(AsAdded(watched), name)
              = {Folded(v, foldCase) : v \in HeaderValues(watched, name)}
         /\ AsAdded(watched).created = watched.created
<1> DEFINE added(h) == [h EXCEPT !.value = Folded(h.value, foldCase)]
<1>1. watched \in [headers : SUBSET [name : Seq(Char), value : Seq(Char)], created : SUBSET Nat]
  BY ConditionsAssumption
<1>2. \A h \in watched.headers : /\ h.value \in Seq(Char)
                                 /\ added(h).name = h.name
                                 /\ added(h).value = Folded(h.value, foldCase)
  BY <1>1
<1>3. /\ AsAdded(watched).headers = {added(h) : h \in watched.headers}
      /\ AsAdded(watched).created = watched.created
  BY <1>1 DEF AsAdded
<1> HIDE DEF added
<1>4. HeaderValues(watched, name) \subseteq Seq(Char)
  BY <1>2 DEF HeaderValues
<1>5. ASSUME NEW w
      PROVE  w \in HeaderValues(AsAdded(watched), name)
               <=> w \in {Folded(v, foldCase) : v \in HeaderValues(watched, name)}
  <2>1. w \in HeaderValues(AsAdded(watched), name)
          <=> \E h \in watched.headers : Lower(added(h).name) = name /\ w = added(h).value
    BY <1>3 DEF HeaderValues
  <2>2. w \in {Folded(v, foldCase) : v \in HeaderValues(watched, name)}
          <=> \E h \in watched.headers : Lower(h.name) = name /\ w = Folded(h.value, foldCase)
    BY DEF HeaderValues
  <2> QED
    BY <1>2, <2>1, <2>2
<1> QED
  BY <1>3, <1>4, <1>5

LEMMA HeaderMeans ==
  ASSUME foldCase \in BOOLEAN, watched \in Watched, NEW c, c.value \subseteq Seq(Char), IsKept(c)
  PROVE  Holds(Condition(c), AsAdded(watched)) <=> ConstraintMet(c, watched)
<1> DEFINE d == Condition(c)
           F(x) == Folded(x, foldCase)
           V == HeaderValues(watched, Lower(c.name))
           W == HeaderValues(AsAdded(watched), d.name)
<1>1. d.kind = c.kind /\ d.name = Lower(c.name)
  BY DEF Condition
<1>2. W = {F(v) : v \in V} /\ V \subseteq Seq(Char)
  BY <1>1, AddedHeaders
<1>3. c.kind \in {"is_defined", "is_not_defined"} \cup Positive \cup Negative
  BY DEF IsKept
<1>4. Holds(d, AsAdded(watched)) <=> MatchHeader(d, AsAdded(watched))
  BY <1>1, <1>3 DEF Holds, Positive, Negative
<1>5. MatchHeader(d, AsAdded(watched))
        <=> \/ c.kind = "is_defined" /\ W # {}
            \/ c.kind = "is_not_defined" /\ W = {}
            \/ c.kind \in Positive /\ \E w \in W : Says(d, w)
            \/ c.kind \in Negative /\ \A w \in W : ~ Says(d, w)
  BY <1>1 DEF MatchHeader
<1>6. (W = {} <=> V = {})
  BY <1>2
<1>7. (\E w \in W : Says(d, w)) <=> \E v \in V : Says(d, F(v))
  BY <1>2
<1>8. \A v \in V :
         /\ c.kind \in Positive => (Says(d, F(v)) <=> \E s \in c.value : Meant(v, s, c.kind))
         /\ c.kind = "is_not_equal_to" => (Says(d, F(v)) <=> \E s \in c.value : Meant(v, s, "is_equals"))
         /\ c.kind = "does_not_contain" => (Says(d, F(v)) <=> \E s \in c.value : Meant(v, s, "contains"))
  BY <1>2, SaysIs
<1> HIDE DEF d, F, W
<1>9. CASE c.kind \in {"is_defined", "is_not_defined"}
  BY <1>4, <1>5, <1>6, <1>9, ConstraintMetIs DEF Positive, Negative, d
<1>10. CASE c.kind \in Positive
  <2>1. Holds(d, AsAdded(watched)) <=> \E w \in W : Says(d, w)
    BY <1>4, <1>5, <1>10 DEF Positive, Negative
  <2>2. (\E v \in V : Says(d, F(v))) <=> SomeMeant(c, watched, c.kind)
    BY <1>8, <1>10, Zenon DEF SomeMeant
  <2> QED
    BY <1>7, <1>10, <2>1, <2>2, ConstraintMetIs DEF d
<1>11. CASE c.kind = "is_not_equal_to"
  <2>1. Holds(d, AsAdded(watched)) <=> ~ \E w \in W : Says(d, w)
    BY <1>4, <1>5, <1>11 DEF Positive, Negative
  <2>2. (\E v \in V : Says(d, F(v))) <=> SomeMeant(c, watched, "is_equals")
    BY <1>8, <1>11, Zenon DEF SomeMeant
  <2> QED
    BY <1>7, <1>11, <2>1, <2>2, ConstraintMetIs DEF d
<1>12. CASE c.kind = "does_not_contain"
  <2>1. Holds(d, AsAdded(watched)) <=> ~ \E w \in W : Says(d, w)
    BY <1>4, <1>5, <1>12 DEF Positive, Negative
  <2>2. (\E v \in V : Says(d, F(v))) <=> SomeMeant(c, watched, "contains")
    BY <1>8, <1>12, Zenon DEF SomeMeant
  <2> QED
    BY <1>7, <1>12, <2>1, <2>2, ConstraintMetIs DEF d
<1> QED
  BY <1>3, <1>9, <1>10, <1>11, <1>12 DEF Negative

LEMMA HeadersMean ==
  ASSUME foldCase \in BOOLEAN, watched \in Watched, NEW r \in Constrained
  PROVE  AllHold(Headers(r, foldCase), AsAdded(watched))
           <=> \A c \in r.headers : IsKept(c) => ConstraintMet(c, watched)
<1>1. Headers(r, foldCase) = {Condition(c) : c \in {d \in r.headers : IsKept(d)}}
  BY DEF Headers, Condition
<1>2. \A c \in r.headers : c.value \subseteq Seq(Char)
  BY ConditionsAssumption
<1>3. \A c \in r.headers : IsKept(c) => (Holds(Condition(c), AsAdded(watched)) <=> ConstraintMet(c, watched))
  BY <1>2, HeaderMeans
<1> QED
  BY <1>1, <1>3 DEF AllHold

InTimes(r, q) ==
  r.times # {} =>
    \E t \in q.created, w \in r.times :
       /\ \A s \in w.start \ {Unreadable} : t % DayLength >= s
       /\ \A e \in w.end \ {Unreadable} : t % DayLength < e

OnDays(r, q) == r.weekdays # {} => \E t \in q.created : OnWeekday(r.weekdays, t)

LEMMA DatesMean ==
  ASSUME watched \in Watched, NEW r
  PROVE  AllHold(Dates(r), AsAdded(watched)) <=> InTimes(r, watched) /\ OnDays(r, watched)
<1> DEFINE q == AsAdded(watched)
           times == [kind |-> "time", ranges |-> RouteTimes(r)]
           days == [kind |-> "weekdays", days |-> r.weekdays]
<1>1. q.created = watched.created
  BY AddedHeaders
<1>2. AllHold(Dates(r), q) <=> (r.times # {} => Holds(times, q)) /\ (r.weekdays # {} => Holds(days, q))
  <2> HIDE DEF times, days, q
  <2> QED
    BY DEF AllHold, Dates, times, days
<1> HIDE DEF q
<1>3. Holds(days, q) <=> \E t \in q.created : OnWeekday(r.weekdays, t)
  BY DEF Holds, MatchDate
<1>4. Holds(times, q) <=> \E t \in q.created : \E w \in RouteTimes(r) : InTime(w, t)
  BY DEF Holds, MatchDate
<1>5. \A t : (\E w \in RouteTimes(r) : InTime(w, t)) <=> \E w \in r.times : InTime(FromRange(w), t)
  BY DEF RouteTimes
<1>6. \A t, w : InTime(FromRange(w), t)
        <=> /\ \A s \in w.start \ {Unreadable} : t % DayLength >= s
            /\ \A e \in w.end \ {Unreadable} : t % DayLength < e
  BY DEF InTime, FromRange
<1>7. (r.times # {} => Holds(times, q)) <=> InTimes(r, watched)
  <2> HIDE DEF times
  <2> QED
    BY <1>1, <1>4, <1>5, <1>6, Zenon DEF InTimes
<1>8. (r.weekdays # {} => Holds(days, q)) <=> OnDays(r, watched)
  <2> HIDE DEF days
  <2> QED
    BY <1>1, <1>3, Zenon DEF OnDays
<1> QED
  BY <1>2, <1>7, <1>8, Zenon DEF q

----------------------------------------------------------------------------
(* What was found and what was told is of the rules that are listed.       *)

ConditionsInv ==
  /\ listed \in SUBSET Constrained
  /\ foldCase \in BOOLEAN
  /\ watched \in Watched
  /\ matching \subseteq {MatchRequest(listed, AsAdded(watched), foldCase)}
  /\ explained \subseteq {TraceRequest(listed, AsAdded(watched), foldCase)}
  /\ explained # {} => matching # {}

LEMMA ConditionsInvHolds == ConditionsSpec => []ConditionsInv
<1>1. ConditionsInit => ConditionsInv
  BY DEF ConditionsInit, ConditionsInv
<1>2. ConditionsInv /\ [ConditionsNext]_conditionsVars => ConditionsInv'
  <2> SUFFICES ASSUME ConditionsInv, [ConditionsNext]_conditionsVars
               PROVE  ConditionsInv'
    OBVIOUS
  <2>1. CASE AskMatch
    BY <2>1 DEF ConditionsInv, AskMatch, AsAdded
  <2>2. CASE AskTrace
    BY <2>2 DEF ConditionsInv, AskTrace, AsAdded
  <2>3. CASE UNCHANGED conditionsVars
    BY <2>3 DEF ConditionsInv, conditionsVars, AsAdded
  <2> QED
    BY <2>1, <2>2, <2>3 DEF ConditionsNext
<1> QED
  BY <1>1, <1>2, PTL DEF ConditionsSpec

LEMMA ListedAreFinite ==
  ASSUME ConditionsInv
  PROVE  IsFiniteSet(listed) /\ \A r \in listed : IsFiniteSet(r.headers)
BY ConditionsAssumption, FS_Subset DEF ConditionsInv

(* A request finds the rules all of whose readable conditions hold for its *)
(* headers and its time and no other rule, for any finite set of rules:    *)
(* that a result is shared between groups and kept for those after it      *)
(* (HeaderMatcher and DateTimeMatcher, match_request) changes nothing.     *)
THEOREM FoundByConjunction == ConditionsSpec => []FindsByConjunction
<1>1. ConditionsInv => FindsByConjunction
  <2> SUFFICES ASSUME ConditionsInv, NEW found \in matching
               PROVE  found = {r \in listed :
                                 /\ \A c \in r.headers : IsKept(c) => ConstraintMet(c, watched)
                                 /\ InTimes(r, watched) /\ OnDays(r, watched)}
    BY DEF FindsByConjunction, InTimes, OnDays
  <2> DEFINE q == AsAdded(watched)
  <2>1. listed \in SUBSET Constrained /\ foldCase \in BOOLEAN /\ watched \in Watched
    BY DEF ConditionsInv
  <2>2. found = MatchRequest(listed, q, foldCase)
    BY DEF ConditionsInv
  <2>3. found = FoundBy(listed, q, foldCase)
    BY <2>2, ListedAreFinite, MatchRequestIs
  <2>4. ASSUME NEW r \in listed
        PROVE  /\ AllHold(Headers(r, foldCase), q)
                    <=> \A c \in r.headers : IsKept(c) => ConstraintMet(c, watched)
               /\ AllHold(Dates(r), q) <=> InTimes(r, watched) /\ OnDays(r, watched)
    <3>1. r \in Constrained
      BY <2>1
    <3> QED
      BY <2>1, <3>1, HeadersMean, DatesMean
  <2> HIDE DEF q
  <2> QED
    BY <2>3, <2>4 DEF FoundBy
<1> QED
  BY <1>1, ConditionsInvHolds, PTL

(* The trace of a request, with a memo that is kept in another way, finds  *)
(* the same rules; a group is met exactly if all of its conditions are     *)
(* told to be, and every result that it tells is the condition's own.      *)
THEOREM TraceTells == ConditionsSpec => []TraceTellsTheConditions
<1>1. ConditionsInv => TraceTellsTheConditions
  <2> SUFFICES ASSUME ConditionsInv, NEW trace \in explained
               PROVE  /\ {trace.found} = matching
                      /\ \A n \in trace.nodes :
                           /\ n.met <=> \A t \in n.told : t.result = {TRUE}
                           /\ \A t \in n.told : \A result \in t.result :
                                result = Holds(t.condition, AsAdded(watched))
    BY DEF TraceTellsTheConditions
  <2> DEFINE q == AsAdded(watched)
  <2>1. trace = TraceRequest(listed, q, foldCase)
    BY DEF ConditionsInv
  <2>2. matching = {MatchRequest(listed, q, foldCase)}
    BY DEF ConditionsInv
  <2> HIDE DEF q
  <2>3. IsFiniteSet(listed) /\ \A r \in listed : IsFiniteSet(r.headers)
    BY ListedAreFinite
  <2>4. MatchRequest(listed, q, foldCase) = FoundBy(listed, q, foldCase)
    BY <2>3, MatchRequestIs
  <2>5. /\ trace.found = FoundBy(listed, q, foldCase)
        /\ \A n \in trace.nodes : TrueNode(n, q)
    BY <2>1, <2>3, TraceRequestIs
  <2>6. {trace.found} = matching
    BY <2>2, <2>4, <2>5
  <2>7. ASSUME NEW n \in trace.nodes
        PROVE  /\ n.met <=> \A t \in n.told : t.result = {TRUE}
               /\ \A t \in n.told : \A result \in t.result : result = Holds(t.condition, q)
    <3>1. n.met <=> \A t \in n.told : t.result = {TRUE}
      BY <2>5, Zenon DEF TrueNode, TellsAll
    <3>2. \A t \in n.told : t.result \subseteq {Holds(t.condition, q)}
      BY <2>5, Zenon DEF TrueNode
    <3> QED
      BY <3>1, <3>2, Zenon
  <2> QED
    BY <2>6, <2>7 DEF q
<1> QED
  BY <1>1, ConditionsInvHolds, PTL

----------------------------------------------------------------------------
(* The report on redirections.                                             *)

(* There are finitely many places, and more than one if there is any.      *)
LEMMA PlacesAreFinite ==
  /\ IsFiniteSet(Place) /\ Places \in Nat
  /\ Place # {} => Places >= 2
<1> DEFINE methods == {"GET", "POST"}
           P == (Optional(Host) \X Page) \X methods
           f == [p \in P |-> [url |-> [host |-> p[1][1], path |-> p[1][2]], method |-> p[2]]]
<1>1. IsFiniteSet(Optional(Host))
  <2>1. IsFiniteSet(SUBSET Host)
    BY LoopsAssumption, FS_SUBSET
  <2>2. Optional(Host) \subseteq SUBSET Host
    BY DEF Optional
  <2> QED
    BY <2>1, <2>2, FS_Subset
<1>2. IsFiniteSet(methods)
  <2>1. IsFiniteSet({"GET"})
    BY FS_Singleton
  <2>2. IsFiniteSet({"GET"} \cup {"POST"})
    BY <2>1, FS_AddElement
  <2>3. {"GET"} \cup {"POST"} = methods
    OBVIOUS
  <2> QED
    BY <2>2, <2>3
<1>3. IsFiniteSet(P)
  <2>1. IsFiniteSet(Optional(Host) \X Page)
    BY <1>1, LoopsAssumption, FS_Product
  <2> QED
    BY <1>2, <2>1, FS_Product
<1>4. f \in Surjection(P, Place)
  <2>1. f \in [P -> Place]
    BY DEF Place, Link
  <2>2. ASSUME NEW x \in Place PROVE \E p \in P : f[p] = x
    <3>1. /\ x = [url |-> x.url, method |-> x.method] /\ x.method \in methods
          /\ x.url = [host |-> x.url.host, path |-> x.url.path]
          /\ x.url.host \in Optional(Host) /\ x.url.path \in Page
      BY DEF Place, Link
    <3>2. << <<x.url.host, x.url.path>>, x.method>> \in P
      BY <3>1
    <3>3. f[<< <<x.url.host, x.url.path>>, x.method>>] = x
      BY <3>1, <3>2
    <3> QED
      BY <3>2, <3>3
  <2> QED
    BY <2>1, <2>2 DEF Surjection
<1>5. IsFiniteSet(Place)
  BY <1>3, <1>4, FS_Surjection
<1>6. Places \in Nat
  BY <1>5, FS_CardinalityType DEF Places
<1>7. ASSUME Place # {} PROVE Places >= 2
  <2>1. PICK x \in Place : TRUE
    BY <1>7
  <2> DEFINE y == [x EXCEPT !.method = "GET"]
             z == [x EXCEPT !.method = "POST"]
  <2>2. y \in Place /\ z \in Place /\ y.method # z.method
    BY DEF Place
  <2>3. Places # 0
    BY <1>5, <1>7, FS_EmptySet DEF Places
  <2>4. Places # 1
    <3>1. ASSUME Places = 1 PROVE FALSE
      <4>1. PICK w : Place = {w}
        BY <1>5, <3>1, FS_Singleton DEF Places
      <4>2. y = w /\ z = w
        BY <2>2, <4>1
      <4> QED
        BY <2>2, <4>2
    <3> QED
      BY <3>1
  <2> QED
    BY <1>6, <2>3, <2>4
<1> QED
  BY <1>5, <1>6, <1>7

(* As many steps lead to more places than there are only by way of one     *)
(* place twice.                                                            *)
LEMMA Crowded ==
  ASSUME NEW n \in Nat, NEW s, \A k \in 1..n : s[k] \in Place,
         \A j, k \in 1..n : s[j] = s[k] => j = k
  PROVE  n <= Places
<1>1. SUFFICES ASSUME n > Places PROVE FALSE
  BY PlacesAreFinite
<1> DEFINE f == [k \in 1..n |-> s[k]]
<1>2. IsFiniteSet(1..n) /\ Cardinality(1..n) = n
  BY FS_Interval
<1>3. f \in [1..n -> Place]
  OBVIOUS
<1>4. \E j, k \in 1..n : j # k /\ f[j] = f[k]
  <2> HIDE DEF f
  <2> QED
    BY <1>1, <1>2, <1>3, PlacesAreFinite, FS_PigeonHole DEF Places
<1> QED
  BY <1>4

----------------------------------------------------------------------------
(* The client.                                                             *)

Walk(n, f) ==
  f = [k \in 0..n |-> IF k = 0 THEN {At(example)} ELSE UNION {Onward(at) : at \in f[k - 1]}]

LEMMA WalkExists ==
  ASSUME NEW n \in Nat
  PROVE  \E f : Walk(n, f)
<1> DEFINE S == {m \in 0..n : \E f : Walk(m, f)}
<1>1. 0 \in S
  <2> DEFINE f == [k \in 0..0 |-> {At(example)}]
  <2>1. Walk(0, f)
    BY DEF Walk
  <2> QED
    BY <2>1
<1>2. ASSUME NEW m \in 1..n, m - 1 \in S PROVE m \in S
  <2>1. PICK g : Walk(m - 1, g)
    BY <1>2
  <2> DEFINE f == [k \in 0..m |-> IF k = m THEN UNION {Onward(at) : at \in g[m - 1]} ELSE g[k]]
  <2>2. ASSUME NEW k \in 0..m
        PROVE  f[k] = IF k = 0 THEN {At(example)} ELSE UNION {Onward(at) : at \in f[k - 1]}
    <3>1. CASE k = m
      <4>1. m - 1 \in 0..m /\ f[m - 1] = g[m - 1] /\ m # 0
        OBVIOUS
      <4> QED
        BY <3>1, <4>1
    <3>2. CASE k # m
      <4>1. k \in 0..(m - 1) /\ f[k] = g[k] /\ (k # 0 => k - 1 \in 0..(m - 1) /\ f[k - 1] = g[k - 1])
        BY <3>2
      <4>2. g[k] = IF k = 0 THEN {At(example)} ELSE UNION {Onward(at) : at \in g[k - 1]}
        BY <2>1, <4>1 DEF Walk
      <4> QED
        BY <4>1, <4>2
    <3> QED
      BY <3>1, <3>2
  <2>3. Walk(m, f)
    BY <2>2 DEF Walk
  <2> QED
    BY <2>3
<1> HIDE DEF S
<1>3. 0..n \subseteq S
  BY <1>1, <1>2, Turns
<1> QED
  BY <1>3 DEF S

LEMMA ClientIs ==
  /\ Client[0] = {At(example)}
  /\ \A n \in 1..Places : Client[n] = UNION {Onward(at) : at \in Client[n - 1]}
<1>1. Places \in Nat
  BY PlacesAreFinite
<1>2. Walk(Places, CHOOSE f : Walk(Places, f))
  BY <1>1, WalkExists, Zenon
<1>3. Walk(Places, Client)
  BY <1>2 DEF Walk, Client
<1>4. ASSUME NEW n \in 0..Places
      PROVE  Client[n] = IF n = 0 THEN {At(example)} ELSE UNION {Onward(at) : at \in Client[n - 1]}
  <2> DEFINE c == Client
  <2> HIDE DEF c
  <2>1. Walk(Places, c)
    BY <1>3 DEF c
  <2>2. c[n] = IF n = 0 THEN {At(example)} ELSE UNION {Onward(at) : at \in c[n - 1]}
    BY <2>1 DEF Walk
  <2> QED
    BY <2>2 DEF c
<1>5. Client[0] = {At(example)}
  <2>1. 0 \in 0..Places
    BY <1>1
  <2> QED
    BY <1>4, <2>1, Zenon
<1>6. ASSUME NEW n \in 1..Places
      PROVE  Client[n] = UNION {Onward(at) : at \in Client[n - 1]}
  <2>1. n \in 0..Places /\ n # 0
    BY <1>1
  <2> QED
    BY <1>4, <2>1, Zenon
<1> QED
  BY <1>5, <1>6

LEMMA OnwardFrom ==
  ASSUME NEW n \in 1..Places, NEW at, Client[n - 1] = {at}
  PROVE  Client[n] = Onward(at)
<1>1. Client[n] = UNION {Onward(x) : x \in Client[n - 1]}
  BY ClientIs
<1> QED
  BY <1>1

(* Once it is nowhere it goes no further.                                  *)
LEMMA NowhereStays ==
  ASSUME NEW m \in 0..Places, NEW n \in 0..Places, m <= n, Client[m] = {}
  PROVE  Client[n] = {}
<1> DEFINE S == {d \in 0..(n - m) : Client[m + d] = {}}
<1>1. Places \in Nat
  BY PlacesAreFinite
<1>2. 0 \in S
  OBVIOUS
<1>3. ASSUME NEW d \in 1..(n - m), d - 1 \in S PROVE d \in S
  <2>1. m + d \in 1..Places /\ (m + d) - 1 = m + (d - 1)
    BY <1>1
  <2>2. Client[m + d] = UNION {Onward(at) : at \in Client[m + (d - 1)]}
    BY <2>1, ClientIs
  <2> QED
    BY <1>3, <2>2
<1> HIDE DEF S
<1>4. n - m \in Nat
  BY <1>1
<1>5. n - m \in S
  BY <1>2, <1>3, <1>4, Turns
<1> QED
  BY <1>1, <1>5 DEF S

(* If it comes back it never stops.                                        *)
LEMMA RoundAndRound ==
  ASSUME NEW a \in 0..Places, NEW b \in 0..Places, a < b, Client[a] = Client[b], Client[b] # {}
  PROVE  Endless
<1>1. Places \in Nat
  BY PlacesAreFinite
<1>2. \A d \in 0..(Places - b) : Client[a + d] = Client[b + d]
  <2> DEFINE S == {d \in 0..(Places - b) : Client[a + d] = Client[b + d]}
  <2>1. 0 \in S
    BY <1>1
  <2>2. ASSUME NEW d \in 1..(Places - b), d - 1 \in S PROVE d \in S
    <3>1. /\ a + d \in 1..Places /\ (a + d) - 1 = a + (d - 1)
          /\ b + d \in 1..Places /\ (b + d) - 1 = b + (d - 1)
      BY <1>1
    <3>2. /\ Client[a + d] = UNION {Onward(at) : at \in Client[a + (d - 1)]}
          /\ Client[b + d] = UNION {Onward(at) : at \in Client[b + (d - 1)]}
      BY <3>1, ClientIs
    <3>3. Client[a + (d - 1)] = Client[b + (d - 1)]
      BY <2>2
    <3>4. Client[a + d] = Client[b + d]
      BY <3>2, <3>3, Zenon
    <3> QED
      BY <3>4
  <2> HIDE DEF S
  <2>3. Places - b \in Nat
    BY <1>1
  <2>4. 0..(Places - b) \subseteq S
    BY <2>1, <2>2, <2>3, Turns
  <2> QED
    BY <2>4 DEF S
<1> DEFINE S == {n \in 0..Places : \A k \in 0..n : Client[k] # {}}
<1>3. 0 \in S
  <2>1. Client[0] # {}
    BY ClientIs
  <2> QED
    BY <1>1, <2>1
<1>4. ASSUME NEW n \in 1..Places, n - 1 \in S PROVE n \in S
  <2>1. CASE n <= b
    BY <1>1, <1>4, <2>1, NowhereStays
  <2>2. CASE n > b
    <3>1. n - b \in 0..(Places - b) /\ a + (n - b) \in 0..(n - 1) /\ b + (n - b) = n
      BY <1>1, <2>2
    <3>2. Client[n] = Client[a + (n - b)]
      BY <1>2, <3>1
    <3>3. Client[a + (n - b)] # {}
      BY <1>4, <3>1
    <3> QED
      BY <1>1, <1>4, <3>2, <3>3
  <2> QED
    BY <1>1, <2>1, <2>2
<1> HIDE DEF S
<1>5. Places \in S
  BY <1>1, <1>3, <1>4, Turns
<1> QED
  BY <1>1, <1>5 DEF S, Endless

----------------------------------------------------------------------------
(* One redirection.                                                        *)

Replied(hop) == site[hop.url][hop.method]

NextOf(hop, l) ==
  [url |-> Join(hop.url, l), method |-> MethodAfter(Replied(hop).status, hop.method)]

(* The hop is a redirection, to the next one.                              *)
Goes(hop, next) ==
  Replied(hop).status \in Codes /\ \E l \in Replied(hop).location : next = NextOf(hop, l)

(* It is none, or goes nowhere.                                            *)
Lands(hop) == Replied(hop).status \notin Codes \/ Replied(hop).location = {}

Away(hop) == hop.url.host # {} /\ hop.url.host \cap KnownHosts = {}

Given == example \in Place /\ site \in Site

AllAsked == \A k \in DOMAIN hops : AskedAsClient(hops[k])

(* The host a client takes for a relative url.                             *)
Default == IF project = {} THEN {} ELSE {CHOOSE h \in project : TRUE}

LEMMA AtIs ==
  ASSUME NEW hop \in Place
  PROVE  /\ At(hop) = [url |-> [host |-> IF hop.url.host # {} THEN hop.url.host ELSE Default,
                                path |-> hop.url.path],
                       method |-> hop.method]
         /\ hop.url.path \in Page /\ hop.method \in {"GET", "POST"}
         /\ hop.url.host \in Optional(Host)
         /\ hop = [url |-> [host |-> hop.url.host, path |-> hop.url.path], method |-> hop.method]
BY DEF Place, Link, At, Default

LEMMA RepliedIs ==
  ASSUME Given, NEW hop \in Place
  PROVE  Replied(hop).location \in Optional(Link)
<1>1. hop.url \in Link /\ hop.method \in {"GET", "POST"}
  BY DEF Place
<1> QED
  BY <1>1, LoopsAssumption DEF Given, Replied

LEMMA DefaultIsKnown == project # {} => Default \subseteq KnownHosts
BY DEF Default, KnownHosts

LEMMA OnwardLands ==
  ASSUME Given, NEW hop \in Place, AskedAsClient(hop), Lands(hop)
  PROVE  Onward(At(hop)) = {}
<1>1. site[At(hop).url][At(hop).method] = Replied(hop)
  <2>1. site[At(hop).url] = site[hop.url] /\ At(hop).method = hop.method
    BY AtIs DEF AskedAsClient
  <2> QED
    BY <2>1 DEF Replied
<1> QED
  BY <1>1 DEF Onward, Lands

LEMMA NextIsPlace ==
  ASSUME Given, NEW hop \in Place, NEW next, Goes(hop, next)
  PROVE  next \in Place
<1>1. PICK l \in Replied(hop).location : next = NextOf(hop, l)
  BY DEF Goes
<1>2. l \in Link
  BY <1>1, RepliedIs DEF Optional
<1>3. l.host \in Optional(Host) /\ l.path \in Page
  BY <1>2 DEF Link
<1>4. Join(hop.url, l) \in Link
  BY <1>2, AtIs DEF Join, Link
<1>5. MethodAfter(Replied(hop).status, hop.method) \in {"GET", "POST"}
  BY AtIs DEF MethodAfter
<1> QED
  BY <1>1, <1>4, <1>5 DEF NextOf, Place

(* The client follows a redirection, unless that leaves the project.       *)
LEMMA OnwardGoes ==
  ASSUME Given, NEW hop \in Place, AskedAsClient(hop), NEW next, Goes(hop, next)
  PROVE  Onward(At(hop)) = IF ~ Away(next) \/ At(next) = At(example) THEN {At(next)} ELSE {}
<1>1. PICK l \in Replied(hop).location : next = NextOf(hop, l)
  BY DEF Goes
<1>2. Replied(hop).location = {l} /\ l \in Link
  BY <1>1, RepliedIs DEF Optional
<1>3. l.host \in Optional(Host) /\ l.path \in Page /\ l = [host |-> l.host, path |-> l.path]
  BY <1>2 DEF Link
<1> DEFINE at == At(hop)
           to == [url |-> [host |-> IF l.host = {} THEN at.url.host ELSE l.host, path |-> l.path],
                  method |-> IF Replied(hop).status \in {307, 308} THEN at.method ELSE "GET"]
           inside(at2) == at2.url.host \subseteq KnownHosts \/ at2 = At(example)
<1>4. next \in Place
  BY NextIsPlace
<1>5. site[at.url][at.method] = Replied(hop) /\ Replied(hop).status \in Codes
  <2>1. site[at.url] = site[hop.url] /\ at.method = hop.method
    BY AtIs DEF AskedAsClient
  <2> QED
    BY <2>1 DEF Replied, Goes
<1>6. to = At(next)
  <2>1. next.url = Join(hop.url, l) /\ next.method = MethodAfter(Replied(hop).status, hop.method)
    BY <1>1 DEF NextOf
  <2>2. next.method = to.method
    BY <1>5, <2>1, AtIs DEF MethodAfter, Codes
  <2>3. next.url.path = l.path
    BY <1>3, <2>1 DEF Join
  <2>4. to.url.host = IF next.url.host # {} THEN next.url.host ELSE Default
    BY <1>3, <2>1, AtIs DEF Join
  <2> QED
    BY <1>4, <2>2, <2>3, <2>4, AtIs
<1>7. Onward(at) = {t \in {to} : inside(t)}
  <2>1. Onward(at) = {t \in {[url |-> [host |-> IF m.host = {} THEN at.url.host ELSE m.host, path |-> m.path],
                              method |-> IF Replied(hop).status \in {307, 308} THEN at.method ELSE "GET"] :
                                m \in Replied(hop).location} : inside(t)}
    BY <1>5 DEF Onward
  <2> QED
    BY <1>2, <2>1
<1>8. inside(At(next)) <=> ~ Away(next) \/ At(next) = At(example)
  <2>1. CASE next.url.host = {}
    <3>1. At(next).url.host = Default /\ ~ Away(next)
      BY <1>4, <2>1, AtIs DEF Away
    <3>2. Default \subseteq KnownHosts
      BY DefaultIsKnown DEF Default
    <3> QED
      BY <3>1, <3>2
  <2>2. CASE next.url.host # {}
    <3>1. At(next).url.host = next.url.host
      BY <1>4, <2>2, AtIs
    <3>2. PICK h : next.url.host = {h}
      BY <1>4, <2>2, AtIs DEF Optional
    <3> QED
      BY <3>1, <3>2 DEF Away
  <2> QED
    BY <2>1, <2>2
<1> QED
  BY <1>6, <1>7, <1>8

(* Who leaves the project is where it began only if that was the same url. *)
LEMMA AwayFromStart ==
  ASSUME Given, NEW hop \in Place, Away(hop), At(hop) = At(example)
  PROVE  hop = example
<1>1. hop.url.host # {} /\ hop.url.host \cap KnownHosts = {}
  BY DEF Away
<1>2. example \in Place
  BY DEF Given
<1>3. At(hop).url.host = hop.url.host
  BY <1>1, AtIs
<1>4. example.url.host # {}
  <2>1. ASSUME example.url.host = {} PROVE FALSE
    <3>1. At(example).url.host = Default
      BY <1>2, <2>1, AtIs
    <3>2. Default \subseteq KnownHosts
      BY DefaultIsKnown DEF Default
    <3> QED
      BY <1>1, <1>3, <3>1, <3>2
  <2> QED
    BY <2>1
<1>5. At(example).url.host = example.url.host
  BY <1>2, <1>4, AtIs
<1>6. At(hop).url.path = hop.url.path /\ At(hop).method = hop.method
  BY AtIs
<1>7. At(example).url.path = example.url.path /\ At(example).method = example.method
  BY <1>2, AtIs
<1> QED
  BY <1>2, <1>3, <1>5, <1>6, <1>7, AtIs

----------------------------------------------------------------------------
(* The chain of hops.                                                      *)

(* The first n hops differ.                                                *)
Differ(n) == \A j, k \in 1..n : hops[j] = hops[k] => j = k

(* Each hop leads to the next, and none but the last leaves the project.   *)
ChainInv ==
  /\ Given /\ budget \in Nat
  /\ hops \in Seq(Place) /\ Len(hops) >= 1 /\ hops[1] = example
  /\ \A k \in 1..(Len(hops) - 1) : Goes(hops[k], hops[k + 1])
  /\ \A k \in 2..(Len(hops) - 1) : ~ Away(hops[k])
  /\ Differ(Len(hops) - 1)
  /\ Len(hops) <= budget + 1

(* The last hop is one to go on from.                                      *)
OnItsWay == Differ(Len(hops)) /\ (Len(hops) > 1 => ~ Away(Here))

Warning == IF Len(hops) > 2 THEN {"AtLeastOneHop"} ELSE {}

(* How the loop ended: at a page or without a budget, in a loop, with the  *)
(* budget used up, outside of the project.                                 *)
Landed == OnItsWay /\ error = Warning /\ (budget = 0 \/ Lands(Here) \/ Here.url \in Refused)

Looped == error = {"Loop"} /\ \E k \in 1..(Len(hops) - 1) : hops[k] = Here

Exhausted == error = {"TooManyHops"} /\ OnItsWay /\ Len(hops) = budget + 1

Left == error = Warning /\ Differ(Len(hops)) /\ Away(Here) /\ Len(hops) > 1

LoopsInv ==
  /\ ChainInv
  /\ compute = "hop" => OnItsWay /\ error = Warning /\ (Len(hops) <= budget \/ budget = 0)
  /\ compute # "hop" => Landed \/ Looped \/ Exhausted \/ Left

LEMMA LoopsInvInit == LoopsInit => LoopsInv
<1> SUFFICES ASSUME LoopsInit PROVE LoopsInv
  OBVIOUS
<1>1. Given /\ budget \in Nat
  BY LoopsAssumption DEF LoopsInit, Given
<1>2. /\ hops = <<example>> /\ hops \in Seq(Place) /\ Len(hops) = 1 /\ hops[1] = example
      /\ error = {} /\ compute = "hop"
  BY <1>1 DEF LoopsInit, Given
<1>3. ChainInv
  BY <1>1, <1>2 DEF ChainInv, Differ
<1>4. OnItsWay /\ Warning = {}
  BY <1>2 DEF OnItsWay, Differ, Warning
<1> QED
  BY <1>1, <1>2, <1>3, <1>4 DEF LoopsInv

LEMMA StopInv == LoopsInv /\ Stop => LoopsInv'
<1> SUFFICES ASSUME LoopsInv, Stop PROVE LoopsInv'
  OBVIOUS
<1>1. /\ compute = "hop" /\ compute' = "done"
      /\ project' = project /\ example' = example /\ site' = site /\ budget' = budget
      /\ hops' = hops /\ error' = error
  BY DEF Stop
<1>2. Len(hops) > budget \/ Lands(Here) \/ Here.url \in Refused
  BY DEF Stop, Lands, Replied
<1>3. Landed
  BY <1>1, <1>2 DEF LoopsInv, Landed, ChainInv
<1>4. ChainInv' /\ Landed'
  BY <1>1, <1>3
     DEF LoopsInv, Landed, ChainInv, Given, Differ, Goes, Replied, NextOf, Away, KnownHosts, OnItsWay,
         Warning, Lands, Here
<1> QED
  BY <1>1, <1>4 DEF LoopsInv

LEMMA HopInv == LoopsInv /\ Hop => LoopsInv'
<1> SUFFICES ASSUME LoopsInv, Hop PROVE LoopsInv'
  OBVIOUS
<1> DEFINE i == Len(hops)
<1>1. /\ compute = "hop" /\ i <= budget /\ Replied(Here).status \in Codes
      /\ project' = project /\ example' = example /\ site' = site /\ budget' = budget
  BY DEF Hop, Replied
<1>2. PICK l \in Replied(Here).location :
        LET hop == NextOf(Here, l)
            tooMany == i >= budget
        IN /\ hops' = Append(hops, hop)
           /\ error' = IF Seen(hop) THEN {"Loop"}
                       ELSE IF ~ Away(hop) /\ tooMany THEN {"TooManyHops"}
                       ELSE IF i > 1 THEN {"AtLeastOneHop"} ELSE error
           /\ compute' = IF Seen(hop) \/ Away(hop) \/ tooMany THEN "done" ELSE "hop"
  BY DEF Hop, Replied, NextOf, Away
<1> DEFINE hop == NextOf(Here, l)
<1>3. /\ hops' = Append(hops, hop)
      /\ error' = IF Seen(hop) THEN {"Loop"}
                  ELSE IF ~ Away(hop) /\ i >= budget THEN {"TooManyHops"}
                  ELSE IF i > 1 THEN {"AtLeastOneHop"} ELSE error
      /\ compute' = IF Seen(hop) \/ Away(hop) \/ i >= budget THEN "done" ELSE "hop"
  BY <1>2
<1>4. /\ ChainInv /\ OnItsWay /\ error = Warning /\ budget \in Nat
      /\ hops \in Seq(Place) /\ i \in Nat /\ i >= 1 /\ Here \in Place /\ Here = hops[i]
  BY <1>1 DEF LoopsInv, ChainInv, Here
<1>5. Goes(Here, hop) /\ hop \in Place
  <2>1. Goes(Here, hop)
    BY <1>1 DEF Goes
  <2> QED
    BY <1>4, <2>1, NextIsPlace DEF ChainInv
<1> HIDE DEF hop
<1>6. /\ hops' \in Seq(Place) /\ Len(hops') = i + 1 /\ hops'[i + 1] = hop /\ Here' = hop
      /\ \A k \in 1..i : hops'[k] = hops[k]
  BY <1>3, <1>4, <1>5 DEF Here
<1>7. /\ \A h, n : Goes(h, n)' <=> Goes(h, n)
      /\ \A h : Away(h)' <=> Away(h)
      /\ Given'
  BY <1>1, <1>4 DEF Goes, Away, KnownHosts, Replied, NextOf, ChainInv, Given
<1>8. ChainInv'
  <2>1. \A k \in 1..i : Goes(hops'[k], hops'[k + 1])
    <3> TAKE k \in 1..i
    <3>1. CASE k = i
      BY <1>4, <1>5, <1>6, <3>1
    <3>2. CASE k # i
      <4>1. k \in 1..(i - 1) /\ k + 1 \in 1..i
        BY <1>4, <3>2
      <4>2. Goes(hops[k], hops[k + 1])
        BY <1>4, <4>1 DEF ChainInv
      <4> QED
        BY <1>6, <4>1, <4>2
    <3> QED
      BY <3>1, <3>2
  <2>2. \A k \in 2..i : ~ Away(hops'[k])
    <3> TAKE k \in 2..i
    <3>1. CASE k = i
      BY <1>4, <1>6, <3>1 DEF OnItsWay
    <3>2. CASE k # i
      <4>1. k \in 2..(i - 1) /\ k \in 1..i
        BY <1>4, <3>2
      <4>2. ~ Away(hops[k])
        BY <1>4, <4>1 DEF ChainInv
      <4> QED
        BY <1>6, <4>1, <4>2
    <3> QED
      BY <3>1, <3>2
  <2>3. \A j, k \in 1..i : hops'[j] = hops'[k] => j = k
    BY <1>4, <1>6 DEF OnItsWay, Differ
  <2>4. /\ (i + 1) - 1 = i /\ hops'[1] = example
        /\ i + 1 <= budget + 1
    BY <1>1, <1>4, <1>6 DEF ChainInv
  <2> QED
    BY <1>1, <1>4, <1>6, <1>7, <2>1, <2>2, <2>3, <2>4 DEF ChainInv, Differ
<1>9. CASE Seen(hop)
  <2>1. PICK k \in 1..i : hops[k] = hop
    BY <1>4, <1>9 DEF Seen
  <2>2. hops'[k] = Here' /\ k \in 1..(Len(hops') - 1)
    BY <1>4, <1>6, <2>1
  <2>3. Looped' /\ compute' = "done"
    BY <1>3, <1>9, <2>2 DEF Looped
  <2> QED
    BY <1>8, <2>3 DEF LoopsInv
<1>10. CASE ~ Seen(hop)
  <2>1. Differ(Len(hops))'
    <3>1. \A k \in 1..i : hops'[k] # hop
      BY <1>4, <1>6, <1>10 DEF Seen
    <3>2. ASSUME NEW j \in 1..(i + 1), NEW k \in 1..(i + 1), hops'[j] = hops'[k] PROVE j = k
      <4>1. CASE j \in 1..i /\ k \in 1..i
        BY <1>4, <1>6, <3>2, <4>1 DEF OnItsWay, Differ
      <4>2. CASE j = i + 1 /\ k \in 1..i
        BY <1>6, <3>1, <3>2, <4>2
      <4>3. CASE k = i + 1 /\ j \in 1..i
        BY <1>6, <3>1, <3>2, <4>3
      <4> QED
        BY <1>4, <4>1, <4>2, <4>3
    <3> QED
      BY <1>6, <3>2 DEF Differ
  <2>2. Warning' = IF i > 1 THEN {"AtLeastOneHop"} ELSE error
    BY <1>4, <1>6 DEF Warning
  <2>4. CASE Away(hop)
    <3>1. compute' = "done" /\ error' = Warning'
      BY <1>3, <1>10, <2>2, <2>4
    <3>2. Left'
      BY <1>4, <1>6, <1>7, <2>1, <2>4, <3>1 DEF Left
    <3> QED
      BY <1>8, <3>1, <3>2 DEF LoopsInv
  <2>5. CASE ~ Away(hop)
    <3>1. OnItsWay'
      BY <1>6, <1>7, <2>1, <2>5 DEF OnItsWay
    <3>2. CASE i >= budget
      <4>1. compute' = "done" /\ error' = {"TooManyHops"} /\ Len(hops') = budget' + 1
        BY <1>1, <1>3, <1>4, <1>6, <1>10, <2>5, <3>2
      <4>2. Exhausted'
        BY <3>1, <4>1 DEF Exhausted
      <4> QED
        BY <1>8, <4>1, <4>2 DEF LoopsInv
    <3>3. CASE ~ (i >= budget)
      <4>1. compute' = "hop" /\ error' = Warning' /\ Len(hops') <= budget'
        BY <1>1, <1>3, <1>4, <1>6, <1>10, <2>2, <2>5, <3>3
      <4> QED
        BY <1>8, <3>1, <4>1 DEF LoopsInv
    <3> QED
      BY <3>2, <3>3
  <2> QED
    BY <2>4, <2>5
<1> QED
  BY <1>9, <1>10

LEMMA LoopsAlways == LoopsSpec => []LoopsInv
<1>1. LoopsInv /\ UNCHANGED loopsVars => LoopsInv'
  BY DEF LoopsInv, ChainInv, Given, Differ, Goes, Replied, NextOf, Away, KnownHosts, OnItsWay,
         Warning, Lands, Here, Landed, Looped, Exhausted, Left, loopsVars
<1>2. LoopsInv /\ [LoopsNext]_loopsVars => LoopsInv'
  BY <1>1, StopInv, HopInv DEF LoopsNext
<1> QED
  BY <1>2, LoopsInvInit, PTL DEF LoopsSpec

----------------------------------------------------------------------------
(* What the hops have to do with the client.                               *)

(* Hops that differ are no more than there are places.                     *)
LEMMA DifferAreFew ==
  ASSUME ChainInv, NEW n \in 0..Len(hops), Differ(n)
  PROVE  n <= Places
<1>1. \A k \in 1..n : hops[k] \in Place
  BY DEF ChainInv
<1>2. \A j, k \in 1..n : hops[j] = hops[k] => j = k
  BY DEF Differ
<1> QED
  BY <1>1, <1>2, Crowded

(* The client is at every hop but, perhaps, the last.                      *)
LEMMA ClientIsThere ==
  ASSUME ChainInv, AllAsked
  PROVE  /\ Len(hops) - 1 <= Places
         /\ \A k \in 1..(Len(hops) - 1) : Client[k - 1] = {At(hops[k])}
<1> DEFINE L == Len(hops) - 1
           S == {d \in 0..L : \A k \in 1..d : Client[k - 1] = {At(hops[k])}}
<1>1. L \in Nat /\ Len(hops) \in Nat /\ Differ(L)
  BY DEF ChainInv
<1>2. L <= Places /\ Places \in Nat
  BY <1>1, DifferAreFew, PlacesAreFinite
<1>3. 0 \in S
  BY <1>1
<1>4. ASSUME NEW d \in 1..L, d - 1 \in S PROVE d \in S
  <2>1. Client[d - 1] = {At(hops[d])}
    <3>1. CASE d = 1
      BY <3>1, ClientIs DEF ChainInv
    <3>2. CASE d # 1
      <4>1. /\ d - 1 \in 1..(Len(hops) - 1) /\ d - 1 \in 1..(d - 1) /\ d \in 2..(Len(hops) - 1)
            /\ d - 1 \in 1..Places /\ (d - 1) + 1 = d
        BY <1>1, <1>2, <3>2
      <4>2. Client[(d - 1) - 1] = {At(hops[d - 1])}
        BY <1>4, <4>1
      <4>3. Client[d - 1] = Onward(At(hops[d - 1]))
        BY <4>1, <4>2, OnwardFrom
      <4>4. Goes(hops[d - 1], hops[d]) /\ ~ Away(hops[d]) /\ hops[d - 1] \in Place
        <5>1. Goes(hops[d - 1], hops[(d - 1) + 1])
          BY <4>1 DEF ChainInv
        <5> QED
          BY <4>1, <5>1 DEF ChainInv
      <4>5. AskedAsClient(hops[d - 1])
        BY <1>1, <4>1 DEF AllAsked, ChainInv
      <4> QED
        BY <4>3, <4>4, <4>5, OnwardGoes DEF ChainInv
    <3> QED
      BY <3>1, <3>2
  <2>2. \A k \in 1..(d - 1) : Client[k - 1] = {At(hops[k])}
    BY <1>4
  <2> QED
    BY <1>1, <2>1, <2>2
<1> HIDE DEF S
<1>5. L \in S
  <2>1. 0..L \subseteq S
    BY <1>1, <1>3, <1>4, Turns
  <2> QED
    BY <1>1, <2>1
<1>6. \A k \in 1..L : Client[k - 1] = {At(hops[k])}
  BY <1>5 DEF S
<1> QED
  BY <1>2, <1>6

(* It is at the last, too, unless that leaves the project.                 *)
LEMMA ClientIsHere ==
  ASSUME ChainInv, AllAsked, Len(hops) = 1 \/ ~ Away(Here) \/ At(Here) = At(example),
         Len(hops) - 1 <= Places
  PROVE  Client[Len(hops) - 1] = {At(Here)}
<1>1. CASE Len(hops) = 1
  BY <1>1, ClientIs DEF ChainInv, Here
<1>2. CASE Len(hops) # 1
  <2> DEFINE n == Len(hops) - 1
  <2>1. n \in 1..(Len(hops) - 1) /\ n \in 1..Places /\ n + 1 = Len(hops) /\ hops[n] \in Place
    <3>1. Len(hops) \in Nat /\ Len(hops) >= 1 /\ hops \in Seq(Place) /\ Places \in Nat
      BY PlacesAreFinite DEF ChainInv
    <3>2. n \in 1..(Len(hops) - 1) /\ n \in 1..Places /\ n + 1 = Len(hops) /\ n \in 1..Len(hops)
      <4>1. \A i \in Nat : i >= 1 /\ i # 1 => i - 1 \in Nat /\ i - 1 >= 1 /\ (i - 1) + 1 = i
        OBVIOUS
      <4>2. n \in Nat /\ n >= 1 /\ n + 1 = Len(hops)
        BY <1>2, <3>1, <4>1, Zenon
      <4> HIDE DEF n
      <4>3. n <= Places
        BY DEF n
      <4> QED
        BY <3>1, <4>2, <4>3
    <3> QED
      BY <3>1, <3>2
  <2>2. Client[n] = Onward(At(hops[n]))
    <3>1. Client[n - 1] = {At(hops[n])}
      BY <2>1, ClientIsThere
    <3> HIDE DEF n
    <3> QED
      BY <2>1, <3>1, OnwardFrom
  <2>3. Goes(hops[n], Here)
    BY <2>1 DEF ChainInv, Here
  <2>4. AskedAsClient(hops[n])
    BY <2>1 DEF AllAsked, ChainInv
  <2> QED
    BY <1>2, <2>1, <2>2, <2>3, <2>4, OnwardGoes DEF ChainInv
<1> QED
  BY <1>1, <1>2

(* If it is here and goes no further, the chain of redirections ends.      *)
LEMMA EndsAfter ==
  ASSUME NEW n \in 0..Places, Client[n] = {}
  PROVE  ~ Endless
<1>1. Places \in Nat
  BY PlacesAreFinite
<1> QED
  BY <1>1, NowhereStays DEF Endless

LEMMA LandedEnds ==
  ASSUME ChainInv, AllAsked, Landed, budget > 0
  PROVE  Len(hops) <= Places /\ Client[Len(hops)] = {}
<1>1. Len(hops) \in Nat /\ Len(hops) >= 1 /\ Here \in Place
  BY DEF ChainInv, Here
<1>2. Len(hops) <= Places
  BY <1>1, DifferAreFew DEF Landed, OnItsWay
<1>3. Client[Len(hops) - 1] = {At(Here)}
  <2>1. Len(hops) = 1 \/ ~ Away(Here)
    <3>1. \A i \in Nat : i >= 1 => i = 1 \/ i > 1
      OBVIOUS
    <3>2. Len(hops) = 1 \/ Len(hops) > 1
      BY <1>1, <3>1, Zenon
    <3> QED
      BY <3>2, Zenon DEF Landed, OnItsWay
  <2>2. Len(hops) - 1 <= Places
    BY <1>1, <1>2, PlacesAreFinite
  <2> QED
    BY <2>1, <2>2, ClientIsHere
<1>4. Onward(At(Here)) = {}
  <2>1. AskedAsClient(Here)
    BY <1>1 DEF AllAsked, Here, ChainInv
  <2>2. Lands(Here)
    BY <2>1 DEF Landed, AskedAsClient, ChainInv
  <2> QED
    BY <1>1, <2>1, <2>2, OnwardLands DEF ChainInv
<1> QED
  BY <1>1, <1>2, <1>3, <1>4, OnwardFrom, PlacesAreFinite

LEMMA LeftEnds ==
  ASSUME ChainInv, AllAsked, Left
  PROVE  Len(hops) - 1 <= Places /\ Client[Len(hops) - 1] = {}
<1> DEFINE n == Len(hops) - 1
<1>1. Len(hops) \in Nat /\ n \in 1..(Len(hops) - 1) /\ Here \in Place /\ n + 1 = Len(hops)
  BY DEF ChainInv, Left, Here
<1>2. n <= Places /\ Client[n - 1] = {At(hops[n])}
  BY <1>1, ClientIsThere
<1>3. At(Here) # At(example)
  <2>1. ASSUME At(Here) = At(example) PROVE FALSE
    <3>1. Here = example
      BY <1>1, <2>1, AwayFromStart DEF Left, ChainInv
    <3>2. hops[1] = hops[Len(hops)]
      BY <3>1 DEF Here, ChainInv
    <3> QED
      BY <1>1, <3>2 DEF Left, Differ
  <2> QED
    BY <2>1
<1>4. Goes(hops[n], Here) /\ hops[n] \in Place
  BY <1>1 DEF ChainInv, Here
<1>5. Onward(At(hops[n])) = {}
  <2>1. AskedAsClient(hops[n])
    BY <1>1 DEF AllAsked, ChainInv
  <2> QED
    BY <1>3, <1>4, <2>1, OnwardGoes DEF Left, ChainInv
<1>6. n \in 1..Places
  <2>1. Places \in Nat
    BY PlacesAreFinite
  <2> HIDE DEF n
  <2> QED
    BY <1>1, <1>2, <2>1
<1>7. Client[n] = {}
  BY <1>2, <1>5, <1>6, OnwardFrom, Zenon
<1> QED
  BY <1>2, <1>7

LEMMA LoopedIsEndless ==
  ASSUME ChainInv, AllAsked, Looped
  PROVE  Endless
<1> DEFINE n == Len(hops) - 1
<1>1. PICK k \in 1..n : hops[k] = Here
  BY DEF Looped
<1>2. Len(hops) \in Nat /\ n \in Nat /\ n <= Places /\ Places \in Nat
  BY ClientIsThere, PlacesAreFinite DEF ChainInv
<1>3. Client[k - 1] = {At(Here)}
  BY <1>1, ClientIsThere
<1>4. Client[n] = {At(Here)}
  <2>1. CASE k = 1
    <3>1. At(Here) = At(example)
      BY <1>1, <2>1 DEF ChainInv
    <3> QED
      BY <1>2, <3>1, ClientIsHere
  <2>2. CASE k # 1
    <3>1. k \in 2..(Len(hops) - 1)
      BY <1>2, <2>2
    <3>2. ~ Away(Here)
      BY <1>1, <3>1 DEF ChainInv
    <3> QED
      BY <1>2, <3>2, ClientIsHere
  <2> QED
    BY <2>1, <2>2
<1>5. k - 1 \in 0..Places /\ n \in 0..Places /\ k - 1 < n
  BY <1>2
<1>6. Client[k - 1] = Client[n] /\ Client[n] # {}
  BY <1>3, <1>4
<1> HIDE DEF n
<1> QED
  BY <1>5, <1>6, RoundAndRound

LEMMA InvImpliesReport == LoopsInv => ReportsWhatAClientSees
<1> SUFFICES ASSUME LoopsInv, compute = "done", AllAsked PROVE ReportsWhatAClientSees
  BY DEF ReportsWhatAClientSees, AllAsked
<1>1. ChainInv /\ (Landed \/ Looped \/ Exhausted \/ Left)
  BY DEF LoopsInv
<1>2. /\ Len(hops) \in Nat /\ Len(hops) >= 1 /\ DOMAIN hops = 1..Len(hops) /\ budget \in Nat
      /\ Places \in Nat /\ Places >= 2
  <2>1. example \in Place
    BY <1>1 DEF ChainInv, Given
  <2> QED
    BY <1>1, <2>1, PlacesAreFinite DEF ChainInv
<1>3. \A k \in DOMAIN hops : k < Len(hops) => At(hops[k]) \in Client[k - 1]
  <2> TAKE k \in DOMAIN hops
  <2> HAVE k < Len(hops)
  <2>1. k \in 1..(Len(hops) - 1)
    BY <1>2
  <2> QED
    BY <1>1, <2>1, ClientIsThere
<1>4. CASE Landed
  <2>1. error \subseteq {"AtLeastOneHop"} /\ (error = {} => Len(hops) <= 2)
    BY <1>2, <1>4 DEF Landed, Warning
  <2>2. budget > 0 => Len(hops) <= Places /\ Client[Len(hops)] = {}
    BY <1>1, <1>4, LandedEnds
  <2>3. budget > 0 => ~ Endless
    BY <1>2, <2>2, EndsAfter
  <2>4. error = {} /\ budget > 0 => Client[2] = {}
    BY <1>2, <2>1, <2>2, NowhereStays
  <2>5. budget >= Places => budget > 0
    BY <1>2
  <2> QED
    BY <1>3, <2>1, <2>3, <2>4, <2>5 DEF ReportsWhatAClientSees
<1>5. CASE Looped
  <2>1. Endless /\ error = {"Loop"}
    BY <1>1, <1>5, LoopedIsEndless DEF Looped
  <2> QED
    BY <1>3, <2>1 DEF ReportsWhatAClientSees
<1>6. CASE Exhausted
  <2>1. error = {"TooManyHops"} /\ Len(hops) = budget + 1
    BY <1>6 DEF Exhausted
  <2>2. budget + 1 <= Places
    BY <1>1, <1>2, <1>6, <2>1, DifferAreFew DEF Exhausted, OnItsWay
  <2>3. Client[budget] = {At(Here)}
    <3>1. Len(hops) - 1 = budget /\ Len(hops) - 1 <= Places
      BY <1>2, <2>1, <2>2
    <3>2. Len(hops) = 1 \/ ~ Away(Here)
      BY <1>2, <1>6 DEF Exhausted, OnItsWay
    <3>3. Client[Len(hops) - 1] = {At(Here)}
      BY <1>1, <3>1, <3>2, ClientIsHere
    <3> QED
      BY <3>1, <3>3
  <2>4. ~ (budget >= Places)
    BY <1>2, <2>2
  <2> QED
    BY <1>3, <2>1, <2>3, <2>4 DEF ReportsWhatAClientSees
<1>7. CASE Left
  <2>1. error \subseteq {"AtLeastOneHop"} /\ (error = {} => Len(hops) <= 2)
    BY <1>2, <1>7 DEF Left, Warning
  <2>2. Len(hops) - 1 \in 0..Places /\ Client[Len(hops) - 1] = {}
    BY <1>1, <1>2, <1>7, LeftEnds
  <2>3. ~ Endless
    BY <2>2, EndsAfter
  <2>4. error = {} => Client[2] = {}
    BY <1>2, <2>1, <2>2, NowhereStays
  <2> QED
    BY <1>3, <2>1, <2>3, <2>4 DEF ReportsWhatAClientSees
<1> QED
  BY <1>1, <1>4, <1>5, <1>6, <1>7

(* The report of RedirectionLoop::compute is what a client sees, for any   *)
(* answers of the rules to any urls, any hosts and any max_hops, as far as *)
(* a relative url is answered as it is on the project.                     *)
THEOREM ReportsAreTrue == LoopsSpec => []ReportsWhatAClientSees
BY LoopsAlways, InvImpliesReport, PTL

----------------------------------------------------------------------------
(* Requests: whatever a request was rewritten to, its text is kept, and of *)
(* its host all but the case and a default port.                           *)

LEMMA LowerTwice ==
  ASSUME NEW t
  PROVE  Lower(Lower(t)) = Lower(t)
<1>1. \A c : LowerChar(LowerChar(c)) = LowerChar(c)
  BY TextAssumption DEF LowerChar
<1>2. DOMAIN Lower(t) = DOMAIN t /\ \A k \in DOMAIN t : Lower(t)[k] = LowerChar(t[k])
  BY DEF Lower
<1>3. Lower(Lower(t)) = [k \in DOMAIN t |-> LowerChar(LowerChar(t[k]))]
  BY <1>2 DEF Lower
<1> QED
  BY <1>1, <1>3 DEF Lower

IsHost(h) == h = [name |-> h.name, port |-> h.port]

(* Nothing is lost of a host but a default port and its case.              *)
SameHost(h, was) ==
  IsHost(h) /\ Lower(h.name) = Lower(was.name) /\ h.port \in {was.port, WithoutDefaultPort(was).port}

LEMMA PortDropped ==
  ASSUME NEW h, IsHost(h)
  PROVE  /\ IsHost(WithoutDefaultPort(h)) /\ WithoutDefaultPort(h).name = h.name
         /\ WithoutDefaultPort(h).port = IF h.port \in {{"80"}, {"443"}} THEN {} ELSE h.port
BY DEF IsHost, WithoutDefaultPort

LEMMA HostRewritten ==
  ASSUME NEW was, IsHost(was), NEW h, SameHost(h, was), NEW c
  PROVE  SameHost(HostOf(c, h), was) /\ HostOf(c, h).port = WithoutDefaultPort(was).port
<1> DEFINE g == [h EXCEPT !.name = Folded(@, c.hostCase)]
<1>1. IsHost(g) /\ g.name = Folded(h.name, c.hostCase) /\ g.port = h.port
  BY DEF SameHost, IsHost
<1>2. HostOf(c, h) = WithoutDefaultPort(g)
  BY DEF HostOf
<1> HIDE DEF g
<1>3. Lower(g.name) = Lower(h.name)
  BY <1>1, LowerTwice DEF Folded
<1>4. {} \notin {{"80"}, {"443"}}
  OBVIOUS
<1>5. WithoutDefaultPort(g).port = WithoutDefaultPort(was).port
  BY <1>1, <1>4, PortDropped DEF SameHost
<1> QED
  BY <1>1, <1>2, <1>3, <1>5, PortDropped DEF SameHost

(* The text that rebuilding starts from is still that which was received.  *)
RequestsInv ==
  /\ received.text \in Received /\ config \subseteq Config
  /\ IsHost(received.host) /\ SameHost(built.host, received.host)
  /\ IF built.text = {} THEN built.url.original = received.text ELSE built.text = {received.text}
  /\ RebuiltAsIfFirst

LEMMA RequestsInvInit == RequestsInit => RequestsInv
<1> SUFFICES ASSUME RequestsInit PROVE RequestsInv
  OBVIOUS
<1>1. received \in [text : Received, host : Named] /\ config = {}
  BY DEF RequestsInit
<1>2. PICK text \in {{}, {received.text}} :
        built = [url |-> FromStatic(received.text), text |-> text, host |-> received.host]
  BY DEF RequestsInit
<1>3. IsHost(received.host)
  <2>1. received.host \in [name : Seq(Char), port : SUBSET STRING]
    BY <1>1, RequestsAssumption
  <2> QED
    BY <2>1 DEF IsHost
<1>4. SameHost(built.host, received.host)
  BY <1>2, <1>3 DEF SameHost
<1>5. FromStatic(received.text).original = received.text
  BY DEF FromStatic
<1> QED
  BY <1>1, <1>2, <1>3, <1>4, <1>5 DEF RequestsInv, RebuiltAsIfFirst

LEMMA RebuildInv ==
  ASSUME RequestsInv, NEW c \in Config, Rebuild(c)
  PROVE  RequestsInv'
<1> DEFINE text == IF built.text = {} THEN built.url.original ELSE OrEmpty(built.text)
<1>1. /\ built' = [url |-> FromConfig(c, text), text |-> {text}, host |-> HostOf(c, built.host)]
      /\ config' = {c} /\ received' = received
  BY DEF Rebuild
<1>2. text = received.text
  BY DEF RequestsInv, OrEmpty
<1> HIDE DEF text
<1>3. SameHost(HostOf(c, built.host), received.host)
      /\ HostOf(c, built.host).port = WithoutDefaultPort(received.host).port
  BY HostRewritten DEF RequestsInv
<1>4. /\ built'.url = FromConfig(c, received.text) /\ built'.text = {received.text}
      /\ built'.host = HostOf(c, built.host)
  BY <1>1, <1>2
<1>5. SameHost(built.host, received.host)'
  BY <1>1, <1>3, <1>4, Zenon
<1>6. IsHost(received.host)'
  BY <1>1 DEF RequestsInv, IsHost
<1>7. RebuiltAsIfFirst'
  BY <1>1, <1>3, <1>4 DEF RebuiltAsIfFirst, SameHost
<1> QED
  BY <1>1, <1>4, <1>5, <1>6, <1>7 DEF RequestsInv

LEMMA RequestsAlways == RequestsSpec => []RequestsInv
<1>1. RequestsInv /\ [RequestsNext]_requestVars => RequestsInv'
  <2>1. ASSUME RequestsInv, RequestsNext PROVE RequestsInv'
    BY <2>1, RebuildInv DEF RequestsNext
  <2>2. ASSUME RequestsInv, UNCHANGED requestVars PROVE RequestsInv'
    <3>1. received' = received /\ built' = built /\ config' = config
      BY <2>2 DEF requestVars
    <3>2. RebuiltAsIfFirst'
      BY <2>2, <3>1 DEF RequestsInv, RebuiltAsIfFirst
    <3> QED
      BY <2>2, <3>1, <3>2, Zenon DEF RequestsInv
  <2> QED
    BY <2>1, <2>2
<1> QED
  BY <1>1, RequestsInvInit, PTL DEF RequestsSpec

(* However often a request has met Routers of other configurations, it is  *)
(* rewritten as if it met only the last: rebuild_with_config starts from   *)
(* the text that was received, which an old Request keeps as the original  *)
(* of its path_and_query_skipped.                                          *)
THEOREM RebuiltIsAsFirst == RequestsSpec => []RebuiltAsIfFirst
<1>1. RequestsInv => RebuiltAsIfFirst
  BY DEF RequestsInv
<1> QED
  BY <1>1, RequestsAlways, PTL

----------------------------------------------------------------------------
(* Sequences, from their beginning to their end.                           *)

LEMMA SameCourse ==
  ASSUME NEW N \in Nat, NEW f, NEW g, f[0] = g[0],
         \A n \in 1..N : f[n - 1] = g[n - 1] => f[n] = g[n]
  PROVE  \A n \in 0..N : f[n] = g[n]
<1> DEFINE S == {n \in 0..N : f[n] = g[n]}
<1>1. 0 \in S
  OBVIOUS
<1>2. \A n \in 1..N : n - 1 \in S => n \in S
  OBVIOUS
<1> HIDE DEF S
<1>3. 0..N \subseteq S
  BY <1>1, <1>2, Turns
<1> QED
  BY <1>3 DEF S

LEMMA ByAppending ==
  ASSUME NEW X, NEW S, <<>> \in S,
         \A s \in Seq(X) : \A x \in X : s \in S => Append(s, x) \in S
  PROVE  \A t \in Seq(X) : t \in S
<1>1. ASSUME NEW t \in Seq(X) PROVE t \in S
  <2> DEFINE front(n) == SubSeq(t, 1, n)
             U == {n \in 0..Len(t) : front(n) \in S}
  <2>1. front(0) = <<>> /\ front(Len(t)) = t /\ Len(t) \in Nat
    OBVIOUS
  <2>2. \A n \in 1..Len(t) :
          front(n - 1) \in Seq(X) /\ t[n] \in X /\ front(n) = Append(front(n - 1), t[n])
    OBVIOUS
  <2> HIDE DEF front
  <2>3. 0 \in U
    BY <2>1
  <2>4. ASSUME NEW n \in 1..Len(t), n - 1 \in U PROVE n \in U
    <3>1. front(n - 1) \in S
      BY <2>4
    <3>2. Append(front(n - 1), t[n]) \in S
      BY <2>2, <3>1
    <3>3. front(n) \in S
      BY <2>2, <3>2
    <3> QED
      BY <2>1, <3>3
  <2>5. 0..Len(t) \subseteq U
    <3> HIDE DEF U
    <3> QED
      BY <2>1, <2>3, <2>4, Turns
  <2> QED
    BY <2>1, <2>5
<1> QED
  BY <1>1

LEMMA ToSetAppend ==
  ASSUME NEW X, NEW s \in Seq(X), NEW x \in X
  PROVE  ToSet(Append(s, x)) = ToSet(s) \cup {x} /\ ToSet(s) \subseteq X
<1>1. ToSet(s) = {s[k] : k \in 1..Len(s)}
  BY DEF ToSet
<1>2. ToSet(Append(s, x)) = {Append(s, x)[k] : k \in 1..Len(Append(s, x))}
  BY DEF ToSet
<1>3. /\ Len(Append(s, x)) = Len(s) + 1 /\ Append(s, x)[Len(s) + 1] = x
      /\ \A k \in 1..Len(s) : Append(s, x)[k] = s[k]
  OBVIOUS
<1>4. Len(s) \in Nat
  OBVIOUS
<1> QED
  BY <1>1, <1>2, <1>3, <1>4

LEMMA ToSetEmpty == ToSet(<<>>) = {}
  BY DEF ToSet

LEMMA ToSetIn ==
  ASSUME NEW X, NEW s \in Seq(X)
  PROVE  ToSet(s) \subseteq X /\ ToSet(s) = {s[k] : k \in 1..Len(s)}
  BY DEF ToSet

----------------------------------------------------------------------------
(* The recursive functions of Requests, from one turn to the next.         *)

Selecting(s, S, f) ==
  /\ f[0] = <<>>
  /\ \A n \in 1..Len(s) : f[n] = IF s[n] \in S THEN Append(f[n - 1], s[n]) ELSE f[n - 1]
  /\ Among(s, S) = f[Len(s)]

LEMMA AmongSteps ==
  ASSUME NEW X, NEW s \in Seq(X), NEW S
  PROVE  \E f : Selecting(s, S, f)
<1> DEFINE N == Len(s)
           F == [n \in 1..N |-> [v \in Seq(X) |-> IF s[n] \in S THEN Append(v, s[n]) ELSE v]]
           upTo == CHOOSE g : g = [n \in 0..N |->
                     IF n = 0 THEN <<>> ELSE IF s[n] \in S THEN Append(g[n - 1], s[n]) ELSE g[n - 1]]
<1>1. N \in Nat /\ <<>> \in Seq(X) /\ F \in [1..N -> [Seq(X) -> Seq(X)]]
  OBVIOUS
<1>2. \A n \in 1..N : \A v \in Seq(X) : F[n][v] = IF s[n] \in S THEN Append(v, s[n]) ELSE v
  OBVIOUS
<1>3. Among(s, S) = upTo[N]
  BY DEF Among
<1> HIDE DEF F
<1>4. PICK f \in [0..N -> Seq(X)] : Course(N, <<>>, F, f)
  BY <1>1, Iterates
<1>5. f = [n \in 0..N |->
             IF n = 0 THEN <<>> ELSE IF s[n] \in S THEN Append(f[n - 1], s[n]) ELSE f[n - 1]]
  <2>1. f = [n \in 0..N |-> IF n = 0 THEN <<>> ELSE F[n][f[n - 1]]]
    BY <1>4 DEF Course
  <2>2. ASSUME NEW n \in 0..N
        PROVE  f[n] = IF n = 0 THEN <<>> ELSE IF s[n] \in S THEN Append(f[n - 1], s[n]) ELSE f[n - 1]
    <3>1. CASE n = 0
      BY <2>1, <3>1
    <3>2. CASE n # 0
      <4>1. n \in 1..N /\ n - 1 \in 0..N
        BY <1>1, <3>2
      <4>2. f[n - 1] \in Seq(X) /\ f[n] = F[n][f[n - 1]]
        BY <2>1, <3>2, <4>1
      <4> QED
        BY <1>2, <3>2, <4>1, <4>2
    <3> QED
      BY <3>1, <3>2
  <2> QED
    BY <2>1, <2>2
<1>6. upTo = [n \in 0..N |->
             IF n = 0 THEN <<>> ELSE IF s[n] \in S THEN Append(upTo[n - 1], s[n]) ELSE upTo[n - 1]]
  BY <1>5
<1> HIDE DEF upTo
<1>7. upTo[0] = <<>> /\ \A n \in 1..N : upTo[n] = IF s[n] \in S THEN Append(upTo[n - 1], s[n]) ELSE upTo[n - 1]
  <2>1. 0 \in 0..N /\ \A n \in 1..N : n \in 0..N /\ n # 0
    BY <1>1
  <2> HIDE DEF N
  <2> QED
    BY <1>6, <2>1
<1>8. Selecting(s, S, upTo)
  BY <1>3, <1>7, Zenon DEF Selecting
<1> QED
  BY <1>8

LEMMA AmongEmpty ==
  ASSUME NEW S
  PROVE  Among(<<>>, S) = <<>>
<1>1. <<>> \in Seq({}) /\ Len(<<>>) = 0
  OBVIOUS
<1>2. PICK f : Selecting(<<>>, S, f)
  BY <1>1, AmongSteps
<1> QED
  BY <1>1, <1>2 DEF Selecting

LEMMA AmongAppend ==
  ASSUME NEW X, NEW s \in Seq(X), NEW x \in X, NEW S
  PROVE  Among(Append(s, x), S) = IF x \in S THEN Append(Among(s, S), x) ELSE Among(s, S)
<1> DEFINE t == Append(s, x)
<1>1. /\ t \in Seq(X) /\ Len(s) \in Nat /\ Len(t) = Len(s) + 1 /\ t[Len(s) + 1] = x
      /\ \A k \in 1..Len(s) : t[k] = s[k]
  OBVIOUS
<1> HIDE DEF t
<1>2. PICK f : Selecting(s, S, f)
  BY AmongSteps
<1>3. PICK g : Selecting(t, S, g)
  BY <1>1, AmongSteps
<1>4. \A n \in 1..Len(s) : f[n - 1] = g[n - 1] => f[n] = g[n]
  BY <1>1, <1>2, <1>3 DEF Selecting
<1>5. \A n \in 0..Len(s) : f[n] = g[n]
  <2>1. Len(s) \in Nat /\ f[0] = g[0]
    BY <1>1, <1>2, <1>3 DEF Selecting
  <2> QED
    BY <1>4, <2>1, SameCourse
<1>6. f[Len(s)] = g[Len(s)] /\ Len(s) + 1 \in 1..Len(t) /\ Len(s) + 1 - 1 = Len(s)
  BY <1>1, <1>5
<1>7. g[Len(t)] = IF x \in S THEN Append(g[Len(s)], x) ELSE g[Len(s)]
  BY <1>1, <1>3, <1>6 DEF Selecting
<1> QED
  BY <1>2, <1>3, <1>6, <1>7 DEF Selecting, t

LEMMA AmongIn ==
  ASSUME NEW X, NEW S
  PROVE  \A s \in Seq(X) : Among(s, S) \in Seq(X) /\ ToSet(Among(s, S)) = ToSet(s) \cap S
<1> DEFINE Good == {s \in Seq(X) : Among(s, S) \in Seq(X) /\ ToSet(Among(s, S)) = ToSet(s) \cap S}
<1>1. <<>> \in Good
  <2>1. <<>> \in Seq(X) /\ Among(<<>>, S) = <<>> /\ ToSet(<<>>) = {}
    BY AmongEmpty, ToSetEmpty
  <2> QED
    BY <2>1
<1>2. ASSUME NEW s \in Seq(X), NEW x \in X, s \in Good PROVE Append(s, x) \in Good
  <2>1. Append(s, x) \in Seq(X) /\ ToSet(Append(s, x)) = ToSet(s) \cup {x}
    BY ToSetAppend
  <2>2. /\ Among(s, S) \in Seq(X) /\ ToSet(Among(s, S)) = ToSet(s) \cap S
        /\ Append(Among(s, S), x) \in Seq(X)
        /\ ToSet(Append(Among(s, S), x)) = ToSet(Among(s, S)) \cup {x}
    BY <1>2, ToSetAppend
  <2>3. Among(Append(s, x), S) = IF x \in S THEN Append(Among(s, S), x) ELSE Among(s, S)
    BY AmongAppend
  <2>4. CASE x \in S
    BY <2>1, <2>2, <2>3, <2>4
  <2>5. CASE x \notin S
    BY <2>1, <2>2, <2>3, <2>5
  <2> QED
    BY <2>4, <2>5
<1> HIDE DEF Good
<1>3. \A s \in Seq(X) : s \in Good
  BY <1>1, <1>2, ByAppending
<1> QED
  BY <1>3 DEF Good

LEMMA AmongSame ==
  ASSUME NEW X, NEW S, NEW R
  PROVE  \A s \in Seq(X) :
           (\A x \in ToSet(s) : x \in S <=> x \in R) => Among(s, S) = Among(s, R)
<1> DEFINE Good == {s \in Seq(X) : (\A x \in ToSet(s) : x \in S <=> x \in R) => Among(s, S) = Among(s, R)}
<1>1. <<>> \in Good
  BY AmongEmpty
<1>2. ASSUME NEW s \in Seq(X), NEW x \in X, s \in Good PROVE Append(s, x) \in Good
  <2>1. Append(s, x) \in Seq(X) /\ ToSet(Append(s, x)) = ToSet(s) \cup {x}
    BY ToSetAppend
  <2>2. /\ Among(Append(s, x), S) = IF x \in S THEN Append(Among(s, S), x) ELSE Among(s, S)
        /\ Among(Append(s, x), R) = IF x \in R THEN Append(Among(s, R), x) ELSE Among(s, R)
    BY AmongAppend
  <2>3. ASSUME \A y \in ToSet(Append(s, x)) : y \in S <=> y \in R
        PROVE  Among(Append(s, x), S) = Among(Append(s, x), R)
    BY <1>2, <2>1, <2>2, <2>3
  <2> QED
    BY <2>1, <2>3
<1> HIDE DEF Good
<1>3. \A s \in Seq(X) : s \in Good
  BY <1>1, <1>2, ByAppending
<1> QED
  BY <1>3 DEF Good

LEMMA AmongAll ==
  ASSUME NEW X
  PROVE  \A s \in Seq(X) : \A S : ToSet(s) \subseteq S => Among(s, S) = s
<1> DEFINE Good == {s \in Seq(X) : Among(s, X) = s}
<1>1. <<>> \in Good
  BY AmongEmpty
<1>2. ASSUME NEW s \in Seq(X), NEW x \in X, s \in Good PROVE Append(s, x) \in Good
  BY <1>2, AmongAppend
<1> HIDE DEF Good
<1>3. \A s \in Seq(X) : s \in Good
  BY <1>1, <1>2, ByAppending
<1>4. ASSUME NEW s \in Seq(X), NEW S, ToSet(s) \subseteq S PROVE Among(s, S) = s
  <2>1. \A x \in ToSet(s) : x \in X <=> x \in S
    BY <1>4, ToSetIn
  <2>2. Among(s, X) = Among(s, S)
    BY <2>1, AmongSame
  <2> QED
    BY <1>3, <2>2 DEF Good
<1> QED
  BY <1>4

LEMMA AmongNone ==
  ASSUME NEW X, NEW s \in Seq(X), NEW S, ToSet(s) \cap S = {}
  PROVE  Among(s, S) = <<>>
<1> DEFINE t == Among(s, S)
<1>1. t \in Seq(X) /\ ToSet(t) = {}
  <2>1. \A z \in Seq(X) : Among(z, S) \in Seq(X) /\ ToSet(Among(z, S)) = ToSet(z) \cap S
    BY AmongIn, Zenon
  <2> QED
    BY <2>1
<1> HIDE DEF t
<1>2. {t[k] : k \in 1..Len(t)} = {}
  <2>1. \A z \in Seq(X) : ToSet(z) = {z[k] : k \in 1..Len(z)}
    BY ToSetIn
  <2> QED
    BY <1>1, <2>1, Zenon
<1>3. \A k \in 1..Len(t) : t[k] \in {t[i] : i \in 1..Len(t)}
  OBVIOUS
<1>4. \A k \in 1..Len(t) : FALSE
  BY <1>2, <1>3, Zenon
<1>5. Len(t) \in Nat /\ (Len(t) # 0 => 1 \in 1..Len(t))
  BY <1>1
<1>6. t = <<>>
  BY <1>1, <1>4, <1>5
<1> QED
  BY <1>6 DEF t

LEMMA AmongTwice ==
  ASSUME NEW X, NEW S, NEW R
  PROVE  \A s \in Seq(X) : Among(Among(s, S), R) = Among(s, S \cap R)
<1> DEFINE Good == {s \in Seq(X) : Among(Among(s, S), R) = Among(s, S \cap R)}
<1>1. <<>> \in Good
  BY AmongEmpty
<1>2. ASSUME NEW s \in Seq(X), NEW x \in X, s \in Good PROVE Append(s, x) \in Good
  <2>1. Among(s, S) \in Seq(X)
    BY AmongIn
  <2>2. Among(Append(s, x), S) = IF x \in S THEN Append(Among(s, S), x) ELSE Among(s, S)
    BY AmongAppend
  <2>3. Among(Append(s, x), S \cap R) =
          IF x \in S \cap R THEN Append(Among(s, S \cap R), x) ELSE Among(s, S \cap R)
    BY AmongAppend
  <2>4. Among(Append(Among(s, S), x), R) =
          IF x \in R THEN Append(Among(Among(s, S), R), x) ELSE Among(Among(s, S), R)
    BY <2>1, AmongAppend
  <2>5. Append(s, x) \in Seq(X) /\ Among(Among(s, S), R) = Among(s, S \cap R)
    BY <1>2
  <2>6. Among(Among(Append(s, x), S), R) = Among(Append(s, x), S \cap R)
    <3>1. CASE x \in S /\ x \in R
      BY <2>2, <2>3, <2>4, <2>5, <3>1
    <3>3. CASE x \in S /\ x \notin R
      BY <2>2, <2>3, <2>4, <2>5, <3>3
    <3>2. CASE x \notin S
      BY <2>2, <2>3, <2>5, <3>2
    <3> QED
      BY <3>1, <3>2, <3>3
  <2> QED
    BY <2>5, <2>6
<1> HIDE DEF Good
<1>3. \A s \in Seq(X) : s \in Good
  BY <1>1, <1>2, ByAppending
<1> QED
  BY <1>3 DEF Good

(* Each element of a sequence replaced.                                    *)
Mapped(s, g) == [n \in DOMAIN s |-> g[s[n]]]

LEMMA MappedIs ==
  ASSUME NEW X, NEW s \in Seq(X), NEW g
  PROVE  /\ Len(Mapped(s, g)) = Len(s)
         /\ \A k \in 1..Len(s) : Mapped(s, g)[k] = g[s[k]]
         /\ \A Y : (\A x \in X : g[x] \in Y) => Mapped(s, g) \in Seq(Y)
<1>1. Mapped(s, g) = [n \in 1..Len(s) |-> g[s[n]]] /\ Len(s) \in Nat /\ \A n \in 1..Len(s) : s[n] \in X
  BY DEF Mapped
<1> QED
  BY <1>1

LEMMA MappedSet ==
  ASSUME NEW X, NEW s \in Seq(X), NEW g
  PROVE  ToSet(Mapped(s, g)) = {g[x] : x \in ToSet(s)}
<1> DEFINE t == Mapped(s, g)
           Y == {g[x] : x \in X}
<1>1. /\ Len(t) = Len(s) /\ \A k \in 1..Len(s) : t[k] = g[s[k]]
      /\ t \in Seq(Y)
  BY MappedIs
<1> HIDE DEF t, Y
<1>2. ToSet(t) = {t[k] : k \in 1..Len(t)} /\ ToSet(s) = {s[k] : k \in 1..Len(s)}
  BY <1>1, ToSetIn
<1>3. ToSet(t) = {g[x] : x \in ToSet(s)}
  BY <1>1, <1>2
<1> QED
  BY <1>3 DEF t

LEMMA MappedAppend ==
  ASSUME NEW X, NEW s \in Seq(X), NEW x \in X, NEW g
  PROVE  Mapped(Append(s, x), g) = Append(Mapped(s, g), g[x])
<1> DEFINE t == Append(s, x)
<1>1. /\ t \in Seq(X) /\ Len(t) = Len(s) + 1 /\ t[Len(s) + 1] = x /\ Len(s) \in Nat
      /\ \A k \in 1..Len(s) : t[k] = s[k]
  OBVIOUS
<1> HIDE DEF t
<1>2. /\ Len(Mapped(s, g)) = Len(s) /\ \A k \in 1..Len(s) : Mapped(s, g)[k] = g[s[k]]
      /\ Mapped(s, g) \in Seq({g[y] : y \in X})
  BY MappedIs
<1>3. Mapped(t, g) = [n \in 1..Len(t) |-> g[t[n]]]
  BY <1>1 DEF Mapped
<1>4. Append(Mapped(s, g), g[x]) = [n \in 1..(Len(s) + 1) |-> IF n = Len(s) + 1 THEN g[x] ELSE Mapped(s, g)[n]]
  BY <1>1, <1>2
<1>5. \A n \in 1..(Len(s) + 1) : g[t[n]] = IF n = Len(s) + 1 THEN g[x] ELSE Mapped(s, g)[n]
  BY <1>1, <1>2
<1> QED
  BY <1>1, <1>3, <1>4, <1>5 DEF t

LEMMA MappedEmpty ==
  ASSUME NEW g
  PROVE  Mapped(<<>>, g) = <<>>
<1>1. DOMAIN <<>> = {}
  OBVIOUS
<1> QED
  BY <1>1 DEF Mapped

LEMMA AmongMapped ==
  ASSUME NEW X, NEW S, NEW R, NEW g, \A x \in X : x \in R <=> g[x] \in S
  PROVE  \A s \in Seq(X) : Among(Mapped(s, g), S) = Mapped(Among(s, R), g)
<1> DEFINE Y == {g[x] : x \in X}
           Good == {s \in Seq(X) : Among(Mapped(s, g), S) = Mapped(Among(s, R), g)}
<1>1. <<>> \in Good
  <2>1. <<>> \in Seq(X) /\ Mapped(<<>>, g) = <<>> /\ Among(<<>>, S) = <<>> /\ Among(<<>>, R) = <<>>
    BY AmongEmpty, MappedEmpty
  <2> QED
    BY <2>1
<1>2. ASSUME NEW s \in Seq(X), NEW x \in X, s \in Good PROVE Append(s, x) \in Good
  <2>1. Mapped(Append(s, x), g) = Append(Mapped(s, g), g[x]) /\ Mapped(s, g) \in Seq(Y) /\ g[x] \in Y
    <3>1. Mapped(Append(s, x), g) = Append(Mapped(s, g), g[x])
      BY MappedAppend
    <3>2. Mapped(s, g) \in Seq(Y)
      BY MappedIs
    <3> QED
      BY <3>1, <3>2
  <2> HIDE DEF Y
  <2>2. Among(Append(Mapped(s, g), g[x]), S) =
          IF g[x] \in S THEN Append(Among(Mapped(s, g), S), g[x]) ELSE Among(Mapped(s, g), S)
    <3> HIDE DEF Good
    <3>1. \A z \in Seq(Y) : \A y \in Y :
            Among(Append(z, y), S) = IF y \in S THEN Append(Among(z, S), y) ELSE Among(z, S)
      BY AmongAppend
    <3> QED
      BY <2>1, <3>1
  <2>3. Among(Append(s, x), R) = IF x \in R THEN Append(Among(s, R), x) ELSE Among(s, R)
    BY AmongAppend
  <2>4. Among(s, R) \in Seq(X)
    BY AmongIn
  <2>5. Mapped(Append(Among(s, R), x), g) = Append(Mapped(Among(s, R), g), g[x])
    BY <2>4, MappedAppend
  <2>6. Append(s, x) \in Seq(X) /\ Among(Mapped(s, g), S) = Mapped(Among(s, R), g)
    BY <1>2
  <2>7. x \in R <=> g[x] \in S
    OBVIOUS
  <2>8. CASE x \in R
    BY <2>1, <2>2, <2>3, <2>5, <2>6, <2>7, <2>8
  <2>9. CASE x \notin R
    BY <2>1, <2>2, <2>3, <2>6, <2>7, <2>9
  <2> QED
    BY <2>8, <2>9
<1>3. \A s \in Seq(X) : s \in Good
  <2> HIDE DEF Good
  <2> QED
    BY <1>1, <1>2, ByAppending
<1> QED
  BY <1>3

(* Split                                                                   *)
Splitting(t, c, f) ==
  /\ f[0] = << <<>> >>
  /\ \A n \in 1..Len(t) : f[n] = IF t[n] = c THEN Append(f[n - 1], <<>>) ELSE PutLast(f[n - 1], t[n])
  /\ Split(t, c) = f[Len(t)]

LEMMA PutLastIs ==
  ASSUME NEW C, NEW s \in Seq(Seq(C)), s # <<>>, NEW x \in C
  PROVE  PutLast(s, x) \in Seq(Seq(C)) \ {<<>>}
<1>1. Len(s) \in 1..Len(s) /\ s[Len(s)] \in Seq(C) /\ Append(s[Len(s)], x) \in Seq(C)
  OBVIOUS
<1>2. PutLast(s, x) = [n \in 1..Len(s) |-> IF n = Len(s) THEN Append(s[Len(s)], x) ELSE s[n]]
  BY DEF PutLast
<1>3. \A n \in 1..Len(s) : (IF n = Len(s) THEN Append(s[Len(s)], x) ELSE s[n]) \in Seq(C)
  BY <1>1
<1> QED
  BY <1>1, <1>2, <1>3

LEMMA SplitSteps ==
  ASSUME NEW C, NEW t \in Seq(C), NEW c
  PROVE  \E f : Splitting(t, c, f)
<1> DEFINE N == Len(t)
           V == Seq(Seq(C)) \ {<<>>}
           next(v, n) == IF t[n] = c THEN Append(v, <<>>) ELSE PutLast(v, t[n])
           F == [n \in 1..N |-> [v \in V |-> next(v, n)]]
           upTo == CHOOSE g : g = [n \in 0..N |->
                     IF n = 0 THEN << <<>> >>
                     ELSE IF t[n] = c THEN Append(g[n - 1], <<>>) ELSE PutLast(g[n - 1], t[n])]
<1>1. Split(t, c) = upTo[N]
  BY DEF Split
<1>2. N \in Nat /\ << <<>> >> \in V
  OBVIOUS
<1>3. ASSUME NEW n \in 1..N, NEW v \in V PROVE next(v, n) \in V
  <2>1. t[n] \in C
    OBVIOUS
  <2>2. PutLast(v, t[n]) \in V
    BY <2>1, PutLastIs
  <2>3. Append(v, <<>>) \in V
    OBVIOUS
  <2> QED
    BY <2>2, <2>3
<1>4. F \in [1..N -> [V -> V]]
  BY <1>3
<1>5. \A n \in 1..N : \A v \in V : F[n][v] = next(v, n)
  OBVIOUS
<1> HIDE DEF F, V
<1>6. PICK f \in [0..N -> V] : Course(N, << <<>> >>, F, f)
  BY <1>2, <1>4, Iterates
<1>7. f = [n \in 0..N |-> IF n = 0 THEN << <<>> >> ELSE next(f[n - 1], n)]
  <2>1. f = [n \in 0..N |-> IF n = 0 THEN << <<>> >> ELSE F[n][f[n - 1]]]
    BY <1>6 DEF Course
  <2>2. ASSUME NEW n \in 0..N
        PROVE  f[n] = IF n = 0 THEN << <<>> >> ELSE next(f[n - 1], n)
    <3>1. CASE n = 0
      BY <2>1, <3>1
    <3>2. CASE n # 0
      <4>1. n \in 1..N /\ n - 1 \in 0..N
        BY <1>2, <3>2
      <4>2. f[n - 1] \in V /\ f[n] = F[n][f[n - 1]]
        BY <2>1, <3>2, <4>1
      <4> QED
        BY <1>5, <3>2, <4>1, <4>2
    <3> QED
      BY <3>1, <3>2
  <2> HIDE DEF next
  <2> QED
    BY <2>1, <2>2
<1>8. upTo = [n \in 0..N |-> IF n = 0 THEN << <<>> >> ELSE next(upTo[n - 1], n)]
  BY <1>7
<1> HIDE DEF upTo
<1>9. upTo[0] = << <<>> >> /\ \A n \in 1..N : upTo[n] = next(upTo[n - 1], n)
  <2>1. 0 \in 0..N /\ \A n \in 1..N : n \in 0..N /\ n # 0
    BY <1>2
  <2> HIDE DEF N, next
  <2> QED
    BY <1>8, <2>1
<1>10. Splitting(t, c, upTo)
  BY <1>1, <1>9, Zenon DEF Splitting
<1> QED
  BY <1>10

LEMMA SplitEmpty ==
  ASSUME NEW c
  PROVE  Split(<<>>, c) = << <<>> >>
<1>1. <<>> \in Seq({}) /\ Len(<<>>) = 0
  OBVIOUS
<1>2. PICK f : Splitting(<<>>, c, f)
  BY <1>1, SplitSteps
<1> QED
  BY <1>1, <1>2 DEF Splitting

LEMMA SplitAppend ==
  ASSUME NEW C, NEW s \in Seq(C), NEW x \in C, NEW c
  PROVE  Split(Append(s, x), c) = IF x = c THEN Append(Split(s, c), <<>>) ELSE PutLast(Split(s, c), x)
<1> DEFINE t == Append(s, x)
<1>1. /\ t \in Seq(C) /\ Len(s) \in Nat /\ Len(t) = Len(s) + 1 /\ t[Len(s) + 1] = x
      /\ \A k \in 1..Len(s) : t[k] = s[k]
  OBVIOUS
<1> HIDE DEF t
<1>2. PICK f : Splitting(s, c, f)
  BY SplitSteps
<1>3. PICK g : Splitting(t, c, g)
  BY <1>1, SplitSteps
<1>4. \A n \in 1..Len(s) : f[n - 1] = g[n - 1] => f[n] = g[n]
  BY <1>1, <1>2, <1>3 DEF Splitting
<1>5. \A n \in 0..Len(s) : f[n] = g[n]
  <2>1. Len(s) \in Nat /\ f[0] = g[0]
    BY <1>1, <1>2, <1>3 DEF Splitting
  <2> QED
    BY <1>4, <2>1, SameCourse
<1>6. f[Len(s)] = g[Len(s)] /\ Len(s) + 1 \in 1..Len(t) /\ Len(s) + 1 - 1 = Len(s)
  BY <1>1, <1>5
<1>7. g[Len(t)] = IF x = c THEN Append(g[Len(s)], <<>>) ELSE PutLast(g[Len(s)], x)
  BY <1>1, <1>3, <1>6 DEF Splitting
<1> QED
  BY <1>2, <1>3, <1>6, <1>7 DEF Splitting, t

LEMMA PutLastAt ==
  ASSUME NEW C, NEW s \in Seq(Seq(C)), NEW u \in Seq(C), NEW x \in C
  PROVE  PutLast(Append(s, u), x) = Append(s, Append(u, x))
<1> DEFINE t == Append(s, u)
           v == Append(u, x)
           w == Append(s, v)
           n == Len(s) + 1
<1>1. /\ t \in Seq(Seq(C)) /\ Len(s) \in Nat /\ Len(t) = n /\ t[n] = u
      /\ \A k \in 1..Len(s) : t[k] = s[k]
  OBVIOUS
<1>2. v \in Seq(C)
  OBVIOUS
<1> HIDE DEF t, v
<1>3. /\ w \in Seq(Seq(C)) /\ Len(w) = n /\ w[n] = v
      /\ \A k \in 1..Len(s) : w[k] = s[k]
  BY <1>2
<1> HIDE DEF w
<1>4. w = [k \in 1..n |-> w[k]]
  <2>1. w = [k \in 1..Len(w) |-> w[k]]
    BY <1>3
  <2> QED
    BY <1>3, <2>1
<1>5. DOMAIN t = 1..n
  BY <1>1
<1>6. PutLast(t, x) = [k \in 1..n |-> IF k = n THEN v ELSE t[k]]
  BY <1>1, <1>5 DEF PutLast, v
<1>7. \A k \in 1..n : w[k] = IF k = n THEN v ELSE t[k]
  <2>1. ASSUME NEW k \in 1..n, k # n PROVE k \in 1..Len(s)
    BY <1>1, <2>1
  <2> QED
    BY <1>1, <1>3, <2>1
<1>8. w = [k \in 1..n |-> IF k = n THEN v ELSE t[k]]
  BY <1>4, <1>7
<1> QED
  BY <1>6, <1>8 DEF w, v, t

LEMMA SplitIn ==
  ASSUME NEW C, NEW c
  PROVE  \A t \in Seq(C) : Split(t, c) \in Seq(Seq(C \ {c})) \ {<<>>}
<1> DEFINE V == Seq(Seq(C \ {c})) \ {<<>>}
           Good == {t \in Seq(C) : Split(t, c) \in V}
<1>1. <<>> \in Good
  <2>1. Split(<<>>, c) = << <<>> >> /\ <<>> \in Seq(C) /\ << <<>> >> \in V
    BY SplitEmpty
  <2> QED
    BY <2>1
<1>2. ASSUME NEW t \in Seq(C), NEW x \in C, t \in Good PROVE Append(t, x) \in Good
  <2>1. Split(Append(t, x), c) = IF x = c THEN Append(Split(t, c), <<>>) ELSE PutLast(Split(t, c), x)
    BY SplitAppend
  <2>2. Split(t, c) \in V /\ Append(t, x) \in Seq(C)
    BY <1>2
  <2>3. CASE x = c
    <3>1. <<>> \in Seq(C \ {c})
      OBVIOUS
    <3>2. Append(Split(t, c), <<>>) \in Seq(Seq(C \ {c})) \ {<<>>}
      <4> DEFINE A == Seq(C \ {c})
      <4>1. Split(t, c) \in Seq(A) /\ <<>> \in A
        BY <2>2, <3>1
      <4> HIDE DEF A, Good
      <4>2. \A z \in Seq(A), y \in A : Append(z, y) \in Seq(A) /\ Append(z, y) # <<>>
        OBVIOUS
      <4>3. Append(Split(t, c), <<>>) \in Seq(A) \ {<<>>}
        BY <4>1, <4>2
      <4> QED
        BY <4>3 DEF A
    <3> QED
      BY <2>1, <2>2, <2>3, <3>2
  <2>4. CASE x # c
    <3>1. x \in C \ {c}
      BY <2>4
    <3>2. PutLast(Split(t, c), x) \in V
      BY <2>2, <3>1, PutLastIs
    <3> QED
      BY <2>1, <2>2, <2>4, <3>2
  <2> QED
    BY <2>3, <2>4
<1>3. \A t \in Seq(C) : t \in Good
  <2> HIDE DEF Good
  <2> QED
    BY <1>1, <1>2, ByAppending
<1> QED
  BY <1>3

LEMMA SplitWhole ==
  ASSUME NEW C, NEW c, c \notin C
  PROVE  \A t \in Seq(C) : Split(t, c) = <<t>>
<1> DEFINE Good == {t \in Seq(C) : Split(t, c) = <<t>>}
<1>1. <<>> \in Good
  <2>1. Split(<<>>, c) = << <<>> >> /\ <<>> \in Seq(C)
    BY SplitEmpty
  <2> QED
    BY <2>1
<1>2. ASSUME NEW t \in Seq(C), NEW x \in C, t \in Good PROVE Append(t, x) \in Good
  <2>1. Split(Append(t, x), c) = PutLast(Split(t, c), x)
    BY SplitAppend
  <2>2. Split(t, c) = <<t>> /\ <<t>> = Append(<<>>, t) /\ Append(<<>>, Append(t, x)) = <<Append(t, x)>>
        /\ <<>> \in Seq(Seq(C)) /\ Append(t, x) \in Seq(C)
    BY <1>2
  <2>3. <<>> \in Seq(Seq(C))
    OBVIOUS
  <2>4. PutLast(Append(<<>>, t), x) = Append(<<>>, Append(t, x))
    <3>1. \A s \in Seq(Seq(C)) : PutLast(Append(s, t), x) = Append(s, Append(t, x))
      BY PutLastAt
    <3> QED
      BY <2>3, <3>1
  <2> QED
    BY <2>1, <2>2, <2>4
<1>3. \A t \in Seq(C) : t \in Good
  <2> HIDE DEF Good
  <2> QED
    BY <1>1, <1>2, ByAppending
<1> QED
  BY <1>3

LEMMA SplitAt ==
  ASSUME NEW C, NEW c \in C, NEW t \in Seq(C)
  PROVE  \A x \in Seq(C \ {c}) : Split((t \o <<c>>) \o x, c) = Append(Split(t, c), x)
<1> DEFINE u == t \o <<c>>
           Good == {x \in Seq(C \ {c}) : Split(u \o x, c) = Append(Split(t, c), x)}
<1>0. u \in Seq(C) /\ u = Append(t, c) /\ u \o <<>> = u
  OBVIOUS
<1>a. Split(t, c) \in Seq(Seq(C \ {c}))
  BY SplitIn
<1>1. <<>> \in Good
  <2>1. Split(u, c) = Append(Split(t, c), <<>>)
    BY <1>0, SplitAppend
  <2> QED
    BY <1>0, <2>1
<1>2. ASSUME NEW x \in Seq(C \ {c}), NEW y \in C \ {c}, x \in Good PROVE Append(x, y) \in Good
  <2> HIDE DEF u
  <2>1. u \o x \in Seq(C) /\ y \in C /\ y # c /\ u \o Append(x, y) = Append(u \o x, y)
    BY <1>0
  <2>2. Split(Append(u \o x, y), c) = PutLast(Split(u \o x, c), y)
    BY <2>1, SplitAppend
  <2>3. PutLast(Append(Split(t, c), x), y) = Append(Split(t, c), Append(x, y))
    BY <1>a, PutLastAt
  <2>4. Append(x, y) \in Seq(C \ {c}) /\ Split(u \o x, c) = Append(Split(t, c), x)
    BY <1>2
  <2> QED
    BY <2>1, <2>2, <2>3, <2>4
<1>3. \A x \in Seq(C \ {c}) : x \in Good
  <2> HIDE DEF Good
  <2> QED
    BY <1>1, <1>2, ByAppending
<1> QED
  BY <1>3

(* Pieces                                                                  *)
LEMMA PiecesAre ==
  ASSUME NEW C, NEW t \in Seq(C), NEW c
  PROVE  /\ Pieces(t, c) = Among(Split(t, c), Seq(C) \ {<<>>})
         /\ Pieces(t, c) \in Seq(Seq(C \ {c}) \ {<<>>})
<1> DEFINE s == Split(t, c)
<1>1. s \in Seq(Seq(C \ {c}))
  BY SplitIn
<1>2. Pieces(t, c) = Among(s, ToSet(s) \ {<<>>})
  BY DEF Pieces
<1> HIDE DEF s
<1>3. ToSet(s) \subseteq Seq(C \ {c})
  BY <1>1, ToSetIn
<1>4. \A x \in Seq(C \ {c}) : x \in Seq(C)
  OBVIOUS
<1>5. \A x \in ToSet(s) : x \in ToSet(s) \ {<<>>} <=> x \in Seq(C) \ {<<>>}
  BY <1>3, <1>4
<1>6. Among(s, ToSet(s) \ {<<>>}) = Among(s, Seq(C) \ {<<>>})
  BY <1>1, <1>5, AmongSame
<1> DEFINE p == Among(s, Seq(C) \ {<<>>})
<1>7. p \in Seq(Seq(C \ {c})) /\ ToSet(p) = ToSet(s) \cap (Seq(C) \ {<<>>})
  BY <1>1, AmongIn
<1> HIDE DEF p
<1>8. \A k \in 1..Len(p) : p[k] \in ToSet(p)
  BY <1>7, ToSetIn
<1>9. p \in Seq(Seq(C \ {c}) \ {<<>>})
  <2> DEFINE D == Seq(C \ {c})
             E == Seq(C) \ {<<>>}
  <2> HIDE DEF D, E
  <2>1. \A k \in 1..Len(p) : p[k] \in E /\ p[k] \in D
    BY <1>7, <1>8 DEF D, E
  <2>2. \A y \in E : y # <<>>
    BY DEF E
  <2>3. p \in Seq(D \ {<<>>})
    BY <1>7, <2>1, <2>2 DEF D
  <2> QED
    BY <2>3 DEF D
<1> QED
  BY <1>2, <1>6, <1>9 DEF p, s

LEMMA PiecesJoined ==
  ASSUME NEW C, "&" \in C, NEW q \in Seq(C), NEW x \in Seq(C \ {"&"})
  PROVE  Pieces(Joined(q, x), "&") = IF x = <<>> THEN Pieces(q, "&") ELSE Append(Pieces(q, "&"), x)
<1> DEFINE E == Seq(C) \ {<<>>}
<1>1. x \in Seq(C)
  OBVIOUS
<1>2. CASE q = <<>>
  <2>1. Joined(q, x) = x
    BY <1>1, <1>2 DEF Joined
  <2>2. Split(x, "&") = <<x>> /\ Split(q, "&") = << <<>> >>
    BY <1>2, SplitWhole, SplitEmpty
  <2>3. Pieces(x, "&") = Among(<<x>>, E) /\ Pieces(q, "&") = Among(<< <<>> >>, E)
    BY <1>1, <2>2, PiecesAre
  <2>4. <<x>> = Append(<<>>, x) /\ << <<>> >> = Append(<<>>, <<>>) /\ <<>> \in Seq(Seq(C)) /\ <<>> \in Seq(C)
    OBVIOUS
  <2>5. Among(<<>>, E) = <<>>
    BY AmongEmpty
  <2> HIDE DEF E
  <2>6. \A y \in Seq(C) : Among(Append(<<>>, y), E) = IF y \in E THEN Append(<<>>, y) ELSE <<>>
    <3>1. <<>> \in Seq(Seq(C))
      OBVIOUS
    <3>2. \A y \in Seq(C) : Among(Append(<<>>, y), E) = IF y \in E THEN Append(Among(<<>>, E), y) ELSE Among(<<>>, E)
      BY <3>1, AmongAppend
    <3> QED
      BY <2>5, <3>2
  <2>7. (x \in E <=> x # <<>>) /\ <<>> \notin E
    BY <1>1 DEF E
  <2> QED
    BY <1>1, <2>1, <2>3, <2>4, <2>6, <2>7
<1>3. CASE q # <<>>
  <2>1. Joined(q, x) = (q \o <<"&">>) \o x /\ Joined(q, x) \in Seq(C)
    BY <1>1, <1>3 DEF Joined
  <2>2. Split(Joined(q, x), "&") = Append(Split(q, "&"), x)
    BY <2>1, SplitAt
  <2>3. Split(q, "&") \in Seq(Seq(C))
    <3>1. Split(q, "&") \in Seq(Seq(C \ {"&"}))
      BY SplitIn
    <3> QED
      BY <3>1
  <2>4. Pieces(Joined(q, x), "&") = Among(Append(Split(q, "&"), x), E) /\ Pieces(q, "&") = Among(Split(q, "&"), E)
    BY <2>1, <2>2, PiecesAre
  <2> HIDE DEF E
  <2>5. Among(Append(Split(q, "&"), x), E) = IF x \in E THEN Append(Among(Split(q, "&"), E), x) ELSE Among(Split(q, "&"), E)
    BY <1>1, <2>3, AmongAppend
  <2>6. x \in E <=> x # <<>>
    BY <1>1 DEF E
  <2> QED
    BY <2>4, <2>5, <2>6
<1> QED
  BY <1>2, <1>3

LEMMA LastApart ==
  ASSUME NEW X, NEW s \in Seq(X), s # <<>>
  PROVE  \E f \in Seq(X) : \E x \in X : s = Append(f, x)
<1> DEFINE f == SubSeq(s, 1, Len(s) - 1)
<1>1. f \in Seq(X) /\ s[Len(s)] \in X /\ s = Append(f, s[Len(s)])
  OBVIOUS
<1> QED
  BY <1>1

LEMMA SplitMapped ==
  ASSUME NEW C, NEW c, NEW h, \A x \in C : h[x] = c <=> x = c
  PROVE  \A t \in Seq(C) : Split(Mapped(t, h), c) = Mapped(Split(t, c), [u \in Seq(C) |-> Mapped(u, h)])
<1> DEFINE M == [u \in Seq(C) |-> Mapped(u, h)]
           D == {h[x] : x \in C}
           Good == {t \in Seq(C) : Split(Mapped(t, h), c) = Mapped(Split(t, c), M)}
<1>b. \A x \in C : h[x] \in D
  OBVIOUS
<1> HIDE DEF D
<1>0. \A u \in Seq(C) : M[u] = Mapped(u, h) /\ M[u] \in Seq(D)
  BY <1>b, MappedIs
<1>a. <<>> \in Seq(C) /\ M[<<>>] = <<>>
  <2>1. <<>> \in Seq(C) /\ Mapped(<<>>, h) = <<>>
    BY MappedEmpty
  <2> QED
    BY <1>0, <2>1
<1> HIDE DEF M
<1>1. <<>> \in Good
  <2>1. Mapped(<<>>, h) = <<>> /\ Split(<<>>, c) = << <<>> >> /\ Mapped(<<>>, M) = <<>>
    BY MappedEmpty, SplitEmpty
  <2>2. << <<>> >> = Append(<<>>, <<>>) /\ <<>> \in Seq(Seq(C))
    OBVIOUS
  <2>3. Mapped(Append(<<>>, <<>>), M) = Append(Mapped(<<>>, M), M[<<>>])
    BY <1>a, <2>2, MappedAppend
  <2> QED
    BY <1>a, <2>1, <2>2, <2>3
<1>2. ASSUME NEW t \in Seq(C), NEW x \in C, t \in Good PROVE Append(t, x) \in Good
  <2>1. /\ Mapped(Append(t, x), h) = Append(Mapped(t, h), h[x])
        /\ Mapped(t, h) \in Seq(D) /\ h[x] \in D
    <3>1. Mapped(Append(t, x), h) = Append(Mapped(t, h), h[x])
      BY MappedAppend
    <3>2. Mapped(t, h) \in Seq(D)
      BY <1>b, MappedIs
    <3> QED
      BY <1>b, <3>1, <3>2
  <2>2. Split(t, c) \in Seq(Seq(C)) /\ Split(t, c) # <<>>
    <3>1. Split(t, c) \in Seq(Seq(C \ {c})) /\ Split(t, c) # <<>>
      BY SplitIn
    <3> QED
      BY <3>1
  <2>3. Split(Append(t, x), c) = IF x = c THEN Append(Split(t, c), <<>>) ELSE PutLast(Split(t, c), x)
    BY SplitAppend
  <2> DEFINE r == Mapped(Split(t, c), M)
  <2>4. Split(Mapped(t, h), c) = r /\ Append(t, x) \in Seq(C)
    BY <1>2
  <2>5. Split(Append(Mapped(t, h), h[x]), c) = IF h[x] = c THEN Append(r, <<>>) ELSE PutLast(r, h[x])
    <3>1. Split(Append(Mapped(t, h), h[x]), c)
            = IF h[x] = c THEN Append(Split(Mapped(t, h), c), <<>>) ELSE PutLast(Split(Mapped(t, h), c), h[x])
      BY <2>1, SplitAppend
    <3> QED
      BY <2>4, <3>1
  <2>6. CASE x = c
    <3>1. Mapped(Append(Split(t, c), <<>>), M) = Append(r, M[<<>>])
      BY <1>a, <2>2, MappedAppend
    <3>2. Split(Append(Mapped(t, h), h[x]), c) = Append(r, <<>>)
      BY <2>5, <2>6
    <3>3. Split(Append(t, x), c) = Append(Split(t, c), <<>>)
      BY <2>3, <2>6
    <3> HIDE DEF r
    <3> QED
      BY <1>a, <2>1, <2>4, <3>1, <3>2, <3>3
  <2>7. CASE x # c
    <3>1. PICK f \in Seq(Seq(C)) : \E u \in Seq(C) : Split(t, c) = Append(f, u)
      BY <2>2, LastApart
    <3>2. PICK u \in Seq(C) : Split(t, c) = Append(f, u)
      BY <3>1
    <3>3. r = Append(Mapped(f, M), M[u])
      BY <3>2, MappedAppend
    <3>4. Mapped(f, M) \in Seq(Seq(D)) /\ M[u] \in Seq(D)
      BY <1>0, MappedIs
    <3> HIDE DEF r
    <3>5. PutLast(r, h[x]) = Append(Mapped(f, M), Append(M[u], h[x]))
      <4>1. \A a \in Seq(Seq(D)) : \A b \in Seq(D) : \A y \in D : PutLast(Append(a, b), y) = Append(a, Append(b, y))
        BY PutLastAt
      <4> QED
        BY <2>1, <3>3, <3>4, <4>1
    <3>6. Append(u, x) \in Seq(C) /\ M[Append(u, x)] = Append(M[u], h[x])
      <4>1. Append(u, x) \in Seq(C) /\ Mapped(Append(u, x), h) = Append(Mapped(u, h), h[x])
        BY MappedAppend
      <4> QED
        BY <1>0, <4>1
    <3>7. Split(Append(t, x), c) = Append(f, Append(u, x))
      <4>1. PutLast(Append(f, u), x) = Append(f, Append(u, x))
        BY PutLastAt
      <4> QED
        BY <2>3, <2>7, <3>2, <4>1
    <3>8. Mapped(Append(f, Append(u, x)), M) = Append(Mapped(f, M), M[Append(u, x)])
      BY <3>6, MappedAppend
    <3>9. Split(Append(Mapped(t, h), h[x]), c) = PutLast(r, h[x])
      BY <2>5, <2>7
    <3> QED
      BY <2>1, <2>4, <3>5, <3>6, <3>7, <3>8, <3>9
  <2> QED
    BY <2>6, <2>7
<1>3. \A t \in Seq(C) : t \in Good
  <2> HIDE DEF Good
  <2> QED
    BY <1>1, <1>2, ByAppending
<1> QED
  BY <1>3 DEF M

LEMMA PiecesMapped ==
  ASSUME NEW C, NEW c, NEW h, \A x \in C : h[x] = c <=> x = c, NEW t \in Seq(C)
  PROVE  Pieces(Mapped(t, h), c) = Mapped(Pieces(t, c), [u \in Seq(C) |-> Mapped(u, h)])
<1> DEFINE M == [u \in Seq(C) |-> Mapped(u, h)]
           D == {h[x] : x \in C}
           E == Seq(D) \ {<<>>}
           R == {u \in Seq(C) : M[u] \in E}
           s == Split(t, c)
<1>a. \A x \in C : h[x] \in D
  OBVIOUS
<1> HIDE DEF D
<1>1. \A u \in Seq(C) : M[u] \in Seq(D) /\ Len(M[u]) = Len(u)
  BY <1>a, MappedIs
<1>3. Mapped(t, h) \in Seq(D)
  BY <1>a, MappedIs
<1>4. Split(Mapped(t, h), c) = Mapped(s, M)
  BY SplitMapped
<1>5. s \in Seq(Seq(C))
  <2>1. s \in Seq(Seq(C \ {c}))
    BY SplitIn
  <2> QED
    BY <2>1
<1> HIDE DEF M, s
<1>6. Pieces(Mapped(t, h), c) = Among(Mapped(s, M), E)
  BY <1>3, <1>4, PiecesAre
<1>7. Among(Mapped(s, M), E) = Mapped(Among(s, R), M)
  <2>1. \A x \in Seq(C) : x \in R <=> M[x] \in E
    OBVIOUS
  <2> HIDE DEF R, E
  <2> QED
    BY <1>5, <2>1, AmongMapped
<1>8. \A x \in ToSet(s) : x \in R <=> x \in Seq(C) \ {<<>>}
  <2>1. \A u \in Seq(C) : u = <<>> <=> Len(u) = 0
    OBVIOUS
  <2>2. \A u \in Seq(D) : u = <<>> <=> Len(u) = 0
    OBVIOUS
  <2>3. \A u \in Seq(C) : M[u] = <<>> <=> u = <<>>
    BY <1>1, <2>1, <2>2
  <2>4. ToSet(s) \subseteq Seq(C)
    BY <1>5, ToSetIn
  <2> QED
    BY <1>1, <2>3, <2>4
<1> HIDE DEF R
<1>9. Among(s, R) = Among(s, Seq(C) \ {<<>>})
  BY <1>5, <1>8, AmongSame
<1>10. Pieces(t, c) = Among(s, Seq(C) \ {<<>>})
  BY PiecesAre DEF s
<1> QED
  BY <1>6, <1>7, <1>9, <1>10 DEF M

(* CutAt                                                                   *)
LEMMA CutNone ==
  ASSUME NEW C, NEW c, c \notin C, NEW t \in Seq(C)
  PROVE  CutAt(t, c) = <<t, <<>>>>
<1>1. {k \in DOMAIN t : t[k] = c} = {}
  OBVIOUS
<1> QED
  BY <1>1 DEF CutAt

LEMMA CutFirst ==
  ASSUME NEW C, NEW c \in C, NEW u \in Seq(C \ {c}), NEW v \in Seq(C)
  PROVE  CutAt((u \o <<c>>) \o v, c) = <<u, v>>
<1> DEFINE t == (u \o <<c>>) \o v
           at == {k \in DOMAIN t : t[k] = c}
           n == Len(u) + 1
<1>1. /\ t \in Seq(C) /\ Len(u) \in Nat /\ Len(v) \in Nat /\ Len(t) = Len(u) + 1 + Len(v) /\ t[n] = c
      /\ \A k \in 1..Len(u) : t[k] = u[k]
      /\ SubSeq(t, 1, Len(u)) = u
      /\ SubSeq(t, n + 1, Len(t)) = v
  OBVIOUS
<1>2. \A k \in 1..Len(u) : u[k] # c
  OBVIOUS
<1> HIDE DEF t
<1>3. n \in at /\ at \subseteq Int /\ \A k \in at : n <= k
  <2>1. DOMAIN t = 1..Len(t)
    BY <1>1
  <2> QED
    BY <1>1, <1>2, <2>1
<1> HIDE DEF at
<1>4. Min(at) = n
  <2>1. \A x \in at : (\A y \in at : x <= y) => x = n
    BY <1>3
  <2> HIDE DEF n
  <2> QED
    BY <1>3, <2>1 DEF Min
<1>5. n - 1 = Len(u) /\ at # {}
  BY <1>1, <1>3
<1>6. CutAt(t, c) = <<SubSeq(t, 1, Min(at) - 1), SubSeq(t, Min(at) + 1, Len(t))>>
  BY <1>5, Zenon DEF CutAt, at
<1> QED
  BY <1>1, <1>4, <1>5, <1>6 DEF t

LEMMA CutExists ==
  ASSUME NEW C, NEW c \in C
  PROVE  \A t \in Seq(C) : t \in Seq(C \ {c}) \/ \E u \in Seq(C \ {c}) : \E v \in Seq(C) : t = (u \o <<c>>) \o v
<1> DEFINE B == Seq(C \ {c})
           Good == {t \in Seq(C) : t \in B \/ \E u \in B : \E v \in Seq(C) : t = (u \o <<c>>) \o v}
<1>1. <<>> \in Good
  OBVIOUS
<1>2. ASSUME NEW t \in Seq(C), NEW x \in C, t \in Good PROVE Append(t, x) \in Good
  <2>1. Append(t, x) \in Seq(C)
    OBVIOUS
  <2>2. CASE t \in B /\ x # c
    <3>1. Append(t, x) \in B
      BY <2>2
    <3> QED
      BY <2>1, <3>1
  <2>3. CASE t \in B /\ x = c
    <3>1. Append(t, x) = (t \o <<c>>) \o <<>> /\ <<>> \in Seq(C)
      BY <2>3
    <3> QED
      BY <2>1, <2>3, <3>1
  <2>4. CASE \E u \in B : \E v \in Seq(C) : t = (u \o <<c>>) \o v
    <3>1. PICK u \in B : \E v \in Seq(C) : t = (u \o <<c>>) \o v
      BY <2>4
    <3>2. PICK v \in Seq(C) : t = (u \o <<c>>) \o v
      BY <3>1
    <3>3. Append(t, x) = (u \o <<c>>) \o Append(v, x) /\ Append(v, x) \in Seq(C)
      <4> DEFINE w == u \o <<c>>
      <4>1. w \in Seq(C)
        OBVIOUS
      <4> HIDE DEF w
      <4>2. t = w \o v
        BY <3>2 DEF w
      <4>3. Append(t, x) = w \o Append(v, x) /\ Append(v, x) \in Seq(C)
        BY <4>1, <4>2
      <4> QED
        BY <4>3 DEF w
    <3> QED
      BY <2>1, <3>3
  <2> QED
    BY <1>2, <2>2, <2>3, <2>4
<1>3. \A t \in Seq(C) : t \in Good
  <2> HIDE DEF Good
  <2> QED
    BY <1>1, <1>2, ByAppending
<1> QED
  BY <1>3

LEMMA MappedConcat ==
  ASSUME NEW C, NEW s \in Seq(C), NEW t \in Seq(C), NEW h
  PROVE  Mapped(s \o t, h) = Mapped(s, h) \o Mapped(t, h)
<1> DEFINE u == s \o t
           D == {h[x] : x \in C}
           a == Mapped(s, h)
           b == Mapped(t, h)
<1>0. \A x \in C : h[x] \in D
  OBVIOUS
<1> HIDE DEF D
<1>1. Len(a) = Len(s) /\ (\A k \in 1..Len(s) : a[k] = h[s[k]]) /\ a \in Seq(D)
  BY <1>0, MappedIs
<1>2. Len(b) = Len(t) /\ (\A k \in 1..Len(t) : b[k] = h[t[k]]) /\ b \in Seq(D)
  BY <1>0, MappedIs
<1>3. /\ u \in Seq(C) /\ Len(u) = Len(s) + Len(t) /\ Len(s) \in Nat /\ Len(t) \in Nat
      /\ \A k \in 1..Len(u) : u[k] = IF k <= Len(s) THEN s[k] ELSE t[k - Len(s)]
  OBVIOUS
<1> HIDE DEF u
<1>4. Mapped(u, h) = [n \in 1..(Len(s) + Len(t)) |-> h[u[n]]]
  BY <1>3 DEF Mapped
<1> HIDE DEF a, b
<1>5. a \o b = [n \in 1..(Len(s) + Len(t)) |-> IF n <= Len(s) THEN a[n] ELSE b[n - Len(s)]]
  <2>1. a \in Seq(D) /\ b \in Seq(D)
    BY <1>1, <1>2
  <2> DEFINE w == a \o b
  <2>3. /\ w \in Seq(D) /\ Len(w) = Len(a) + Len(b)
        /\ \A n \in 1..(Len(a) + Len(b)) : w[n] = IF n <= Len(a) THEN a[n] ELSE b[n - Len(a)]
    BY <2>1
  <2> HIDE DEF w
  <2>4. w = [n \in 1..Len(w) |-> w[n]]
    BY <2>3
  <2>5. w = [n \in 1..(Len(a) + Len(b)) |-> IF n <= Len(a) THEN a[n] ELSE b[n - Len(a)]]
    BY <2>3, <2>4
  <2>2. a \o b = [n \in 1..(Len(a) + Len(b)) |-> IF n <= Len(a) THEN a[n] ELSE b[n - Len(a)]]
    BY <2>5 DEF w
  <2> QED
    BY <1>1, <1>2, <2>2
<1>6. \A n \in 1..(Len(s) + Len(t)) : h[u[n]] = IF n <= Len(s) THEN a[n] ELSE b[n - Len(s)]
  <2>1. \A n \in 1..(Len(s) + Len(t)) : (n <= Len(s) => n \in 1..Len(s)) /\ (~ n <= Len(s) => n - Len(s) \in 1..Len(t))
    BY <1>3
  <2> QED
    BY <1>1, <1>2, <1>3, <2>1
<1>7. Mapped(u, h) = a \o b
  BY <1>4, <1>5, <1>6
<1> QED
  BY <1>7 DEF a, b, u

LEMMA MappedConcats ==
  ASSUME NEW C, NEW h
  PROVE  \A a, b \in Seq(C) : Mapped(a \o b, h) = Mapped(a, h) \o Mapped(b, h)
BY MappedConcat

LEMMA CutMapped ==
  ASSUME NEW C, NEW c \in C, NEW h, \A x \in C : h[x] = c <=> x = c, NEW t \in Seq(C)
  PROVE  CutAt(Mapped(t, h), c) = <<Mapped(CutAt(t, c)[1], h), Mapped(CutAt(t, c)[2], h)>>
<1> DEFINE D == {h[x] : x \in C}
<1>1. c \in D /\ \A x \in C : h[x] \in D
  OBVIOUS
<1>2. \A x \in C \ {c} : h[x] \in D \ {c}
  BY <1>1
<1> HIDE DEF D
<1>3. CASE t \in Seq(C \ {c})
  <2>1. Mapped(t, h) \in Seq(D \ {c})
    BY <1>2, <1>3, MappedIs
  <2>2. CutAt(Mapped(t, h), c) = <<Mapped(t, h), <<>>>> /\ CutAt(t, c) = <<t, <<>>>>
    BY <1>3, <2>1, CutNone
  <2>3. Mapped(<<>>, h) = <<>>
    BY MappedEmpty
  <2> QED
    BY <2>2, <2>3
<1>4. CASE \E u \in Seq(C \ {c}) : \E v \in Seq(C) : t = (u \o <<c>>) \o v
  <2>1. PICK u \in Seq(C \ {c}) : \E v \in Seq(C) : t = (u \o <<c>>) \o v
    BY <1>4
  <2>2. PICK v \in Seq(C) : t = (u \o <<c>>) \o v
    BY <2>1
  <2>3. u \in Seq(C) /\ <<c>> \in Seq(C) /\ u \o <<c>> \in Seq(C)
    OBVIOUS
  <2>4. Mapped(t, h) = (Mapped(u, h) \o Mapped(<<c>>, h)) \o Mapped(v, h)
    <3>1. \A a, b \in Seq(C) : Mapped(a \o b, h) = Mapped(a, h) \o Mapped(b, h)
      BY MappedConcats, Zenon
    <3>2. Mapped(u \o <<c>>, h) = Mapped(u, h) \o Mapped(<<c>>, h)
      BY <2>3, <3>1, Zenon
    <3>3. Mapped((u \o <<c>>) \o v, h) = Mapped(u \o <<c>>, h) \o Mapped(v, h)
      BY <2>2, <2>3, <3>1, Zenon
    <3> QED
      BY <2>2, <3>2, <3>3, Zenon
  <2>5. Mapped(<<c>>, h) = <<c>>
    <3>1. DOMAIN <<c>> = {1} /\ <<c>>[1] = c /\ h[c] = c
      OBVIOUS
    <3>2. Mapped(<<c>>, h) = [n \in {1} |-> c]
      BY <3>1 DEF Mapped
    <3> QED
      BY <3>2
  <2>6. Mapped(u, h) \in Seq(D \ {c}) /\ Mapped(v, h) \in Seq(D)
    BY <1>1, <1>2, MappedIs
  <2>7. CutAt(Mapped(t, h), c) = <<Mapped(u, h), Mapped(v, h)>>
    <3>1. \A a \in Seq(D \ {c}) : \A b \in Seq(D) : CutAt((a \o <<c>>) \o b, c) = <<a, b>>
      BY <1>1, CutFirst
    <3> QED
      BY <2>4, <2>5, <2>6, <3>1
  <2>8. CutAt(t, c) = <<u, v>>
    BY <2>2, CutFirst
  <2> QED
    BY <2>7, <2>8
<1>5. \A s \in Seq(C) : s \in Seq(C \ {c}) \/ \E u \in Seq(C \ {c}) : \E v \in Seq(C) : s = (u \o <<c>>) \o v
  BY CutExists
<1> QED
  BY <1>3, <1>4, <1>5

----------------------------------------------------------------------------
(* The characters of a query.                                              *)
Escaping(chars) == [x \in Char |-> IF x \in chars THEN EscapeOf[x] ELSE x]
Unescaping == [x \in Char |-> IF x \in DOMAIN UnescapeOf THEN UnescapeOf[x] ELSE x]

LEMMA EscapeIs ==
  /\ EscapeOf[" "] = "%20" /\ EscapeOf["+"] = "%2B"
  /\ \A x : x \in DOMAIN UnescapeOf <=> x \in {"%20", "%2B", "%26", "%3D", "+"}
  /\ UnescapeOf["%20"] = " " /\ UnescapeOf["%2B"] = "+" /\ UnescapeOf["%26"] = "&"
  /\ UnescapeOf["%3D"] = "=" /\ UnescapeOf["+"] = " "
<1>1. EscapeOf[" "] = "%20" /\ EscapeOf["+"] = "%2B"
  BY DEF EscapeOf
<1>2. DOMAIN UnescapeOf = {"%20", "%2B", "%26", "%3D", "+"}
  BY DEF UnescapeOf
<1>3. /\ UnescapeOf["%20"] = " " /\ UnescapeOf["%2B"] = "+" /\ UnescapeOf["%26"] = "&"
      /\ UnescapeOf["%3D"] = "=" /\ UnescapeOf["+"] = " "
  BY DEF UnescapeOf
<1> QED
  BY <1>1, <1>2, <1>3

(* What a parameter is read from, and what it is made of.                  *)
Text == Seq(Char)
Escapable == {" ", "+"}
Unescaped_ == Char \ {"%26", "%3D"}
Bare == Char \ {"&", "%20", "%2B", "%26", "%3D"}
BareKey == Bare \ {"="}
BarePair == Seq(BareKey) \X Seq(Bare)
Unsaid == << <<>>, <<>> >>

LEMMA EscapingIs ==
  ASSUME NEW chars, chars \subseteq Escapable, NEW x \in Char
  PROVE  /\ Escaping(chars)[x] = IF x \in chars THEN EscapeOf[x] ELSE x
         /\ Escaping(chars)[x] \in Char
         /\ x \notin chars => Escaping(chars)[x] = x
         /\ x \in chars => Escaping(chars)[x] \in {"%20", "%2B"}
BY EscapeIs, SeparatorsAssumption DEF Escaping, Escapable, Separators

LEMMA UnescapingIs ==
  ASSUME NEW x \in Char
  PROVE  /\ Unescaping[x] \in Char
         /\ x \in Unescaped_ \ {"&"} => Unescaping[x] \in Bare
         /\ x \in Unescaped_ \ {"&", "="} => Unescaping[x] \in BareKey
         /\ x \in Bare => Unescaping[Escaping(InQuery)[x]] = x
         /\ Unescaping[Escaping(InUrl)[x]] = Unescaping[x]
<1>1. Unescaping[x] = IF x \in {"%20", "%2B", "%26", "%3D", "+"} THEN UnescapeOf[x] ELSE x
  BY EscapeIs DEF Unescaping
<1>2. \A y \in Char : Unescaping[y] = IF y \in {"%20", "%2B", "%26", "%3D", "+"} THEN UnescapeOf[y] ELSE y
  BY EscapeIs DEF Unescaping
<1>3. {" ", "+", "&", "=", "%20", "%2B"} \subseteq Char
  BY SeparatorsAssumption DEF Separators
<1>4. /\ Escaping(InQuery)[x] = IF x \in {" ", "+"} THEN EscapeOf[x] ELSE x
      /\ Escaping(InUrl)[x] = IF x = " " THEN EscapeOf[x] ELSE x
  BY DEF Escaping, InQuery, InUrl
<1>5. Unescaping[x] \in Char
  BY <1>1, <1>3, EscapeIs
<1>6. /\ x \in Unescaped_ \ {"&"} => Unescaping[x] \in Bare
      /\ x \in Unescaped_ \ {"&", "="} => Unescaping[x] \in BareKey
  BY <1>1, <1>3, EscapeIs DEF Unescaped_, Bare, BareKey
<1>7. x \in Bare => Unescaping[Escaping(InQuery)[x]] = x
  BY <1>2, <1>3, <1>4, EscapeIs DEF Bare
<1>8. Unescaping[Escaping(InUrl)[x]] = Unescaping[x]
  BY <1>2, <1>3, <1>4, EscapeIs
<1> QED
  BY <1>5, <1>6, <1>7, <1>8

LEMMA EscapedIs ==
  ASSUME NEW t \in Text, NEW chars, chars \subseteq Escapable
  PROVE  /\ Escaped(t, chars) = Mapped(t, Escaping(chars)) /\ Escaped(t, chars) \in Text
         /\ Len(Escaped(t, chars)) = Len(t)
<1>1. DOMAIN t = 1..Len(t) /\ \A k \in DOMAIN t : t[k] \in Char
  BY DEF Text
<1>2. \A k \in DOMAIN t : Escaping(chars)[t[k]] = IF t[k] \in chars THEN EscapeOf[t[k]] ELSE t[k]
  BY <1>1 DEF Escaping
<1>3. Escaped(t, chars) = Mapped(t, Escaping(chars))
  BY <1>2 DEF Escaped, Mapped
<1>4. \A x \in Char : Escaping(chars)[x] \in Char
  BY EscapingIs
<1>5. Mapped(t, Escaping(chars)) \in Text /\ Len(Mapped(t, Escaping(chars))) = Len(t)
  BY <1>4, MappedIs DEF Text
<1> QED
  BY <1>3, <1>5

LEMMA UnescapedIs ==
  ASSUME NEW t \in Text
  PROVE  Unescaped(t) = Mapped(t, Unescaping) /\ Unescaped(t) \in Text
<1>1. DOMAIN t = 1..Len(t) /\ \A k \in DOMAIN t : t[k] \in Char
  BY DEF Text
<1>2. \A k \in DOMAIN t : Unescaping[t[k]] = IF t[k] \in DOMAIN UnescapeOf THEN UnescapeOf[t[k]] ELSE t[k]
  BY <1>1 DEF Unescaping
<1>3. Unescaped(t) = Mapped(t, Unescaping)
  BY <1>2 DEF Unescaped, Mapped
<1>4. \A x \in Char : Unescaping[x] \in Char
  BY UnescapingIs
<1>5. Mapped(t, Unescaping) \in Text
  BY <1>4, MappedIs DEF Text
<1> QED
  BY <1>3, <1>5

LEMMA UnescapedBare ==
  /\ \A t \in Seq(Unescaped_ \ {"&"}) : Unescaped(t) \in Seq(Bare)
  /\ \A t \in Seq(Unescaped_ \ {"&", "="}) : Unescaped(t) \in Seq(BareKey)
<1>1. ASSUME NEW t \in Seq(Unescaped_ \ {"&"}) PROVE Unescaped(t) \in Seq(Bare)
  <2>1. t \in Text
    BY DEF Text, Unescaped_
  <2>2. \A x \in Unescaped_ \ {"&"} : Unescaping[x] \in Bare
    BY UnescapingIs DEF Unescaped_
  <2>3. Mapped(t, Unescaping) \in Seq(Bare)
    BY <2>2, MappedIs
  <2> QED
    BY <2>1, <2>3, UnescapedIs
<1>2. ASSUME NEW t \in Seq(Unescaped_ \ {"&", "="}) PROVE Unescaped(t) \in Seq(BareKey)
  <2>1. t \in Text
    BY DEF Text, Unescaped_
  <2>2. \A x \in Unescaped_ \ {"&", "="} : Unescaping[x] \in BareKey
    BY UnescapingIs DEF Unescaped_
  <2>3. Mapped(t, Unescaping) \in Seq(BareKey)
    BY <2>2, MappedIs
  <2> QED
    BY <2>1, <2>3, UnescapedIs
<1> QED
  BY <1>1, <1>2

LEMMA MappedTwice ==
  ASSUME NEW X, NEW t \in Seq(X), NEW g, NEW h, NEW f, \A x \in X : h[g[x]] = f[x]
  PROVE  Mapped(Mapped(t, g), h) = Mapped(t, f)
<1>1. DOMAIN Mapped(t, g) = DOMAIN t /\ \A k \in DOMAIN t : Mapped(t, g)[k] = g[t[k]] /\ t[k] \in X
  BY DEF Mapped
<1>2. Mapped(Mapped(t, g), h) = [k \in DOMAIN t |-> h[g[t[k]]]]
  BY <1>1 DEF Mapped
<1>3. Mapped(t, f) = [k \in DOMAIN t |-> f[t[k]]]
  BY DEF Mapped
<1> QED
  BY <1>1, <1>2, <1>3

LEMMA UnescapedBack ==
  ASSUME NEW t \in Seq(Bare)
  PROVE  Unescaped(Escaped(t, InQuery)) = t
<1>1. t \in Text /\ InQuery \subseteq Escapable
  BY DEF Text, Bare, InQuery, Escapable
<1>2. /\ Escaped(t, InQuery) = Mapped(t, Escaping(InQuery)) /\ Escaped(t, InQuery) \in Text
      /\ Unescaped(Escaped(t, InQuery)) = Mapped(Mapped(t, Escaping(InQuery)), Unescaping)
  BY <1>1, EscapedIs, UnescapedIs
<1> DEFINE same == [x \in Bare |-> x]
<1>3. \A x \in Bare : Unescaping[Escaping(InQuery)[x]] = same[x]
  BY UnescapingIs DEF Bare
<1> HIDE DEF same
<1>4. Mapped(Mapped(t, Escaping(InQuery)), Unescaping) = Mapped(t, same)
  BY <1>3, MappedTwice
<1>5. Mapped(t, same) = t
  <2>1. t = [k \in DOMAIN t |-> t[k]] /\ \A k \in DOMAIN t : t[k] \in Bare
    OBVIOUS
  <2> QED
    BY <2>1 DEF Mapped, same
<1> QED
  BY <1>2, <1>4, <1>5

LEMMA UnescapedUrl ==
  ASSUME NEW t \in Text
  PROVE  Unescaped(Mapped(t, Escaping(InUrl))) = Unescaped(t)
<1>1. InUrl \subseteq Escapable
  BY DEF InUrl, Escapable
<1>2. Mapped(t, Escaping(InUrl)) \in Text
  BY <1>1, EscapedIs
<1>3. /\ Unescaped(Mapped(t, Escaping(InUrl))) = Mapped(Mapped(t, Escaping(InUrl)), Unescaping)
      /\ Unescaped(t) = Mapped(t, Unescaping)
  BY <1>2, UnescapedIs
<1>4. \A x \in Char : Unescaping[Escaping(InUrl)[x]] = Unescaping[x]
  BY UnescapingIs
<1>5. Mapped(Mapped(t, Escaping(InUrl)), Unescaping) = Mapped(t, Unescaping)
  BY <1>4, MappedTwice DEF Text
<1> QED
  BY <1>3, <1>5

----------------------------------------------------------------------------
(* The parameters of a query.                                              *)
ParsePiece(p) == [n \in 1..2 |-> Unescaped(CutAt(p, "=")[n])]
Parsing == [p \in Text |-> ParsePiece(p)]

LEMMA AmpersandAndEquals == "&" \in Char /\ "=" \in Char /\ "?" \in Char
  BY SeparatorsAssumption DEF Separators

LEMMA CutIn ==
  ASSUME NEW C, NEW c \in C, NEW t \in Seq(C)
  PROVE  CutAt(t, c)[1] \in Seq(C \ {c}) /\ CutAt(t, c)[2] \in Seq(C) /\ CutAt(t, c) = <<CutAt(t, c)[1], CutAt(t, c)[2]>>
<1>1. CASE t \in Seq(C \ {c})
  <2>1. CutAt(t, c) = <<t, <<>>>>
    BY <1>1, CutNone
  <2> QED
    BY <1>1, <2>1
<1>2. CASE \E u \in Seq(C \ {c}) : \E v \in Seq(C) : t = (u \o <<c>>) \o v
  <2>1. PICK u \in Seq(C \ {c}) : \E v \in Seq(C) : t = (u \o <<c>>) \o v
    BY <1>2
  <2>2. PICK v \in Seq(C) : t = (u \o <<c>>) \o v
    BY <2>1
  <2>3. CutAt(t, c) = <<u, v>>
    BY <2>2, CutFirst
  <2> QED
    BY <2>3
<1>3. \A s \in Seq(C) : s \in Seq(C \ {c}) \/ \E u \in Seq(C \ {c}) : \E v \in Seq(C) : s = (u \o <<c>>) \o v
  BY CutExists
<1> QED
  BY <1>1, <1>2, <1>3

LEMMA ParsePieceIs ==
  ASSUME NEW p
  PROVE  ParsePiece(p) = <<Unescaped(CutAt(p, "=")[1]), Unescaped(CutAt(p, "=")[2])>>
<1>1. 1..2 = {1, 2}
  OBVIOUS
<1> QED
  BY <1>1 DEF ParsePiece

LEMMA ParseIs ==
  ASSUME NEW t \in Text
  PROVE  Pieces(t, "&") \in Seq(Text) /\ ParseQuery(t) = Mapped(Pieces(t, "&"), Parsing)
<1> DEFINE pieces == Pieces(t, "&")
<1>1. pieces \in Seq(Text)
  <2>1. pieces \in Seq(Seq(Char \ {"&"}) \ {<<>>})
    BY PiecesAre DEF Text
  <2> QED
    BY <2>1 DEF Text
<1> HIDE DEF pieces
<1>2. \A k \in DOMAIN pieces : pieces[k] \in Text
  BY <1>1
<1>3. \A k \in DOMAIN pieces : Parsing[pieces[k]] = ParsePiece(pieces[k])
  BY <1>2 DEF Parsing
<1>4. ParseQuery(t) = [k \in DOMAIN pieces |-> ParsePiece(pieces[k])]
  BY Zenon DEF ParseQuery, ParsePiece, pieces
<1>5. ParseQuery(t) = [k \in DOMAIN pieces |-> Parsing[pieces[k]]]
  BY <1>3, <1>4
<1> QED
  BY <1>1, <1>5 DEF Mapped, pieces

(* A parameter of a query without escaped separators.                      *)
LEMMA PieceBare ==
  ASSUME NEW p \in Seq(Unescaped_ \ {"&"})
  PROVE  Parsing[p] \in BarePair
<1>1. p \in Text /\ "=" \in Unescaped_ \ {"&"}
  BY AmpersandAndEquals DEF Text, Unescaped_
<1>2. CutAt(p, "=")[1] \in Seq((Unescaped_ \ {"&"}) \ {"="}) /\ CutAt(p, "=")[2] \in Seq(Unescaped_ \ {"&"})
  BY <1>1, CutIn
<1>3. CutAt(p, "=")[1] \in Seq(Unescaped_ \ {"&", "="})
  BY <1>2
<1>4. Unescaped(CutAt(p, "=")[1]) \in Seq(BareKey) /\ Unescaped(CutAt(p, "=")[2]) \in Seq(Bare)
  BY <1>2, <1>3, UnescapedBare
<1>5. Parsing[p] = <<Unescaped(CutAt(p, "=")[1]), Unescaped(CutAt(p, "=")[2])>>
  BY <1>1, ParsePieceIs DEF Parsing
<1> QED
  BY <1>4, <1>5 DEF BarePair

LEMMA ParseBare ==
  ASSUME NEW t \in Seq(Unescaped_)
  PROVE  ParseQuery(t) \in Seq(BarePair)
<1>1. t \in Text /\ "&" \in Unescaped_
  BY AmpersandAndEquals DEF Text, Unescaped_
<1>2. Pieces(t, "&") \in Seq(Seq(Unescaped_ \ {"&"}))
  <2>1. Pieces(t, "&") \in Seq(Seq(Unescaped_ \ {"&"}) \ {<<>>})
    BY PiecesAre
  <2> QED
    BY <2>1
<1>3. \A p \in Seq(Unescaped_ \ {"&"}) : Parsing[p] \in BarePair
  BY PieceBare
<1>4. Mapped(Pieces(t, "&"), Parsing) \in Seq(BarePair)
  BY <1>2, <1>3, MappedIs
<1> QED
  BY <1>1, <1>4, ParseIs

LEMMA ParseEmpty == ParseQuery(<<>>) = <<>>
<1>1. <<>> \in Text /\ <<>> \in Seq({}) /\ "&" \notin {}
  BY DEF Text
<1>2. Split(<<>>, "&") = << <<>> >>
  BY SplitEmpty
<1>3. Pieces(<<>>, "&") = Among(<< <<>> >>, Seq({}) \ {<<>>})
  BY <1>1, <1>2, PiecesAre
<1>4. << <<>> >> \in Seq({<<>>}) /\ ToSet(<< <<>> >>) \cap (Seq({}) \ {<<>>}) = {}
  <2>1. << <<>> >> \in Seq({<<>>})
    OBVIOUS
  <2>2. ToSet(<< <<>> >>) \subseteq {<<>>}
    BY <2>1, ToSetIn
  <2> QED
    BY <2>1, <2>2
<1>5. Pieces(<<>>, "&") = <<>>
  BY <1>3, <1>4, AmongNone
<1> QED
  BY <1>1, <1>5, ParseIs, MappedEmpty

(* A parameter is read as it was written.                                  *)
LEMMA EscapedPlain ==
  ASSUME NEW chars, chars \subseteq Escapable
  PROVE  /\ \A t \in Seq(Bare) : Escaped(t, chars) \in Seq(Char \ {"&"})
         /\ \A t \in Seq(BareKey) : Escaped(t, chars) \in Seq(Char \ {"&", "="})
<1>1. \A x \in Bare : Escaping(chars)[x] \in Char \ {"&"}
  BY EscapingIs DEF Bare
<1>2. \A x \in BareKey : Escaping(chars)[x] \in Char \ {"&", "="}
  BY EscapingIs DEF Bare, BareKey
<1>3. ASSUME NEW t \in Seq(Bare) PROVE Escaped(t, chars) \in Seq(Char \ {"&"})
  <2>1. t \in Text
    BY DEF Text, Bare
  <2>2. Mapped(t, Escaping(chars)) \in Seq(Char \ {"&"})
    BY <1>1, MappedIs
  <2> QED
    BY <2>1, <2>2, EscapedIs
<1>4. ASSUME NEW t \in Seq(BareKey) PROVE Escaped(t, chars) \in Seq(Char \ {"&", "="})
  <2>1. t \in Text
    BY DEF Text, Bare, BareKey
  <2>2. Mapped(t, Escaping(chars)) \in Seq(Char \ {"&", "="})
    BY <1>2, MappedIs
  <2> QED
    BY <2>1, <2>2, EscapedIs
<1> QED
  BY <1>3, <1>4

LEMMA PairIs ==
  ASSUME NEW p \in BarePair, NEW chars, chars \subseteq Escapable
  PROVE  Pair(p, chars) \in Seq(Char \ {"&"}) /\ (Pair(p, chars) = <<>> <=> p = Unsaid)
<1> DEFINE k == Escaped(p[1], chars)
           v == Escaped(p[2], chars)
<1>1. p[1] \in Seq(BareKey) /\ p[2] \in Seq(Bare) /\ p = <<p[1], p[2]>> /\ p[1] \in Seq(Bare)
  BY DEF BarePair, BareKey
<1>2. k \in Seq(Char \ {"&"}) /\ v \in Seq(Char \ {"&"})
  BY <1>1, EscapedPlain
<1>3. Len(k) = Len(p[1])
  <2>1. p[1] \in Text
    BY <1>1 DEF Text, Bare
  <2> QED
    BY <2>1, EscapedIs
<1> HIDE DEF k, v
<1>4. Pair(p, chars) = k \o (IF p[2] = <<>> THEN <<>> ELSE <<"=">> \o v)
  BY DEF Pair, k, v
<1>5. <<"=">> \in Seq(Char \ {"&"})
  BY AmpersandAndEquals
<1>6. CASE p[2] = <<>>
  <2>1. Pair(p, chars) = k
    BY <1>2, <1>4, <1>6
  <2>2. k = <<>> <=> p[1] = <<>>
    BY <1>1, <1>2, <1>3
  <2> QED
    BY <1>1, <1>2, <1>6, <2>1, <2>2 DEF Unsaid
<1>7. CASE p[2] # <<>>
  <2>1. Pair(p, chars) = k \o (<<"=">> \o v)
    BY <1>4, <1>7
  <2>2. <<"=">> \o v \in Seq(Char \ {"&"}) /\ Len(<<"=">> \o v) = 1 + Len(v)
    BY <1>2, <1>5
  <2> DEFINE w == <<"=">> \o v
  <2> HIDE DEF w
  <2>3. w \in Seq(Char \ {"&"}) /\ Len(w) # 0
    BY <1>2, <2>2 DEF w
  <2>4. k \o w \in Seq(Char \ {"&"}) /\ Len(k \o w) # 0
    BY <1>2, <2>3
  <2> QED
    BY <1>7, <2>1, <2>4 DEF Unsaid, w
<1> QED
  BY <1>6, <1>7

LEMMA PairParsed ==
  ASSUME NEW p \in BarePair
  PROVE  Parsing[Pair(p, InQuery)] = p
<1> DEFINE k == Escaped(p[1], InQuery)
           v == Escaped(p[2], InQuery)
<1>1. p[1] \in Seq(BareKey) /\ p[2] \in Seq(Bare) /\ p = <<p[1], p[2]>> /\ p[1] \in Seq(Bare)
  BY DEF BarePair, BareKey
<1>2. InQuery \subseteq Escapable
  BY DEF InQuery, Escapable
<1>3. k \in Seq(Char \ {"=", "&"}) /\ v \in Seq(Char \ {"&"})
  BY <1>1, <1>2, EscapedPlain
<1>4. Unescaped(k) = p[1] /\ Unescaped(v) = p[2]
  BY <1>1, UnescapedBack
<1> HIDE DEF k, v
<1>5. Pair(p, InQuery) = k \o (IF p[2] = <<>> THEN <<>> ELSE <<"=">> \o v)
  BY DEF Pair, k, v
<1>6. k \in Seq(Char \ {"="}) /\ v \in Seq(Char)
  BY <1>3
<1>7. Pair(p, InQuery) \in Text
  <2>1. Pair(p, InQuery) \in Seq(Char \ {"&"})
    BY <1>2, PairIs
  <2> QED
    BY <2>1 DEF Text
<1>8. CutAt(Pair(p, InQuery), "=")[1] = k /\ Unescaped(CutAt(Pair(p, InQuery), "=")[2]) = p[2]
  <2>1. CASE p[2] = <<>>
    <3>1. Pair(p, InQuery) = k
      BY <1>5, <1>6, <2>1
    <3>2. CutAt(k, "=") = <<k, <<>>>>
      BY <1>6, CutNone
    <3>3. Unescaped(<<>>) = <<>>
      BY DEF Unescaped
    <3> QED
      BY <2>1, <3>1, <3>2, <3>3
  <2>2. CASE p[2] # <<>>
    <3>1. Pair(p, InQuery) = k \o (<<"=">> \o v)
      BY <1>5, <2>2
    <3>2. k \o (<<"=">> \o v) = (k \o <<"=">>) \o v
      BY <1>6, AmpersandAndEquals
    <3>3. CutAt((k \o <<"=">>) \o v, "=") = <<k, v>>
      BY <1>6, CutFirst, AmpersandAndEquals
    <3>4. CutAt(Pair(p, InQuery), "=") = <<k, v>>
      BY <3>1, <3>2, <3>3, Zenon
    <3> QED
      BY <1>4, <3>4
  <2> QED
    BY <2>1, <2>2
<1>9. Parsing[Pair(p, InQuery)] = <<Unescaped(CutAt(Pair(p, InQuery), "=")[1]), Unescaped(CutAt(Pair(p, InQuery), "=")[2])>>
  BY <1>7, ParsePieceIs DEF Parsing
<1> QED
  BY <1>1, <1>4, <1>8, <1>9

(* A query sanitized reads as it did.                                      *)
LEMMA UrlEscaping ==
  /\ \A x \in Char : Escaping(InUrl)[x] = "&" <=> x = "&"
  /\ \A x \in Char : Escaping(InUrl)[x] = "=" <=> x = "="
  /\ \A x \in Char : Escaping(InUrl)[x] = "?" <=> x = "?"
  /\ \A x \in Char : Escaping(InUrl)[x] \in Char
<1>1. \A x \in Char : Escaping(InUrl)[x] \in Char /\ (Escaping(InUrl)[x] = x \/ (Escaping(InUrl)[x] \in {"%20", "%2B"} /\ x \in InUrl))
  <2>1. InUrl \subseteq Escapable
    BY DEF InUrl, Escapable
  <2> QED
    BY <2>1, EscapingIs
<1>2. \A x \in InUrl : x # "&" /\ x # "=" /\ x # "?"
  BY Zenon DEF InUrl
<1> QED
  BY <1>1, <1>2

LEMMA ParseSanitized ==
  ASSUME NEW t \in Text
  PROVE  SanitizeUrl(t) \in Text /\ ParseQuery(SanitizeUrl(t)) = ParseQuery(t)
<1> DEFINE h == Escaping(InUrl)
           M == [u \in Text |-> Mapped(u, h)]
           s == Pieces(t, "&")
<1>1. InUrl \subseteq Escapable
  BY DEF InUrl, Escapable
<1>2. SanitizeUrl(t) = Mapped(t, h) /\ SanitizeUrl(t) \in Text
  BY <1>1, EscapedIs DEF SanitizeUrl
<1>3. Pieces(Mapped(t, h), "&") = Mapped(s, M)
  <2>1. \A x \in Char : h[x] = "&" <=> x = "&"
    BY UrlEscaping
  <2> HIDE DEF h
  <2> QED
    BY <2>1, PiecesMapped DEF Text
<1>4. s \in Seq(Text) /\ ParseQuery(t) = Mapped(s, Parsing)
  BY ParseIs
<1>5. ASSUME NEW p \in Text PROVE Parsing[M[p]] = Parsing[p]
  <2>1. M[p] = Mapped(p, h) /\ Mapped(p, h) \in Text
    BY <1>1, EscapedIs
  <2>2. CutAt(Mapped(p, h), "=") = <<Mapped(CutAt(p, "=")[1], h), Mapped(CutAt(p, "=")[2], h)>>
    <3>1. \A x \in Char : h[x] = "=" <=> x = "="
      BY UrlEscaping
    <3> HIDE DEF h
    <3> QED
      BY <3>1, CutMapped, AmpersandAndEquals DEF Text
  <2>3. CutAt(p, "=")[1] \in Text /\ CutAt(p, "=")[2] \in Text
    <3>1. CutAt(p, "=")[1] \in Seq(Char \ {"="}) /\ CutAt(p, "=")[2] \in Seq(Char)
      BY CutIn, AmpersandAndEquals DEF Text
    <3> QED
      BY <3>1 DEF Text
  <2>4. \A u \in Text : Unescaped(Mapped(u, h)) = Unescaped(u)
    BY UnescapedUrl
  <2>5. ParsePiece(Mapped(p, h)) = <<Unescaped(Mapped(CutAt(p, "=")[1], h)), Unescaped(Mapped(CutAt(p, "=")[2], h))>>
    <3> HIDE DEF h
    <3> QED
      BY <2>2, ParsePieceIs
  <2>6. ParsePiece(Mapped(p, h)) = ParsePiece(p)
    BY <2>3, <2>4, <2>5, ParsePieceIs
  <2> QED
    BY <2>1, <2>6 DEF Parsing
<1>6. ParseQuery(Mapped(t, h)) = Mapped(Mapped(s, M), Parsing)
  BY <1>2, <1>3, ParseIs
<1> HIDE DEF M, s
<1>7. Mapped(Mapped(s, M), Parsing) = Mapped(s, Parsing)
  BY <1>4, <1>5, MappedTwice
<1> QED
  BY <1>2, <1>4, <1>6, <1>7

----------------------------------------------------------------------------
(* The query of some parameters.                                           *)
Querying(P, chars, f) ==
  /\ f[0] = <<>>
  /\ \A n \in 1..Len(P) : f[n] = Joined(f[n - 1], Pair(P[n], chars))
  /\ QueryOf(P, chars) = f[Len(P)]

LEMMA JoinedIn ==
  ASSUME NEW B, "&" \in B, NEW q \in Seq(B), NEW x \in Seq(B)
  PROVE  Joined(q, x) \in Seq(B)
<1>1. CASE q = <<>>
  BY <1>1 DEF Joined
<1>2. CASE q # <<>>
  <2>1. q \o <<"&">> \in Seq(B)
    OBVIOUS
  <2> DEFINE w == q \o <<"&">>
  <2> HIDE DEF w
  <2>2. w \o x \in Seq(B)
    BY <2>1 DEF w
  <2> QED
    BY <1>2, <2>2 DEF Joined, w
<1> QED
  BY <1>1, <1>2

LEMMA PairText ==
  ASSUME NEW chars, chars \subseteq Escapable
  PROVE  \A p \in BarePair : Pair(p, chars) \in Text
<1>1. ASSUME NEW p \in BarePair PROVE Pair(p, chars) \in Text
  <2>1. Pair(p, chars) \in Seq(Char \ {"&"})
    BY PairIs
  <2> QED
    BY <2>1 DEF Text
<1> QED
  BY <1>1

LEMMA JoinedText ==
  \A q, x \in Text : Joined(q, x) \in Text
BY JoinedIn, AmpersandAndEquals DEF Text

LEMMA QuerySteps ==
  ASSUME NEW P \in Seq(BarePair), NEW chars, chars \subseteq Escapable
  PROVE  \E f : Querying(P, chars, f)
<1> DEFINE N == Len(P)
           W == [n \in 1..N |-> Pair(P[n], chars)]
           F == [n \in 1..N |-> [v \in Text |-> Joined(v, W[n])]]
           upTo == CHOOSE g : g = [n \in 0..N |->
                     IF n = 0 THEN <<>> ELSE Joined(g[n - 1], Pair(P[n], chars))]
<1>1. N \in Nat /\ <<>> \in Text /\ \A n \in 1..N : P[n] \in BarePair
  BY DEF Text
<1>w. \A n \in 1..N : W[n] = Pair(P[n], chars) /\ W[n] \in Text
  BY <1>1, PairText
<1>3. QueryOf(P, chars) = upTo[N]
  BY DEF QueryOf
<1> HIDE DEF W
<1>2. F \in [1..N -> [Text -> Text]] /\ \A n \in 1..N : \A v \in Text : F[n][v] = Joined(v, W[n])
  BY <1>w, JoinedText
<1> HIDE DEF F
<1>4. PICK f \in [0..N -> Text] : Course(N, <<>>, F, f)
  BY <1>1, <1>2, Iterates
<1>5. f = [n \in 0..N |-> IF n = 0 THEN <<>> ELSE Joined(f[n - 1], Pair(P[n], chars))]
  <2>1. f = [n \in 0..N |-> IF n = 0 THEN <<>> ELSE F[n][f[n - 1]]]
    BY <1>4 DEF Course
  <2>2. ASSUME NEW n \in 0..N
        PROVE  f[n] = IF n = 0 THEN <<>> ELSE Joined(f[n - 1], Pair(P[n], chars))
    <3>1. CASE n = 0
      BY <2>1, <3>1
    <3>2. CASE n # 0
      <4>1. n \in 1..N /\ n - 1 \in 0..N
        BY <1>1, <3>2
      <4>2. f[n - 1] \in Text /\ f[n] = F[n][f[n - 1]]
        BY <2>1, <3>2, <4>1
      <4>3. f[n] = Joined(f[n - 1], W[n])
        BY <1>2, <4>1, <4>2
      <4> QED
        BY <1>w, <3>2, <4>1, <4>3
    <3> QED
      BY <3>1, <3>2
  <2> QED
    BY <2>1, <2>2
<1>6. upTo = [n \in 0..N |-> IF n = 0 THEN <<>> ELSE Joined(upTo[n - 1], Pair(P[n], chars))]
  BY <1>5
<1> HIDE DEF upTo
<1>7. upTo[0] = <<>> /\ \A n \in 1..N : upTo[n] = Joined(upTo[n - 1], Pair(P[n], chars))
  <2>1. 0 \in 0..N /\ \A n \in 1..N : n \in 0..N /\ n # 0
    BY <1>1
  <2> HIDE DEF N
  <2> QED
    BY <1>6, <2>1
<1>8. Querying(P, chars, upTo)
  BY <1>3, <1>7, Zenon DEF Querying
<1> QED
  BY <1>8

LEMMA QueryEmpty ==
  ASSUME NEW chars, chars \subseteq Escapable
  PROVE  QueryOf(<<>>, chars) = <<>>
<1>1. <<>> \in Seq(BarePair) /\ Len(<<>>) = 0
  OBVIOUS
<1>2. PICK f : Querying(<<>>, chars, f)
  BY <1>1, QuerySteps
<1> QED
  BY <1>1, <1>2 DEF Querying

LEMMA QueryAppend ==
  ASSUME NEW P \in Seq(BarePair), NEW p \in BarePair, NEW chars, chars \subseteq Escapable
  PROVE  QueryOf(Append(P, p), chars) = Joined(QueryOf(P, chars), Pair(p, chars))
<1> DEFINE t == Append(P, p)
<1>1. /\ t \in Seq(BarePair) /\ Len(P) \in Nat /\ Len(t) = Len(P) + 1 /\ t[Len(P) + 1] = p
      /\ \A k \in 1..Len(P) : t[k] = P[k]
  OBVIOUS
<1> HIDE DEF t
<1>2. PICK f : Querying(P, chars, f)
  BY QuerySteps
<1>3. PICK g : Querying(t, chars, g)
  BY <1>1, QuerySteps
<1>4. \A n \in 1..Len(P) : f[n - 1] = g[n - 1] => f[n] = g[n]
  BY <1>1, <1>2, <1>3 DEF Querying
<1>5. \A n \in 0..Len(P) : f[n] = g[n]
  <2> DEFINE N == Len(P)
  <2>1. N \in Nat /\ f[0] = g[0] /\ \A n \in 1..N : f[n - 1] = g[n - 1] => f[n] = g[n]
    BY <1>1, <1>2, <1>3, <1>4 DEF Querying
  <2> HIDE DEF N
  <2>2. \A n \in 0..N : f[n] = g[n]
    BY <2>1, SameCourse
  <2> QED
    BY <2>2 DEF N
<1>6. f[Len(P)] = g[Len(P)] /\ Len(P) + 1 \in 1..Len(t) /\ Len(P) + 1 - 1 = Len(P)
  BY <1>1, <1>5
<1>7. g[Len(t)] = Joined(g[Len(P)], Pair(p, chars))
  BY <1>1, <1>3, <1>6 DEF Querying
<1> QED
  BY <1>2, <1>3, <1>6, <1>7 DEF Querying, t

(* The query of a rule, which is closed first, and opened again.           *)
Closing(P, f) ==
  /\ f[0] = <<>>
  /\ \A n \in 1..Len(P) : f[n] = f[n - 1] \o Pair(P[n], InSortedQuery) \o <<"&">>
  /\ Closed(P) = f[Len(P)]

LEMMA ClosingText ==
  \A q, x \in Text : q \o x \o <<"&">> \in Text
<1>1. <<"&">> \in Seq(Char)
  BY AmpersandAndEquals
<1>2. ASSUME NEW q \in Seq(Char), NEW x \in Seq(Char) PROVE q \o x \o <<"&">> \in Seq(Char)
  <2> DEFINE w == q \o x
  <2>1. w \in Seq(Char)
    OBVIOUS
  <2> HIDE DEF w
  <2>2. w \o <<"&">> \in Seq(Char)
    BY <1>1, <2>1
  <2> QED
    BY <2>2 DEF w
<1> QED
  BY <1>2 DEF Text

LEMMA ClosedSteps ==
  ASSUME NEW P \in Seq(BarePair)
  PROVE  \E f : Closing(P, f)
<1> DEFINE N == Len(P)
           W == [n \in 1..N |-> Pair(P[n], InSortedQuery)]
           F == [n \in 1..N |-> [v \in Text |-> v \o W[n] \o <<"&">>]]
           upTo == CHOOSE g : g = [n \in 0..N |->
                     IF n = 0 THEN <<>> ELSE g[n - 1] \o Pair(P[n], InSortedQuery) \o <<"&">>]
<1>1. N \in Nat /\ <<>> \in Text /\ \A n \in 1..N : P[n] \in BarePair
  BY DEF Text
<1>w. \A n \in 1..N : W[n] = Pair(P[n], InSortedQuery) /\ W[n] \in Text
  <2>1. InSortedQuery \subseteq Escapable
    BY DEF InSortedQuery, Escapable
  <2> QED
    BY <1>1, <2>1, PairText
<1>3. Closed(P) = upTo[N]
  BY DEF Closed
<1> HIDE DEF W
<1>2. F \in [1..N -> [Text -> Text]] /\ \A n \in 1..N : \A v \in Text : F[n][v] = v \o W[n] \o <<"&">>
  BY <1>w, ClosingText
<1> HIDE DEF F
<1>4. PICK f \in [0..N -> Text] : Course(N, <<>>, F, f)
  BY <1>1, <1>2, Iterates
<1>5. f = [n \in 0..N |-> IF n = 0 THEN <<>> ELSE f[n - 1] \o Pair(P[n], InSortedQuery) \o <<"&">>]
  <2>1. f = [n \in 0..N |-> IF n = 0 THEN <<>> ELSE F[n][f[n - 1]]]
    BY <1>4 DEF Course
  <2>2. ASSUME NEW n \in 0..N
        PROVE  f[n] = IF n = 0 THEN <<>> ELSE f[n - 1] \o Pair(P[n], InSortedQuery) \o <<"&">>
    <3>1. CASE n = 0
      BY <2>1, <3>1
    <3>2. CASE n # 0
      <4>1. n \in 1..N /\ n - 1 \in 0..N
        BY <1>1, <3>2
      <4>2. f[n - 1] \in Text /\ f[n] = F[n][f[n - 1]]
        BY <2>1, <3>2, <4>1
      <4>3. f[n] = f[n - 1] \o W[n] \o <<"&">>
        BY <1>2, <4>1, <4>2
      <4> QED
        BY <1>w, <3>2, <4>1, <4>3
    <3> QED
      BY <3>1, <3>2
  <2> QED
    BY <2>1, <2>2
<1>6. upTo = [n \in 0..N |-> IF n = 0 THEN <<>> ELSE upTo[n - 1] \o Pair(P[n], InSortedQuery) \o <<"&">>]
  BY <1>5
<1> HIDE DEF upTo
<1>7. upTo[0] = <<>> /\ \A n \in 1..N : upTo[n] = upTo[n - 1] \o Pair(P[n], InSortedQuery) \o <<"&">>
  <2>1. 0 \in 0..N /\ \A n \in 1..N : n \in 0..N /\ n # 0
    BY <1>1
  <2> HIDE DEF N
  <2> QED
    BY <1>6, <2>1
<1>8. Closing(P, upTo)
  BY <1>3, <1>7, Zenon DEF Closing
<1> QED
  BY <1>8

(* Where every parameter is said, it is what a request's is.               *)
LEMMA ClosedIs ==
  ASSUME NEW P \in Seq(BarePair), Unsaid \notin ToSet(P)
  PROVE  Front(Closed(P)) = QueryOf(P, InSortedQuery)
<1> DEFINE N == Len(P)
           Amp == <<"&">>
<1>c. InSortedQuery \subseteq Escapable
  BY DEF InSortedQuery, Escapable
<1>1. PICK f : Querying(P, InSortedQuery, f)
  BY <1>c, QuerySteps
<1>2. PICK g : Closing(P, g)
  BY ClosedSteps
<1>3. N \in Nat /\ Amp \in Seq(Char)
  BY AmpersandAndEquals
<1>4. ASSUME NEW n \in 1..N
      PROVE  Pair(P[n], InSortedQuery) \in Seq(Char) /\ Pair(P[n], InSortedQuery) # <<>>
  <2>1. P[n] \in BarePair /\ P[n] # Unsaid
    BY ToSetIn
  <2> QED
    BY <1>c, <2>1, PairIs, PairText DEF Text
<1> DEFINE Same(n) == /\ f[n] \in Seq(Char)
                      /\ n # 0 => f[n] # <<>>
                      /\ g[n] = IF n = 0 THEN <<>> ELSE f[n] \o Amp
           U == {n \in 0..N : Same(n)}
<1>5. 0 \in U
  <2>1. f[0] = <<>> /\ g[0] = <<>> /\ 0 \in 0..N
    BY <1>1, <1>2, <1>3 DEF Querying, Closing
  <2> HIDE DEF Amp
  <2>2. Same(0)
    BY <2>1
  <2> HIDE DEF Same
  <2> QED
    BY <2>1, <2>2
<1>6. ASSUME NEW n \in 1..N, n - 1 \in U PROVE n \in U
  <2> DEFINE x == Pair(P[n], InSortedQuery)
             before == f[n - 1]
  <2>1. x \in Seq(Char) /\ x # <<>>
    BY <1>4
  <2>2. before \in Seq(Char) /\ (n - 1 # 0 => before # <<>>)
        /\ g[n - 1] = IF n - 1 = 0 THEN <<>> ELSE before \o Amp
    <3>1. Same(n - 1)
      <4> HIDE DEF Same
      <4> QED
        BY <1>6
    <3> HIDE DEF Amp
    <3> QED
      BY <3>1
  <2>3. f[n] = Joined(before, x) /\ g[n] = g[n - 1] \o x \o Amp
    BY <1>1, <1>2 DEF Querying, Closing
  <2>4. n - 1 = 0 => before = <<>>
    BY <1>1 DEF Querying
  <2> HIDE DEF x, before
  <2>5. CASE n - 1 = 0
    <3>1. f[n] = <<>> \o <<>> \o x /\ g[n] = <<>> \o x \o Amp
      BY <2>2, <2>3, <2>4, <2>5 DEF Joined
    <3>2. f[n] = x /\ g[n] = x \o Amp
      BY <2>1, <3>1
    <3> QED
      BY <1>3, <2>1, <2>5, <3>2
  <2>6. CASE n - 1 # 0
    <3>1. f[n] = before \o Amp \o x /\ g[n] = before \o Amp \o x \o Amp
      BY <2>2, <2>3, <2>6 DEF Joined
    <3>2. f[n] \in Seq(Char)
      <4> DEFINE w == before \o Amp
      <4>1. w \in Seq(Char)
        BY <1>3, <2>2
      <4> HIDE DEF w, Amp
      <4>2. f[n] = w \o x
        BY <3>1 DEF w
      <4> QED
        BY <2>1, <4>1, <4>2
    <3>3. f[n] # <<>>
      <4> DEFINE w == before \o Amp
      <4>1. w \in Seq(Char)
        BY <1>3, <2>2
      <4> HIDE DEF w, Amp
      <4>2. f[n] = w \o x /\ Len(w \o x) = Len(w) + Len(x) /\ Len(w) \in Nat /\ Len(x) \in Nat \ {0}
        BY <2>1, <3>1, <4>1 DEF w
      <4> QED
        BY <4>2
    <3>4. g[n] = f[n] \o Amp
      BY <3>1, Zenon
    <3> HIDE DEF Amp
    <3>5. Same(n)
      BY <2>6, <3>2, <3>3, <3>4
    <3> HIDE DEF Same
    <3> QED
      BY <1>3, <3>5
  <2> QED
    BY <2>5, <2>6
<1>7. N \in U
  <2> HIDE DEF U
  <2>1. 0..N \subseteq U
    BY <1>3, <1>5, <1>6, Turns
  <2> QED
    BY <1>3, <2>1
<1>8. Closed(P) = g[N] /\ QueryOf(P, InSortedQuery) = f[N]
  BY <1>1, <1>2 DEF Querying, Closing
<1>9. CASE N = 0
  <2>1. Closed(P) = <<>> /\ QueryOf(P, InSortedQuery) = <<>>
    BY <1>1, <1>2, <1>8, <1>9 DEF Querying, Closing
  <2>2. Front(<<>>) = <<>>
    BY DEF Front
  <2> QED
    BY <2>1, <2>2
<1>10. CASE N # 0
  <2> DEFINE q == f[N]
  <2>1. q \in Seq(Char) /\ Closed(P) = q \o Amp
    <3>1. Same(N)
      <4> HIDE DEF Same
      <4> QED
        BY <1>7
    <3> HIDE DEF Amp
    <3> QED
      BY <1>8, <1>10, <3>1
  <2> HIDE DEF q
  <2>2. Len(q \o Amp) = Len(q) + 1 /\ SubSeq(q \o Amp, 1, Len(q)) = q
    BY <1>3, <2>1
  <2>3. Front(q \o Amp) = q
    BY <2>1, <2>2 DEF Front
  <2> QED
    BY <1>8, <2>1, <2>3 DEF q
<1> QED
  BY <1>9, <1>10

(* Which characters it has: those of the parameters, escaped.              *)
LEMMA QueryIn ==
  ASSUME NEW B, {"&", "="} \subseteq B, NEW chars, chars \subseteq Escapable,
         NEW X, X \subseteq BarePair,
         \A p \in X : Escaped(p[1], chars) \in Seq(B) /\ Escaped(p[2], chars) \in Seq(B)
  PROVE  \A P \in Seq(X) : QueryOf(P, chars) \in Seq(B)
<1> DEFINE Good == {P \in Seq(X) : QueryOf(P, chars) \in Seq(B)}
<1>1. <<>> \in Good
  <2>1. QueryOf(<<>>, chars) = <<>>
    BY QueryEmpty
  <2>2. <<>> \in Seq(X) /\ <<>> \in Seq(B)
    OBVIOUS
  <2>3. QueryOf(<<>>, chars) \in Seq(B)
    BY <2>1, <2>2, Zenon
  <2> QED
    BY <2>2, <2>3, Zenon
<1>2. ASSUME NEW P \in Seq(X), NEW p \in X, P \in Good PROVE Append(P, p) \in Good
  <2> DEFINE k == Escaped(p[1], chars)
             v == Escaped(p[2], chars)
  <2>1. k \in Seq(B) /\ v \in Seq(B)
    OBVIOUS
  <2> HIDE DEF k, v
  <2>2. Pair(p, chars) = k \o (IF p[2] = <<>> THEN <<>> ELSE <<"=">> \o v)
    BY DEF Pair, k, v
  <2>3. Pair(p, chars) \in Seq(B)
    <3>1. CASE p[2] = <<>>
      <4>1. Pair(p, chars) = k
        BY <2>1, <2>2, <3>1
      <4> QED
        BY <2>1, <4>1
    <3>2. CASE p[2] # <<>>
      <4>1. Pair(p, chars) = k \o (<<"=">> \o v)
        BY <2>2, <3>2
      <4>2. <<"=">> \o v \in Seq(B)
        BY <2>1
      <4> DEFINE w == <<"=">> \o v
      <4> HIDE DEF w
      <4>3. k \o w \in Seq(B)
        BY <2>1, <4>2 DEF w
      <4> QED
        BY <4>1, <4>3 DEF w
    <3> QED
      BY <3>1, <3>2
  <2>4. QueryOf(P, chars) \in Seq(B) /\ P \in Seq(BarePair) /\ p \in BarePair /\ Append(P, p) \in Seq(X)
    BY <1>2
  <2>5. QueryOf(Append(P, p), chars) = Joined(QueryOf(P, chars), Pair(p, chars))
    BY <2>4, QueryAppend
  <2>6. Joined(QueryOf(P, chars), Pair(p, chars)) \in Seq(B)
    BY <2>3, <2>4, JoinedIn
  <2> QED
    BY <2>4, <2>5, <2>6
<1> HIDE DEF Good
<1>3. \A P \in Seq(X) : P \in Good
  BY <1>1, <1>2, ByAppending
<1> QED
  BY <1>3 DEF Good

(* What is read from it: the parameters, but for the one that is unsaid.   *)
Spoken == BarePair \ {Unsaid}

LEMMA RoundTrip ==
  \A P \in Seq(BarePair) : ParseQuery(QueryOf(P, InQuery)) = Among(P, Spoken)
<1> DEFINE Good == {P \in Seq(BarePair) : ParseQuery(QueryOf(P, InQuery)) = Among(P, Spoken)}
<1>0. InQuery \subseteq Escapable
  BY DEF InQuery, Escapable
<1>t. \A P \in Seq(BarePair) : QueryOf(P, InQuery) \in Text
  <2>1. {"&", "="} \subseteq Char
    BY AmpersandAndEquals
  <2>2. \A p \in BarePair : Escaped(p[1], InQuery) \in Seq(Char) /\ Escaped(p[2], InQuery) \in Seq(Char)
    <3>1. \A p \in BarePair : p[1] \in Text /\ p[2] \in Text
      BY DEF BarePair, Bare, BareKey, Text
    <3>2. \A t \in Text : Escaped(t, InQuery) \in Text
      BY <1>0, EscapedIs
    <3> QED
      BY <3>1, <3>2 DEF Text
  <2> QED
    BY <1>0, <2>1, <2>2, QueryIn DEF Text
<1>1. <<>> \in Good
  <2>1. QueryOf(<<>>, InQuery) = <<>> /\ Among(<<>>, Spoken) = <<>> /\ ParseQuery(<<>>) = <<>>
    BY <1>0, QueryEmpty, AmongEmpty, ParseEmpty
  <2> QED
    BY <2>1
<1>2. ASSUME NEW P \in Seq(BarePair), NEW p \in BarePair, P \in Good PROVE Append(P, p) \in Good
  <2> DEFINE q == QueryOf(P, InQuery)
             x == Pair(p, InQuery)
  <2>1. q \in Text /\ x \in Seq(Char \ {"&"}) /\ (x = <<>> <=> p = Unsaid) /\ x \in Text
    <3>1. x \in Seq(Char \ {"&"}) /\ (x = <<>> <=> p = Unsaid)
      BY <1>0, PairIs
    <3> QED
      BY <1>t, <3>1 DEF Text
  <2>2. QueryOf(Append(P, p), InQuery) = Joined(q, x)
    BY <1>0, QueryAppend
  <2>3. Parsing[x] = p
    BY PairParsed
  <2>4. ParseQuery(q) = Among(P, Spoken)
    BY <1>2
  <2> HIDE DEF q, x
  <2>5. Pieces(Joined(q, x), "&") = IF x = <<>> THEN Pieces(q, "&") ELSE Append(Pieces(q, "&"), x)
    BY <2>1, PiecesJoined, AmpersandAndEquals DEF Text
  <2>6. Joined(q, x) \in Text
    BY <2>1, JoinedText
  <2>7. ParseQuery(Joined(q, x)) = Mapped(Pieces(Joined(q, x), "&"), Parsing)
    BY <2>6, ParseIs
  <2>8. Pieces(q, "&") \in Seq(Text) /\ ParseQuery(q) = Mapped(Pieces(q, "&"), Parsing)
    BY <2>1, ParseIs
  <2>9. Among(Append(P, p), Spoken) = IF p \in Spoken THEN Append(Among(P, Spoken), p) ELSE Among(P, Spoken)
    BY AmongAppend
  <2>10. p \in Spoken <=> x # <<>>
    BY <2>1 DEF Spoken
  <2>11. ParseQuery(Joined(q, x)) = Among(Append(P, p), Spoken)
    <3>1. CASE x = <<>>
      BY <2>4, <2>5, <2>7, <2>8, <2>9, <2>10, <3>1
    <3>2. CASE x # <<>>
      <4>1. Mapped(Append(Pieces(q, "&"), x), Parsing) = Append(Mapped(Pieces(q, "&"), Parsing), Parsing[x])
        BY <2>1, <2>8, MappedAppend
      <4> QED
        BY <2>3, <2>4, <2>5, <2>7, <2>8, <2>9, <2>10, <3>2, <4>1
    <3> QED
      BY <3>1, <3>2
  <2> QED
    BY <2>2, <2>11
<1> HIDE DEF Good
<1>3. \A P \in Seq(BarePair) : P \in Good
  BY <1>1, <1>2, ByAppending
<1> QED
  BY <1>3 DEF Good

(* The unsaid one leaves no trace where it is the first.                   *)
LEMMA QuerySpoken ==
  \A P \in Seq(BarePair) :
    (\A n \in 2..Len(P) : P[n] # Unsaid) => QueryOf(P, InQuery) = QueryOf(Among(P, Spoken), InQuery)
<1> DEFINE First(P) == \A n \in 2..Len(P) : P[n] # Unsaid
           Good == {P \in Seq(BarePair) :
                      First(P) => QueryOf(P, InQuery) = QueryOf(Among(P, Spoken), InQuery)}
<1>0. InQuery \subseteq Escapable
  BY DEF InQuery, Escapable
<1>1. <<>> \in Good
  <2>1. Among(<<>>, Spoken) = <<>>
    BY AmongEmpty
  <2> QED
    BY <2>1
<1>2. ASSUME NEW P \in Seq(BarePair), NEW p \in BarePair, P \in Good PROVE Append(P, p) \in Good
  <2>1. ASSUME First(Append(P, p))
        PROVE  QueryOf(Append(P, p), InQuery) = QueryOf(Among(Append(P, p), Spoken), InQuery)
    <3>1. First(P)
      <4>1. Len(Append(P, p)) = Len(P) + 1 /\ Len(P) \in Nat /\ \A n \in 1..Len(P) : Append(P, p)[n] = P[n]
        OBVIOUS
      <4>2. \A n \in 2..Len(P) : n \in 2..Len(Append(P, p)) /\ n \in 1..Len(P)
        BY <4>1
      <4> QED
        BY <2>1, <4>1, <4>2
    <3>2. QueryOf(P, InQuery) = QueryOf(Among(P, Spoken), InQuery)
      BY <1>2, <3>1
    <3>3. Among(P, Spoken) \in Seq(BarePair)
      BY AmongIn
    <3>4. Among(Append(P, p), Spoken) = IF p \in Spoken THEN Append(Among(P, Spoken), p) ELSE Among(P, Spoken)
      BY AmongAppend
    <3>5. QueryOf(Append(P, p), InQuery) = Joined(QueryOf(P, InQuery), Pair(p, InQuery))
      BY <1>0, QueryAppend
    <3>6. CASE p \in Spoken
      <4>1. QueryOf(Append(Among(P, Spoken), p), InQuery) = Joined(QueryOf(Among(P, Spoken), InQuery), Pair(p, InQuery))
        BY <1>0, <3>3, QueryAppend
      <4> QED
        BY <3>2, <3>4, <3>5, <3>6, <4>1
    <3>7. CASE p \notin Spoken
      <4>1. p = Unsaid
        BY <3>7 DEF Spoken
      <4>2. P = <<>>
        <5>1. Len(Append(P, p)) = Len(P) + 1 /\ Len(P) \in Nat /\ Append(P, p)[Len(P) + 1] = p
          OBVIOUS
        <5>2. ~ Len(P) + 1 \in 2..Len(Append(P, p))
          BY <2>1, <4>1, <5>1
        <5> QED
          BY <5>1, <5>2
      <4>3. Pair(p, InQuery) = <<>>
        BY <1>0, <4>1, PairIs
      <4>4. QueryOf(<<>>, InQuery) = <<>> /\ Among(<<>>, Spoken) = <<>>
        BY <1>0, QueryEmpty, AmongEmpty
      <4>5. Joined(<<>>, <<>>) = <<>>
        BY DEF Joined
      <4> QED
        BY <3>4, <3>5, <3>7, <4>2, <4>3, <4>4, <4>5
    <3> QED
      BY <3>6, <3>7
  <2>2. Append(P, p) \in Seq(BarePair)
    OBVIOUS
  <2> QED
    BY <2>1, <2>2
<1>3. \A P \in Seq(BarePair) : P \in Good
  <2> HIDE DEF Good
  <2> QED
    BY <1>1, <1>2, ByAppending
<1> QED
  BY <1>3

(* Rules escape their query a second time: the plus signs of it.           *)
LEMMA JoinedMapped ==
  ASSUME NEW h, h["&"] = "&", NEW q \in Text, NEW x \in Text
  PROVE  Mapped(Joined(q, x), h) = Joined(Mapped(q, h), Mapped(x, h))
<1> DEFINE D == {h[y] : y \in Char}
<1>a. \A y \in Char : h[y] \in D
  OBVIOUS
<1> HIDE DEF D
<1>1. Len(Mapped(q, h)) = Len(q) /\ Mapped(q, h) \in Seq(D)
  BY <1>a, MappedIs DEF Text
<1>2. Mapped(x, h) \in Seq(D)
  BY <1>a, MappedIs DEF Text
<1>3. Mapped(q, h) = <<>> <=> q = <<>>
  BY <1>1 DEF Text
<1>4. CASE q = <<>>
  <2>1. Joined(q, x) = x /\ Joined(Mapped(q, h), Mapped(x, h)) = Mapped(x, h)
    <3>1. \A E : \A y \in Seq(E) : Joined(<<>>, y) = y
      BY DEF Joined
    <3> QED
      BY <1>2, <1>3, <1>4, <3>1 DEF Text
  <2> QED
    BY <2>1
<1>5. CASE q # <<>>
  <2>1. Joined(q, x) = (q \o <<"&">>) \o x /\ Joined(Mapped(q, h), Mapped(x, h)) = (Mapped(q, h) \o <<"&">>) \o Mapped(x, h)
    BY <1>3, <1>5 DEF Joined
  <2>2. <<"&">> \in Text /\ q \o <<"&">> \in Text
    BY AmpersandAndEquals DEF Text
  <2>3. \A a, b \in Text : Mapped(a \o b, h) = Mapped(a, h) \o Mapped(b, h)
    BY MappedConcats, Zenon DEF Text
  <2>4. Mapped(<<"&">>, h) = <<"&">>
    <3>1. DOMAIN <<"&">> = {1} /\ <<"&">>[1] = "&"
      OBVIOUS
    <3>2. Mapped(<<"&">>, h) = [n \in {1} |-> "&"]
      BY <3>1 DEF Mapped
    <3> QED
      BY <3>2
  <2>5. Mapped((q \o <<"&">>) \o x, h) = (Mapped(q, h) \o Mapped(<<"&">>, h)) \o Mapped(x, h)
    BY <2>2, <2>3
  <2> QED
    BY <2>1, <2>4, <2>5
<1> QED
  BY <1>4, <1>5

LEMMA EscapingTwice ==
  /\ \A x \in Char : Escaping(InQuery)[Escaping(InSortedQuery)[x]] = Escaping(InQuery)[x]
  /\ Escaping(InQuery)["&"] = "&" /\ Escaping(InQuery)["="] = "="
<1>1. /\ \A x \in Char : Escaping(InQuery)[x] = IF x \in {" ", "+"} THEN EscapeOf[x] ELSE x
      /\ \A x \in Char : Escaping(InSortedQuery)[x] = IF x = " " THEN EscapeOf[x] ELSE x
  BY DEF Escaping, InQuery, InSortedQuery
<1>2. {"&", "=", "%20"} \subseteq Char
  BY SeparatorsAssumption DEF Separators
<1>3. EscapeOf[" "] = "%20" /\ EscapeOf["+"] = "%2B"
  BY EscapeIs
<1>4. \A x \in Char : x \notin {" ", "+"} => Escaping(InQuery)[x] = x /\ Escaping(InSortedQuery)[x] = x
  BY <1>1
<1>5. Escaping(InQuery)["%20"] = "%20" /\ "%20" \notin {" ", "+"}
  BY <1>2, <1>4
<1>6. ASSUME NEW x \in Char
      PROVE  Escaping(InQuery)[Escaping(InSortedQuery)[x]] = Escaping(InQuery)[x]
  <2>1. CASE x = " "
    BY <1>1, <1>3, <1>5, <2>1
  <2>2. CASE x # " "
    BY <1>1, <2>2
  <2> QED
    BY <2>1, <2>2
<1> QED
  BY <1>2, <1>4, <1>6

LEMMA PairEscaped ==
  ASSUME NEW p \in BarePair
  PROVE  Mapped(Pair(p, InSortedQuery), Escaping(InQuery)) = Pair(p, InQuery)
<1> DEFINE k(chars) == Escaped(p[1], chars)
           v(chars) == Escaped(p[2], chars)
           h == Escaping(InQuery)
<1>0. InQuery \subseteq Escapable /\ InSortedQuery \subseteq Escapable
  BY DEF InQuery, InSortedQuery, Escapable
<1>1. p[1] \in Text /\ p[2] \in Text
  BY DEF BarePair, Bare, BareKey, Text
<1>2. \A t \in Text : Mapped(Escaped(t, InSortedQuery), h) = Escaped(t, InQuery) /\ Escaped(t, InSortedQuery) \in Text
  <2>1. ASSUME NEW t \in Text PROVE Mapped(Escaped(t, InSortedQuery), h) = Escaped(t, InQuery) /\ Escaped(t, InSortedQuery) \in Text
    <3>1. /\ Escaped(t, InSortedQuery) = Mapped(t, Escaping(InSortedQuery))
          /\ Escaped(t, InSortedQuery) \in Text /\ Escaped(t, InQuery) = Mapped(t, h)
      BY <1>0, EscapedIs
    <3>2. \A x \in Char : h[Escaping(InSortedQuery)[x]] = h[x]
      BY EscapingTwice
    <3> HIDE DEF h
    <3>3. Mapped(Mapped(t, Escaping(InSortedQuery)), h) = Mapped(t, h)
      BY <3>2, MappedTwice DEF Text
    <3> QED
      BY <3>1, <3>3 DEF h
  <2> QED
    BY <2>1
<1>3. h["="] = "="
  BY EscapingTwice
<1>4. /\ k(InSortedQuery) \in Text /\ v(InSortedQuery) \in Text
      /\ Mapped(k(InSortedQuery), h) = k(InQuery) /\ Mapped(v(InSortedQuery), h) = v(InQuery)
  BY <1>1, <1>2
<1>5. \A chars : Pair(p, chars) = k(chars) \o (IF p[2] = <<>> THEN <<>> ELSE <<"=">> \o v(chars))
  BY DEF Pair
<1>c. \A a, b \in Text : Mapped(a \o b, h) = Mapped(a, h) \o Mapped(b, h)
  BY MappedConcat DEF Text
<1> HIDE DEF k, v, h
<1>6. CASE p[2] = <<>>
  <2>1. Pair(p, InSortedQuery) = k(InSortedQuery) \o <<>> /\ Pair(p, InQuery) = k(InQuery) \o <<>>
    BY <1>5, <1>6
  <2>2. k(InQuery) \in Text
    BY <1>1, <1>0, EscapedIs DEF k
  <2>3. Pair(p, InSortedQuery) = k(InSortedQuery) /\ Pair(p, InQuery) = k(InQuery)
    BY <1>4, <2>1, <2>2 DEF Text
  <2> QED
    BY <1>4, <2>3 DEF h
<1>7. CASE p[2] # <<>>
  <2>1. /\ Pair(p, InSortedQuery) = k(InSortedQuery) \o (<<"=">> \o v(InSortedQuery))
        /\ Pair(p, InQuery) = k(InQuery) \o (<<"=">> \o v(InQuery))
    BY <1>5, <1>7
  <2>2. <<"=">> \in Text
    BY AmpersandAndEquals DEF Text
  <2>3. <<"=">> \o v(InSortedQuery) \in Text
    BY <1>4, <2>2 DEF Text
  <2>4. Mapped(<<"=">>, h) = <<"=">>
    <3>1. DOMAIN <<"=">> = {1} /\ <<"=">>[1] = "="
      OBVIOUS
    <3>2. Mapped(<<"=">>, h) = [n \in {1} |-> "="]
      BY <1>3, <3>1 DEF Mapped
    <3> QED
      BY <3>2
  <2>5. Mapped(k(InSortedQuery) \o (<<"=">> \o v(InSortedQuery)), h)
          = Mapped(k(InSortedQuery), h) \o (Mapped(<<"=">>, h) \o Mapped(v(InSortedQuery), h))
    BY <1>4, <1>c, <2>2, <2>3
  <2> QED
    BY <1>4, <2>1, <2>4, <2>5 DEF h
<1> QED
  BY <1>6, <1>7

LEMMA QueryEscaped ==
  \A P \in Seq(BarePair) :
    /\ QueryOf(P, InSortedQuery) \in Text
    /\ Escaped(QueryOf(P, InSortedQuery), InQuery) = QueryOf(P, InQuery)
<1> DEFINE h == Escaping(InQuery)
           Good == {P \in Seq(BarePair) : /\ QueryOf(P, InSortedQuery) \in Text
                                          /\ Mapped(QueryOf(P, InSortedQuery), h) = QueryOf(P, InQuery)}
<1>0. InQuery \subseteq Escapable /\ InSortedQuery \subseteq Escapable
  BY DEF InQuery, InSortedQuery, Escapable
<1>1. <<>> \in Good
  <2>1. QueryOf(<<>>, InQuery) = <<>> /\ QueryOf(<<>>, InSortedQuery) = <<>>
    BY <1>0, QueryEmpty
  <2>2. Mapped(<<>>, h) = <<>> /\ <<>> \in Text
    BY MappedEmpty DEF Text
  <2> HIDE DEF h
  <2> QED
    BY <2>1, <2>2
<1>2. ASSUME NEW P \in Seq(BarePair), NEW p \in BarePair, P \in Good PROVE Append(P, p) \in Good
  <2>1. /\ QueryOf(Append(P, p), InQuery) = Joined(QueryOf(P, InQuery), Pair(p, InQuery))
        /\ QueryOf(Append(P, p), InSortedQuery) = Joined(QueryOf(P, InSortedQuery), Pair(p, InSortedQuery))
    BY <1>0, QueryAppend
  <2>2. QueryOf(P, InSortedQuery) \in Text /\ Mapped(QueryOf(P, InSortedQuery), h) = QueryOf(P, InQuery)
    BY <1>2
  <2>3. Pair(p, InSortedQuery) \in Text /\ Mapped(Pair(p, InSortedQuery), h) = Pair(p, InQuery)
    BY <1>0, PairText, PairEscaped
  <2>4. h["&"] = "&"
    BY EscapingTwice
  <2> HIDE DEF h
  <2>5. Mapped(Joined(QueryOf(P, InSortedQuery), Pair(p, InSortedQuery)), h)
          = Joined(Mapped(QueryOf(P, InSortedQuery), h), Mapped(Pair(p, InSortedQuery), h))
    BY <2>2, <2>3, <2>4, JoinedMapped
  <2>6. Joined(QueryOf(P, InSortedQuery), Pair(p, InSortedQuery)) \in Text
    BY <2>2, <2>3, JoinedText
  <2>7. Append(P, p) \in Seq(BarePair)
    OBVIOUS
  <2> QED
    BY <2>1, <2>2, <2>3, <2>5, <2>6, <2>7
<1> HIDE DEF Good
<1>3. \A P \in Seq(BarePair) : P \in Good
  BY <1>1, <1>2, ByAppending
<1>4. \A t \in Text : Escaped(t, InQuery) = Mapped(t, h)
  BY <1>0, EscapedIs
<1> QED
  BY <1>3, <1>4 DEF Good

----------------------------------------------------------------------------
(* Parameters by their keys.                                               *)
Pairs == Text \X Text

(* No two elements of one key; and none but the first is e.                *)
Apart(s, key) == \A m, n \in DOMAIN s : key[s[m]] = key[s[n]] => m = n
OnlyFirst(s, e) == \A n \in 2..Len(s) : s[n] # e

KeyOf == [p \in Pairs |-> p[1]]
Itself == [t \in Text |-> t]

Collecting(P, f) ==
  /\ f[0] = <<>>
  /\ \A n \in 1..Len(P) : f[n] = Collect(f[n - 1], P[n])
  /\ Collected(P) = f[Len(P)]

LEMMA CollectIn ==
  ASSUME NEW X, NEW s \in Seq(X), NEW p \in X
  PROVE  /\ Collect(s, p) \in Seq(X)
         /\ ToSet(Collect(s, p)) = {o \in ToSet(s) : o[1] # p[1]} \cup {p}
<1> DEFINE R == {o \in ToSet(s) : o[1] # p[1]}
           t == Among(s, R)
<1>1. t \in Seq(X) /\ ToSet(t) = ToSet(s) \cap R
  BY AmongIn
<1>2. ToSet(s) \cap R = R
  OBVIOUS
<1> HIDE DEF R
<1>3. Collect(s, p) = Append(t, p)
  BY DEF Collect, R
<1> HIDE DEF t
<1>4. Append(t, p) \in Seq(X) /\ ToSet(Append(t, p)) = ToSet(t) \cup {p}
  BY <1>1, ToSetAppend
<1> QED
  BY <1>1, <1>2, <1>3, <1>4 DEF R

LEMMA CollectSteps ==
  ASSUME NEW X, NEW P \in Seq(X)
  PROVE  \E f : Collecting(P, f)
<1> DEFINE N == Len(P)
           F == [n \in 1..N |-> [v \in Seq(X) |-> Collect(v, P[n])]]
           upTo == CHOOSE g : g = [n \in 0..N |-> IF n = 0 THEN <<>> ELSE Collect(g[n - 1], P[n])]
<1>1. N \in Nat /\ <<>> \in Seq(X) /\ \A n \in 1..N : P[n] \in X
  OBVIOUS
<1>3. Collected(P) = upTo[N]
  BY DEF Collected
<1>2. F \in [1..N -> [Seq(X) -> Seq(X)]] /\ \A n \in 1..N : \A v \in Seq(X) : F[n][v] = Collect(v, P[n])
  BY <1>1, CollectIn
<1> HIDE DEF F
<1>4. PICK f \in [0..N -> Seq(X)] : Course(N, <<>>, F, f)
  BY <1>1, <1>2, Iterates
<1>5. f = [n \in 0..N |-> IF n = 0 THEN <<>> ELSE Collect(f[n - 1], P[n])]
  <2>1. f = [n \in 0..N |-> IF n = 0 THEN <<>> ELSE F[n][f[n - 1]]]
    BY <1>4 DEF Course
  <2>2. ASSUME NEW n \in 0..N
        PROVE  f[n] = IF n = 0 THEN <<>> ELSE Collect(f[n - 1], P[n])
    <3>1. CASE n = 0
      BY <2>1, <3>1
    <3>2. CASE n # 0
      <4>1. n \in 1..N /\ n - 1 \in 0..N
        BY <1>1, <3>2
      <4>2. f[n - 1] \in Seq(X) /\ f[n] = F[n][f[n - 1]]
        BY <2>1, <3>2, <4>1
      <4> QED
        BY <1>2, <3>2, <4>1, <4>2
    <3> QED
      BY <3>1, <3>2
  <2> QED
    BY <2>1, <2>2
<1>6. upTo = [n \in 0..N |-> IF n = 0 THEN <<>> ELSE Collect(upTo[n - 1], P[n])]
  BY <1>5
<1> HIDE DEF upTo
<1>7. upTo[0] = <<>> /\ \A n \in 1..N : upTo[n] = Collect(upTo[n - 1], P[n])
  <2>1. 0 \in 0..N /\ \A n \in 1..N : n \in 0..N /\ n # 0
    BY <1>1
  <2> HIDE DEF N
  <2> QED
    BY <1>6, <2>1
<1>8. Collecting(P, upTo)
  BY <1>3, <1>7, Zenon DEF Collecting
<1> QED
  BY <1>8

LEMMA CollectedEmpty == Collected(<<>>) = <<>>
<1>1. <<>> \in Seq({}) /\ Len(<<>>) = 0
  OBVIOUS
<1>2. PICK f : Collecting(<<>>, f)
  BY <1>1, CollectSteps
<1> QED
  BY <1>1, <1>2 DEF Collecting

LEMMA CollectedAppend ==
  ASSUME NEW X, NEW P \in Seq(X), NEW p \in X
  PROVE  Collected(Append(P, p)) = Collect(Collected(P), p)
<1> DEFINE t == Append(P, p)
<1>1. /\ t \in Seq(X) /\ Len(P) \in Nat /\ Len(t) = Len(P) + 1 /\ t[Len(P) + 1] = p
      /\ \A k \in 1..Len(P) : t[k] = P[k]
  OBVIOUS
<1> HIDE DEF t
<1>2. PICK f : Collecting(P, f)
  BY CollectSteps
<1>3. PICK g : Collecting(t, g)
  BY <1>1, CollectSteps
<1>4. \A n \in 1..Len(P) : f[n - 1] = g[n - 1] => f[n] = g[n]
  BY <1>1, <1>2, <1>3 DEF Collecting
<1>5. \A n \in 0..Len(P) : f[n] = g[n]
  <2>1. Len(P) \in Nat /\ f[0] = g[0]
    BY <1>1, <1>2, <1>3 DEF Collecting
  <2> QED
    BY <1>4, <2>1, SameCourse
<1>6. f[Len(P)] = g[Len(P)] /\ Len(P) + 1 \in 1..Len(t) /\ Len(P) + 1 - 1 = Len(P)
  BY <1>1, <1>5
<1>7. g[Len(t)] = Collect(g[Len(P)], p)
  BY <1>1, <1>3, <1>6 DEF Collecting
<1> QED
  BY <1>2, <1>3, <1>6, <1>7 DEF Collecting, t

LEMMA ApartAppend ==
  ASSUME NEW X, NEW s \in Seq(X), NEW x \in X, NEW key
  PROVE  Apart(Append(s, x), key) <=> Apart(s, key) /\ \A o \in ToSet(s) : key[o] # key[x]
<1> DEFINE t == Append(s, x)
<1>1. /\ t \in Seq(X) /\ Len(t) = Len(s) + 1 /\ t[Len(s) + 1] = x /\ Len(s) \in Nat
      /\ \A k \in 1..Len(s) : t[k] = s[k]
      /\ DOMAIN t = 1..(Len(s) + 1) /\ DOMAIN s = 1..Len(s)
  OBVIOUS
<1>2. ToSet(s) = {s[k] : k \in 1..Len(s)}
  BY ToSetIn
<1> HIDE DEF t
<1>3. ASSUME Apart(t, key) PROVE Apart(s, key) /\ \A o \in ToSet(s) : key[o] # key[x]
  <2>1. \A m, n \in 1..(Len(s) + 1) : key[t[m]] = key[t[n]] => m = n
    BY <1>1, <1>3 DEF Apart
  <2>2. \A m \in 1..Len(s) : m \in 1..(Len(s) + 1) /\ m # Len(s) + 1 /\ Len(s) + 1 \in 1..(Len(s) + 1)
    BY <1>1
  <2>3. \A m \in 1..Len(s) : key[s[m]] # key[x]
    BY <1>1, <2>1, <2>2
  <2>4. Apart(s, key)
    BY <1>1, <2>1, <2>2 DEF Apart
  <2> QED
    BY <1>2, <2>3, <2>4
<1>4. ASSUME Apart(s, key), \A o \in ToSet(s) : key[o] # key[x] PROVE Apart(t, key)
  <2>1. \A m, n \in 1..Len(s) : key[t[m]] = key[t[n]] => m = n
    BY <1>1, <1>4 DEF Apart
  <2>2. \A m \in 1..Len(s) : key[t[m]] # key[x]
    BY <1>1, <1>2, <1>4
  <2>3. \A m, n \in 1..(Len(s) + 1) : key[t[m]] = key[t[n]] => m = n
    <3>1. \A m \in 1..(Len(s) + 1) : m \in 1..Len(s) \/ m = Len(s) + 1
      BY <1>1
    <3> QED
      BY <1>1, <2>1, <2>2, <3>1
  <2> QED
    BY <1>1, <2>3 DEF Apart
<1> QED
  BY <1>3, <1>4 DEF t

LEMMA ApartEmpty ==
  ASSUME NEW key
  PROVE  Apart(<<>>, key)
BY DEF Apart

LEMMA AmongApart ==
  ASSUME NEW X, NEW S, NEW key
  PROVE  \A s \in Seq(X) : Apart(s, key) => Apart(Among(s, S), key)
<1> DEFINE Good == {s \in Seq(X) : Apart(s, key) => Apart(Among(s, S), key)}
<1>1. <<>> \in Good
  <2>1. Among(<<>>, S) = <<>> /\ Apart(<<>>, key) /\ <<>> \in Seq(X)
    BY AmongEmpty, ApartEmpty
  <2> QED
    BY <2>1
<1>2. ASSUME NEW s \in Seq(X), NEW x \in X, s \in Good PROVE Append(s, x) \in Good
  <2>1. ASSUME Apart(Append(s, x), key) PROVE Apart(Among(Append(s, x), S), key)
    <3>1. Apart(s, key) /\ \A o \in ToSet(s) : key[o] # key[x]
      BY <2>1, ApartAppend
    <3>2. Among(s, S) \in Seq(X) /\ ToSet(Among(s, S)) = ToSet(s) \cap S /\ Apart(Among(s, S), key)
      BY <1>2, <3>1, AmongIn
    <3>3. Apart(Append(Among(s, S), x), key)
      BY <3>1, <3>2, ApartAppend
    <3> QED
      BY <3>2, <3>3, AmongAppend
  <2>2. Append(s, x) \in Seq(X)
    OBVIOUS
  <2> QED
    BY <2>1, <2>2
<1> HIDE DEF Good
<1>3. \A s \in Seq(X) : s \in Good
  BY <1>1, <1>2, ByAppending
<1> QED
  BY <1>3 DEF Good

LEMMA AmongFirst ==
  ASSUME NEW X, NEW S, NEW e
  PROVE  \A s \in Seq(X) : OnlyFirst(s, e) => OnlyFirst(Among(s, S), e)
<1> DEFINE Good == {s \in Seq(X) : OnlyFirst(s, e) => OnlyFirst(Among(s, S), e)}
<1>0. ASSUME NEW s \in Seq(X), NEW x \in X
      PROVE  OnlyFirst(Append(s, x), e) <=> OnlyFirst(s, e) /\ (x = e => s = <<>>)
  <2>1. /\ Len(Append(s, x)) = Len(s) + 1 /\ Append(s, x)[Len(s) + 1] = x /\ Len(s) \in Nat
        /\ \A k \in 1..Len(s) : Append(s, x)[k] = s[k]
        /\ s = <<>> <=> Len(s) = 0
    OBVIOUS
  <2>2. \A n \in 2..(Len(s) + 1) : n \in 2..Len(s) \/ n = Len(s) + 1
    BY <2>1
  <2>3. \A n \in 2..Len(s) : n \in 2..(Len(s) + 1) /\ n \in 1..Len(s)
    BY <2>1
  <2>4. Len(s) + 1 \in 2..(Len(s) + 1) <=> Len(s) # 0
    BY <2>1
  <2> QED
    BY <2>1, <2>2, <2>3, <2>4 DEF OnlyFirst
<1>1. <<>> \in Good
  <2>1. Among(<<>>, S) = <<>>
    BY AmongEmpty
  <2> QED
    BY <2>1
<1>2. ASSUME NEW s \in Seq(X), NEW x \in X, s \in Good PROVE Append(s, x) \in Good
  <2>1. ASSUME OnlyFirst(Append(s, x), e) PROVE OnlyFirst(Among(Append(s, x), S), e)
    <3>1. OnlyFirst(s, e) /\ (x = e => s = <<>>)
      BY <1>0, <2>1
    <3>2. Among(s, S) \in Seq(X) /\ OnlyFirst(Among(s, S), e)
      BY <1>2, <3>1, AmongIn
    <3>3. x = e => Among(s, S) = <<>>
      BY <3>1, AmongEmpty
    <3>4. OnlyFirst(Append(Among(s, S), x), e)
      BY <1>0, <3>2, <3>3
    <3> QED
      BY <3>2, <3>4, AmongAppend
  <2>2. Append(s, x) \in Seq(X)
    OBVIOUS
  <2> QED
    BY <2>1, <2>2
<1> HIDE DEF Good
<1>3. \A s \in Seq(X) : s \in Good
  BY <1>1, <1>2, ByAppending
<1> QED
  BY <1>3 DEF Good

(* A map of parameters, as a sequence: one for each key, the last of it.   *)
LEMMA CollectedIn ==
  ASSUME NEW X, X \subseteq Pairs
  PROVE  \A P \in Seq(X) :
           /\ Collected(P) \in Seq(X) /\ Apart(Collected(P), KeyOf)
           /\ ToSet(Collected(P)) \subseteq ToSet(P)
           /\ KeysOf(Collected(P)) = KeysOf(P)
<1> DEFINE Good == {P \in Seq(X) : /\ Collected(P) \in Seq(X) /\ Apart(Collected(P), KeyOf)
                                   /\ ToSet(Collected(P)) \subseteq ToSet(P)
                                   /\ KeysOf(Collected(P)) = KeysOf(P)}
<1>1. <<>> \in Good
  <2>1. Collected(<<>>) = <<>> /\ Apart(<<>>, KeyOf) /\ <<>> \in Seq(X)
    BY CollectedEmpty, ApartEmpty
  <2> QED
    BY <2>1
<1>2. ASSUME NEW P \in Seq(X), NEW p \in X, P \in Good PROVE Append(P, p) \in Good
  <2> DEFINE s == Collected(P)
             R == {o \in ToSet(s) : o[1] # p[1]}
  <2>1. /\ s \in Seq(X) /\ Apart(s, KeyOf) /\ ToSet(s) \subseteq ToSet(P)
        /\ {o[1] : o \in ToSet(s)} = {o[1] : o \in ToSet(P)}
    BY <1>2 DEF KeysOf
  <2>2. Collected(Append(P, p)) = Collect(s, p)
    BY CollectedAppend
  <2> HIDE DEF s
  <2>3. Collect(s, p) \in Seq(X) /\ ToSet(Collect(s, p)) = R \cup {p}
    BY <2>1, CollectIn
  <2>4. Append(P, p) \in Seq(X) /\ ToSet(Append(P, p)) = ToSet(P) \cup {p}
    BY ToSetAppend
  <2>5. Apart(Collect(s, p), KeyOf)
    <3> HIDE DEF R
    <3>1. Among(s, R) \in Seq(X) /\ Apart(Among(s, R), KeyOf) /\ ToSet(Among(s, R)) = ToSet(s) \cap R
      BY <2>1, AmongIn, AmongApart
    <3>2. \A o \in R : o \in X /\ o[1] # p[1]
      BY <2>1, ToSetIn DEF R
    <3>3. \A o \in ToSet(Among(s, R)) : KeyOf[o] # KeyOf[p]
      BY <3>1, <3>2 DEF KeyOf
    <3>4. Collect(s, p) = Append(Among(s, R), p)
      BY DEF Collect, R
    <3> QED
      BY <3>1, <3>3, <3>4, ApartAppend
  <2>6. {o[1] : o \in R \cup {p}} = {o[1] : o \in ToSet(P) \cup {p}}
    <3>1. \A o \in ToSet(P) : \E r \in ToSet(s) : r[1] = o[1]
      <4>1. \A o \in ToSet(P) : o[1] \in {r[1] : r \in ToSet(s)}
        BY <2>1
      <4> QED
        BY <4>1
    <3>2. \A o \in ToSet(P) \cup {p} : \E r \in R \cup {p} : r[1] = o[1]
      BY <3>1
    <3>3. R \cup {p} \subseteq ToSet(P) \cup {p}
      BY <2>1
    <3> HIDE DEF R
    <3> QED
      BY <3>2, <3>3
  <2>7. KeysOf(Collect(s, p)) = KeysOf(Append(P, p))
    <3> HIDE DEF R
    <3> QED
      BY <2>3, <2>4, <2>6 DEF KeysOf
  <2>8. R \cup {p} \subseteq ToSet(P) \cup {p}
    BY <2>1
  <2> HIDE DEF R
  <2> QED
    BY <2>2, <2>3, <2>4, <2>5, <2>7, <2>8
<1> HIDE DEF Good
<1>3. \A P \in Seq(X) : P \in Good
  BY <1>1, <1>2, ByAppending
<1> QED
  BY <1>3 DEF Good

LEMMA CollectedSame ==
  \A P \in Seq(Pairs) : Apart(P, KeyOf) => Collected(P) = P
<1> DEFINE Good == {P \in Seq(Pairs) : Apart(P, KeyOf) => Collected(P) = P}
<1>1. <<>> \in Good
  BY CollectedEmpty
<1>2. ASSUME NEW P \in Seq(Pairs), NEW p \in Pairs, P \in Good PROVE Append(P, p) \in Good
  <2>1. ASSUME Apart(Append(P, p), KeyOf) PROVE Collected(Append(P, p)) = Append(P, p)
    <3> DEFINE R == {o \in ToSet(P) : o[1] # p[1]}
    <3>1. Apart(P, KeyOf) /\ \A o \in ToSet(P) : KeyOf[o] # KeyOf[p]
      BY <2>1, ApartAppend
    <3>2. ToSet(P) \subseteq Pairs
      BY ToSetIn
    <3>3. ToSet(P) \subseteq R
      BY <3>1, <3>2 DEF KeyOf
    <3>4. Collect(P, p) = Append(Among(P, R), p)
      BY DEF Collect
    <3> HIDE DEF R
    <3>5. Among(P, R) = P
      BY <3>3, AmongAll
    <3>6. Collected(P) = P
      BY <1>2, <3>1
    <3>7. Collected(Append(P, p)) = Collect(P, p)
      BY <3>6, CollectedAppend
    <3> QED
      BY <3>4, <3>5, <3>7
  <2>2. Append(P, p) \in Seq(Pairs)
    OBVIOUS
  <2> QED
    BY <2>1, <2>2
<1> HIDE DEF Good
<1>3. \A P \in Seq(Pairs) : P \in Good
  BY <1>1, <1>2, ByAppending
<1> QED
  BY <1>3 DEF Good

----------------------------------------------------------------------------
(* Parameters sorted: one for each key, in the order of the keys.          *)
Functional(S) == \A p, o \in S : p[1] = o[1] => p = o

LEMMA ApartFunctional ==
  ASSUME NEW P \in Seq(Pairs), Apart(P, KeyOf)
  PROVE  Functional(ToSet(P))
<1>1. ToSet(P) = {P[k] : k \in 1..Len(P)} /\ DOMAIN P = 1..Len(P) /\ \A k \in 1..Len(P) : P[k] \in Pairs
  BY ToSetIn
<1>2. \A m, n \in 1..Len(P) : P[m][1] = P[n][1] => m = n
  BY <1>1 DEF Apart, KeyOf
<1> QED
  BY <1>1, <1>2 DEF Functional

(* Parameters with known keys, each once.                                  *)
Known(P) == P \in Seq(Pairs) /\ Functional(ToSet(P)) /\ KeysOf(P) \subseteq ToSet(KeyOrder)

Pairing(P) == [k \in Text |-> <<k, ValueOf(P, k)>>]

LEMMA PairingIs ==
  ASSUME NEW P, Known(P), NEW p \in ToSet(P)
  PROVE  p[1] \in Text /\ p[1] \in KeysOf(P) /\ Pairing(P)[p[1]] = p
<1>1. p \in Pairs /\ p = <<p[1], p[2]>> /\ p[1] \in Text
  BY ToSetIn DEF Known, Pairs
<1>2. \A o \in ToSet(P) : o[1] = p[1] <=> o = p
  BY DEF Known, Functional
<1>3. (CHOOSE o \in ToSet(P) : o[1] = p[1]) = p
  BY <1>2
<1>4. ValueOf(P, p[1]) = p[2]
  BY <1>3 DEF ValueOf
<1> QED
  BY <1>1, <1>4 DEF Pairing, KeysOf

LEMMA KeyOrderIs ==
  KeyOrder \in Seq(Text) /\ Apart(KeyOrder, Itself) /\ OnlyFirst(KeyOrder, <<>>)
<1>1. KeyOrder \in Seq(Text)
  BY KeyOrderAssumption DEF Text
<1>2. DOMAIN KeyOrder = 1..Len(KeyOrder) /\ \A n \in DOMAIN KeyOrder : KeyOrder[n] \in Text
  BY <1>1
<1>3. Apart(KeyOrder, Itself)
  BY <1>2, KeyOrderAssumption DEF Apart, Itself
<1>4. \A n \in DOMAIN KeyOrder : KeyOrder[n] = <<>> => n = 1
  BY KeyOrderAssumption
<1>5. \A n \in 2..Len(KeyOrder) : n \in DOMAIN KeyOrder /\ n # 1
  BY <1>2
<1>6. OnlyFirst(KeyOrder, <<>>)
  BY <1>4, <1>5 DEF OnlyFirst
<1> QED
  BY <1>1, <1>3, <1>6

LEMMA SortedIs ==
  ASSUME NEW P
  PROVE  Sorted(P) = Mapped(Among(KeyOrder, KeysOf(P)), Pairing(P))
<1> DEFINE keys == Among(KeyOrder, KeysOf(P))
<1>1. keys \in Seq(Text)
  BY KeyOrderIs, AmongIn
<1> HIDE DEF keys
<1>2. \A n \in DOMAIN keys : keys[n] \in Text
  BY <1>1
<1>3. \A n \in DOMAIN keys : Pairing(P)[keys[n]] = <<keys[n], ValueOf(P, keys[n])>>
  BY <1>2 DEF Pairing
<1>4. Sorted(P) = [n \in DOMAIN keys |-> <<keys[n], ValueOf(P, keys[n])>>]
  BY DEF Sorted, keys
<1> QED
  BY <1>3, <1>4 DEF Mapped, keys

LEMMA SortedBySet ==
  ASSUME NEW P, NEW Q, ToSet(P) = ToSet(Q)
  PROVE  Sorted(P) = Sorted(Q)
BY DEF Sorted, KeysOf, ValueOf

LEMMA SortedSet ==
  ASSUME NEW P, Known(P)
  PROVE  /\ ToSet(Sorted(P)) = ToSet(P) /\ Known(Sorted(P)) /\ Apart(Sorted(P), KeyOf)
         /\ \A X : ToSet(P) \subseteq X => Sorted(P) \in Seq(X)
<1> DEFINE keys == Among(KeyOrder, KeysOf(P))
           g == Pairing(P)
<1>1. keys \in Seq(Text) /\ ToSet(keys) = ToSet(KeyOrder) \cap KeysOf(P) /\ Apart(keys, Itself)
  BY KeyOrderIs, AmongIn, AmongApart
<1>2. ToSet(keys) = KeysOf(P)
  BY <1>1 DEF Known
<1>3. Sorted(P) = Mapped(keys, g)
  BY SortedIs
<1> HIDE DEF keys, g
<1>4. ToSet(Sorted(P)) = {g[k] : k \in KeysOf(P)}
  BY <1>1, <1>2, <1>3, MappedSet
<1>5. \A p \in ToSet(P) : p[1] \in KeysOf(P) /\ g[p[1]] = p
  BY PairingIs DEF g
<1>6. KeysOf(P) = {p[1] : p \in ToSet(P)}
  BY DEF KeysOf
<1>7. ToSet(Sorted(P)) = ToSet(P)
  BY <1>4, <1>5, <1>6
<1>8. keys \in Seq(KeysOf(P))
  <2>1. \A k \in 1..Len(keys) : keys[k] \in ToSet(keys)
    BY <1>1, ToSetIn
  <2>2. keys = [k \in 1..Len(keys) |-> keys[k]] /\ Len(keys) \in Nat
    BY <1>1
  <2> QED
    BY <1>2, <2>1, <2>2
<1>9. \A k \in KeysOf(P) : g[k] \in ToSet(P) /\ g[k][1] = k
  BY <1>5, <1>6
<1>10. \A X : ToSet(P) \subseteq X => Sorted(P) \in Seq(X)
  <2>1. \A X : ToSet(P) \subseteq X => \A k \in KeysOf(P) : g[k] \in X
    BY <1>9
  <2> QED
    BY <1>3, <1>8, <2>1, MappedIs
<1>11. ToSet(P) \subseteq Pairs
  BY ToSetIn DEF Known
<1>12. Sorted(P) \in Seq(Pairs)
  BY <1>10, <1>11
<1>13. Known(Sorted(P))
  BY <1>7, <1>12 DEF Known, KeysOf
<1>14. Apart(Sorted(P), KeyOf)
  <2>1. Len(Sorted(P)) = Len(keys) /\ \A n \in 1..Len(keys) : Sorted(P)[n] = g[keys[n]]
    BY <1>1, <1>3, MappedIs
  <2>2. DOMAIN Sorted(P) = 1..Len(keys) /\ DOMAIN keys = 1..Len(keys)
    BY <1>1, <1>12, <2>1
  <2>3. \A n \in 1..Len(keys) : keys[n] \in KeysOf(P) /\ keys[n] \in Text
    BY <1>1, <1>8
  <2>4. \A n \in 1..Len(keys) : KeyOf[Sorted(P)[n]] = keys[n]
    <3>1. \A n \in 1..Len(keys) : Sorted(P)[n] = g[keys[n]] /\ g[keys[n]] \in Pairs /\ g[keys[n]][1] = keys[n]
      BY <1>9, <1>11, <2>1, <2>3
    <3>2. \A p \in Pairs : KeyOf[p] = p[1]
      BY DEF KeyOf
    <3> QED
      BY <3>1, <3>2
  <2>5. \A m, n \in 1..Len(keys) : keys[m] = keys[n] => m = n
    <3>1. \A n \in 1..Len(keys) : Itself[keys[n]] = keys[n]
      BY <2>3 DEF Itself
    <3> QED
      BY <1>1, <2>2, <3>1 DEF Apart
  <2> QED
    BY <2>2, <2>4, <2>5 DEF Apart
<1> QED
  BY <1>7, <1>10, <1>13, <1>14

(* A part of them is sorted too, and what is unsaid is its first.          *)
LEMMA SortedAmong ==
  ASSUME NEW P, Known(P), NEW S
  PROVE  /\ Sorted(Among(Sorted(P), S)) = Among(Sorted(P), S)
         /\ Known(Among(Sorted(P), S)) /\ ToSet(Among(Sorted(P), S)) = ToSet(P) \cap S
         /\ OnlyFirst(Among(Sorted(P), S), Unsaid)
<1> DEFINE g == Pairing(P)
           Q == Among(Sorted(P), S)
           R == {k \in Text : g[k] \in S}
           keys == Among(KeyOrder, KeysOf(P))
           some == Among(keys, R)
<1>1. /\ ToSet(Sorted(P)) = ToSet(P) /\ Sorted(P) \in Seq(Pairs)
  BY SortedSet DEF Known
<1>2. Q \in Seq(Pairs) /\ ToSet(Q) = ToSet(P) \cap S
  BY <1>1, AmongIn
<1>3. Known(Q)
  BY <1>2 DEF Known, Functional, KeysOf
<1>4. keys \in Seq(Text) /\ Sorted(P) = Mapped(keys, g) /\ OnlyFirst(keys, <<>>)
  BY KeyOrderIs, SortedIs, AmongIn, AmongFirst
<1>5. some = Among(KeyOrder, KeysOf(P) \cap R)
  BY KeyOrderIs, AmongTwice
<1>6. Q = Mapped(some, g)
  <2>1. \A x \in Text : x \in R <=> g[x] \in S
    OBVIOUS
  <2> HIDE DEF R, g, keys
  <2> QED
    BY <1>4, <2>1, AmongMapped
<1>7. some \in Seq(Text) /\ OnlyFirst(some, <<>>) /\ ToSet(some) \subseteq KeysOf(P) \cap R
  BY <1>4, <1>5, KeyOrderIs, AmongIn, AmongFirst
<1>8. \A p \in ToSet(P) : p[1] \in Text /\ p[1] \in KeysOf(P) /\ g[p[1]] = p
  BY PairingIs
<1>9. \A p \in ToSet(Q) : p[1] \in KeysOf(Q) /\ Pairing(Q)[p[1]] = p
  BY <1>3, PairingIs
<1>10. KeysOf(P) = {p[1] : p \in ToSet(P)} /\ KeysOf(Q) = {p[1] : p \in ToSet(Q)}
  BY DEF KeysOf
<1> HIDE DEF Q
<1>11. KeysOf(Q) = KeysOf(P) \cap R
  <2>1. ASSUME NEW k \in KeysOf(Q) PROVE k \in KeysOf(P) \cap R
    <3>1. PICK p \in ToSet(Q) : p[1] = k
      BY <1>10
    <3> QED
      BY <1>2, <1>8, <3>1
  <2>2. ASSUME NEW k \in KeysOf(P) \cap R PROVE k \in KeysOf(Q)
    <3>1. PICK p \in ToSet(P) : p[1] = k
      BY <1>10
    <3>2. p \in ToSet(Q)
      BY <1>2, <1>8, <3>1
    <3> QED
      BY <1>10, <3>1, <3>2
  <2> QED
    BY <2>1, <2>2
<1>12. Sorted(Q) = Mapped(some, Pairing(Q))
  BY <1>5, <1>11, SortedIs
<1>13. \A k \in KeysOf(Q) : Pairing(Q)[k] = g[k]
  BY <1>2, <1>8, <1>9, <1>10
<1>14. Mapped(some, Pairing(Q)) = Mapped(some, g)
  <2>1. \A n \in DOMAIN some : some[n] \in ToSet(some)
    BY <1>7, ToSetIn
  <2>2. \A n \in DOMAIN some : Pairing(Q)[some[n]] = g[some[n]]
    BY <1>7, <1>11, <1>13, <2>1
  <2> HIDE DEF some, g
  <2> QED
    BY <2>2 DEF Mapped
<1>15. OnlyFirst(Q, Unsaid)
  <2> HIDE DEF some, g
  <2>1. Len(Q) = Len(some) /\ \A n \in 1..Len(some) : Q[n] = g[some[n]]
    BY <1>6, <1>7, MappedIs
  <2>2. \A n \in 2..Len(some) : n \in 1..Len(some) /\ some[n] # <<>> /\ some[n] \in Text
    BY <1>7 DEF OnlyFirst
  <2>3. \A k \in Text : g[k][1] = k
    BY DEF g, Pairing
  <2>4. \A n \in 2..Len(some) : Q[n] # Unsaid
    BY <2>1, <2>2, <2>3 DEF Unsaid
  <2> QED
    BY <2>1, <2>4 DEF OnlyFirst
<1> QED
  BY <1>2, <1>3, <1>6, <1>12, <1>14, <1>15 DEF Q

----------------------------------------------------------------------------
(* Parameters as a function of their keys.                                 *)
FunctionOf(S) == [k \in {p[1] : p \in S} |-> (CHOOSE p \in S : p[1] = k)[2]]

LEMMA ParametersAre ==
  ASSUME NEW t
  PROVE  ParametersOf(t) = FunctionOf(ToSet(Collected(ParseQuery(t))))
BY DEF ParametersOf, FunctionOf, ValueOf

LEMMA FunctionIs ==
  ASSUME NEW S, Functional(S)
  PROVE  /\ DOMAIN FunctionOf(S) = {p[1] : p \in S}
         /\ FunctionOf(S) = [k \in {p[1] : p \in S} |-> FunctionOf(S)[k]]
         /\ \A p \in S : FunctionOf(S)[p[1]] = p[2]
<1>1. \A p \in S : (CHOOSE o \in S : o[1] = p[1]) = p
  <2>1. ASSUME NEW p \in S PROVE (CHOOSE o \in S : o[1] = p[1]) = p
    <3>1. \A o \in S : o[1] = p[1] <=> o = p
      BY DEF Functional
    <3> QED
      BY <3>1
  <2> QED
    BY <2>1
<1> QED
  BY <1>1 DEF FunctionOf

LEMMA FunctionFrom ==
  ASSUME NEW S, Functional(S), NEW h, NEW D, h = [k \in D |-> h[k]], D = {p[1] : p \in S},
         \A p \in S : h[p[1]] = p[2]
  PROVE  h = FunctionOf(S)
<1>1. /\ FunctionOf(S) = [k \in D |-> FunctionOf(S)[k]]
      /\ \A p \in S : FunctionOf(S)[p[1]] = p[2]
  BY FunctionIs
<1>2. \A k \in D : h[k] = FunctionOf(S)[k]
  BY <1>1
<1> QED
  BY <1>1, <1>2

LEMMA FunctionalPart ==
  ASSUME NEW S, Functional(S), NEW R, R \subseteq S
  PROVE  Functional(R)
BY DEF Functional

LEMMA SameFunction ==
  ASSUME NEW S, NEW R, S \subseteq Pairs, R \subseteq Pairs, Functional(S), Functional(R)
  PROVE  FunctionOf(S) = FunctionOf(R) <=> S = R
<1>1. /\ DOMAIN FunctionOf(S) = {p[1] : p \in S} /\ \A p \in S : FunctionOf(S)[p[1]] = p[2]
      /\ DOMAIN FunctionOf(R) = {p[1] : p \in R} /\ \A p \in R : FunctionOf(R)[p[1]] = p[2]
  BY FunctionIs
<1>2. \A p, o \in Pairs : p[1] = o[1] /\ p[2] = o[2] => p = o
  BY DEF Pairs
<1>3. ASSUME FunctionOf(S) = FunctionOf(R) PROVE S = R
  <2> DEFINE F == FunctionOf(S)
  <2>1. /\ DOMAIN F = {p[1] : p \in S} /\ \A p \in S : F[p[1]] = p[2]
        /\ DOMAIN F = {p[1] : p \in R} /\ \A p \in R : F[p[1]] = p[2]
    BY <1>1, <1>3
  <2> HIDE DEF F
  <2>2. ASSUME NEW p \in S PROVE p \in R
    <3>1. PICK o \in R : o[1] = p[1]
      BY <2>1
    <3>2. o[2] = p[2]
      BY <2>1, <3>1
    <3> QED
      BY <1>2, <3>1, <3>2
  <2>3. ASSUME NEW p \in R PROVE p \in S
    <3>1. PICK o \in S : o[1] = p[1]
      BY <2>1
    <3>2. o[2] = p[2]
      BY <2>1, <3>1
    <3> QED
      BY <1>2, <3>1, <3>2
  <2> QED
    BY <2>2, <2>3
<1> QED
  BY <1>3

LEMMA SaidIs ==
  ASSUME NEW S, S \subseteq Pairs, Functional(S)
  PROVE  Said(FunctionOf(S)) = FunctionOf(S \ {Unsaid})
<1> DEFINE F == FunctionOf(S)
           D == {k \in DOMAIN F : k # <<>> \/ F[k] # <<>>}
           R == S \ {Unsaid}
           h == [k \in D |-> F[k]]
<1>1. DOMAIN F = {p[1] : p \in S} /\ \A p \in S : F[p[1]] = p[2]
  BY FunctionIs
<1>2. Said(F) = h
  BY DEF Said
<1> HIDE DEF F
<1>3. Functional(R)
  BY FunctionalPart
<1>4. \A p \in S : p \in R <=> p[1] # <<>> \/ p[2] # <<>>
  BY DEF Unsaid, Pairs
<1>5. D = {p[1] : p \in R}
  <2>1. ASSUME NEW k \in D PROVE \E p \in R : p[1] = k
    <3>1. PICK p \in S : p[1] = k
      BY <1>1
    <3> QED
      BY <1>1, <1>4, <3>1
  <2>2. ASSUME NEW p \in R PROVE p[1] \in D
    <3>1. p \in S
      OBVIOUS
    <3> QED
      BY <1>1, <1>4, <3>1
  <2> HIDE DEF D, R
  <2> QED
    BY <2>1, <2>2
<1>6. \A p \in R : h[p[1]] = p[2]
  <2>1. \A p \in R : p[1] \in D /\ F[p[1]] = p[2]
    BY <1>1, <1>5
  <2> QED
    BY <2>1
<1>7. h = [k \in D |-> h[k]]
  BY Zenon
<1> HIDE DEF h, D, R
<1>8. h = FunctionOf(R)
  BY <1>3, <1>5, <1>6, <1>7, FunctionFrom
<1> QED
  BY <1>2, <1>8 DEF F, R

LEMMA WithoutIs ==
  ASSUME NEW S, S \subseteq Pairs, Functional(S), NEW K
  PROVE  Without(FunctionOf(S), K) = FunctionOf({p \in S : p[1] \notin K})
<1> DEFINE F == FunctionOf(S)
           D == DOMAIN F \ K
           R == {p \in S : p[1] \notin K}
           h == [k \in D |-> F[k]]
<1>1. DOMAIN F = {p[1] : p \in S} /\ \A p \in S : F[p[1]] = p[2]
  BY FunctionIs
<1>2. Without(F, K) = h
  BY DEF Without
<1> HIDE DEF F
<1>3. Functional(R)
  BY FunctionalPart
<1>5. D = {p[1] : p \in R}
  <2>1. ASSUME NEW k \in D PROVE \E p \in R : p[1] = k
    <3>1. PICK p \in S : p[1] = k
      BY <1>1
    <3> QED
      BY <3>1
  <2>2. ASSUME NEW p \in R PROVE p[1] \in D
    BY <1>1
  <2> HIDE DEF D, R
  <2> QED
    BY <2>1, <2>2
<1>6. \A p \in R : h[p[1]] = p[2]
  <2>1. \A p \in R : p[1] \in D /\ F[p[1]] = p[2]
    BY <1>1, <1>5
  <2> QED
    BY <2>1
<1>7. h = [k \in D |-> h[k]]
  BY Zenon
<1> HIDE DEF h, D, R
<1>8. h = FunctionOf(R)
  BY <1>3, <1>5, <1>6, <1>7, FunctionFrom
<1> QED
  BY <1>2, <1>8 DEF F, R

LEMMA TogetherIs ==
  ASSUME NEW S, NEW R, S \cup R \subseteq Pairs, Functional(S \cup R)
  PROVE  Together(FunctionOf(S), FunctionOf(R)) = FunctionOf(S \cup R)
<1> DEFINE F == FunctionOf(S)
           G == FunctionOf(R)
           D == DOMAIN F \cup DOMAIN G
           B == S \cup R
           h == [k \in D |-> IF k \in DOMAIN F THEN F[k] ELSE G[k]]
<1>0. Functional(S) /\ Functional(R)
  BY FunctionalPart
<1>1. /\ DOMAIN F = {p[1] : p \in S} /\ \A p \in S : F[p[1]] = p[2]
      /\ DOMAIN G = {p[1] : p \in R} /\ \A p \in R : G[p[1]] = p[2]
  BY <1>0, FunctionIs
<1>2. Together(F, G) = h
  BY DEF Together
<1> HIDE DEF F, G
<1>5. D = {p[1] : p \in B}
  BY <1>1
<1>6. ASSUME NEW p \in B PROVE h[p[1]] = p[2]
  <2>1. p[1] \in D
    BY <1>5
  <2>2. CASE p[1] \in DOMAIN F
    <3>1. PICK o \in S : o[1] = p[1]
      BY <1>1, <2>2
    <3>2. o = p
      BY <3>1 DEF Functional
    <3> QED
      BY <1>1, <2>1, <2>2, <3>2
  <2>3. CASE p[1] \notin DOMAIN F
    <3>1. p \in R
      BY <1>1, <2>3
    <3> QED
      BY <1>1, <2>1, <2>3, <3>1
  <2> QED
    BY <2>2, <2>3
<1>7. h = [k \in D |-> h[k]] /\ Functional(B)
  BY Zenon
<1> HIDE DEF h, D, B
<1>8. h = FunctionOf(B)
  BY <1>5, <1>6, <1>7, FunctionFrom
<1> QED
  BY <1>2, <1>8 DEF F, G, B

----------------------------------------------------------------------------
(* Paths and queries.                                                      *)
Path == Seq(Char \ {"?"})

LEMMA WithQueryCut ==
  ASSUME NEW p \in Path, NEW q \in Text
  PROVE  WithQuery(p, q) \in Text /\ CutAt(WithQuery(p, q), "?") = <<p, q>>
<1>1. p \in Text /\ <<"?">> \in Text
  BY AmpersandAndEquals DEF Path, Text
<1>2. CASE q = <<>>
  <2>1. WithQuery(p, q) = p
    BY <1>1, <1>2 DEF WithQuery, Text
  <2>2. CutAt(p, "?") = <<p, <<>>>>
    BY CutNone DEF Path
  <2> QED
    BY <1>1, <1>2, <2>1, <2>2
<1>3. CASE q # <<>>
  <2>1. WithQuery(p, q) = (p \o <<"?">>) \o q /\ WithQuery(p, q) \in Text
    <3>1. WithQuery(p, q) = p \o (<<"?">> \o q)
      BY <1>3 DEF WithQuery
    <3>2. p \o (<<"?">> \o q) = (p \o <<"?">>) \o q
      BY <1>1 DEF Text
    <3>3. p \o <<"?">> \in Text
      BY <1>1 DEF Text
    <3> DEFINE w == p \o <<"?">>
    <3> HIDE DEF w
    <3>4. w \o q \in Text
      BY <3>3 DEF w, Text
    <3> QED
      BY <3>1, <3>2, <3>4 DEF w
  <2>2. CutAt((p \o <<"?">>) \o q, "?") = <<p, q>>
    BY CutFirst, AmpersandAndEquals DEF Path, Text
  <2> QED
    BY <2>1, <2>2
<1> QED
  BY <1>2, <1>3

LEMMA WithQuerySame ==
  ASSUME NEW p \in Path, NEW q \in Text, NEW o \in Path, NEW r \in Text
  PROVE  WithQuery(p, q) = WithQuery(o, r) <=> p = o /\ q = r
<1>1. CutAt(WithQuery(p, q), "?") = <<p, q>> /\ CutAt(WithQuery(o, r), "?") = <<o, r>>
  BY WithQueryCut
<1> QED
  BY <1>1

LEMMA EscapedAway ==
  ASSUME NEW chars, chars \subseteq Escapable, NEW t \in Text
  PROVE  /\ Escaped(t, chars) \in Seq(Char \ chars)
         /\ t \in Seq(Char \ chars) => Escaped(t, chars) = t
<1>1. Escaped(t, chars) = Mapped(t, Escaping(chars))
  BY EscapedIs
<1>2. \A x \in Char : Escaping(chars)[x] \in Char \ chars
  <2>1. ASSUME NEW x \in Char PROVE Escaping(chars)[x] \in Char \ chars
    <3>1. /\ Escaping(chars)[x] \in Char /\ (x \notin chars => Escaping(chars)[x] = x)
          /\ (x \in chars => Escaping(chars)[x] \in {"%20", "%2B"})
      BY EscapingIs
    <3>2. "%20" \notin chars /\ "%2B" \notin chars
      <4>1. "%20" \notin Escapable /\ "%2B" \notin Escapable
        BY DEF Escapable
      <4> QED
        BY <4>1
    <3> QED
      BY <3>1, <3>2
  <2> QED
    BY <2>1
<1>3. Mapped(t, Escaping(chars)) \in Seq(Char \ chars)
  BY <1>2, MappedIs DEF Text
<1>4. ASSUME t \in Seq(Char \ chars) PROVE Mapped(t, Escaping(chars)) = t
  <2>1. t = [k \in DOMAIN t |-> t[k]] /\ \A k \in DOMAIN t : t[k] \in Char /\ t[k] \notin chars
    BY <1>4
  <2>2. \A x \in Char : x \notin chars => Escaping(chars)[x] = x
    BY EscapingIs
  <2>3. \A k \in DOMAIN t : Escaping(chars)[t[k]] = t[k]
    BY <2>1, <2>2
  <2> QED
    BY <2>1, <2>3 DEF Mapped
<1> QED
  BY <1>1, <1>3, <1>4

LEMMA SanitizedIs ==
  ASSUME NEW t \in Text
  PROVE  /\ SanitizeUrl(t) \in Text /\ SanitizeUrl(SanitizeUrl(t)) = SanitizeUrl(t)
         /\ t \in Seq(Char \ InUrl) => SanitizeUrl(t) = t
         /\ SanitizeUrl(t) \in Seq(Char \ InUrl)
         /\ t \in Path => SanitizeUrl(t) \in Path
<1>1. InUrl \subseteq Escapable
  BY DEF InUrl, Escapable
<1>2. /\ Escaped(t, InUrl) \in Seq(Char \ InUrl) /\ Escaped(t, InUrl) = Mapped(t, Escaping(InUrl))
      /\ t \in Seq(Char \ InUrl) => Escaped(t, InUrl) = t
      /\ Escaped(t, InUrl) \in Text
  BY <1>1, EscapedAway, EscapedIs
<1>3. Escaped(Escaped(t, InUrl), InUrl) = Escaped(t, InUrl)
  <2>1. \A u \in Text : u \in Seq(Char \ InUrl) => Escaped(u, InUrl) = u
    BY <1>1, EscapedAway
  <2> QED
    BY <1>2, <2>1
<1>4. ASSUME t \in Path PROVE Escaped(t, InUrl) \in Path
  <2>1. \A x \in Char \ {"?"} : Escaping(InUrl)[x] \in Char \ {"?"}
    BY UrlEscaping
  <2>2. Mapped(t, Escaping(InUrl)) \in Seq(Char \ {"?"})
    BY <1>4, <2>1, MappedIs DEF Path
  <2> QED
    BY <1>2, <2>2 DEF Path
<1> QED
  BY <1>2, <1>3, <1>4, Zenon DEF SanitizeUrl

LEMMA SanitizedCut ==
  ASSUME NEW t \in Text
  PROVE  /\ CutAt(t, "?")[1] \in Path /\ CutAt(t, "?")[2] \in Text
         /\ CutAt(SanitizeUrl(t), "?") = <<SanitizeUrl(CutAt(t, "?")[1]), SanitizeUrl(CutAt(t, "?")[2])>>
<1> DEFINE h == Escaping(InUrl)
           a == CutAt(t, "?")[1]
           b == CutAt(t, "?")[2]
<1>1. InUrl \subseteq Escapable
  BY DEF InUrl, Escapable
<1>2. \A u \in Text : SanitizeUrl(u) = Mapped(u, h)
  BY <1>1, EscapedIs DEF SanitizeUrl
<1>3. a \in Path /\ b \in Text
  BY CutIn, AmpersandAndEquals DEF Path, Text
<1>4. \A x \in Char : h[x] = "?" <=> x = "?"
  BY UrlEscaping
<1> HIDE DEF h
<1>5. CutAt(Mapped(t, h), "?") = <<Mapped(a, h), Mapped(b, h)>>
  BY <1>4, CutMapped, AmpersandAndEquals DEF Text
<1>6. a \in Text
  BY <1>3 DEF Path, Text
<1> QED
  BY <1>2, <1>3, <1>5, <1>6

(* The case of letters.                                                    *)
Lowering == [x \in Char |-> LowerChar(x)]
Lowest == Char \ DOMAIN LowerOf

LEMMA LoweringIs ==
  /\ \A x \in Char : Lowering[x] \in Char /\ Lowering[x] \in Lowest /\ (Lowering[x] = "?" <=> x = "?")
  /\ \A x \in Char : Lowering[x] = x <=> x \in Lowest
  /\ Lowering["?"] = "?"
  /\ \A x \in Separators : x \in Lowest
<1>1. \A x \in DOMAIN LowerOf : x \notin Separators /\ LowerOf[x] \notin Separators
  BY SeparatorsAssumption, Zenon
<1>2. "?" \in Separators /\ Separators \subseteq Char
  BY SeparatorsAssumption, Zenon DEF Separators
<1>3. \A x \in Char : Lowering[x] = IF x \in DOMAIN LowerOf THEN LowerOf[x] ELSE x
  BY DEF Lowering, LowerChar
<1> HIDE DEF Separators
<1> QED
  BY <1>1, <1>2, <1>3, TextAssumption DEF Lowest

LEMMA LoweredIs ==
  ASSUME NEW t \in Text
  PROVE  /\ Lower(t) = Mapped(t, Lowering) /\ Lower(t) \in Text
         /\ Lower(t) = t <=> t \in Seq(Lowest)
         /\ t \in Path => Lower(t) \in Path
         /\ Lower(t) = <<>> <=> t = <<>>
<1>1. DOMAIN t = 1..Len(t) /\ Len(t) \in Nat /\ (\A k \in DOMAIN t : t[k] \in Char) /\ t = [k \in DOMAIN t |-> t[k]]
  BY DEF Text
<1>2. Lower(t) = Mapped(t, Lowering)
  BY <1>1 DEF Lower, Mapped, Lowering
<1>3. Lower(t) \in Text /\ Len(Lower(t)) = Len(t) /\ \A k \in 1..Len(t) : Lower(t)[k] = Lowering[t[k]]
  BY <1>2, LoweringIs, MappedIs DEF Text
<1>4. Lower(t) = t <=> \A k \in DOMAIN t : Lowering[t[k]] = t[k]
  BY <1>1, <1>2, <1>3 DEF Mapped
<1>5. Lower(t) = t <=> t \in Seq(Lowest)
  <2>1. (\A k \in DOMAIN t : Lowering[t[k]] = t[k]) <=> \A k \in DOMAIN t : t[k] \in Lowest
    BY <1>1, LoweringIs
  <2>2. t \in Seq(Lowest) <=> \A k \in DOMAIN t : t[k] \in Lowest
    BY <1>1
  <2> QED
    BY <1>4, <2>1, <2>2
<1>6. t \in Path => Lower(t) \in Path
  <2>1. \A x \in Char \ {"?"} : Lowering[x] \in Char \ {"?"}
    BY LoweringIs
  <2>2. t \in Path => Mapped(t, Lowering) \in Seq(Char \ {"?"})
    BY <2>1, MappedIs DEF Path
  <2> QED
    BY <1>2, <2>2 DEF Path
<1>7. Lower(t) = <<>> <=> t = <<>>
  BY <1>3 DEF Text
<1> QED
  BY <1>2, <1>3, <1>5, <1>6, <1>7

LEMMA FoldedIs ==
  ASSUME NEW i \in BOOLEAN, NEW p \in Path, NEW q \in Text
  PROVE  /\ Folded(WithQuery(p, q), i) = WithQuery(Folded(p, i), Folded(q, i))
         /\ Folded(p, i) \in Path /\ Folded(q, i) \in Text
         /\ Folded(<<>>, i) = <<>>
<1>1. p \in Text /\ <<"?">> \in Text /\ <<>> \in Text
  BY AmpersandAndEquals DEF Path, Text
<1>2. CASE i = FALSE
  BY <1>2 DEF Folded
<1>3. CASE i = TRUE
  <2>1. Folded(p, i) = Lower(p) /\ Folded(q, i) = Lower(q) /\ Folded(<<>>, i) = Lower(<<>>)
        /\ Folded(WithQuery(p, q), i) = Lower(WithQuery(p, q))
    BY <1>3 DEF Folded
  <2>2. Lower(p) \in Path /\ Lower(q) \in Text /\ (Lower(q) = <<>> <=> q = <<>>) /\ Lower(<<>>) = <<>>
    BY <1>1, LoweredIs
  <2>3. \A t \in Text : Lower(t) = Mapped(t, Lowering)
    BY LoweredIs
  <2>4. \A a, b \in Text : Lower(a \o b) = Lower(a) \o Lower(b)
    <3>1. \A a, b \in Text : Mapped(a \o b, Lowering) = Mapped(a, Lowering) \o Mapped(b, Lowering)
      BY MappedConcat DEF Text
    <3>2. \A a, b \in Text : a \o b \in Text
      BY DEF Text
    <3>3. ASSUME NEW a \in Text, NEW b \in Text PROVE Lower(a \o b) = Lower(a) \o Lower(b)
      <4>1. Lower(a \o b) = Mapped(a \o b, Lowering)
        BY <2>3, <3>2
      <4>2. Mapped(a \o b, Lowering) = Mapped(a, Lowering) \o Mapped(b, Lowering)
        BY <3>1
      <4> QED
        BY <2>3, <4>1, <4>2
    <3> QED
      BY <3>3
  <2>5. Lower(<<"?">>) = <<"?">>
    <3>1. DOMAIN <<"?">> = {1} /\ <<"?">>[1] = "?" /\ Lowering["?"] = "?"
      BY LoweringIs
    <3>2. Mapped(<<"?">>, Lowering) = [n \in {1} |-> "?"]
      BY <3>1 DEF Mapped
    <3> QED
      BY <1>1, <2>3, <3>2
  <2>6. Lower(WithQuery(p, q)) = WithQuery(Lower(p), Lower(q))
    <3>1. CASE q = <<>>
      <4>1. WithQuery(p, q) = p \o <<>> /\ WithQuery(Lower(p), Lower(q)) = Lower(p) \o <<>>
        BY <2>2, <3>1 DEF WithQuery
      <4>2. p \o <<>> = p /\ Lower(p) \o <<>> = Lower(p)
        BY <2>2 DEF Path
      <4> QED
        BY <4>1, <4>2
    <3>2. CASE q # <<>>
      <4>1. WithQuery(p, q) = p \o (<<"?">> \o q) /\ WithQuery(Lower(p), Lower(q)) = Lower(p) \o (<<"?">> \o Lower(q))
        BY <2>2, <3>2 DEF WithQuery
      <4>2. <<"?">> \o q \in Text
        BY <1>1 DEF Text
      <4>3. Lower(p \o (<<"?">> \o q)) = Lower(p) \o Lower(<<"?">> \o q)
        BY <1>1, <2>4, <4>2, Zenon
      <4>4. Lower(<<"?">> \o q) = Lower(<<"?">>) \o Lower(q)
        BY <1>1, <2>4, Zenon
      <4> QED
        BY <2>5, <4>1, <4>3, <4>4, Zenon
    <3> QED
      BY <3>1, <3>2
  <2> QED
    BY <2>1, <2>2, <2>6
<1> QED
  BY <1>2, <1>3

----------------------------------------------------------------------------
(* What a query of parameters looks like: plain, without what is escaped,  *)
(* and in lower case if they are.                                          *)
LowPair == {p \in BarePair : p[1] \in Seq(Lowest) /\ p[2] \in Seq(Lowest)}

LEMMA BareIsText ==
  \A p \in BarePair : p[1] \in Text /\ p[2] \in Text /\ p \in Pairs
BY DEF BarePair, Bare, BareKey, Text, Pairs

LEMMA QueryPlain ==
  \A P \in Seq(BarePair) : QueryOf(P, InQuery) \in Text /\ QueryOf(P, InQuery) \in Seq(Char \ InQuery)
<1>0. InQuery \subseteq Escapable
  BY DEF InQuery, Escapable
<1>1. "&" \notin InQuery /\ "=" \notin InQuery
  BY Zenon DEF InQuery
<1>2. {"&", "="} \subseteq Char \ InQuery
  BY <1>1, AmpersandAndEquals
<1>3. \A t \in Text : Escaped(t, InQuery) \in Seq(Char \ InQuery)
  BY <1>0, EscapedAway
<1>4. \A p \in BarePair : Escaped(p[1], InQuery) \in Seq(Char \ InQuery) /\ Escaped(p[2], InQuery) \in Seq(Char \ InQuery)
  BY <1>3, BareIsText
<1>5. \A P \in Seq(BarePair) : QueryOf(P, InQuery) \in Seq(Char \ InQuery)
  BY <1>0, <1>2, <1>4, QueryIn
<1>6. \A t \in Seq(Char \ InQuery) : t \in Text
  BY DEF Text
<1> QED
  BY <1>5, <1>6

LEMMA QueryLow ==
  \A P \in Seq(LowPair) : QueryOf(P, InQuery) \in Seq(Lowest)
<1>0. InQuery \subseteq Escapable
  BY DEF InQuery, Escapable
<1>1. {"&", "=", "%20", "%2B"} \subseteq Lowest
  <2>1. {"&", "=", "%20", "%2B"} \subseteq Separators
    BY Zenon DEF Separators
  <2> QED
    BY <2>1, LoweringIs
<1>2. \A x \in Lowest : Escaping(InQuery)[x] \in Lowest
  <2>1. ASSUME NEW x \in Lowest PROVE Escaping(InQuery)[x] \in Lowest
    <3>1. x \in Char
      BY DEF Lowest
    <3>2. Escaping(InQuery)[x] = x \/ Escaping(InQuery)[x] \in {"%20", "%2B"}
      BY <1>0, <3>1, EscapingIs
    <3> QED
      BY <1>1, <3>2
  <2> QED
    BY <2>1
<1>3. \A t \in Seq(Lowest) : Escaped(t, InQuery) \in Seq(Lowest)
  <2>1. ASSUME NEW t \in Seq(Lowest) PROVE Escaped(t, InQuery) \in Seq(Lowest)
    <3>1. t \in Text
      BY DEF Text, Lowest
    <3>2. Mapped(t, Escaping(InQuery)) \in Seq(Lowest)
      BY <1>2, MappedIs
    <3> QED
      BY <1>0, <3>1, <3>2, EscapedIs
  <2> QED
    BY <2>1
<1>4. \A p \in LowPair : Escaped(p[1], InQuery) \in Seq(Lowest) /\ Escaped(p[2], InQuery) \in Seq(Lowest)
  BY <1>3 DEF LowPair
<1>5. {"&", "="} \subseteq Lowest /\ LowPair \subseteq BarePair
  BY <1>1 DEF LowPair
<1> QED
  BY <1>0, <1>4, <1>5, QueryIn

LEMMA ParseLow ==
  ASSUME NEW t \in Seq(Unescaped_), t \in Seq(Lowest)
  PROVE  ParseQuery(t) \in Seq(LowPair)
<1>1. t \in Text /\ "&" \in Lowest
  <2>1. "&" \in Separators
    BY Zenon DEF Separators
  <2> QED
    BY <2>1, LoweringIs DEF Text, Unescaped_
<1> DEFINE B == Unescaped_ \cap Lowest
<1>2. t \in Seq(B) /\ "&" \in B /\ "=" \in B
  <2>1. \A k \in 1..Len(t) : t[k] \in B
    OBVIOUS
  <2>2. "&" \in Separators /\ "=" \in Separators
    BY Zenon DEF Separators
  <2>3. "&" \in B /\ "=" \in B
    BY <2>2, LoweringIs, AmpersandAndEquals DEF Unescaped_
  <2>4. t = [k \in 1..Len(t) |-> t[k]] /\ Len(t) \in Nat
    OBVIOUS
  <2> HIDE DEF B
  <2> QED
    BY <2>1, <2>3, <2>4
<1>3. Pieces(t, "&") \in Seq(Seq(B \ {"&"}))
  <2> HIDE DEF B
  <2>1. Pieces(t, "&") \in Seq(Seq(B \ {"&"}) \ {<<>>})
    BY <1>2, PiecesAre
  <2> QED
    BY <2>1
<1>4. \A x \in Lowest : Unescaping[x] \in Lowest
  <2>1. ASSUME NEW x \in Char PROVE Unescaping[x] = x \/ Unescaping[x] \in Separators
    <3>1. Unescaping[x] = IF x \in {"%20", "%2B", "%26", "%3D", "+"} THEN UnescapeOf[x] ELSE x
      BY EscapeIs DEF Unescaping
    <3>2. x \in {"%20", "%2B", "%26", "%3D", "+"} => UnescapeOf[x] \in Separators
      BY EscapeIs, Zenon DEF Separators
    <3> QED
      BY <3>1, <3>2
  <2>2. \A x \in Separators : x \in Lowest
    BY LoweringIs
  <2> QED
    BY <2>1, <2>2 DEF Lowest
<1>5. ASSUME NEW p \in Seq(B \ {"&"}) PROVE Parsing[p] \in LowPair
  <2>1. p \in Text /\ p \in Seq(Unescaped_ \ {"&"}) /\ p \in Seq(Lowest)
    BY DEF Text, Lowest
  <2>2. Parsing[p] \in BarePair
    BY <2>1, PieceBare
  <2>3. "=" \in Lowest
    BY <1>2
  <2>4. CutAt(p, "=")[1] \in Seq(Lowest \ {"="}) /\ CutAt(p, "=")[2] \in Seq(Lowest)
    BY <2>1, <2>3, CutIn
  <2>5. CutAt(p, "=")[1] \in Seq(Lowest)
    BY <2>4
  <2>6. \A u \in Seq(Lowest) : Unescaped(u) \in Seq(Lowest)
    <3>1. ASSUME NEW u \in Seq(Lowest) PROVE Unescaped(u) \in Seq(Lowest)
      <4>1. u \in Text
        BY DEF Text, Lowest
      <4>2. Mapped(u, Unescaping) \in Seq(Lowest)
        BY <1>4, MappedIs
      <4> QED
        BY <4>1, <4>2, UnescapedIs
    <3> QED
      BY <3>1
  <2>7. Parsing[p] = <<Unescaped(CutAt(p, "=")[1]), Unescaped(CutAt(p, "=")[2])>>
    BY <2>1, ParsePieceIs DEF Parsing
  <2> QED
    BY <2>2, <2>4, <2>5, <2>6, <2>7 DEF LowPair
<1> HIDE DEF B
<1>6. Mapped(Pieces(t, "&"), Parsing) \in Seq(LowPair)
  BY <1>3, <1>5, MappedIs
<1> QED
  BY <1>1, <1>6, ParseIs

----------------------------------------------------------------------------
(* The parameters of a query, as a request and a rule have them.           *)
KnownQuery(q) == q \in Seq(Unescaped_) /\ KeysOf(ParseQuery(q)) \subseteq ToSet(KeyOrder)

ParamsOf(q) == Collected(ParseQuery(q))

LEMMA ParamsAre ==
  ASSUME NEW q, KnownQuery(q)
  PROVE  /\ q \in Text /\ ParamsOf(q) \in Seq(BarePair) /\ Apart(ParamsOf(q), KeyOf) /\ Known(ParamsOf(q))
         /\ ParametersOf(q) = FunctionOf(ToSet(ParamsOf(q)))
         /\ ToSet(ParamsOf(q)) \subseteq Pairs /\ Functional(ToSet(ParamsOf(q)))
         /\ q \in Seq(Lowest) => ParamsOf(q) \in Seq(LowPair)
<1>1. q \in Text
  BY DEF KnownQuery, Text, Unescaped_
<1>2. ParseQuery(q) \in Seq(BarePair)
  BY ParseBare DEF KnownQuery
<1>3. BarePair \subseteq Pairs /\ LowPair \subseteq Pairs
  BY BareIsText DEF LowPair
<1>4. /\ ParamsOf(q) \in Seq(BarePair) /\ Apart(ParamsOf(q), KeyOf)
      /\ KeysOf(ParamsOf(q)) = KeysOf(ParseQuery(q))
  BY <1>2, <1>3, CollectedIn DEF ParamsOf
<1>5. ParamsOf(q) \in Seq(Pairs)
  BY <1>3, <1>4
<1>6. Functional(ToSet(ParamsOf(q))) /\ ToSet(ParamsOf(q)) \subseteq Pairs
  BY <1>4, <1>5, ApartFunctional, ToSetIn
<1>7. Known(ParamsOf(q))
  BY <1>4, <1>5, <1>6 DEF Known, KnownQuery
<1>8. ASSUME q \in Seq(Lowest) PROVE ParamsOf(q) \in Seq(LowPair)
  <2>1. ParseQuery(q) \in Seq(LowPair)
    BY <1>8, ParseLow DEF KnownQuery
  <2> QED
    BY <1>3, <2>1, CollectedIn DEF ParamsOf
<1>9. ParametersOf(q) = FunctionOf(ToSet(ParamsOf(q)))
  BY ParametersAre DEF ParamsOf
<1> QED
  BY <1>1, <1>4, <1>6, <1>7, <1>8, <1>9

(* Sorted or not, they are the same.                                       *)
LEMMA ParametersIn ==
  ASSUME NEW c, NEW q, KnownQuery(q)
  PROVE  /\ Parameters(c, q) = IF c.order THEN Sorted(ParamsOf(q)) ELSE ParamsOf(q)
         /\ Parameters(c, q) \in Seq(BarePair) /\ Apart(Parameters(c, q), KeyOf)
         /\ ToSet(Parameters(c, q)) = ToSet(ParamsOf(q))
         /\ q \in Seq(Lowest) => Parameters(c, q) \in Seq(LowPair)
<1> DEFINE P == ParamsOf(q)
<1>1. P \in Seq(BarePair) /\ Apart(P, KeyOf) /\ Known(P) /\ (q \in Seq(Lowest) => P \in Seq(LowPair))
  BY ParamsAre
<1>2. Parameters(c, q) = IF c.order THEN Sorted(P) ELSE P
  BY DEF Parameters, ParamsOf
<1> HIDE DEF P
<1>3. /\ ToSet(Sorted(P)) = ToSet(P) /\ Apart(Sorted(P), KeyOf)
      /\ \A X : ToSet(P) \subseteq X => Sorted(P) \in Seq(X)
  BY <1>1, SortedSet
<1>4. ToSet(P) \subseteq BarePair /\ (q \in Seq(Lowest) => ToSet(P) \subseteq LowPair)
  BY <1>1, ToSetIn
<1>5. Sorted(P) \in Seq(BarePair) /\ (q \in Seq(Lowest) => Sorted(P) \in Seq(LowPair))
  BY <1>3, <1>4
<1> QED
  BY <1>1, <1>2, <1>3, <1>5 DEF P

Marketed == {p \in BarePair : p[1] \in Marketing}
Unmarketed == {p \in BarePair : p[1] \notin Marketing}

LEMMA OursAre ==
  ASSUME NEW P \in Seq(BarePair)
  PROVE  Ours(P) = Among(P, Unmarketed) /\ Among(P, OfMarketing(P)) = Among(P, Marketed)
<1>1. ToSet(P) \subseteq BarePair
  BY ToSetIn
<1>2. \A p \in ToSet(P) : p \in ToSet(P) \ OfMarketing(P) <=> p \in Unmarketed
  BY <1>1 DEF OfMarketing, Unmarketed
<1>3. \A p \in ToSet(P) : p \in OfMarketing(P) <=> p \in Marketed
  BY <1>1 DEF OfMarketing, Marketed
<1> QED
  BY <1>2, <1>3, AmongSame DEF Ours

(* A query that was written reads as its parameters do.                    *)
LEMMA WrittenQuery ==
  ASSUME NEW P \in Seq(BarePair), Apart(P, KeyOf)
  PROVE  /\ ParamsOf(QueryOf(P, InQuery)) = Among(P, Spoken)
         /\ ParametersOf(QueryOf(P, InQuery)) = FunctionOf(ToSet(P) \ {Unsaid})
         /\ Among(P, Spoken) \in Seq(BarePair) /\ ToSet(Among(P, Spoken)) = ToSet(P) \ {Unsaid}
<1> DEFINE Q == Among(P, Spoken)
<1>1. Q \in Seq(BarePair) /\ ToSet(Q) = ToSet(P) \cap Spoken /\ Apart(Q, KeyOf)
  BY AmongIn, AmongApart
<1>2. ParseQuery(QueryOf(P, InQuery)) = Q
  BY RoundTrip
<1> HIDE DEF Q
<1>3. Collected(Q) = Q
  <2>1. Q \in Seq(Pairs)
    BY <1>1, BareIsText
  <2> QED
    BY <1>1, <2>1, CollectedSame
<1>4. ToSet(P) \cap Spoken = ToSet(P) \ {Unsaid}
  BY ToSetIn DEF Spoken
<1>5. ParamsOf(QueryOf(P, InQuery)) = Q
  BY <1>2, <1>3 DEF ParamsOf
<1>6. ParametersOf(QueryOf(P, InQuery)) = FunctionOf(ToSet(P) \ {Unsaid})
  BY <1>1, <1>2, <1>3, <1>4, ParametersAre
<1> QED
  BY <1>1, <1>4, <1>5, <1>6 DEF Q

(* The queries of requests and of rules are known.                         *)
LEMMA NothingIsEscaped ==
  ASSUME NEW t \in Text, NothingEscaped(t)
  PROVE  t \in Seq(Unescaped_) /\ CutAt(t, "?")[2] \in Seq(Unescaped_)
<1>1. \A k \in 1..Len(t) : t[k] \in Char /\ t[k] \in ToSet(t)
  BY ToSetIn DEF Text
<1>2. \A k \in 1..Len(t) : t[k] \in Unescaped_
  BY <1>1 DEF NothingEscaped, Unescaped_
<1>3. t = [k \in 1..Len(t) |-> t[k]] /\ Len(t) \in Nat
  BY DEF Text
<1>4. t \in Seq(Unescaped_)
  BY <1>2, <1>3
<1>5. "?" \in Unescaped_
  BY AmpersandAndEquals DEF Unescaped_
<1> QED
  BY <1>4, <1>5, CutIn

LEMMA ReceivedKnown ==
  ASSUME NEW t \in Received, NothingEscaped(t)
  PROVE  KnownQuery(CutAt(t, "?")[2])
<1>1. t \in Text
  BY RequestsAssumption DEF Text
<1>2. KeysOf(ParseQuery(CutAt(t, "?")[2])) \subseteq ToSet(KeyOrder)
  BY KeyOrderAssumption
<1> QED
  BY <1>1, <1>2, NothingIsEscaped DEF KnownQuery

LEMMA EmptyKnown == KnownQuery(<<>>) /\ ParamsOf(<<>>) = <<>> /\ ParametersOf(<<>>) = FunctionOf({})
<1>1. ParseQuery(<<>>) = <<>> /\ ToSet(<<>>) = {} /\ Collected(<<>>) = <<>>
  BY ParseEmpty, ToSetEmpty, CollectedEmpty
<1>2. <<>> \in Seq(Unescaped_)
  OBVIOUS
<1>3. KeysOf(<<>>) = {}
  BY <1>1 DEF KeysOf
<1> QED
  BY <1>1, <1>2, <1>3, ParametersAre DEF KnownQuery, ParamsOf

(* A request rewritten.                                                    *)
OfPath(t) == SanitizeUrl(CutAt(t, "?")[1])
OfQuery(t) == CutAt(t, "?")[2]
Rewrites(c, path) == (c.marketing \/ c.all) /\ Parses(path)

LEMMA KeptIn ==
  ASSUME NEW c, NEW q, KnownQuery(q)
  PROVE  /\ Kept(c, q) \in Text /\ Kept(c, q) \in Seq(Char \ InUrl)
         /\ c.all => Kept(c, q) = <<>>
         /\ ~ c.all => Kept(c, q) = QueryOf(Among(Parameters(c, q), Unmarketed), InQuery)
         /\ q \in Seq(Lowest) => Kept(c, q) \in Seq(Lowest)
<1> DEFINE V == Parameters(c, q)
           A == Among(V, Unmarketed)
<1>1. V \in Seq(BarePair) /\ (q \in Seq(Lowest) => V \in Seq(LowPair))
  BY ParametersIn
<1>2. Ours(V) = A
  BY <1>1, OursAre
<1>3. A \in Seq(BarePair) /\ (q \in Seq(Lowest) => A \in Seq(LowPair))
  BY <1>1, AmongIn
<1>4. Kept(c, q) = IF c.all THEN <<>> ELSE QueryOf(A, InQuery)
  BY <1>2 DEF Kept
<1> HIDE DEF A
<1>5. QueryOf(A, InQuery) \in Text /\ QueryOf(A, InQuery) \in Seq(Char \ InQuery)
  BY <1>3, QueryPlain
<1>6. InUrl \subseteq InQuery
  BY DEF InUrl, InQuery
<1>7. QueryOf(A, InQuery) \in Seq(Char \ InUrl)
  BY <1>5, <1>6
<1>8. q \in Seq(Lowest) => QueryOf(A, InQuery) \in Seq(Lowest)
  BY <1>3, QueryLow
<1>9. <<>> \in Text /\ <<>> \in Seq(Char \ InUrl) /\ <<>> \in Seq(Lowest)
  BY DEF Text
<1>10. CASE c.all
  BY <1>4, <1>9, <1>10
<1>11. CASE ~ c.all
  BY <1>4, <1>5, <1>7, <1>8, <1>11 DEF A
<1> QED
  BY <1>10, <1>11

LEMMA KeptSanitized ==
  ASSUME NEW c, NEW q \in Text
  PROVE  Kept(c, SanitizeUrl(q)) = Kept(c, q) /\ Parameters(c, SanitizeUrl(q)) = Parameters(c, q)
<1>1. ParseQuery(SanitizeUrl(q)) = ParseQuery(q)
  BY ParseSanitized
<1>2. Parameters(c, SanitizeUrl(q)) = Parameters(c, q)
  BY <1>1 DEF Parameters
<1> QED
  BY <1>2 DEF Kept

LEMMA RewrittenIs ==
  ASSUME NEW c, NEW t \in Text
  PROVE  /\ FromConfig(c, t).path_and_query =
              IF Rewrites(c, OfPath(t)) THEN WithQuery(OfPath(t), Kept(c, OfQuery(t))) ELSE SanitizeUrl(t)
         /\ FromConfig(c, t).matching = Folded(FromConfig(c, t).path_and_query, c.case)
         /\ FromConfig(c, t).skipped =
              IF Rewrites(c, OfPath(t)) THEN Skipped(c, SanitizeUrl(OfQuery(t))) ELSE {}
         /\ OfPath(t) \in Path /\ OfPath(t) \in Seq(Char \ InUrl) /\ OfQuery(t) \in Text
<1> DEFINE a == OfPath(t)
           s == SanitizeUrl(OfQuery(t))
           rewritten == IF (c.marketing \/ c.all) /\ Parses(a) THEN WithQuery(a, Kept(c, s)) ELSE SanitizeUrl(t)
           skipped == IF (c.marketing \/ c.all) /\ Parses(a) THEN Skipped(c, s) ELSE {}
<1>1. CutAt(t, "?")[1] \in Path /\ OfQuery(t) \in Text /\ CutAt(SanitizeUrl(t), "?") = <<a, s>>
  BY SanitizedCut DEF OfPath, OfQuery
<1>2. CutAt(SanitizeUrl(t), "?")[1] = a /\ CutAt(SanitizeUrl(t), "?")[2] = s
  BY <1>1
<1>3. FromConfig(c, t) = [path_and_query |-> rewritten, matching |-> Folded(rewritten, c.case),
                          skipped |-> skipped, original |-> t]
  BY <1>2, Zenon DEF FromConfig
<1> HIDE DEF rewritten, skipped
<1>4. /\ FromConfig(c, t).path_and_query = rewritten /\ FromConfig(c, t).matching = Folded(rewritten, c.case)
      /\ FromConfig(c, t).skipped = skipped
  BY <1>3
<1>5. Kept(c, s) = Kept(c, OfQuery(t))
  BY <1>1, KeptSanitized
<1>6. a \in Path /\ a \in Seq(Char \ InUrl)
  <2>1. CutAt(t, "?")[1] \in Text
    BY <1>1 DEF Path, Text
  <2> QED
    BY <1>1, <2>1, SanitizedIs DEF OfPath
<1> QED
  BY <1>1, <1>4, <1>5, <1>6, Zenon DEF rewritten, skipped, Rewrites

(* The path and the query of what it is rewritten to.                      *)
LEMMA RewrittenCut ==
  ASSUME NEW c, NEW t \in Text, KnownQuery(OfQuery(t))
  PROVE  /\ FromConfig(c, t).path_and_query \in Text
         /\ SanitizeUrl(FromConfig(c, t).path_and_query) = FromConfig(c, t).path_and_query
         /\ CutAt(FromConfig(c, t).path_and_query, "?") =
              <<OfPath(t), IF Rewrites(c, OfPath(t)) THEN Kept(c, OfQuery(t)) ELSE SanitizeUrl(OfQuery(t))>>
<1> DEFINE a == OfPath(t)
           k == Kept(c, OfQuery(t))
           r == FromConfig(c, t).path_and_query
<1>1. /\ r = IF Rewrites(c, a) THEN WithQuery(a, k) ELSE SanitizeUrl(t)
      /\ a \in Path /\ a \in Seq(Char \ InUrl)
  BY RewrittenIs
<1>2. k \in Text /\ k \in Seq(Char \ InUrl)
  BY KeptIn
<1>3. CASE Rewrites(c, a)
  <2>1. r = WithQuery(a, k)
    BY <1>1, <1>3
  <2> HIDE DEF a, k, r
  <2>2. WithQuery(a, k) \in Text /\ CutAt(WithQuery(a, k), "?") = <<a, k>>
    BY <1>1, <1>2, WithQueryCut
  <2>3. WithQuery(a, k) \in Seq(Char \ InUrl)
    <3>1. "?" \notin InUrl
      BY Zenon DEF InUrl
    <3>2. <<"?">> \in Seq(Char \ InUrl)
      BY <3>1, AmpersandAndEquals
    <3>3. CASE k = <<>>
      BY <1>1, <1>2, <3>3 DEF WithQuery
    <3>4. CASE k # <<>>
      <4> DEFINE w == <<"?">> \o k
      <4>1. w \in Seq(Char \ InUrl)
        BY <1>2, <3>2
      <4> HIDE DEF w
      <4>2. a \o w \in Seq(Char \ InUrl)
        BY <1>1, <4>1
      <4> QED
        BY <3>4, <4>2 DEF WithQuery, w
    <3> QED
      BY <3>3, <3>4
  <2>4. SanitizeUrl(WithQuery(a, k)) = WithQuery(a, k)
    BY <2>2, <2>3, SanitizedIs
  <2> QED
    BY <1>3, <2>1, <2>2, <2>4 DEF a, k, r
<1>4. CASE ~ Rewrites(c, a)
  <2>1. r = SanitizeUrl(t)
    BY <1>1, <1>4
  <2>2. SanitizeUrl(t) \in Text /\ SanitizeUrl(SanitizeUrl(t)) = SanitizeUrl(t)
    BY SanitizedIs
  <2>3. CutAt(SanitizeUrl(t), "?") = <<a, SanitizeUrl(OfQuery(t))>>
    BY SanitizedCut DEF OfPath, OfQuery
  <2> QED
    BY <1>4, <2>1, <2>2, <2>3
<1> QED
  BY <1>3, <1>4

----------------------------------------------------------------------------
(* Nothing is lost.                                                        *)
LEMMA OrEmptyIs ==
  ASSUME NEW x
  PROVE  OrEmpty(IF x # <<>> THEN {x} ELSE {}) = x
<1>1. CASE x # <<>>
  <2>1. (IF x # <<>> THEN {x} ELSE {}) = {x} /\ {x} # {}
    BY <1>1
  <2>2. OrEmpty({x}) = x
    BY DEF OrEmpty
  <2> QED
    BY <2>1, <2>2
<1>2. CASE x = <<>>
  <2>1. OrEmpty({}) = <<>>
    BY DEF OrEmpty
  <2> QED
    BY <1>2, <2>1
<1> QED
  BY <1>1, <1>2

LEMMA SkippedIs ==
  ASSUME NEW c, c.pass = TRUE, NEW q, KnownQuery(q)
  PROVE  ParametersOf(OrEmpty(Skipped(c, SanitizeUrl(q)))) =
           IF c.all THEN ParametersOf(q) ELSE FunctionOf((ToSet(ParamsOf(q)) \cap Marketed) \ {Unsaid})
<1> DEFINE s == SanitizeUrl(q)
           V == Parameters(c, q)
           x == IF c.all THEN s ELSE QueryOf(Among(V, Marketed), InQuery)
<1>1. q \in Text
  BY ParamsAre
<1>2. ParseQuery(s) = ParseQuery(q) /\ Parameters(c, s) = V
  BY <1>1, ParseSanitized, KeptSanitized
<1>3. V \in Seq(BarePair) /\ ToSet(V) = ToSet(ParamsOf(q)) /\ Apart(V, KeyOf)
  BY ParametersIn
<1>4. Among(V, OfMarketing(V)) = Among(V, Marketed)
  BY <1>3, OursAre
<1>5. Skipped(c, s) = IF x # <<>> THEN {x} ELSE {}
  BY <1>2, <1>4 DEF Skipped
<1>6. OrEmpty(Skipped(c, s)) = x
  BY <1>5, OrEmptyIs
<1>7. CASE c.all
  <2>1. ParametersOf(s) = ParametersOf(q)
    BY <1>2, ParametersAre
  <2> QED
    BY <1>6, <1>7, <2>1
<1>8. CASE ~ c.all
  <2> DEFINE B == Among(V, Marketed)
  <2>1. B \in Seq(BarePair) /\ Apart(B, KeyOf) /\ ToSet(B) = ToSet(ParamsOf(q)) \cap Marketed
    BY <1>3, AmongIn, AmongApart
  <2> HIDE DEF B
  <2>2. ParametersOf(QueryOf(B, InQuery)) = FunctionOf(ToSet(B) \ {Unsaid})
    BY <2>1, WrittenQuery
  <2>3. x = QueryOf(B, InQuery)
    BY <1>8 DEF B
  <2> HIDE DEF x
  <2> QED
    BY <1>6, <1>8, <2>1, <2>2, <2>3
<1> QED
  BY <1>7, <1>8

LEMMA NothingLost ==
  ASSUME NEW c, c.pass = TRUE, NEW t \in Text, KnownQuery(OfQuery(t))
  PROVE  Said(ParametersOf(OfQuery(t))) =
           Said(Together(ParametersOf(CutAt(FromConfig(c, t).path_and_query, "?")[2]),
                         ParametersOf(OrEmpty(FromConfig(c, t).skipped))))
<1> DEFINE q == OfQuery(t)
           S == ToSet(ParamsOf(q))
           r == FromConfig(c, t).path_and_query
           skipped == FromConfig(c, t).skipped
           kept == CutAt(r, "?")[2]
<1>1. /\ S \subseteq Pairs /\ Functional(S) /\ ParametersOf(q) = FunctionOf(S) /\ q \in Text
  BY ParamsAre
<1>2. kept = IF Rewrites(c, OfPath(t)) THEN Kept(c, q) ELSE SanitizeUrl(q)
  BY RewrittenCut
<1>3. skipped = IF Rewrites(c, OfPath(t)) THEN Skipped(c, SanitizeUrl(q)) ELSE {}
  BY RewrittenIs
<1>4. ParametersOf(SanitizeUrl(q)) = ParametersOf(q)
  BY <1>1, ParseSanitized, ParametersAre
<1>5. ParametersOf(<<>>) = FunctionOf({})
  BY EmptyKnown
<1>k. /\ c.all => Kept(c, q) = <<>>
      /\ ~ c.all => Kept(c, q) = QueryOf(Among(Parameters(c, q), Unmarketed), InQuery)
  BY KeptIn
<1>v. /\ Parameters(c, q) \in Seq(BarePair) /\ Apart(Parameters(c, q), KeyOf) /\ ToSet(Parameters(c, q)) = S
      /\ S \subseteq BarePair
  <2>1. Parameters(c, q) \in Seq(BarePair) /\ Apart(Parameters(c, q), KeyOf) /\ ToSet(Parameters(c, q)) = S
    BY ParametersIn
  <2> QED
    BY <2>1, ToSetIn
<1>s. ParametersOf(OrEmpty(Skipped(c, SanitizeUrl(q)))) =
        IF c.all THEN ParametersOf(q) ELSE FunctionOf((S \cap Marketed) \ {Unsaid})
  BY SkippedIs
<1> HIDE DEF q, S, kept, skipped
<1>6. CASE ~ Rewrites(c, OfPath(t))
  <2>1. ParametersOf(kept) = FunctionOf(S)
    BY <1>1, <1>2, <1>4, <1>6
  <2>2. OrEmpty(skipped) = <<>>
    BY <1>3, <1>6 DEF OrEmpty
  <2>3. Together(FunctionOf(S), FunctionOf({})) = FunctionOf(S \cup {})
    <3>1. S \cup {} = S
      OBVIOUS
    <3> QED
      BY <1>1, <3>1, TogetherIs
  <2>4. S \cup {} = S
    OBVIOUS
  <2> QED
    BY <1>1, <1>5, <2>1, <2>2, <2>3, <2>4 DEF q, kept, skipped
<1>7. CASE Rewrites(c, OfPath(t)) /\ c.all
  <2>1. ParametersOf(kept) = FunctionOf({})
    BY <1>2, <1>5, <1>7, <1>k
  <2>2. ParametersOf(OrEmpty(skipped)) = FunctionOf(S)
    BY <1>1, <1>3, <1>7, <1>s
  <2>3. Together(FunctionOf({}), FunctionOf(S)) = FunctionOf({} \cup S)
    <3>1. {} \cup S = S
      OBVIOUS
    <3> QED
      BY <1>1, <3>1, TogetherIs
  <2>4. {} \cup S = S
    OBVIOUS
  <2> QED
    BY <1>1, <2>1, <2>2, <2>3, <2>4 DEF q, kept, skipped
<1>8. CASE Rewrites(c, OfPath(t)) /\ ~ c.all
  <2> DEFINE A == Among(Parameters(c, q), Unmarketed)
             K == (S \cap Unmarketed) \ {Unsaid}
             O == (S \cap Marketed) \ {Unsaid}
  <2>1. A \in Seq(BarePair) /\ Apart(A, KeyOf) /\ ToSet(A) = S \cap Unmarketed
    BY <1>v, AmongIn, AmongApart
  <2>2. kept = QueryOf(A, InQuery)
    BY <1>2, <1>8, <1>k
  <2> HIDE DEF A
  <2>3. ParametersOf(QueryOf(A, InQuery)) = FunctionOf(ToSet(A) \ {Unsaid})
    BY <2>1, WrittenQuery
  <2>4. ParametersOf(kept) = FunctionOf(K)
    BY <2>1, <2>2, <2>3
  <2>5. ParametersOf(OrEmpty(skipped)) = FunctionOf(O)
    BY <1>3, <1>8, <1>s
  <2>6. K \cup O = S \ {Unsaid}
    BY <1>v DEF Marketed, Unmarketed
  <2>7. S \ {Unsaid} \subseteq Pairs /\ Functional(S \ {Unsaid})
    BY <1>1, FunctionalPart
  <2> HIDE DEF K, O
  <2>8. Together(FunctionOf(K), FunctionOf(O)) = FunctionOf(S \ {Unsaid})
    <3>1. K \cup O \subseteq Pairs /\ Functional(K \cup O)
      BY <2>6, <2>7
    <3>2. Together(FunctionOf(K), FunctionOf(O)) = FunctionOf(K \cup O)
      BY <3>1, TogetherIs
    <3> QED
      BY <2>6, <3>2
  <2>9. Said(FunctionOf(S \ {Unsaid})) = FunctionOf((S \ {Unsaid}) \ {Unsaid})
    BY <2>7, SaidIs
  <2>10. (S \ {Unsaid}) \ {Unsaid} = S \ {Unsaid}
    OBVIOUS
  <2>11. Said(FunctionOf(S)) = FunctionOf(S \ {Unsaid})
    BY <1>1, SaidIs
  <2> QED
    BY <1>1, <2>4, <2>5, <2>8, <2>9, <2>10, <2>11 DEF q, kept, skipped
<1> QED
  BY <1>6, <1>7, <1>8

----------------------------------------------------------------------------
(* Rewritten again, it stays.                                              *)
LEMMA AllSaidIs ==
  ASSUME NEW q, KnownQuery(q)
  PROVE  AllSaid(q) <=> Unsaid \notin ToSet(ParamsOf(q))
<1> DEFINE S == ToSet(ParamsOf(q))
<1>1. ParametersOf(q) = FunctionOf(S) /\ S \subseteq Pairs /\ Functional(S)
  BY ParamsAre
<1> HIDE DEF S
<1>2. Said(FunctionOf(S)) = FunctionOf(S \ {Unsaid})
  BY <1>1, SaidIs
<1>3. S \ {Unsaid} \subseteq Pairs /\ Functional(S \ {Unsaid})
  BY <1>1, FunctionalPart
<1>4. FunctionOf(S \ {Unsaid}) = FunctionOf(S) <=> S \ {Unsaid} = S
  BY <1>1, <1>3, SameFunction
<1>5. AllSaid(q) <=> S \ {Unsaid} = S
  BY <1>1, <1>2, <1>4 DEF AllSaid
<1> QED
  BY <1>5 DEF S

LEMMA SpokenStays ==
  ASSUME NEW c, NEW q, KnownQuery(q), c.order \/ Unsaid \notin ToSet(ParamsOf(q)), NEW S
  PROVE  /\ QueryOf(Among(Parameters(c, q), S), InQuery)
              = QueryOf(Among(Among(Parameters(c, q), S), Spoken), InQuery)
         /\ c.order => Sorted(Among(Among(Parameters(c, q), S), Spoken)) = Among(Among(Parameters(c, q), S), Spoken)
<1> DEFINE V == Parameters(c, q)
           A == Among(V, S)
<1>1. V \in Seq(BarePair) /\ ToSet(V) = ToSet(ParamsOf(q)) /\ V = IF c.order THEN Sorted(ParamsOf(q)) ELSE ParamsOf(q)
  BY ParametersIn
<1>2. Known(ParamsOf(q))
  BY ParamsAre
<1> HIDE DEF V
<1>3. A \in Seq(BarePair) /\ ToSet(A) = ToSet(V) \cap S /\ Among(A, Spoken) = Among(V, S \cap Spoken)
  BY <1>1, AmongIn, AmongTwice
<1>4. CASE c.order
  <2>1. V = Sorted(ParamsOf(q))
    BY <1>1, <1>4
  <2>2. OnlyFirst(A, Unsaid) /\ Sorted(Among(V, S \cap Spoken)) = Among(V, S \cap Spoken)
    BY <1>2, <2>1, SortedAmong
  <2> HIDE DEF A
  <2>3. QueryOf(A, InQuery) = QueryOf(Among(A, Spoken), InQuery)
    BY <1>3, <2>2, QuerySpoken DEF OnlyFirst
  <2> QED
    BY <1>3, <2>2, <2>3 DEF A, V
<1>5. CASE ~ c.order
  <2>1. Unsaid \notin ToSet(A)
    BY <1>1, <1>3, <1>5
  <2> HIDE DEF A
  <2>2. ToSet(A) \subseteq Spoken
    BY <1>3, <2>1, ToSetIn DEF Spoken
  <2>3. Among(A, Spoken) = A
    BY <1>3, <2>2, AmongAll
  <2> QED
    BY <1>5, <2>3 DEF A, V
<1> QED
  BY <1>4, <1>5

LEMMA KeptTwice ==
  ASSUME NEW c, NEW q, KnownQuery(q), c.order \/ Unsaid \notin ToSet(ParamsOf(q))
  PROVE  Kept(c, Kept(c, q)) = Kept(c, q)
<1>1. CASE c.all
  BY <1>1 DEF Kept
<1>2. CASE ~ c.all
  <2> DEFINE V == Parameters(c, q)
             A == Among(V, Unmarketed)
             B == Among(A, Spoken)
             K == QueryOf(A, InQuery)
  <2>1. V \in Seq(BarePair) /\ Apart(V, KeyOf)
    BY ParametersIn
  <2>2. A \in Seq(BarePair) /\ Apart(A, KeyOf)
    BY <2>1, AmongIn, AmongApart
  <2>3. Kept(c, q) = K
    BY <1>2, KeptIn
  <2>4. K = QueryOf(B, InQuery) /\ (c.order => Sorted(B) = B)
    BY SpokenStays
  <2>a. B = Among(V, Unmarketed \cap Spoken) /\ B \in Seq(BarePair)
    BY <2>1, <2>2, AmongTwice, AmongIn
  <2>b. Among(B, Unmarketed) = Among(V, (Unmarketed \cap Spoken) \cap Unmarketed)
    <3>1. Among(Among(V, Unmarketed \cap Spoken), Unmarketed) = Among(V, (Unmarketed \cap Spoken) \cap Unmarketed)
      BY <2>1, AmongTwice
    <3> QED
      BY <2>a, <3>1
  <2>c. (Unmarketed \cap Spoken) \cap Unmarketed = Unmarketed \cap Spoken
    OBVIOUS
  <2> HIDE DEF V, A
  <2>5. ParamsOf(K) = B
    BY <2>2, WrittenQuery
  <2> HIDE DEF B
  <2>6. Parameters(c, K) = B
    <3>1. Parameters(c, K) = IF c.order THEN Sorted(ParamsOf(K)) ELSE ParamsOf(K)
      BY DEF Parameters, ParamsOf
    <3> QED
      BY <2>4, <2>5, <3>1
  <2>7. Ours(B) = B
    BY <2>a, <2>b, <2>c, OursAre
  <2>8. Kept(c, K) = QueryOf(B, InQuery)
    BY <1>2, <2>6, <2>7 DEF Kept
  <2> QED
    BY <2>3, <2>4, <2>8
<1> QED
  BY <1>1, <1>2

LEMMA RewrittenTwice ==
  ASSUME NEW c, c.case = FALSE, NEW t \in Text, KnownQuery(OfQuery(t)),
         c.order \/ Unsaid \notin ToSet(ParamsOf(OfQuery(t)))
  PROVE  FromConfig(c, FromConfig(c, t).matching).matching = FromConfig(c, t).matching
<1> DEFINE r == FromConfig(c, t).path_and_query
           a == OfPath(t)
<1>1. /\ r \in Text /\ SanitizeUrl(r) = r
      /\ CutAt(r, "?") = <<a, IF Rewrites(c, a) THEN Kept(c, OfQuery(t)) ELSE SanitizeUrl(OfQuery(t))>>
  BY RewrittenCut
<1>2. /\ r = IF Rewrites(c, a) THEN WithQuery(a, Kept(c, OfQuery(t))) ELSE SanitizeUrl(t)
      /\ FromConfig(c, t).matching = Folded(r, c.case)
      /\ a \in Path /\ a \in Seq(Char \ InUrl)
  BY RewrittenIs
<1>3. FromConfig(c, t).matching = r
  BY <1>2 DEF Folded
<1> HIDE DEF r, a
<1>4. SanitizeUrl(a) = a
  <2>1. a \in Text
    BY <1>2 DEF Path, Text
  <2> QED
    BY <1>2, <2>1, SanitizedIs
<1>5. OfPath(r) = a /\ OfQuery(r) = IF Rewrites(c, a) THEN Kept(c, OfQuery(t)) ELSE SanitizeUrl(OfQuery(t))
  BY <1>1, <1>4 DEF OfPath, OfQuery
<1>6. /\ FromConfig(c, r).path_and_query =
           IF Rewrites(c, OfPath(r)) THEN WithQuery(OfPath(r), Kept(c, OfQuery(r))) ELSE SanitizeUrl(r)
      /\ FromConfig(c, r).matching = Folded(FromConfig(c, r).path_and_query, c.case)
  BY <1>1, RewrittenIs
<1>7. Kept(c, Kept(c, OfQuery(t))) = Kept(c, OfQuery(t))
  BY KeptTwice
<1>8. FromConfig(c, r).path_and_query = r
  BY <1>1, <1>2, <1>5, <1>6, <1>7
<1>9. FromConfig(c, r).matching = r
  BY <1>6, <1>8 DEF Folded
<1> QED
  BY <1>3, <1>9

----------------------------------------------------------------------------
(* The texts of a rule and of a request.                                   *)
KeptOf(c, q) == Among(Parameters(c, q), Unmarketed)
ParamsKept(q) == Said(Without(ParametersOf(q), Marketing))

LEMMA ParamsKeptAre ==
  ASSUME NEW q, KnownQuery(q)
  PROVE  ParamsKept(q) = FunctionOf((ToSet(ParamsOf(q)) \cap Unmarketed) \ {Unsaid})
<1> DEFINE S == ToSet(ParamsOf(q))
           R == {p \in S : p[1] \notin Marketing}
<1>1. ParametersOf(q) = FunctionOf(S) /\ S \subseteq Pairs /\ Functional(S)
  BY ParamsAre
<1>2. S \subseteq BarePair
  <2>1. ParamsOf(q) \in Seq(BarePair)
    BY ParamsAre
  <2> QED
    BY <2>1, ToSetIn
<1> HIDE DEF S
<1>3. R = S \cap Unmarketed
  BY <1>2 DEF Unmarketed
<1>4. Without(FunctionOf(S), Marketing) = FunctionOf(R)
  BY <1>1, WithoutIs
<1>5. R \subseteq Pairs /\ Functional(R)
  BY <1>1, FunctionalPart
<1> HIDE DEF R
<1>6. Said(FunctionOf(R)) = FunctionOf(R \ {Unsaid})
  BY <1>5, SaidIs
<1> QED
  BY <1>1, <1>3, <1>4, <1>6 DEF ParamsKept, S

LEMMA KeptOfIs ==
  ASSUME NEW c, NEW q, KnownQuery(q)
  PROVE  /\ KeptOf(c, q) \in Seq(BarePair) /\ Apart(KeptOf(c, q), KeyOf)
         /\ q \in Seq(Lowest) => KeptOf(c, q) \in Seq(LowPair)
         /\ ToSet(KeptOf(c, q)) = ToSet(ParamsOf(q)) \cap Unmarketed
         /\ ToSet(Among(KeptOf(c, q), Spoken)) = (ToSet(ParamsOf(q)) \cap Unmarketed) \ {Unsaid}
<1> DEFINE V == Parameters(c, q)
<1>1. V \in Seq(BarePair) /\ ToSet(V) = ToSet(ParamsOf(q)) /\ Apart(V, KeyOf) /\ (q \in Seq(Lowest) => V \in Seq(LowPair))
  BY ParametersIn
<1> HIDE DEF V
<1>2. KeptOf(c, q) = Among(V, Unmarketed)
  BY DEF KeptOf, V
<1>3. /\ Among(V, Unmarketed) \in Seq(BarePair) /\ ToSet(Among(V, Unmarketed)) = ToSet(V) \cap Unmarketed
      /\ Apart(Among(V, Unmarketed), KeyOf)
      /\ q \in Seq(Lowest) => Among(V, Unmarketed) \in Seq(LowPair)
  BY <1>1, AmongIn, AmongApart
<1>4. KeptOf(c, q) \in Seq(BarePair) /\ Apart(KeptOf(c, q), KeyOf)
  BY <1>2, <1>3
<1>5. ToSet(Among(KeptOf(c, q), Spoken)) = ToSet(KeptOf(c, q)) \ {Unsaid}
  BY <1>4, WrittenQuery
<1> QED
  BY <1>1, <1>2, <1>3, <1>4, <1>5

(* Equal texts have the same parameters, and the other way round.          *)
LEMMA TextsMeet ==
  ASSUME NEW c, NEW q, NEW r, KnownQuery(q), KnownQuery(r),
         c.order \/ Unsaid \notin ToSet(ParamsOf(q)),
         c.order \/ Unsaid \notin ToSet(ParamsOf(r))
  PROVE  QueryOf(KeptOf(c, q), InQuery) = QueryOf(KeptOf(c, r), InQuery) <=>
           \/ c.order /\ ParamsKept(q) = ParamsKept(r)
           \/ ~ c.order /\ Ours(ParamsOf(q)) = Ours(ParamsOf(r))
<1> DEFINE A == KeptOf(c, q)
           B == KeptOf(c, r)
           S == (ToSet(ParamsOf(q)) \cap Unmarketed) \ {Unsaid}
           R == (ToSet(ParamsOf(r)) \cap Unmarketed) \ {Unsaid}
<1>1. /\ A \in Seq(BarePair) /\ Apart(A, KeyOf) /\ ToSet(Among(A, Spoken)) = S
      /\ B \in Seq(BarePair) /\ Apart(B, KeyOf) /\ ToSet(Among(B, Spoken)) = R
      /\ ToSet(A) = ToSet(ParamsOf(q)) \cap Unmarketed /\ ToSet(B) = ToSet(ParamsOf(r)) \cap Unmarketed
  BY KeptOfIs
<1>2. /\ QueryOf(A, InQuery) = QueryOf(Among(A, Spoken), InQuery) /\ (c.order => Sorted(Among(A, Spoken)) = Among(A, Spoken))
      /\ QueryOf(B, InQuery) = QueryOf(Among(B, Spoken), InQuery) /\ (c.order => Sorted(Among(B, Spoken)) = Among(B, Spoken))
  BY SpokenStays DEF KeptOf
<1>3. /\ S \subseteq Pairs /\ Functional(S) /\ R \subseteq Pairs /\ Functional(R)
  <2>1. /\ ToSet(ParamsOf(q)) \subseteq Pairs /\ Functional(ToSet(ParamsOf(q)))
        /\ ToSet(ParamsOf(r)) \subseteq Pairs /\ Functional(ToSet(ParamsOf(r)))
    BY ParamsAre
  <2> QED
    BY <2>1, FunctionalPart
<1>4. ParamsKept(q) = FunctionOf(S) /\ ParamsKept(r) = FunctionOf(R)
  BY ParamsKeptAre
<1>p. /\ Ours(ParamsOf(q)) = Among(ParamsOf(q), Unmarketed) /\ Ours(ParamsOf(r)) = Among(ParamsOf(r), Unmarketed)
  <2>1. ParamsOf(q) \in Seq(BarePair) /\ ParamsOf(r) \in Seq(BarePair)
    BY ParamsAre
  <2> QED
    BY <2>1, OursAre
<1>v. ~ c.order => A = Among(ParamsOf(q), Unmarketed) /\ B = Among(ParamsOf(r), Unmarketed)
  BY ParametersIn DEF KeptOf
<1>n. ~ c.order => Unsaid \notin ToSet(A) /\ Unsaid \notin ToSet(B)
  BY <1>1
<1> HIDE DEF A, B, S, R
<1>5. QueryOf(A, InQuery) = QueryOf(B, InQuery) <=> Among(A, Spoken) = Among(B, Spoken)
  <2>1. ParamsOf(QueryOf(A, InQuery)) = Among(A, Spoken) /\ ParamsOf(QueryOf(B, InQuery)) = Among(B, Spoken)
    BY <1>1, WrittenQuery
  <2> QED
    BY <1>2, <2>1
<1>6. CASE c.order
  <2>1. Among(A, Spoken) = Among(B, Spoken) <=> S = R
    <3>1. ToSet(Among(A, Spoken)) = ToSet(Among(B, Spoken)) => Sorted(Among(A, Spoken)) = Sorted(Among(B, Spoken))
      BY SortedBySet
    <3> QED
      BY <1>1, <1>2, <1>6, <3>1
  <2>2. FunctionOf(S) = FunctionOf(R) <=> S = R
    BY <1>3, SameFunction
  <2> QED
    BY <1>4, <1>5, <1>6, <2>1, <2>2 DEF A, B
<1>7. CASE ~ c.order
  <2>1. ToSet(A) \subseteq Spoken /\ ToSet(B) \subseteq Spoken
    BY <1>1, <1>7, <1>n, ToSetIn DEF Spoken
  <2>2. Among(A, Spoken) = A /\ Among(B, Spoken) = B
    BY <1>1, <2>1, AmongAll
  <2> QED
    BY <1>5, <1>7, <1>p, <1>v, <2>2 DEF A, B
<1> QED
  BY <1>6, <1>7

(* The query of a rule, as it is compared.                                 *)
RuleQuery(c, text) ==
  Escaped(IF c.all THEN <<>> ELSE IF c.order THEN SortedQuery(text) ELSE text, InQuery)

LEMMA RuleQueryIs ==
  ASSUME NEW c, NEW text, KnownQuery(text), Marketing \cap DOMAIN ParametersOf(text) = {},
         c.all \/ AllSaid(text),
         c.order \/ QueryOf(ParamsOf(text), InQuery) = text
  PROVE  RuleQuery(c, text) = (IF c.all THEN <<>> ELSE QueryOf(KeptOf(c, text), InQuery)) /\ RuleQuery(c, text) \in Text
<1> DEFINE E == ParamsOf(text)
           W == Parameters(c, text)
<1>1. /\ E \in Seq(BarePair) /\ Known(E) /\ ParametersOf(text) = FunctionOf(ToSet(E)) /\ Functional(ToSet(E)) /\ text \in Text
  BY ParamsAre
<1>2. W \in Seq(BarePair) /\ ToSet(W) = ToSet(E) /\ W = IF c.order THEN Sorted(E) ELSE E
  BY ParametersIn
<1>3. ToSet(E) \subseteq BarePair
  BY <1>1, ToSetIn
<1>4. ToSet(E) \subseteq Unmarketed
  <2>1. DOMAIN FunctionOf(ToSet(E)) = {p[1] : p \in ToSet(E)}
    BY <1>1, FunctionIs
  <2>2. \A p \in ToSet(E) : p[1] \notin Marketing
    BY <1>1, <2>1
  <2> QED
    BY <1>3, <2>2 DEF Unmarketed
<1> HIDE DEF E, W
<1>5. KeptOf(c, text) = W
  <2>1. Among(W, Unmarketed) = W
    BY <1>2, <1>4, AmongAll
  <2> QED
    BY <2>1 DEF KeptOf, W
<1>6. CASE c.all
  <2>1. RuleQuery(c, text) = Escaped(<<>>, InQuery)
    BY <1>6 DEF RuleQuery
  <2>2. Escaped(<<>>, InQuery) = <<>> /\ <<>> \in Text
    BY DEF Escaped, Text
  <2> QED
    BY <1>6, <2>1, <2>2
<1>7. CASE ~ c.all /\ c.order
  <2>1. RuleQuery(c, text) = Escaped(SortedQuery(text), InQuery)
    BY <1>7 DEF RuleQuery
  <2>2. SortedQuery(text) = QueryOf(W, InSortedQuery)
    <3>1. SortedQuery(text) = Front(Closed(W))
      BY <1>2, <1>7 DEF SortedQuery, E, ParamsOf
    <3>2. Unsaid \notin ToSet(W)
      BY <1>2, <1>7, AllSaidIs DEF E
    <3> QED
      BY <1>2, <3>1, <3>2, ClosedIs
  <2>3. Escaped(QueryOf(W, InSortedQuery), InQuery) = QueryOf(W, InQuery)
    BY <1>2, QueryEscaped
  <2>4. QueryOf(W, InQuery) \in Text
    BY <1>2, QueryPlain
  <2> QED
    BY <1>5, <1>7, <2>1, <2>2, <2>3, <2>4
<1>8. CASE ~ c.all /\ ~ c.order
  <2>1. RuleQuery(c, text) = Escaped(text, InQuery)
    BY <1>8 DEF RuleQuery
  <2>2. W = E /\ QueryOf(E, InQuery) = text
    BY <1>2, <1>8 DEF E
  <2>3. text \in Seq(Char \ InQuery)
    BY <1>2, <2>2, QueryPlain
  <2>4. InQuery \subseteq Escapable
    BY DEF InQuery, Escapable
  <2>5. Escaped(text, InQuery) = text
    BY <1>1, <2>3, <2>4, EscapedAway
  <2> QED
    BY <1>1, <1>5, <1>8, <2>1, <2>2, <2>5
<1> QED
  BY <1>6, <1>7, <1>8

LEMMA QueriesMeet ==
  ASSUME NEW c, c.case \in BOOLEAN, NEW q, NEW text, KnownQuery(q), KnownQuery(text),
         Marketing \cap DOMAIN ParametersOf(text) = {},
         c.case => Lower(text) = text /\ Lower(q) = q,
         c.all \/ AllSaid(text),
         c.order \/ (QueryOf(ParamsOf(text), InQuery) = text /\ AllSaid(q))
  PROVE  Folded(Kept(c, q), c.case) = Folded(RuleQuery(c, text), c.case) <=>
           \/ c.all
           \/ c.order /\ ParamsKept(q) = ParamsKept(text)
           \/ ~ c.order /\ Ours(ParamsOf(q)) = Ours(ParamsOf(text))
<1>1. RuleQuery(c, text) = (IF c.all THEN <<>> ELSE QueryOf(KeptOf(c, text), InQuery))
  BY RuleQueryIs
<1>2. Kept(c, q) = IF c.all THEN <<>> ELSE QueryOf(KeptOf(c, q), InQuery)
  BY KeptIn DEF KeptOf
<1>3. CASE c.all
  BY <1>1, <1>2, <1>3
<1>4. CASE ~ c.all
  <2> DEFINE K == QueryOf(KeptOf(c, q), InQuery)
             R == QueryOf(KeptOf(c, text), InQuery)
  <2>1. /\ KeptOf(c, q) \in Seq(BarePair) /\ (q \in Seq(Lowest) => KeptOf(c, q) \in Seq(LowPair))
        /\ KeptOf(c, text) \in Seq(BarePair) /\ (text \in Seq(Lowest) => KeptOf(c, text) \in Seq(LowPair))
    BY KeptOfIs
  <2>2. K \in Text /\ R \in Text
    BY <2>1, QueryPlain
  <2>3. Folded(K, c.case) = K /\ Folded(R, c.case) = R
    <3>1. CASE c.case = FALSE
      BY <3>1 DEF Folded
    <3>2. CASE c.case = TRUE
      <4>1. q \in Text /\ text \in Text
        BY ParamsAre
      <4>2. q \in Seq(Lowest) /\ text \in Seq(Lowest)
        BY <3>2, <4>1, LoweredIs
      <4>3. K \in Seq(Lowest) /\ R \in Seq(Lowest)
        BY <2>1, <4>2, QueryLow
      <4> HIDE DEF K, R
      <4>4. Lower(K) = K /\ Lower(R) = R
        BY <2>2, <4>3, LoweredIs
      <4> QED
        BY <3>2, <4>4 DEF Folded
    <3> QED
      BY <3>1, <3>2
  <2>4. /\ c.order \/ Unsaid \notin ToSet(ParamsOf(q))
        /\ c.order \/ Unsaid \notin ToSet(ParamsOf(text))
    BY <1>4, AllSaidIs
  <2>5. K = R <=> \/ c.order /\ ParamsKept(q) = ParamsKept(text)
                  \/ ~ c.order /\ Ours(ParamsOf(q)) = Ours(ParamsOf(text))
    BY <2>4, TextsMeet
  <2> HIDE DEF K, R
  <2>6. Kept(c, q) = K /\ RuleQuery(c, text) = R
    BY <1>1, <1>2, <1>4 DEF K, R
  <2> QED
    BY <1>4, <2>3, <2>5, <2>6
<1> QED
  BY <1>3, <1>4

LEMMA WrittenIs ==
  ASSUME NEW s \in Written, NothingEscaped(OrEmpty(s.query))
  PROVE  s.path \in Path /\ KnownQuery(OrEmpty(s.query))
<1>1. /\ s.path \in Path
      /\ s.query = {} \/ \E t \in s.query : s.query = {t} /\ t \in Text
  BY RequestsAssumption DEF Path, Text
<1>2. CASE s.query = {}
  <2>1. OrEmpty(s.query) = <<>>
    BY <1>2 DEF OrEmpty
  <2> QED
    BY <1>1, <2>1, EmptyKnown
<1>3. CASE \E t \in s.query : s.query = {t} /\ t \in Text
  <2>1. PICK t \in s.query : s.query = {t} /\ t \in Text
    BY <1>3
  <2>2. OrEmpty(s.query) = t
    BY <2>1 DEF OrEmpty
  <2>3. t \in Seq(Unescaped_)
    BY <2>1, <2>2, NothingIsEscaped
  <2>4. KeysOf(ParseQuery(t)) \subseteq ToSet(KeyOrder)
    BY <2>1, KeyOrderAssumption
  <2> QED
    BY <1>1, <2>2, <2>3, <2>4 DEF KnownQuery
<1> QED
  BY <1>1, <1>2, <1>3

LEMMA RuleMeets ==
  ASSUME NEW c, c.case \in BOOLEAN, NEW t \in Text, NEW s, s.path \in Path,
         NEW text, text = OrEmpty(s.query), KnownQuery(text), KnownQuery(OfQuery(t)), Rewrites(c, OfPath(t)),
         Marketing \cap DOMAIN ParametersOf(text) = {},
         c.all \/ AllSaid(text),
         c.order \/ QueryOf(ParamsOf(text), InQuery) = text
  PROVE  FromConfig(c, t).matching = RulePathAndQuery(c, s) <=>
           /\ Folded(OfPath(t), c.case) = Folded(SanitizeUrl(s.path), c.case)
           /\ Folded(Kept(c, OfQuery(t)), c.case) = Folded(RuleQuery(c, text), c.case)
<1> DEFINE a == OfPath(t)
           b == SanitizeUrl(s.path)
           k == Kept(c, OfQuery(t))
           r == RuleQuery(c, text)
           i == c.case
<1>1. FromConfig(c, t).matching = Folded(WithQuery(a, k), i) /\ a \in Path
  BY RewrittenIs
<1>2. k \in Text /\ r \in Text /\ i \in BOOLEAN
  BY KeptIn, RuleQueryIs
<1>3. b \in Path
  <2>1. s.path \in Text
    BY DEF Path, Text
  <2> QED
    BY <2>1, SanitizedIs
<1>4. RulePathAndQuery(c, s) = Folded(WithQuery(b, r), i)
  BY Zenon DEF RulePathAndQuery, RuleQuery
<1> HIDE DEF a, b, k, r, i
<1>5. /\ Folded(WithQuery(a, k), i) = WithQuery(Folded(a, i), Folded(k, i))
      /\ Folded(WithQuery(b, r), i) = WithQuery(Folded(b, i), Folded(r, i))
      /\ Folded(a, i) \in Path /\ Folded(k, i) \in Text /\ Folded(b, i) \in Path /\ Folded(r, i) \in Text
  BY <1>1, <1>2, <1>3, FoldedIs
<1>6. WithQuery(Folded(a, i), Folded(k, i)) = WithQuery(Folded(b, i), Folded(r, i)) <=>
        Folded(a, i) = Folded(b, i) /\ Folded(k, i) = Folded(r, i)
  BY <1>5, WithQuerySame
<1> QED
  BY <1>1, <1>4, <1>5, <1>6 DEF a, b, k, r, i

----------------------------------------------------------------------------
(* The texts a request is rewritten to.                                    *)

LEMMA ConfigIs ==
  ASSUME NEW c \in Config
  PROVE  c.case \in BOOLEAN /\ c.pass \in BOOLEAN
<1>1. c \in [marketing : BOOLEAN, all : BOOLEAN, order : BOOLEAN, case : BOOLEAN,
             pass : BOOLEAN, hostCase : BOOLEAN]
  BY RequestsAssumption
<1> QED
  BY <1>1

LEMMA ReceivedIs ==
  ASSUME RequestsInv, NEW c \in config
  PROVE  /\ c \in Config /\ received.text \in Text /\ received.text \in Received
         /\ built.url = FromConfig(c, received.text)
         /\ NothingEscaped(received.text) => KnownQuery(OfQuery(received.text))
<1>1. c \in Config /\ received.text \in Received /\ built.url = FromConfig(c, received.text)
  BY DEF RequestsInv, RebuiltAsIfFirst
<1>2. received.text \in Text
  BY <1>1, RequestsAssumption DEF Text
<1> QED
  BY <1>1, <1>2, ReceivedKnown DEF OfQuery

(* No parameter of a request is lost when the skipped ones are passed on   *)
(* to the target: whatever from_config takes out of the query of whatever  *)
(* request under whatever configuration, it is in the rewritten query or   *)
(* among the skipped parameters, and there with the last value it had.     *)
THEOREM NoneIsLost == RequestsSpec => []NoParameterIsLost
<1>1. RequestsInv => NoParameterIsLost
  <2>1. ASSUME RequestsInv, NEW c \in config, c.pass, NothingEscaped(received.text)
        PROVE  LET was == ParametersOf(CutAt(received.text, "?")[2])
                   kept == ParametersOf(CutAt(built.url.path_and_query, "?")[2])
                   skipped == ParametersOf(OrEmpty(built.url.skipped))
               IN Said(was) = Said(Together(kept, skipped))
    <3>1. /\ c \in Config /\ received.text \in Text /\ KnownQuery(OfQuery(received.text))
          /\ built.url = FromConfig(c, received.text)
      BY <2>1, ReceivedIs
    <3>2. c.pass = TRUE
      BY <2>1, <3>1, ConfigIs
    <3>3. Said(ParametersOf(OfQuery(received.text))) =
            Said(Together(ParametersOf(CutAt(FromConfig(c, received.text).path_and_query, "?")[2]),
                          ParametersOf(OrEmpty(FromConfig(c, received.text).skipped))))
      BY <3>1, <3>2, NothingLost
    <3> QED
      BY <3>1, <3>3, Zenon DEF OfQuery
  <2> QED
    BY <2>1, Zenon DEF NoParameterIsLost
<1> QED
  BY <1>1, RequestsAlways, PTL

(* What a request is rewritten to is not rewritten further: the canonical  *)
(* form the Router compares with, of which the source of a rule is thought *)
(* to be one, is a fixed point of from_config.                             *)
THEOREM RewritingStays == RequestsSpec => []RewritingIsIdempotent
<1>1. RequestsInv => RewritingIsIdempotent
  <2>1. ASSUME RequestsInv, NEW c \in config, ~ c.case, NothingEscaped(received.text),
               c.order \/ AllSaid(CutAt(received.text, "?")[2])
        PROVE  FromConfig(c, built.url.matching).matching = built.url.matching
    <3>1. /\ c \in Config /\ received.text \in Text /\ KnownQuery(OfQuery(received.text))
          /\ built.url = FromConfig(c, received.text)
      BY <2>1, ReceivedIs
    <3>2. c.case = FALSE
      BY <2>1, <3>1, ConfigIs
    <3>3. c.order \/ Unsaid \notin ToSet(ParamsOf(OfQuery(received.text)))
      BY <2>1, <3>1, AllSaidIs DEF OfQuery
    <3>4. FromConfig(c, FromConfig(c, received.text).matching).matching = FromConfig(c, received.text).matching
      BY <3>1, <3>2, <3>3, RewrittenTwice
    <3> QED
      BY <3>1, <3>4
  <2> QED
    BY <2>1, Zenon DEF RewritingIsIdempotent
<1> QED
  BY <1>1, RequestsAlways, PTL

(* With the marketing parameters ignored, the text of a rule, which        *)
(* Rule::path_and_query writes, and that of a request, which from_config   *)
(* writes, are equal exactly if the paths are and the parameters that      *)
(* count are the same, for the sources and requests SameParametersMeet     *)
(* names.                                                                  *)
THEOREM ParametersMeet == RequestsSpec => []SameParametersMeet
<1>1. RequestsInv => SameParametersMeet
  <2>1. ASSUME RequestsInv, NEW c \in config, NEW s \in Written,
               c.marketing \/ c.all, Parses(CutAt(SanitizeUrl(received.text), "?")[1]),
               NothingEscaped(received.text), NothingEscaped(OrEmpty(s.query)),
               Marketing \cap DOMAIN ParametersOf(OrEmpty(s.query)) = {},
               c.case => /\ Lower(OrEmpty(s.query)) = OrEmpty(s.query)
                         /\ Lower(CutAt(received.text, "?")[2]) = CutAt(received.text, "?")[2],
               c.all \/ AllSaid(OrEmpty(s.query)),
               c.order \/ /\ QueryOf(Collected(ParseQuery(OrEmpty(s.query))), InQuery) = OrEmpty(s.query)
                          /\ AllSaid(CutAt(received.text, "?")[2])
        PROVE  built.url.matching = RulePathAndQuery(c, s) <=>
                 /\ Folded(CutAt(SanitizeUrl(received.text), "?")[1], c.case) = Folded(SanitizeUrl(s.path), c.case)
                 /\ \/ c.all
                    \/ c.order /\ Said(Without(ParametersOf(CutAt(received.text, "?")[2]), Marketing))
                                    = Said(Without(ParametersOf(OrEmpty(s.query)), Marketing))
                    \/ ~ c.order /\ Ours(Collected(ParseQuery(CutAt(received.text, "?")[2])))
                                      = Ours(Collected(ParseQuery(OrEmpty(s.query))))
    <3> DEFINE t == received.text
               text == OrEmpty(s.query)
               q == OfQuery(t)
    <3>1. /\ c \in Config /\ t \in Text /\ KnownQuery(q) /\ built.url = FromConfig(c, t)
      BY <2>1, ReceivedIs
    <3>2. c.case \in BOOLEAN
      BY <3>1, ConfigIs
    <3>3. s.path \in Path /\ KnownQuery(text)
      BY <2>1, WrittenIs
    <3>4. CutAt(SanitizeUrl(t), "?")[1] = OfPath(t)
      BY <3>1, SanitizedCut DEF OfPath
    <3>5. Rewrites(c, OfPath(t))
      BY <2>1, <3>4 DEF Rewrites
    <3>6. Marketing \cap DOMAIN ParametersOf(text) = {} /\ (c.case => Lower(text) = text /\ Lower(q) = q)
      BY <2>1 DEF OfQuery
    <3>7. /\ c.all \/ AllSaid(text)
          /\ c.order \/ (QueryOf(ParamsOf(text), InQuery) = text /\ AllSaid(q))
      BY <2>1 DEF OfQuery, ParamsOf
    <3>a. text = OrEmpty(s.query)
      OBVIOUS
    <3> HIDE DEF t, text, q
    <3>8. FromConfig(c, t).matching = RulePathAndQuery(c, s) <=>
            /\ Folded(OfPath(t), c.case) = Folded(SanitizeUrl(s.path), c.case)
            /\ Folded(Kept(c, q), c.case) = Folded(RuleQuery(c, text), c.case)
      BY <3>1, <3>2, <3>3, <3>5, <3>6, <3>7, <3>a, RuleMeets DEF q
    <3>9. Folded(Kept(c, q), c.case) = Folded(RuleQuery(c, text), c.case) <=>
            \/ c.all
            \/ c.order /\ ParamsKept(q) = ParamsKept(text)
            \/ ~ c.order /\ Ours(ParamsOf(q)) = Ours(ParamsOf(text))
      BY <3>1, <3>2, <3>3, <3>6, <3>7, QueriesMeet
    <3>10. FromConfig(c, t).matching = RulePathAndQuery(c, s) <=>
             /\ Folded(CutAt(SanitizeUrl(t), "?")[1], c.case) = Folded(SanitizeUrl(s.path), c.case)
             /\ \/ c.all
                \/ c.order /\ ParamsKept(q) = ParamsKept(text)
                \/ ~ c.order /\ Ours(ParamsOf(q)) = Ours(ParamsOf(text))
      BY <3>4, <3>8, <3>9
    <3> QED
      BY <3>1, <3>10, Zenon DEF ParamsKept, ParamsOf, OfQuery, t, text, q
  <2> QED
    BY <2>1, Zenon DEF SameParametersMeet
<1> QED
  BY <1>1, RequestsAlways, PTL

----------------------------------------------------------------------------
(* The rules that match a request, one by one: their order, and the        *)
(* decision that they come to.                                             *)
LEMMA BeforeIsOrder ==
  ASSUME NEW r \in Rule, NEW s \in Rule
  PROVE  /\ ~ Before(r, r)
         /\ Before(r, s) => ~ Before(s, r)
         /\ \A t \in Rule : Before(r, s) /\ Before(s, t) => Before(r, t)
<1>1. \A t \in Rule : t.rank \in Nat /\ t.id \in Nat
  BY RedirectsAssumption DEF Rule
<1> QED
  BY <1>1 DEF Before

LEMMA LastOfType ==
  ASSUME NEW rules \in SUBSET Rule
  PROVE  LastOf(rules) \in Option(rules)
<1> SUFFICES ASSUME NEW r \in LastOf(rules), NEW s \in LastOf(rules), r # s
             PROVE  FALSE
  BY DEF LastOf, Option
<1>1. Before(r, s) /\ Before(s, r)
  BY DEF LastOf
<1>2. r.rank \in Nat /\ s.rank \in Nat /\ r.id \in Nat /\ s.id \in Nat
  BY RedirectsAssumption DEF LastOf, Rule
<1> QED
  BY <1>1, <1>2 DEF Before

(* Every decision is an answer.                                            *)
LEMMA DecisionType ==
  ASSUME NEW rules \in SUBSET Rule
  PROVE  Decision(rules) \in AnswerType
<1> DEFINE heard == Heard(rules)
           status == DecidedStatus(heard)
           here == {r \in heard : r.target # {} /\ ForResponse(r, The(status))}
<1>1. heard \subseteq rules
  BY DEF Heard
<1>2. status \subseteq Status
  BY <1>1 DEF DecidedStatus, StatusRule, LastOf, Rule
<1>3. DecidedLocation(heard, The(status)) \in Option(Target)
  <2>1. LastOf(here) \in Option(here)
    BY <1>1, LastOfType
  <2>2. \A r \in here : r.target \in Option(Target)
    BY <1>1 DEF Rule
  <2>3. DecidedLocation(heard, The(status)) = UNION {r.target : r \in LastOf(here)}
    BY DEF DecidedLocation, LocationRule
  <2> HIDE DEF here
  <2> QED
    BY <2>1, <2>2, <2>3 DEF Option
<1>4. Forward \in AnswerType
  BY RedirectsAssumption DEF Forward, AnswerType, Option
<1>5. Decision(rules) = IF status = {} THEN Forward
        ELSE [status |-> The(status), location |-> DecidedLocation(heard, The(status))]
  BY DEF Decision
<1>6. status # {} => The(status) \in Status
  BY <1>2 DEF The
<1> HIDE DEF status, heard
<1> QED
  BY <1>3, <1>4, <1>5, <1>6 DEF AnswerType

----------------------------------------------------------------------------
(* One more rule, after the others: what is heard, and what it decides.    *)

LEMMA HeardOneMore ==
  ASSUME NEW S \in SUBSET Rule, NEW r \in Rule,
         \A s \in S : Before(s, r) /\ ~ s.stop
  PROVE  Heard(S \cup {r}) = IF r.reset THEN {r} ELSE Heard(S) \cup {r}
<1>1. \A s \in S : ~ Before(r, s)
  BY BeforeIsOrder
<1>2. ~ Before(r, r)
  BY BeforeIsOrder
<1>3. {x \in S \cup {r} : \A s \in S \cup {r} : s.stop => ~ Before(s, x)} = S \cup {r}
  BY <1>1, <1>2
<1>4. {x \in S : \A s \in S : s.stop => ~ Before(s, x)} = S
  OBVIOUS
<1>5. Heard(S \cup {r})
        = {x \in S \cup {r} : \A s \in S \cup {r} : s.reset => ~ Before(x, s)}
  BY <1>3 DEF Heard
<1>6. Heard(S) = {x \in S : \A s \in S : s.reset => ~ Before(x, s)}
  BY <1>4 DEF Heard
<1>7. CASE r.reset
  BY <1>1, <1>2, <1>5, <1>7
<1>8. CASE ~ r.reset
  BY <1>1, <1>2, <1>5, <1>6, <1>8
<1> QED
  BY <1>7, <1>8

(* What comes after a rule that stops is not heard.                        *)
LEMMA HeardAfterStop ==
  ASSUME NEW S \in SUBSET Rule, NEW r \in S, r.stop,
         \A s \in S : ~ Before(r, s),
         NEW L \in SUBSET Rule, \A x \in L : Before(r, x),
         \A s \in S, x \in L : Before(s, x)
  PROVE  Heard(S \cup L) = Heard(S)
<1>1. \A s \in S, x \in L : ~ Before(x, s)
  BY BeforeIsOrder
<1>2. {x \in S \cup L : \A s \in S \cup L : s.stop => ~ Before(s, x)}
        = {x \in S : \A s \in S : s.stop => ~ Before(s, x)}
  BY <1>1
<1> QED
  BY <1>2 DEF Heard

LEMMA LastOfOneMore ==
  ASSUME NEW S \in SUBSET Rule, NEW r \in Rule, \A s \in S : Before(s, r)
  PROVE  LastOf(S \cup {r}) = {r}
<1>1. \A s \in S : ~ Before(r, s) /\ s # r
  BY BeforeIsOrder
<1> QED
  BY <1>1 DEF LastOf

----------------------------------------------------------------------------

(* The rules that were applied, or are not heard because of one that was.  *)
Past == lucky \ left

(* The rules that were taken come before those that are left, and none of  *)
(* them stops.                                                             *)
OrderInv ==
  /\ \A s \in left : \A r \in matched \ left : Before(r, s)
  /\ \A s \in left : \A r \in Past : ~ r.stop

UpdateInv ==
  /\ update = StatusRule(Heard(Past))
  /\ (\E r \in Heard(Past) : r.status # 0) => update # {}

(* The filters are the targets that are heard, in the order of the rules.  *)
FiltersInv ==
  /\ filters \in Seq(matched)
  /\ \A k \in DOMAIN filters : filters[k] \in Heard(Past) /\ filters[k].target # {}
  /\ \A r \in Heard(Past) : r.target # {} => \E k \in DOMAIN filters : filters[k] = r
  /\ \A j, k \in DOMAIN filters : j < k => Before(filters[j], filters[k])

AnswerInv ==
  /\ matched \subseteq Rule /\ Distinct(matched)
  /\ lucky \subseteq matched /\ left \subseteq matched
  /\ OrderInv /\ UpdateInv /\ FiltersInv
  /\ answer \in Option({Decision(lucky)})
  /\ answer # {} => left = {} /\ ((\E r \in Heard(lucky) : r.status # 0) => update # {})
                              /\ update = StatusRule(Heard(lucky))

----------------------------------------------------------------------------

LEMMA HeardOfNone == Heard({}) = {}
BY DEF Heard

LEMMA AnswerInvInit == AnswerInit => AnswerInv
<1> SUFFICES ASSUME AnswerInit PROVE AnswerInv
  OBVIOUS
<1>1. matched \subseteq Rule /\ Distinct(matched) /\ lucky \subseteq matched
      /\ left = matched /\ Past = {}
  BY AnswerAssumption DEF AnswerInit, Drawn, Past
<1>2. OrderInv
  BY <1>1 DEF OrderInv
<1>3. UpdateInv
  BY <1>1, HeardOfNone DEF AnswerInit, UpdateInv, StatusRule, LastOf
<1>4. FiltersInv
  <2>1. filters = <<>> /\ DOMAIN filters = {}
    BY DEF AnswerInit
  <2> QED
    BY <1>1, <2>1, HeardOfNone DEF FiltersInv
<1>5. answer = {}
  BY DEF AnswerInit
<1> QED
  BY <1>1, <1>2, <1>3, <1>4, <1>5 DEF AnswerInv, Option

LEMMA PassOverKeeps ==
  ASSUME AnswerInv, NEW r \in matched, PassOver(r)
  PROVE  AnswerInv'
<1>1. /\ left' = left \ {r} /\ r \in left /\ r \notin lucky
      /\ matched' = matched /\ lucky' = lucky /\ update' = update
      /\ filters' = filters /\ answer' = answer
      /\ \A s \in left : s = r \/ Before(r, s)
  BY DEF PassOver, IsNext
<1>2. Past' = Past
  BY <1>1 DEF Past
<1>3. OrderInv'
  BY <1>1, <1>2 DEF AnswerInv, OrderInv
<1>4. UpdateInv'
  BY <1>1, <1>2 DEF AnswerInv, UpdateInv
<1>5. FiltersInv'
  BY <1>1, <1>2 DEF AnswerInv, FiltersInv
<1>6. answer = {}
  BY <1>1 DEF AnswerInv
<1> QED
  BY <1>1, <1>3, <1>4, <1>5, <1>6 DEF AnswerInv, Option

(* What is heard after a rule was applied.                                 *)
LEMMA HeardAfterApply ==
  ASSUME AnswerInv, NEW r \in matched, Apply(r)
  PROVE  /\ \A s \in Past : Before(s, r)
         /\ Heard(Past)' = IF r.reset THEN {r} ELSE Heard(Past) \cup {r}
<1>1. /\ left' = (IF r.stop THEN {} ELSE left \ {r})
      /\ r \in left /\ r \in lucky /\ lucky' = lucky
      /\ \A s \in left : s = r \/ Before(r, s)
  BY DEF Apply, IsNext
<1>2. /\ lucky \subseteq Rule /\ Past \subseteq Rule /\ r \in Rule
      /\ \A s \in Past : Before(s, r) /\ ~ s.stop
  BY <1>1 DEF AnswerInv, OrderInv, Past
<1>3. Heard(Past \cup {r}) = IF r.reset THEN {r} ELSE Heard(Past) \cup {r}
  BY <1>2, HeardOneMore
<1>4. CASE ~ r.stop
  <2>1. Past' = Past \cup {r}
    BY <1>1, <1>4 DEF Past
  <2>2. Heard(Past)' = Heard(Past \cup {r})
    BY <2>1 DEF Heard
  <2> QED
    BY <1>2, <1>3, <2>2
<1>5. CASE r.stop
  <2> DEFINE S == Past \cup {r}
             L == (lucky \cap left) \ {r}
  <2>1. Past' = S \cup L
    BY <1>1, <1>5 DEF Past
  <2>2. S \in SUBSET Rule /\ r \in S /\ L \in SUBSET Rule
    BY <1>2
  <2>3. \A s \in S : ~ Before(r, s)
    BY <1>2, <2>2, BeforeIsOrder
  <2>4. \A x \in L : Before(r, x)
    BY <1>1
  <2>5. \A s \in S, x \in L : Before(s, x)
    BY <1>2, <2>2, <2>4, BeforeIsOrder
  <2> HIDE DEF S, L
  <2>6. Heard(S \cup L) = Heard(S)
    BY <1>5, <2>2, <2>3, <2>4, <2>5, HeardAfterStop
  <2>7. Heard(Past)' = Heard(S \cup L)
    BY <2>1 DEF Heard
  <2> QED
    BY <1>2, <1>3, <2>6, <2>7 DEF S
<1> QED
  BY <1>4, <1>5

LEMMA ApplyKeeps ==
  ASSUME AnswerInv, NEW r \in matched, Apply(r)
  PROVE  AnswerInv'
<1> DEFINE old == Heard(Past)
           new == IF r.reset THEN {r} ELSE old \cup {r}
<1>1. /\ left' = (IF r.stop THEN {} ELSE left \ {r})
      /\ r \in left /\ r \in lucky /\ matched' = matched /\ lucky' = lucky
      /\ answer' = answer
      /\ \A s \in left : s = r \/ Before(r, s)
      /\ update' = IF r.status # 0 THEN {r} ELSE IF r.reset THEN {} ELSE update
      /\ filters' = (IF r.reset THEN <<>> ELSE filters)
                      \o (IF r.target # {} THEN <<r>> ELSE <<>>)
  BY DEF Apply, IsNext
<1>2. /\ Heard(Past)' = new
      /\ \A s \in Past : Before(s, r)
  BY HeardAfterApply
<1>3. /\ matched \subseteq Rule /\ Past \subseteq Rule /\ r \in Rule
      /\ old \subseteq Past /\ old \subseteq matched
  BY <1>1 DEF AnswerInv, Past, Heard
<1>4. OrderInv'
  <2>1. CASE r.stop
    BY <1>1, <2>1 DEF OrderInv
  <2>2. CASE ~ r.stop
    <3>1. left' = left \ {r} /\ Past' = Past \cup {r}
      BY <1>1, <2>2 DEF Past
    <3> QED
      BY <1>1, <2>2, <3>1 DEF AnswerInv, OrderInv
  <2> QED
    BY <2>1, <2>2
<1> HIDE DEF old
<1>5. UpdateInv'
  <2>1. update = StatusRule(old) /\ ((\E s \in old : s.status # 0) => update # {})
    BY DEF AnswerInv, UpdateInv, old
  <2>2. CASE r.status # 0
    <3> DEFINE before == {s \in new \ {r} : s.status # 0}
    <3>1. {s \in new : s.status # 0} = before \cup {r}
      BY <2>2
    <3>2. before \in SUBSET Rule /\ \A s \in before : Before(s, r)
      BY <1>2, <1>3
    <3>3. LastOf(before \cup {r}) = {r}
      BY <1>3, <3>2, LastOfOneMore
    <3> QED
      BY <1>1, <1>2, <2>2, <3>1, <3>3 DEF UpdateInv, StatusRule
  <2>3. CASE r.status = 0 /\ r.reset
    <3>1. {s \in new : s.status # 0} = {}
      BY <2>3
    <3> QED
      BY <1>1, <1>2, <2>3, <3>1 DEF UpdateInv, StatusRule, LastOf
  <2>4. CASE r.status = 0 /\ ~ r.reset
    <3>1. {s \in new : s.status # 0} = {s \in old : s.status # 0}
      BY <2>4
    <3> QED
      BY <1>1, <1>2, <2>1, <2>4, <3>1 DEF UpdateInv, StatusRule
  <2> QED
    BY <2>2, <2>3, <2>4
<1>6. FiltersInv'
  <2> DEFINE kept == IF r.reset THEN <<>> ELSE filters
             rest == IF r.reset THEN {} ELSE old
  <2>1. /\ kept \in Seq(matched)
        /\ \A k \in DOMAIN kept : kept[k] \in rest /\ kept[k].target # {}
        /\ \A s \in rest : s.target # {} => \E k \in DOMAIN kept : kept[k] = s
        /\ \A j, k \in DOMAIN kept : j < k => Before(kept[j], kept[k])
    BY DEF AnswerInv, FiltersInv, old
  <2>2. new = rest \cup {r} /\ \A s \in rest : Before(s, r)
    BY <1>2, <1>3
  <2>3. filters' = kept \o (IF r.target # {} THEN <<r>> ELSE <<>>)
    BY <1>1
  <2> HIDE DEF kept, rest, new
  <2>4. CASE r.target = {}
    <3>1. filters' = kept
      BY <2>1, <2>3, <2>4
    <3> QED
      BY <1>1, <1>2, <2>1, <2>2, <2>4, <3>1 DEF FiltersInv
  <2>5. CASE r.target # {}
    <3> DEFINE n == Len(kept)
    <3>1. n \in Nat /\ DOMAIN kept = 1..n
      BY <2>1
    <3>2. /\ filters' \in Seq(matched)
          /\ DOMAIN filters' = 1..(n + 1)
          /\ filters'[n + 1] = r
          /\ \A k \in 1..n : filters'[k] = kept[k]
      <4> HIDE DEF n
      <4>1. filters' = kept \o <<r>>
        BY <2>3, <2>5
      <4>2. kept \in Seq(matched) /\ Len(kept) = n
        BY <2>1 DEF n
      <4>3. filters' \in Seq(matched) /\ Len(filters') = n + 1
        BY <3>1, <4>1, <4>2
      <4>4. filters'[n + 1] = r
        BY <3>1, <4>1, <4>2
      <4>5. \A k \in 1..n : filters'[k] = kept[k]
        BY <3>1, <4>1, <4>2
      <4> QED
        BY <4>3, <4>4, <4>5
    <3> HIDE DEF n
    <3>3. \A k \in DOMAIN filters' : k \in 1..n \/ k = n + 1
      BY <3>1, <3>2
    <3>4. \A k \in DOMAIN filters' : filters'[k] \in new /\ filters'[k].target # {}
      BY <2>1, <2>2, <2>5, <3>1, <3>2, <3>3
    <3>5. \A s \in new : s.target # {} => \E k \in DOMAIN filters' : filters'[k] = s
      BY <2>1, <2>2, <3>1, <3>2
    <3>6. ASSUME NEW j \in DOMAIN filters', NEW k \in DOMAIN filters', j < k
          PROVE  Before(filters'[j], filters'[k])
      <4>1. j \in 1..n
        BY <3>1, <3>2, <3>6
      <4>2. CASE k \in 1..n
        BY <2>1, <3>1, <3>2, <3>6, <4>1, <4>2
      <4>3. CASE k = n + 1
        BY <2>1, <2>2, <3>1, <3>2, <4>1, <4>3
      <4> QED
        BY <3>3, <4>2, <4>3
    <3> QED
      BY <1>1, <1>2, <3>2, <3>4, <3>5, <3>6 DEF FiltersInv
  <2> QED
    BY <2>4, <2>5
<1>7. answer = {}
  BY <1>1 DEF AnswerInv
<1> QED
  BY <1>1, <1>4, <1>5, <1>6, <1>7 DEF AnswerInv, Option

(* The last override in the order of the loop is the one of the rule that  *)
(* overrides the others.                                                   *)
LEMMA LocationIsDecided ==
  ASSUME AnswerInv, NEW status
  PROVE  Location(status) = DecidedLocation(Heard(Past), status)
<1> DEFINE heard == Heard(Past)
           here == {r \in heard : r.target # {} /\ ForResponse(r, status)}
           overrides == {k \in DOMAIN filters : ForResponse(filters[k], status)}
           last == {m \in overrides : \A j \in overrides : j <= m}
<1>1. heard \subseteq Rule
  BY DEF AnswerInv, Past, Heard
<1>2. /\ DOMAIN filters \subseteq Nat
      /\ \A k \in DOMAIN filters : filters[k] \in heard /\ filters[k].target # {}
      /\ \A r \in heard : r.target # {} => \E k \in DOMAIN filters : filters[k] = r
      /\ \A j, k \in DOMAIN filters : j < k => Before(filters[j], filters[k])
  BY DEF AnswerInv, FiltersInv
<1> HIDE DEF heard
<1>3. \A k \in overrides : filters[k] \in here
  BY <1>2
<1>4. \A r \in here : \E k \in overrides : filters[k] = r
  BY <1>2
<1>5. overrides \subseteq Nat /\ here \subseteq Rule
      /\ \A j, k \in overrides : j < k => Before(filters[j], filters[k])
  BY <1>1, <1>2
<1> HIDE DEF here, overrides
<1>6. ASSUME NEW r \in LastOf(here)
      PROVE  \E k \in last : filters[k] = r
  <2>1. r \in here /\ \A s \in here : s = r \/ Before(s, r)
    BY DEF LastOf
  <2>2. PICK k \in overrides : filters[k] = r
    BY <1>4, <2>1
  <2>3. ASSUME NEW j \in overrides, k < j
        PROVE  FALSE
    <3>1. Before(r, filters[j])
      BY <1>5, <2>2, <2>3
    <3>2. filters[j] = r \/ Before(filters[j], r)
      BY <1>3, <2>1
    <3> QED
      BY <1>3, <1>5, <2>1, <3>1, <3>2, BeforeIsOrder
  <2> QED
    BY <1>5, <2>2, <2>3
<1>7. ASSUME NEW k \in last
      PROVE  filters[k] \in LastOf(here)
  <2>1. k \in overrides /\ \A j \in overrides : j <= k
    OBVIOUS
  <2>2. ASSUME NEW s \in here
        PROVE  s = filters[k] \/ Before(s, filters[k])
    <3>1. PICK j \in overrides : filters[j] = s
      BY <1>4
    <3> QED
      BY <1>5, <2>1, <3>1
  <2> QED
    BY <1>3, <2>1, <2>2 DEF LastOf
<1> HIDE DEF last
<1>8. UNION {filters[k].target : k \in last} = UNION {r.target : r \in LastOf(here)}
  BY <1>6, <1>7
<1> QED
  BY <1>8 DEF Location, DecidedLocation, LocationRule, last, overrides, here, heard

LEMMA RespondKeeps ==
  ASSUME AnswerInv, Respond
  PROVE  AnswerInv'
<1>1. /\ left = {} /\ answer = {}
      /\ answer' = {IF StatusCode = {} THEN Forward
                      ELSE [status |-> The(StatusCode),
                            location |-> Location(The(StatusCode))]}
      /\ matched' = matched /\ lucky' = lucky /\ left' = left
      /\ update' = update /\ filters' = filters
  BY DEF Respond
<1>2. Past = lucky
  BY <1>1 DEF Past
<1>3. StatusCode = DecidedStatus(Heard(lucky))
  BY <1>2 DEF AnswerInv, UpdateInv, StatusCode, DecidedStatus
<1>4. Location(The(StatusCode)) = DecidedLocation(Heard(lucky), The(StatusCode))
  BY <1>2, LocationIsDecided
<1>5. answer' = {Decision(lucky)}
  BY <1>1, <1>3, <1>4 DEF Decision
<1>6. OrderInv' /\ UpdateInv' /\ FiltersInv'
  BY <1>1 DEF AnswerInv, OrderInv, UpdateInv, FiltersInv, Past
<1>7. update = StatusRule(Heard(lucky))
      /\ ((\E r \in Heard(lucky) : r.status # 0) => update # {})
  BY <1>2 DEF AnswerInv, UpdateInv
<1>8. (matched \subseteq Rule /\ Distinct(matched) /\ lucky \subseteq matched
        /\ left \subseteq matched)'
  BY <1>1 DEF AnswerInv
<1>9. answer' \in Option({Decision(lucky)}) /\ Decision(lucky)' = Decision(lucky)
      /\ Heard(lucky)' = Heard(lucky) /\ StatusRule(Heard(lucky))' = StatusRule(Heard(lucky))
  BY <1>1, <1>5 DEF Option
<1> QED
  BY <1>1, <1>6, <1>7, <1>8, <1>9 DEF AnswerInv

LEMMA AnswerInvNext == AnswerInv /\ [AnswerNext]_answerVars => AnswerInv'
<1> SUFFICES ASSUME AnswerInv, [AnswerNext]_answerVars PROVE AnswerInv'
  OBVIOUS
<1>1. CASE \E r \in matched : PassOver(r)
  BY <1>1, PassOverKeeps
<1>2. CASE \E r \in matched : Apply(r)
  BY <1>2, ApplyKeeps
<1>3. CASE Respond
  BY <1>3, RespondKeeps
<1>4. CASE UNCHANGED answerVars
  BY <1>4 DEF answerVars, AnswerInv, OrderInv, UpdateInv, FiltersInv, Past
<1> QED
  BY <1>1, <1>2, <1>3, <1>4 DEF AnswerNext

LEMMA AnswerInvAlways == AnswerSpec => []AnswerInv
BY AnswerInvInit, AnswerInvNext, PTL DEF AnswerSpec

----------------------------------------------------------------------------

(* The type invariant of Answer, of from_routes_rule and route_request.    *)
THEOREM AnswerTypeCorrect == AnswerSpec => []AnswerTypeOK
<1>1. AnswerInv => AnswerTypeOK
  <2> SUFFICES ASSUME AnswerInv PROVE AnswerTypeOK
    OBVIOUS
  <2>1. matched \subseteq Rule /\ lucky \subseteq matched /\ left \subseteq matched
    BY DEF AnswerInv
  <2>2. Past \subseteq matched /\ Past \subseteq Rule
    BY <2>1 DEF Past
  <2> DEFINE sets == {r \in Heard(Past) : r.status # 0}
  <2>3. sets \in SUBSET Rule /\ sets \subseteq matched
    BY <2>2 DEF Heard
  <2>4. LastOf(sets) \in Option(sets)
    BY <2>3, LastOfType
  <2>5. update = LastOf(sets)
    BY DEF AnswerInv, UpdateInv, StatusRule
  <2> HIDE DEF sets
  <2>6. update \in Option(matched)
    BY <2>3, <2>4, <2>5 DEF Option
  <2>7. filters \in Seq(matched)
    BY DEF AnswerInv, FiltersInv
  <2>8. Decision(lucky) \in AnswerType
    BY <2>1, DecisionType
  <2>9. answer \in Option(AnswerType)
    BY <2>8 DEF AnswerInv, Option
  <2> QED
    BY <2>1, <2>6, <2>7, <2>9 DEF AnswerTypeOK
<1> QED
  BY <1>1, AnswerInvAlways, PTL

(* The loop of from_routes_rule, with its resets, stops and draws, comes   *)
(* to the decision told at once in Redirects, for any rules of distinct    *)
(* rank or id.                                                             *)
THEOREM LoopDecidesAsWhole == AnswerSpec => []DecidesAsWhole
<1>1. AnswerInv => DecidesAsWhole
  BY DEF AnswerInv, Option, DecidesAsWhole
<1> QED
  BY <1>1, AnswerInvAlways, PTL

(* A redirection by rules that the sync wrote is that of one rule, the one *)
(* of the lowest rank and id of those that got through their draws.        *)
THEOREM RedirectIsOfOneRule == AnswerSpec => []OneRuleRedirects
<1>1. ASSUME AnswerInv, \A r \in matched : Plain(r), NEW a \in answer
      PROVE  \/ a = Forward /\ lucky = {}
             \/ \E r \in lucky :
                  /\ a = [status |-> r.status, location |-> r.target]
                  /\ \A s \in lucky : s.rank >= r.rank
                  /\ \A s \in lucky : s.rank = r.rank => s.id >= r.id
  <2>1. lucky \subseteq Rule /\ \A r \in lucky : Plain(r)
    BY <1>1 DEF AnswerInv
  <2>2. a = Decision(lucky)
    BY <1>1 DEF AnswerInv, Option
  <2>3. Heard(lucky) = lucky
    BY <2>1 DEF Heard, Plain
  <2>4. {r \in lucky : r.status # 0} = lucky
    BY <2>1 DEF Plain
  <2>5. StatusRule(lucky) = LastOf(lucky)
    BY <2>4 DEF StatusRule
  <2>6. \A status : LocationRule(lucky, status) = LastOf(lucky)
    <3>1. \A status : {r \in lucky : r.target # {} /\ ForResponse(r, status)} = lucky
      BY <2>1 DEF Plain, ForResponse
    <3> QED
      BY <3>1 DEF LocationRule
  <2>7. \A r \in lucky : ForResponse(r, 0)
    BY <2>1 DEF Plain, ForResponse
  <2>8. CASE LastOf(lucky) = {}
    <3>1. update = {}
      BY <1>1, <2>3, <2>5, <2>8 DEF AnswerInv
    <3>2. lucky = {}
      BY <1>1, <2>3, <2>4, <3>1 DEF AnswerInv
    <3>3. DecidedStatus(lucky) = {}
      BY <2>5, <2>8 DEF DecidedStatus
    <3> QED
      BY <2>2, <2>3, <3>2, <3>3 DEF Decision
  <2>9. CASE LastOf(lucky) # {}
    <3>1. PICK r \in LastOf(lucky) : TRUE
      BY <2>9
    <3>2. r \in lucky /\ LastOf(lucky) = {r}
      BY <2>1, <3>1, LastOfType DEF LastOf, Option
    <3>3. DecidedStatus(lucky) = {r.status}
      <4>1. {s \in StatusRule(lucky) : ForResponse(s, 0)} = {r}
        BY <2>5, <2>7, <3>2
      <4> QED
        BY <4>1 DEF DecidedStatus
    <3>4. The({r.status}) = r.status
      BY DEF The
    <3>5. DecidedLocation(lucky, r.status) = r.target
      BY <2>6, <3>2 DEF DecidedLocation
    <3>6. a = [status |-> r.status, location |-> r.target]
      BY <2>2, <2>3, <3>3, <3>4, <3>5 DEF Decision
    <3>7. ASSUME NEW s \in lucky
          PROVE  s.rank >= r.rank /\ (s.rank = r.rank => s.id >= r.id)
      <4>1. s = r \/ Before(s, r)
        BY <3>1 DEF LastOf
      <4>2. s.rank \in Nat /\ r.rank \in Nat /\ s.id \in Nat /\ r.id \in Nat
        BY <2>1, <3>2, RedirectsAssumption DEF Rule
      <4> QED
        BY <4>1, <4>2 DEF Before
    <3> QED
      BY <3>2, <3>6, <3>7
  <2> QED
    BY <2>8, <2>9
<1>2. AnswerInv => OneRuleRedirects
  BY <1>1 DEF OneRuleRedirects
<1> QED
  BY <1>2, AnswerInvAlways, PTL

===============================================================================
