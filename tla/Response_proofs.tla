---------------------------- MODULE Response_proofs ---------------------------
(***************************************************************************)
(* Theorems about Response, for any rules and any backend: the status, the *)
(* log, the rules reported as applied, the body filters, the tags and the  *)
(* headers.                                                                *)
(***************************************************************************)
EXTENDS Response, Integers, FiniteSetTheorems, WellFoundedInduction, TLAPS

LEMMA Least ==
  ASSUME NEW S, S \subseteq Nat, S # {}
  PROVE  \E m \in S : \A k \in S : m <= k
<1> DEFINE R == OpToRel(<, Nat)
<1>1. \A a, b \in Nat : a < b => <<a, b>> \in R
  <2>1. \A a, b \in Nat : (a < b) => <<a, b>> \in {ss \in Nat \X Nat : ss[1] < ss[2]}
    OBVIOUS
  <2> QED
    BY <2>1, Zenon DEF OpToRel
<1>2. IsWellFoundedOn(R, Nat)
  BY NatLessThanWellFounded, Zenon
<1> HIDE DEF R
<1>3. PICK m \in S : \A k \in S : <<k, m>> \notin R
  BY <1>2, WFMin
<1>4. ASSUME NEW k \in S PROVE m <= k
  <2>1. k \in Nat /\ m \in Nat /\ ~ (k < m)
    BY <1>1, <1>3, Zenon
  <2> QED
    BY <2>1
<1> QED
  BY <1>4

LEMMA Greatest ==
  ASSUME NEW D \in Nat, NEW S, S \subseteq 0..D, S # {}
  PROVE  \E m \in S : \A k \in S : k <= m
<1> DEFINE T == {D - k : k \in S}
<1>1. T \subseteq Nat /\ T # {}
  <2>1. \A k \in S : k \in Nat /\ D - k \in Nat
    OBVIOUS
  <2>2. PICK k \in S : TRUE
    OBVIOUS
  <2>3. D - k \in T
    OBVIOUS
  <2> QED
    BY <2>1, <2>3
<1>2. PICK t \in T : \A k \in T : t <= k
  <2> HIDE DEF T
  <2> QED
    BY <1>1, Least
<1>3. PICK m \in S : t = D - m
  OBVIOUS
<1>4. ASSUME NEW k \in S PROVE k <= m
  <2>1. D - k \in T
    OBVIOUS
  <2>2. D - m <= D - k
    BY <1>2, <1>3, <2>1
  <2> QED
    BY <2>2
<1> QED
  BY <1>4

(* The rules up to one that were taken, and those that count by then.      *)
TakenUpto(rs, n) == {k \in 1..(n - 1) : k <= Len(rs) /\ \A j \in 1..(k - 1) : ~ rs[j].stop}

KeptUpto(rs, n) == {k \in TakenUpto(rs, n) : \A j \in TakenUpto(rs, n) : rs[j].reset => j <= k}

LEMMA KeptAtEnd ==
  ASSUME rules \in Chosen
  PROVE  KeptUpto(rules, Len(rules) + 1) = Kept
<1>1. Len(rules) \in Nat /\ DOMAIN rules = 1..Len(rules)
  BY RulesAssumption
<1> QED
  BY <1>1 DEF KeptUpto, TakenUpto, Kept

(* One more is taken.                                                      *)
LEMMA KeptNext ==
  ASSUME rules \in Chosen, NEW n \in 1..Len(rules), \A j \in 1..(n - 1) : ~ rules[j].stop,
         NEW m, m = IF rules[n].stop THEN Len(rules) + 1 ELSE n + 1
  PROVE  KeptUpto(rules, m) = IF rules[n].reset THEN {n} ELSE KeptUpto(rules, n) \cup {n}
<1>1. Len(rules) \in Nat
  BY RulesAssumption
<1>2. TakenUpto(rules, n) = 1..(n - 1)
  BY <1>1 DEF TakenUpto
<1>3. TakenUpto(rules, m) = 1..n
  BY <1>1 DEF TakenUpto
<1> QED
  BY <1>1, <1>2, <1>3 DEF KeptUpto

----------------------------------------------------------------------------
(* What stands of the rules of S that say something: the last, with the    *)
(* one before it as a fallback if only the last is for some codes.         *)

GivesWay(rs, S, m) == {p \in Latest(S \ {m}) : rs[m].codes # {} /\ rs[p].codes = {}}

Stands(rs, part, S, value) ==
  /\ S = {} => part = {}
  /\ \A m \in Latest(S) :
       \E d \in part :
         /\ part = {d} /\ d.value = value[m] /\ d.on = On(rs[m])
         /\ d.fallback = {<<value[p], rs[p].id>> : p \in GivesWay(rs, S, m)}

LEMMA OverStands ==
  ASSUME NEW n \in Nat, NEW S, S \subseteq 1..(n - 1), NEW value, NEW part, NEW new, NEW unit, NEW u,
         Stands(rules, part, S, value), new = {Decided(value[n], On(rules[n]), u)}
  PROVE  Stands(rules, Over(part, new, unit), S \cup {n}, value)
<1>1. Latest(S \cup {n}) = {n}
  <2>1. \A k \in S : k < n /\ k \in Nat
    OBVIOUS
  <2>2. n \in Latest(S \cup {n})
    BY <2>1 DEF Latest
  <2>3. ASSUME NEW k \in Latest(S \cup {n}) PROVE k = n
    <3>1. k \in S \cup {n} /\ n <= k
      BY DEF Latest
    <3> QED
      BY <2>1, <3>1
  <2> QED
    BY <2>2, <2>3
<1>2. (S \cup {n}) \ {n} = S
  OBVIOUS
<1> DEFINE d == Decided(value[n], On(rules[n]), u)
<1>3. d.value = value[n] /\ d.on = On(rules[n])
  BY DEF Decided
<1>4. PICK e : /\ Over(part, new, unit) = {e} /\ e.value = value[n] /\ e.on = On(rules[n])
               /\ e.fallback = {<<o.value, o.on.id>> : o \in KeptBy(d, part)}
  <2> DEFINE F == {<<o.value, o.on.id>> : o \in KeptBy(d, part)}
             U == IF unit = "new" \/ KeptBy(d, part) = {} THEN d.unit
                  ELSE (CHOOSE o \in part : TRUE).unit
             e == [value |-> d.value, on |-> d.on, fallback |-> F, unit |-> U]
  <2>1. Over(part, new, unit) = {e}
    BY DEF Over
  <2> HIDE DEF F, U, d
  <2>2. e.value = d.value /\ e.on = d.on /\ e.fallback = F
    OBVIOUS
  <2> QED
    BY <1>3, <2>1, <2>2 DEF F
<1>5. CASE S = {}
  <2>1. part = {}
    BY <1>5 DEF Stands
  <2>2. KeptBy(d, part) = {} /\ GivesWay(rules, S \cup {n}, n) = {}
    BY <1>2, <1>5, <2>1 DEF GivesWay, Latest, KeptBy
  <2> QED
    BY <1>1, <1>4, <2>2 DEF Stands
<1>6. CASE S # {}
  <2>1. PICK m \in S : \A k \in S : k <= m
    <3>1. S \subseteq 0..n
      OBVIOUS
    <3> QED
      BY <1>6, <3>1, Greatest
  <2>2. Latest(S) = {m}
    <3>1. m \in Latest(S)
      BY <2>1 DEF Latest
    <3>2. ASSUME NEW k \in Latest(S) PROVE k = m
      <4>1. k \in S /\ m <= k /\ k <= m /\ k \in Nat /\ m \in Nat
        BY <2>1 DEF Latest
      <4> QED
        BY <4>1
    <3> QED
      BY <3>1, <3>2
  <2>3. PICK o : part = {o} /\ o.value = value[m] /\ o.on = On(rules[m])
    BY <2>2 DEF Stands
  <2>4. o.on.codes = rules[m].codes /\ o.on.id = rules[m].id /\ d.on.codes = rules[n].codes
    BY <2>3, <1>3 DEF On
  <2>5. CASE rules[n].codes # {} /\ rules[m].codes = {}
    <3>1. GivesWay(rules, S \cup {n}, n) = {m}
      BY <1>2, <2>2, <2>5 DEF GivesWay
    <3>2. KeptBy(d, part) = {o}
      BY <2>3, <2>4, <2>5 DEF KeptBy
    <3>3. e.fallback = {<<value[m], rules[m].id>>}
      BY <1>4, <2>3, <2>4, <3>2
    <3>4. e.fallback = {<<value[p], rules[p].id>> : p \in GivesWay(rules, S \cup {n}, n)}
      BY <3>1, <3>3
    <3> QED
      BY <1>1, <1>4, <3>4 DEF Stands
  <2>6. CASE ~ (rules[n].codes # {} /\ rules[m].codes = {})
    <3>1. GivesWay(rules, S \cup {n}, n) = {}
      BY <1>2, <2>2, <2>6 DEF GivesWay
    <3>2. KeptBy(d, part) = {}
      BY <2>3, <2>4, <2>6 DEF KeptBy
    <3> QED
      BY <1>1, <1>4, <3>1, <3>2 DEF Stands
  <2> QED
    BY <2>5, <2>6
<1> QED
  BY <1>5, <1>6

----------------------------------------------------------------------------
(* Sequences.                                                              *)

IsSeq(s) == Len(s) \in Nat /\ s = [k \in 1..Len(s) |-> s[k]]

LEMMA SeqIsSeq ==
  ASSUME NEW T, NEW s \in Seq(T)
  PROVE  IsSeq(s)
BY DEF IsSeq

LEMMA IsSeqOfItsOwn ==
  ASSUME NEW s, IsSeq(s)
  PROVE  s \in Seq({s[k] : k \in 1..Len(s)}) /\ DOMAIN s = 1..Len(s)
<1> DEFINE T == {s[k] : k \in 1..Len(s)}
<1>1. \A k \in 1..Len(s) : s[k] \in T
  OBVIOUS
<1> HIDE DEF T
<1>2. [k \in 1..Len(s) |-> s[k]] \in Seq(T)
  BY <1>1 DEF IsSeq
<1> QED
  BY <1>2 DEF IsSeq, T

LEMMA FunctionIsSeq ==
  ASSUME NEW n \in Nat, NEW f, f = [k \in 1..n |-> f[k]]
  PROVE  IsSeq(f) /\ Len(f) = n
<1> DEFINE T == {f[k] : k \in 1..n}
<1>1. \A k \in 1..n : f[k] \in T
  OBVIOUS
<1> HIDE DEF T
<1>2. [k \in 1..n |-> f[k]] \in Seq(T) /\ Len([k \in 1..n |-> f[k]]) = n
  BY <1>1
<1> QED
  BY <1>2, SeqIsSeq

LEMMA ConcatIsSeq ==
  ASSUME NEW s, NEW t, IsSeq(s), IsSeq(t)
  PROVE  /\ IsSeq(s \o t) /\ Len(s \o t) = Len(s) + Len(t)
         /\ \A k \in 1..Len(s) : (s \o t)[k] = s[k]
         /\ \A k \in 1..Len(t) : (s \o t)[Len(s) + k] = t[k]
         /\ \A k \in 1..Len(s \o t) : \/ \E i \in 1..Len(s) : (s \o t)[k] = s[i]
                                      \/ \E i \in 1..Len(t) : (s \o t)[k] = t[i]
<1> DEFINE T == {s[k] : k \in 1..Len(s)} \cup {t[k] : k \in 1..Len(t)}
<1>1. s \in Seq(T) /\ t \in Seq(T)
  <2>1. \A k \in 1..Len(s) : s[k] \in T
    OBVIOUS
  <2>2. \A k \in 1..Len(t) : t[k] \in T
    OBVIOUS
  <2> HIDE DEF T
  <2>3. [k \in 1..Len(s) |-> s[k]] \in Seq(T) /\ [k \in 1..Len(t) |-> t[k]] \in Seq(T)
    BY <2>1, <2>2 DEF IsSeq
  <2> QED
    BY <2>3 DEF IsSeq
<1> HIDE DEF T
<1>2. s \o t \in Seq(T) /\ Len(s \o t) = Len(s) + Len(t) /\ Len(s) \in Nat /\ Len(t) \in Nat
  BY <1>1
<1>3. /\ \A k \in 1..Len(s) : (s \o t)[k] = s[k]
      /\ \A k \in 1..Len(t) : (s \o t)[Len(s) + k] = t[k]
  BY <1>1
<1>4. ASSUME NEW k \in 1..Len(s \o t)
      PROVE  \/ \E i \in 1..Len(s) : (s \o t)[k] = s[i]
             \/ \E i \in 1..Len(t) : (s \o t)[k] = t[i]
  <2>1. CASE k <= Len(s)
    BY <1>2, <1>3, <2>1
  <2>2. CASE ~ (k <= Len(s))
    <3>1. k - Len(s) \in 1..Len(t) /\ k = Len(s) + (k - Len(s))
      BY <1>2, <2>2
    <3> QED
      BY <1>3, <3>1
  <2> QED
    BY <2>1, <2>2
<1> QED
  BY <1>2, <1>3, <1>4, SeqIsSeq

(* A sequence of sequences is flattened to a sequence.                     *)
Flattening(seqs, n, f) ==
  f = [i \in 1..n |-> IF i = 1 THEN seqs[i] ELSE f[i - 1] \o seqs[i]]

LEMMA FlatteningExists ==
  ASSUME NEW seqs, NEW n \in Nat
  PROVE  \E f : Flattening(seqs, n, f)
<1> DEFINE S == {m \in 0..n : ~ \E f : Flattening(seqs, m, f)}
<1>1. SUFFICES ASSUME S # {} PROVE FALSE
  OBVIOUS
<1>2. PICK m \in S : \A k \in S : m <= k
  <2>1. S \subseteq Nat
    OBVIOUS
  <2> HIDE DEF S
  <2> QED
    BY <1>1, <2>1, Least
<1>3. CASE m = 0
  <2> DEFINE f == [i \in 1..0 |-> seqs[i]]
  <2>1. Flattening(seqs, 0, f)
    BY DEF Flattening
  <2> QED
    BY <1>3, <2>1
<1>4. CASE m # 0
  <2>1. m - 1 \in 0..n /\ m - 1 \notin S /\ m \in Nat \ {0}
    BY <1>2, <1>4
  <2>2. PICK g : Flattening(seqs, m - 1, g)
    BY <2>1
  <2> DEFINE f == [i \in 1..m |-> IF i = m THEN IF m = 1 THEN seqs[m] ELSE g[m - 1] \o seqs[m] ELSE g[i]]
  <2>3. ASSUME NEW i \in 1..m PROVE f[i] = IF i = 1 THEN seqs[i] ELSE f[i - 1] \o seqs[i]
    <3>1. CASE i = m
      BY <2>1, <3>1
    <3>2. CASE i # m
      <4>1. i \in 1..(m - 1) /\ f[i] = g[i] /\ (i # 1 => i - 1 \in 1..(m - 1) /\ f[i - 1] = g[i - 1])
        BY <2>1, <3>2
      <4>2. g[i] = IF i = 1 THEN seqs[i] ELSE g[i - 1] \o seqs[i]
        BY <2>2, <4>1 DEF Flattening
      <4> QED
        BY <4>1, <4>2
    <3> QED
      BY <3>1, <3>2
  <2>4. Flattening(seqs, m, f)
    BY <2>3 DEF Flattening
  <2> QED
    BY <1>2, <2>4
<1> QED
  BY <1>3, <1>4

LEMMA FlattenIsSeq ==
  ASSUME NEW seqs, IsSeq(seqs), \A k \in 1..Len(seqs) : IsSeq(seqs[k])
  PROVE  IsSeq(FlattenSeq(seqs))
<1> DEFINE n == Len(seqs)
           flatten == CHOOSE f : Flattening(seqs, n, f)
<1>1. n \in Nat
  BY DEF IsSeq
<1>2. Flattening(seqs, n, flatten)
  BY <1>1, FlatteningExists
<1> HIDE DEF flatten
<1>3. \A k \in 1..n : flatten[k] = IF k = 1 THEN seqs[k] ELSE flatten[k - 1] \o seqs[k]
  BY <1>2 DEF Flattening
<1>4. \A k \in 1..n : IsSeq(flatten[k])
  <2> DEFINE S == {k \in 1..n : ~ IsSeq(flatten[k])}
  <2>1. SUFFICES ASSUME S # {} PROVE FALSE
    OBVIOUS
  <2>2. PICK m \in S : \A k \in S : m <= k
    <3>1. S \subseteq Nat
      BY <1>1
    <3> HIDE DEF S
    <3> QED
      BY <2>1, <3>1, Least
  <2>3. m # 1
    BY <1>3, <2>2
  <2>4. m - 1 \in 1..n /\ IsSeq(flatten[m - 1])
    BY <1>1, <2>2, <2>3
  <2>5. IsSeq(flatten[m - 1] \o seqs[m])
    BY <2>2, <2>4, ConcatIsSeq
  <2> QED
    BY <1>3, <2>2, <2>3, <2>5
<1>5. FlattenSeq(seqs) = IF n = 0 THEN seqs ELSE flatten[n]
  BY Zenon DEF FlattenSeq, flatten, Flattening
<1> QED
  BY <1>1, <1>4, <1>5

----------------------------------------------------------------------------
(* What an action has of a rule.                                           *)

SomeOf(S) == CHOOSE x \in S : TRUE

Statuses(rs) == [k \in 1..Len(rs) |-> rs[k].status]
Logs(rs) == [k \in 1..Len(rs) |-> SomeOf(rs[k].log)]

(* Each part is of one of the rules of K.                                  *)
PartsOf(rs, s, K) == IsSeq(s) /\ \A k \in 1..Len(s) : \E j \in K : s[k].on = On(rs[j])

(* What is said of the request is said by rules that are for any code.     *)
RequestPartsOf(rs, a, K) ==
  /\ \A p \in a.peer : \E j \in K : p.id = rs[j].id /\ rs[j].codes = {}
  /\ IsSeq(a.requestFilters)
  /\ \A k \in 1..Len(a.requestFilters) :
       \E j \in K : a.requestFilters[k].id = rs[j].id /\ rs[j].codes = {}

MergedOf(rs, a, K) ==
  /\ Stands(rs, a.update, {k \in K : rs[k].status # 0}, Statuses(rs))
  /\ Stands(rs, a.log, {k \in K : rs[k].log # {}}, Logs(rs))
  /\ PartsOf(rs, a.headerFilters, K) /\ PartsOf(rs, a.bodyFilters, K)
  /\ a.traces = {On(rs[k]) : k \in K}
  /\ RequestPartsOf(rs, a, K)

LEMMA ConcatParts ==
  ASSUME NEW K, NEW L, NEW s, NEW t, PartsOf(rules, s, K), PartsOf(rules, t, L)
  PROVE  PartsOf(rules, s \o t, K \cup L)
<1>1. IsSeq(s \o t)
  BY ConcatIsSeq DEF PartsOf
<1>2. ASSUME NEW k \in 1..Len(s \o t) PROVE \E j \in K \cup L : (s \o t)[k].on = On(rules[j])
  <2>1. \/ \E i \in 1..Len(s) : (s \o t)[k] = s[i]
        \/ \E i \in 1..Len(t) : (s \o t)[k] = t[i]
    BY ConcatIsSeq DEF PartsOf
  <2> QED
    BY <2>1 DEF PartsOf
<1> QED
  BY <1>1, <1>2 DEF PartsOf

LEMMA PartsOfOne ==
  ASSUME NEW s, IsSeq(s), NEW n, NEW v
  PROVE  PartsOf(rules, [k \in DOMAIN s |-> [filter |-> s[k], on |-> On(rules[n]), variables |-> v]], {n})
<1> DEFINE f == [k \in DOMAIN s |-> [filter |-> s[k], on |-> On(rules[n]), variables |-> v]]
<1>1. DOMAIN s = 1..Len(s) /\ Len(s) \in Nat
  BY DEF IsSeq
<1>2. f = [k \in 1..Len(s) |-> f[k]]
  BY <1>1
<1>3. \A k \in 1..Len(s) : f[k].on = On(rules[n])
  BY <1>1
<1> HIDE DEF f
<1>4. IsSeq(f) /\ Len(f) = Len(s)
  BY <1>1, <1>2, FunctionIsSeq
<1> QED
  BY <1>3, <1>4 DEF PartsOf, f

LEMMA HeaderFiltersAreSeq ==
  ASSUME NEW r, IsSeq(r.headers), NEW vs
  PROVE  IsSeq(HeaderFiltersOf(r, vs))
<1> DEFINE f == [k \in DOMAIN r.headers |-> [r.headers[k] EXCEPT !.value = Replace(@, vs, TRUE)]]
<1>1. DOMAIN r.headers = 1..Len(r.headers) /\ Len(r.headers) \in Nat
  BY DEF IsSeq
<1>2. f = [k \in 1..Len(r.headers) |-> f[k]]
  BY <1>1
<1> HIDE DEF f
<1>3. IsSeq(f)
  BY <1>1, <1>2, FunctionIsSeq
<1>4. IsSeq(TargetFilters(r, vs))
  <2>1. IsSeq(<<>>)
    BY DEF IsSeq
  <2>2. ASSUME NEW x PROVE IsSeq(<<x>>)
    BY DEF IsSeq
  <2> QED
    BY <2>1, <2>2, Zenon DEF TargetFilters
<1>5. HeaderFiltersOf(r, vs) = TargetFilters(r, vs) \o f
  BY Zenon DEF HeaderFiltersOf, f
<1> QED
  BY <1>3, <1>4, <1>5, ConcatIsSeq

LEMMA SetToSeqIsSeq ==
  ASSUME NEW S, S = {} \/ \E x : S = {x}
  PROVE  IsSeq(SetToSeq(S))
<1>1. Cardinality(S) \in {0, 1}
  BY FS_EmptySet, FS_Singleton
<1>2. \E f \in [1..Cardinality(S) -> S] : IsInjective(f)
  <2>1. CASE S = {}
    <3> DEFINE f == [k \in 1..0 |-> k]
    <3>1. Cardinality(S) = 0
      BY <2>1, FS_EmptySet
    <3>2. f \in [1..0 -> S] /\ IsInjective(f)
      BY DEF IsInjective
    <3> QED
      BY <3>1, <3>2
  <2>2. CASE \E x : S = {x}
    <3>1. PICK x : S = {x}
      BY <2>2
    <3> DEFINE f == [k \in 1..1 |-> x]
    <3>2. Cardinality(S) = 1
      BY <3>1, FS_Singleton
    <3>3. f \in [1..1 -> S] /\ IsInjective(f)
      BY <3>1 DEF IsInjective
    <3> QED
      BY <3>2, <3>3
  <2> QED
    BY <2>1, <2>2
<1>3. SetToSeq(S) \in [1..Cardinality(S) -> S]
  BY <1>2, Zenon DEF SetToSeq
<1>4. SetToSeq(S) = [k \in 1..Cardinality(S) |-> SetToSeq(S)[k]] /\ Cardinality(S) \in Nat
  BY <1>1, <1>3
<1> QED
  BY <1>4, FunctionIsSeq

LEMMA BodiesAreSeq ==
  ASSUME NEW fs, IsSeq(fs), NEW vs,
         \A k \in 1..Len(fs) : fs[k].type \in {"text", "html", "markdown", "other"}
  PROVE  IsSeq(BodiesReplaced(fs, vs))
<1> DEFINE g == [k \in DOMAIN fs |-> SetToSeq(BodyReplaced(fs[k], vs))]
<1>1. DOMAIN fs = 1..Len(fs) /\ Len(fs) \in Nat
  BY DEF IsSeq
<1>2. g = [k \in 1..Len(fs) |-> g[k]]
  BY <1>1
<1>3. ASSUME NEW k \in 1..Len(fs) PROVE IsSeq(g[k])
  <2> DEFINE S == BodyReplaced(fs[k], vs)
  <2>1. S = {} \/ \E x : S = {x}
    <3>1. CASE fs[k].type = "text"
      BY <3>1, Zenon DEF BodyReplaced
    <3>2. CASE fs[k].type = "html"
      BY <3>2, Zenon DEF BodyReplaced
    <3>3. CASE fs[k].type = "markdown"
      BY <3>3, Zenon DEF BodyReplaced
    <3>4. CASE fs[k].type = "other"
      BY <3>4, Zenon DEF BodyReplaced
    <3> QED
      BY <3>1, <3>2, <3>3, <3>4
  <2> HIDE DEF S
  <2>2. IsSeq(SetToSeq(S))
    BY <2>1, SetToSeqIsSeq
  <2> QED
    BY <1>1, <2>2 DEF S
<1> HIDE DEF g
<1>4. IsSeq(g) /\ Len(g) = Len(fs)
  BY <1>1, <1>2, FunctionIsSeq
<1>5. BodiesReplaced(fs, vs) = FlattenSeq(g)
  BY DEF BodiesReplaced, g
<1> QED
  BY <1>3, <1>4, <1>5, FlattenIsSeq

LEMMA RequestFiltersAreSeq ==
  ASSUME NEW r, IsSeq(r.requestHeaders), NEW vs
  PROVE  IsSeq(RequestFiltersOf(r, vs))
<1> DEFINE now == ResolveResponseHeaders(vs, <<>>)
           g == [k \in DOMAIN r.requestHeaders |->
                   LET f == r.requestHeaders[k]
                   IN IF f.header[1] \in Protected THEN <<>>
                      ELSE <<[f EXCEPT !.value = Replace(@, now, TRUE)]>>]
<1>1. IsSeq(<<>>) /\ \A x : IsSeq(<<x>>)
  BY DEF IsSeq
<1>2. DOMAIN r.requestHeaders = 1..Len(r.requestHeaders) /\ Len(r.requestHeaders) \in Nat
  BY DEF IsSeq
<1>3. ASSUME NEW k \in 1..Len(r.requestHeaders) PROVE IsSeq(g[k])
  <2> DEFINE f == r.requestHeaders[k]
             e == [f EXCEPT !.value = Replace(@, now, TRUE)]
  <2>1. g[k] = IF f.header[1] \in Protected THEN <<>> ELSE <<e>>
    BY <1>2, Zenon
  <2> HIDE DEF e
  <2> QED
    BY <1>1, <2>1
<1>4. g = [k \in 1..Len(r.requestHeaders) |-> g[k]]
  BY <1>2
<1>5. RequestFiltersOf(r, vs) = IF r.codes # {} THEN <<>> ELSE FlattenSeq(g)
  BY Zenon DEF RequestFiltersOf
<1> HIDE DEF g
<1>6. IsSeq(g) /\ Len(g) = Len(r.requestHeaders)
  BY <1>2, <1>4, FunctionIsSeq
<1> QED
  BY <1>1, <1>3, <1>5, <1>6, FlattenIsSeq

(* Each part of a rule's action is of this rule.                           *)
LEMMA OfRule ==
  ASSUME rules \in Chosen, NEW n \in 1..Len(rules), NEW a, a = FromRouteRule(rules[n])
  PROVE  /\ rules[n].status = 0 => a.update = {}
         /\ rules[n].status # 0 => \E u : a.update = {Decided(rules[n].status, On(rules[n]), u)}
         /\ rules[n].log = {} => a.log = {}
         /\ rules[n].log # {} => \E u : a.log = {Decided(SomeOf(rules[n].log), On(rules[n]), u)}
         /\ PartsOf(rules, a.headerFilters, {n}) /\ PartsOf(rules, a.bodyFilters, {n})
         /\ a.traces = {On(rules[n])}
         /\ RequestPartsOf(rules, a, {n})
<1> DEFINE r == rules[n]
           vs == RuleVariables(r, r.captured, Request)
           deferred == IF IsDeferred(vs) THEN vs ELSE <<>>
           headerFilters == HeaderFiltersOf(r, IF deferred = <<>> THEN vs ELSE <<>>)
           bodyFilters == IF deferred = <<>> THEN BodiesReplaced(r.bodies, vs) ELSE r.bodies
           requestFilters == RequestFiltersOf(r, vs)
<1>1. /\ a.update = IF r.status = 0 THEN {} ELSE {Decided(r.status, On(r), r.units.redirect)}
      /\ a.headerFilters = [k \in DOMAIN headerFilters |->
                              [filter |-> headerFilters[k], on |-> On(r), variables |-> deferred]]
      /\ a.bodyFilters = [k \in DOMAIN bodyFilters |->
                            [filter |-> bodyFilters[k], on |-> On(r), variables |-> deferred]]
      /\ a.traces = {On(r)}
      /\ a.log = {Decided(l, On(r), r.units.log) : l \in r.log}
      /\ a.peer = IF r.codes = {} THEN {[peer |-> p, id |-> r.id, unit |-> r.units.peer] : p \in r.peer} ELSE {}
      /\ a.requestFilters = [k \in DOMAIN requestFilters |-> [filter |-> requestFilters[k], id |-> r.id]]
  BY DEF FromRouteRule
<1>2. /\ IsSeq(r.headers) /\ IsSeq(r.requestHeaders) /\ IsSeq(r.bodies)
      /\ \A k \in 1..Len(r.bodies) : r.bodies[k].type \in {"text", "html", "markdown", "other"}
      /\ r.log = {} \/ \E l : r.log = {l}
  <2>1. /\ r.headers \in Seq(Range(r.headers)) /\ r.requestHeaders \in Seq(Range(r.requestHeaders))
        /\ r.bodies \in Seq(Range(r.bodies))
        /\ \A f \in Range(r.bodies) : f.type \in {"text", "html", "markdown", "other"}
    BY RulesAssumption, Zenon DEF OfTexts, OfBody
  <2>2. r.log = {} \/ \E l : r.log = {l}
    BY RulesAssumption, Zenon
  <2>3. IsSeq(r.headers) /\ IsSeq(r.requestHeaders) /\ IsSeq(r.bodies)
    BY <2>1, SeqIsSeq
  <2>4. \A k \in 1..Len(r.bodies) : r.bodies[k] \in Range(r.bodies)
    BY <2>3 DEF Range, IsSeq
  <2> QED
    BY <2>1, <2>2, <2>3, <2>4
<1>3. IsSeq(headerFilters) /\ IsSeq(bodyFilters) /\ IsSeq(requestFilters)
  BY <1>2, HeaderFiltersAreSeq, BodiesAreSeq, RequestFiltersAreSeq
<1> HIDE DEF r, vs, deferred, headerFilters, bodyFilters, requestFilters
<1>4. ASSUME r.log # {} PROVE a.log = {Decided(SomeOf(r.log), On(r), r.units.log)}
  <2>1. PICK l : r.log = {l}
    BY <1>2, <1>4
  <2>2. SomeOf(r.log) = l
    BY <2>1 DEF SomeOf
  <2> QED
    BY <1>1, <2>1, <2>2
<1>5. PartsOf(rules, a.headerFilters, {n}) /\ PartsOf(rules, a.bodyFilters, {n})
  <2> DEFINE parts(s) == [k \in DOMAIN s |-> [filter |-> s[k], on |-> On(r), variables |-> deferred]]
  <2>1. ASSUME NEW s, IsSeq(s) PROVE PartsOf(rules, parts(s), {n})
    BY <2>1, PartsOfOne, Zenon DEF r
  <2>2. a.headerFilters = parts(headerFilters) /\ a.bodyFilters = parts(bodyFilters)
    BY <1>1
  <2> HIDE DEF parts
  <2> QED
    BY <1>3, <2>1, <2>2
<1>6. RequestPartsOf(rules, a, {n})
  <2>1. \A p \in a.peer : p.id = r.id /\ r.codes = {}
    BY <1>1
  <2>2. DOMAIN requestFilters = 1..Len(requestFilters) /\ Len(requestFilters) \in Nat
    BY <1>3 DEF IsSeq
  <2>3. IsSeq(a.requestFilters) /\ Len(a.requestFilters) = Len(requestFilters)
    BY <1>1, <2>2, FunctionIsSeq
  <2>4. \A k \in 1..Len(requestFilters) : a.requestFilters[k].id = r.id
    BY <1>1, <2>2
  <2>5. Len(requestFilters) # 0 => r.codes = {}
    BY DEF requestFilters, RequestFiltersOf
  <2> QED
    BY <2>1, <2>2, <2>3, <2>4, <2>5 DEF RequestPartsOf, r
<1> QED
  BY <1>1, <1>4, <1>5, <1>6 DEF r

LEMMA MergedOfNone ==
  ASSUME rules \in Chosen
  PROVE  MergedOf(rules, NoAction, {})
<1>1. IsSeq(<<>>) /\ Len(<<>>) = 0
  BY DEF IsSeq
<1>2. {k \in {} : rules[k].status # 0} = {} /\ {k \in {} : rules[k].log # {}} = {} /\ Latest({}) = {}
  BY DEF Latest
<1> QED
  BY <1>1, <1>2 DEF MergedOf, NoAction, Stands, PartsOf, RequestPartsOf

LEMMA MergedOfRule ==
  ASSUME rules \in Chosen, NEW n \in 1..Len(rules)
  PROVE  MergedOf(rules, FromRouteRule(rules[n]), {n})
<1> DEFINE a == FromRouteRule(rules[n])
<1>1. /\ rules[n].status = 0 => a.update = {}
      /\ rules[n].status # 0 => \E u : a.update = {Decided(rules[n].status, On(rules[n]), u)}
      /\ rules[n].log = {} => a.log = {}
      /\ rules[n].log # {} => \E u : a.log = {Decided(SomeOf(rules[n].log), On(rules[n]), u)}
      /\ PartsOf(rules, a.headerFilters, {n}) /\ PartsOf(rules, a.bodyFilters, {n})
      /\ a.traces = {On(rules[n])} /\ RequestPartsOf(rules, a, {n})
  BY OfRule
<1> HIDE DEF a
<1>2. Len(rules) \in Nat /\ Statuses(rules)[n] = rules[n].status /\ Logs(rules)[n] = SomeOf(rules[n].log)
  BY RulesAssumption DEF Statuses, Logs
<1>3. ASSUME NEW value, NEW u, NEW part, part = {Decided(value[n], On(rules[n]), u)}
      PROVE  Stands(rules, part, {n}, value)
  <2>1. Latest({n}) = {n} /\ {n} \ {n} = {}
    BY DEF Latest
  <2>2. GivesWay(rules, {n}, n) = {}
    BY <2>1 DEF GivesWay, Latest
  <2> DEFINE d == Decided(value[n], On(rules[n]), u)
  <2>3. d.value = value[n] /\ d.on = On(rules[n]) /\ d.fallback = {}
    BY DEF Decided
  <2> QED
    BY <1>3, <2>1, <2>2, <2>3 DEF Stands
<1>4. ASSUME NEW value PROVE Stands(rules, {}, {}, value)
  BY DEF Stands, Latest
<1>5. Stands(rules, a.update, {k \in {n} : rules[k].status # 0}, Statuses(rules))
  <2>1. CASE rules[n].status = 0
    <3>1. {k \in {n} : rules[k].status # 0} = {}
      BY <2>1
    <3> QED
      BY <1>1, <1>4, <2>1, <3>1
  <2>2. CASE rules[n].status # 0
    <3>1. {k \in {n} : rules[k].status # 0} = {n}
      BY <2>2
    <3>2. \E u : a.update = {Decided(Statuses(rules)[n], On(rules[n]), u)}
      BY <1>1, <1>2, <2>2
    <3> QED
      BY <1>3, <3>1, <3>2
  <2> QED
    BY <2>1, <2>2
<1>6. Stands(rules, a.log, {k \in {n} : rules[k].log # {}}, Logs(rules))
  <2>1. CASE rules[n].log = {}
    <3>1. {k \in {n} : rules[k].log # {}} = {}
      BY <2>1
    <3> QED
      BY <1>1, <1>4, <2>1, <3>1
  <2>2. CASE rules[n].log # {}
    <3>1. {k \in {n} : rules[k].log # {}} = {n}
      BY <2>2
    <3>2. \E u : a.log = {Decided(Logs(rules)[n], On(rules[n]), u)}
      BY <1>1, <1>2, <2>2
    <3> QED
      BY <1>3, <3>1, <3>2
  <2> QED
    BY <2>1, <2>2
<1> QED
  BY <1>1, <1>5, <1>6 DEF MergedOf, a

LEMMA MergedOfBoth ==
  ASSUME rules \in Chosen, NEW n \in 1..Len(rules), NEW K, K \subseteq 1..(n - 1),
         NEW a, MergedOf(rules, a, K)
  PROVE  MergedOf(rules, Merge(a, FromRouteRule(rules[n])), K \cup {n})
<1> DEFINE b == FromRouteRule(rules[n])
           c == Merge(a, b)
<1>1. /\ rules[n].status = 0 => b.update = {}
      /\ rules[n].status # 0 => \E u : b.update = {Decided(rules[n].status, On(rules[n]), u)}
      /\ rules[n].log = {} => b.log = {}
      /\ rules[n].log # {} => \E u : b.log = {Decided(SomeOf(rules[n].log), On(rules[n]), u)}
      /\ PartsOf(rules, b.headerFilters, {n}) /\ PartsOf(rules, b.bodyFilters, {n})
      /\ b.traces = {On(rules[n])} /\ RequestPartsOf(rules, b, {n})
  BY OfRule
<1> HIDE DEF b
<1>2. /\ c.update = Over(a.update, b.update, "new") /\ c.log = Over(a.log, b.log, "old")
      /\ c.headerFilters = a.headerFilters \o b.headerFilters
      /\ c.bodyFilters = a.bodyFilters \o b.bodyFilters
      /\ c.traces = a.traces \cup b.traces
      /\ c.peer = IF b.peer # {} THEN b.peer ELSE a.peer
      /\ c.requestFilters = a.requestFilters \o b.requestFilters
  BY DEF Merge
<1> HIDE DEF c
<1>3. Len(rules) \in Nat /\ n \in Nat /\ Statuses(rules)[n] = rules[n].status /\ Logs(rules)[n] = SomeOf(rules[n].log)
  BY RulesAssumption DEF Statuses, Logs
<1>4. Stands(rules, c.update, {k \in K \cup {n} : rules[k].status # 0}, Statuses(rules))
  <2> DEFINE S == {k \in K : rules[k].status # 0}
  <2>1. S \subseteq 1..(n - 1) /\ Stands(rules, a.update, S, Statuses(rules))
    BY DEF MergedOf
  <2>2. CASE rules[n].status = 0
    <3>1. {k \in K \cup {n} : rules[k].status # 0} = S
      BY <2>2
    <3>2. c.update = a.update
      BY <1>1, <1>2, <2>2 DEF Over
    <3> QED
      BY <2>1, <3>1, <3>2
  <2>3. CASE rules[n].status # 0
    <3>1. {k \in K \cup {n} : rules[k].status # 0} = S \cup {n}
      BY <2>3
    <3> HIDE DEF S
    <3>2. PICK u : b.update = {Decided(Statuses(rules)[n], On(rules[n]), u)}
      BY <1>1, <1>3, <2>3
    <3>3. Stands(rules, Over(a.update, b.update, "new"), S \cup {n}, Statuses(rules))
      BY <1>3, <2>1, <3>2, OverStands
    <3> QED
      BY <1>2, <3>1, <3>3
  <2> QED
    BY <2>2, <2>3
<1>5. Stands(rules, c.log, {k \in K \cup {n} : rules[k].log # {}}, Logs(rules))
  <2> DEFINE S == {k \in K : rules[k].log # {}}
  <2>1. S \subseteq 1..(n - 1) /\ Stands(rules, a.log, S, Logs(rules))
    BY DEF MergedOf
  <2>2. CASE rules[n].log = {}
    <3>1. {k \in K \cup {n} : rules[k].log # {}} = S
      BY <2>2
    <3>2. c.log = a.log
      BY <1>1, <1>2, <2>2 DEF Over
    <3> QED
      BY <2>1, <3>1, <3>2
  <2>3. CASE rules[n].log # {}
    <3>1. {k \in K \cup {n} : rules[k].log # {}} = S \cup {n}
      BY <2>3
    <3> HIDE DEF S
    <3>2. PICK u : b.log = {Decided(Logs(rules)[n], On(rules[n]), u)}
      BY <1>1, <1>3, <2>3
    <3>3. Stands(rules, Over(a.log, b.log, "old"), S \cup {n}, Logs(rules))
      BY <1>3, <2>1, <3>2, OverStands
    <3> QED
      BY <1>2, <3>1, <3>3
  <2> QED
    BY <2>2, <2>3
<1>6. PartsOf(rules, c.headerFilters, K \cup {n}) /\ PartsOf(rules, c.bodyFilters, K \cup {n})
  BY <1>1, <1>2, ConcatParts DEF MergedOf
<1>7. c.traces = {On(rules[k]) : k \in K \cup {n}}
  BY <1>1, <1>2 DEF MergedOf
<1>8. RequestPartsOf(rules, c, K \cup {n})
  <2>1. RequestPartsOf(rules, a, K) /\ RequestPartsOf(rules, b, {n})
    BY <1>1 DEF MergedOf
  <2>2. \A p \in c.peer : \E j \in K \cup {n} : p.id = rules[j].id /\ rules[j].codes = {}
    BY <1>2, <2>1 DEF RequestPartsOf
  <2>3. IsSeq(a.requestFilters) /\ IsSeq(b.requestFilters)
    BY <2>1 DEF RequestPartsOf
  <2>4. /\ IsSeq(c.requestFilters)
        /\ \A k \in 1..Len(c.requestFilters) :
             \/ \E i \in 1..Len(a.requestFilters) : c.requestFilters[k] = a.requestFilters[i]
             \/ \E i \in 1..Len(b.requestFilters) : c.requestFilters[k] = b.requestFilters[i]
    <3> DEFINE s == a.requestFilters
               t == b.requestFilters
    <3>1. /\ IsSeq(s \o t)
          /\ \A k \in 1..Len(s \o t) : \/ \E i \in 1..Len(s) : (s \o t)[k] = s[i]
                                       \/ \E i \in 1..Len(t) : (s \o t)[k] = t[i]
      <4> HIDE DEF s, t
      <4>1. IsSeq(s) /\ IsSeq(t)
        BY <2>3 DEF s, t
      <4> QED
        BY <4>1, ConcatIsSeq
    <3>2. c.requestFilters = s \o t
      BY <1>2
    <3> HIDE DEF s, t
    <3>3. /\ IsSeq(c.requestFilters)
          /\ \A k \in 1..Len(c.requestFilters) : \/ \E i \in 1..Len(s) : c.requestFilters[k] = s[i]
                                                 \/ \E i \in 1..Len(t) : c.requestFilters[k] = t[i]
      BY <3>1, <3>2
    <3> QED
      BY <3>3 DEF s, t
  <2>5. ASSUME NEW k \in 1..Len(c.requestFilters)
        PROVE  \E j \in K \cup {n} : c.requestFilters[k].id = rules[j].id /\ rules[j].codes = {}
    <3>1. CASE \E i \in 1..Len(a.requestFilters) : c.requestFilters[k] = a.requestFilters[i]
      BY <2>1, <3>1 DEF RequestPartsOf
    <3>2. CASE \E i \in 1..Len(b.requestFilters) : c.requestFilters[k] = b.requestFilters[i]
      BY <2>1, <3>2 DEF RequestPartsOf
    <3> QED
      BY <2>4, <3>1, <3>2
  <2> QED
    BY <2>2, <2>4, <2>5 DEF RequestPartsOf
<1> QED
  BY <1>4, <1>5, <1>6, <1>7, <1>8 DEF MergedOf, b, c

----------------------------------------------------------------------------
(* What the action says is what the rule says that is to be obeyed.        *)

SpokenBy(said, S, value) ==
  /\ S = {} => said.value = {} /\ said.ids = {}
  /\ S # {} => \E k \in S : said.value = {value[k]} /\ said.ids = {rules[k].id}

LEMMA LatestIsOne ==
  ASSUME NEW S, S \subseteq Nat, NEW k \in Latest(S), NEW l \in Latest(S)
  PROVE  k = l
<1>1. k \in S /\ l \in S /\ k <= l /\ l <= k /\ k \in Nat /\ l \in Nat
  BY DEF Latest
<1> QED
  BY <1>1

LEMMA KeptAreNumbers ==
  ASSUME rules \in Chosen
  PROVE  Kept \subseteq 1..Len(rules) /\ Len(rules) \in Nat
<1>1. Len(rules) \in Nat /\ DOMAIN rules = 1..Len(rules)
  BY RulesAssumption
<1> QED
  BY <1>1 DEF Kept

LEMMA ObeyedAccepts ==
  ASSUME NEW S, S \subseteq Kept, NEW code
  PROVE  Obeyed(S, code) \subseteq Accepting(code)
<1>1. Latest(S \ Latest(S)) \subseteq S
  BY DEF Latest
<1>2. ASSUME NEW k \in S, rules[k].codes = {} PROVE k \in Accepting(code)
  BY <1>2 DEF Accepting, Accepts, On
<1> QED
  BY <1>1, <1>2 DEF Obeyed

LEMMA Spoken ==
  ASSUME rules \in Chosen, NEW S, S \subseteq Kept, NEW value, NEW part, Stands(rules, part, S, value),
         NEW code
  PROVE  /\ part = {} => Obeyed(S, code) = {}
         /\ \A d \in part :
              /\ part = {d}
              /\ Accepts(d.on, code) => SpokenBy(Says(d), Obeyed(S, code), value)
              /\ ~ Accepts(d.on, code) => SpokenBy(SaysFallback(d), Obeyed(S, code), value)
<1>1. Len(rules) \in Nat /\ S \subseteq 0..Len(rules) /\ S \subseteq Nat
  BY KeptAreNumbers
<1>2. CASE S = {}
  <2>1. part = {} /\ Latest(S) = {} /\ Latest(S \ Latest(S)) = {}
    BY <1>2 DEF Stands, Latest
  <2> QED
    BY <2>1 DEF Obeyed
<1>3. CASE S # {}
  <2>1. PICK m \in S : \A k \in S : k <= m
    <3> DEFINE D == Len(rules)
    <3>1. D \in Nat /\ S \subseteq 0..D
      BY <1>1
    <3> HIDE DEF D
    <3> QED
      BY <1>3, <3>1, Greatest
  <2>2. m \in Latest(S)
    BY <2>1 DEF Latest
  <2>3. Latest(S) = {m}
    <3>1. \A k \in Latest(S) : k = m
      BY <1>1, <2>2, LatestIsOne
    <3> QED
      BY <2>2, <3>1
  <2>4. PICK d : /\ part = {d} /\ d.value = value[m] /\ d.on = On(rules[m])
                 /\ d.fallback = {<<value[p], rules[p].id>> : p \in GivesWay(rules, S, m)}
    BY <2>2 DEF Stands
  <2>5. d.on.id = rules[m].id /\ d.on.codes = rules[m].codes
    BY <2>4 DEF On
  <2>6. ({m} \subseteq Accepting(code)) <=> Accepts(d.on, code)
    BY <2>1, <2>4 DEF Accepting
  <2>7. CASE Accepts(d.on, code)
    <3>1. Obeyed(S, code) = {m}
      BY <2>3, <2>6, <2>7 DEF Obeyed
    <3>2. Says(d).value = {value[m]} /\ Says(d).ids = {rules[m].id}
      BY <2>4, <2>5 DEF Says
    <3>3. SpokenBy(Says(d), Obeyed(S, code), value)
      BY <3>1, <3>2 DEF SpokenBy
    <3> QED
      BY <2>4, <2>7, <3>3
  <2>8. CASE ~ Accepts(d.on, code)
    <3>1. rules[m].codes # {}
      BY <2>5, <2>8 DEF Accepts
    <3>2. Obeyed(S, code) = GivesWay(rules, S, m)
      BY <2>3, <2>6, <2>8, <3>1 DEF Obeyed, GivesWay
    <3>3. SaysFallback(d).value = {f[1] : f \in d.fallback} /\ SaysFallback(d).ids = {f[2] : f \in d.fallback}
      BY DEF SaysFallback
    <3>4. SpokenBy(SaysFallback(d), Obeyed(S, code), value)
      <4>1. CASE GivesWay(rules, S, m) = {}
        BY <2>4, <3>2, <3>3, <4>1 DEF SpokenBy
      <4>2. CASE GivesWay(rules, S, m) # {}
        <5>1. PICK p : p \in GivesWay(rules, S, m)
          BY <4>2
        <5>2. GivesWay(rules, S, m) = {p}
          <6>1. GivesWay(rules, S, m) \subseteq Latest(S \ {m}) /\ S \ {m} \subseteq Nat
            BY <1>1 DEF GivesWay
          <6> QED
            BY <5>1, <6>1, LatestIsOne
        <5>3. d.fallback = {<<value[p], rules[p].id>>}
          BY <2>4, <5>2
        <5>4. SaysFallback(d).value = {value[p]} /\ SaysFallback(d).ids = {rules[p].id}
          BY <3>3, <5>3
        <5> QED
          BY <3>2, <5>2, <5>4 DEF SpokenBy
      <4> QED
        BY <4>1, <4>2
    <3> QED
      BY <2>4, <2>8, <3>4
  <2> QED
    BY <2>7, <2>8
<1> QED
  BY <1>2, <1>3

LEMMA StatusSpoken ==
  ASSUME rules \in Chosen, MergedOf(rules, action, Kept), NEW code,
         \/ code = 0 /\ GetStatusCode(action.update, 0).value # {}
         \/ code # 0 /\ GetStatusCode(action.update, 0).value = {}
  PROVE  SpokenBy(GetStatusCode(action.update, code),
                  Obeyed({k \in Kept : rules[k].status # 0}, code), Statuses(rules))
<1> DEFINE S == {k \in Kept : rules[k].status # 0}
<1>1. S \subseteq Kept /\ Stands(rules, action.update, S, Statuses(rules))
  BY DEF MergedOf
<1> HIDE DEF S
<1>2. /\ action.update = {} => Obeyed(S, code) = {}
      /\ \A d \in action.update :
           /\ action.update = {d}
           /\ Accepts(d.on, code) => SpokenBy(Says(d), Obeyed(S, code), Statuses(rules))
           /\ ~ Accepts(d.on, code) => SpokenBy(SaysFallback(d), Obeyed(S, code), Statuses(rules))
  BY <1>1, Spoken
<1>3. CASE action.update = {}
  <2>1. GetStatusCode(action.update, code) = Nothing
    BY <1>3 DEF GetStatusCode
  <2> QED
    BY <1>2, <1>3, <2>1 DEF SpokenBy, Nothing, S
<1>4. CASE action.update # {}
  <2>1. PICK d : action.update = {d}
    BY <1>2, <1>4
  <2>2. (CHOOSE e \in action.update : TRUE) = d
    BY <2>1
  <2>3. Says(d).value # {}
    BY DEF Says
  <2>4. \A c : GetStatusCode(action.update, c) =
                  IF (c = 0 /\ d.on.codes = {}) \/ (d.on.exclude <=> c \notin d.on.codes) THEN Says(d)
                  ELSE IF c = 0 THEN Nothing ELSE SaysFallback(d)
    BY <2>1, <2>2 DEF GetStatusCode
  <2>5. Accepts(d.on, 0) <=> GetStatusCode(action.update, 0).value # {}
    BY <2>3, <2>4 DEF Accepts, Nothing
  <2>6. CASE code = 0
    <3>1. Accepts(d.on, 0)
      BY <2>5, <2>6
    <3>2. GetStatusCode(action.update, 0) = Says(d)
      BY <2>4, <3>1 DEF Accepts
    <3> QED
      BY <1>2, <2>1, <2>6, <3>1, <3>2 DEF S
  <2>7. CASE code # 0
    <3>1. ~ Accepts(d.on, 0)
      BY <2>5, <2>7
    <3>2. GetStatusCode(action.update, code) = IF Accepts(d.on, code) THEN Says(d) ELSE SaysFallback(d)
      BY <2>4, <2>7, <3>1 DEF Accepts
    <3> QED
      BY <1>2, <2>1, <3>2 DEF S
  <2> QED
    BY <2>6, <2>7
<1> QED
  BY <1>3, <1>4

LEMMA LogSpoken ==
  ASSUME rules \in Chosen, MergedOf(rules, action, Kept), NEW code
  PROVE  SpokenBy(GetLogOverride(action.log, code), Obeyed({k \in Kept : rules[k].log # {}}, code), Logs(rules))
<1> DEFINE S == {k \in Kept : rules[k].log # {}}
<1>1. S \subseteq Kept /\ Stands(rules, action.log, S, Logs(rules))
  BY DEF MergedOf
<1> HIDE DEF S
<1>2. /\ action.log = {} => Obeyed(S, code) = {}
      /\ \A d \in action.log :
           /\ action.log = {d}
           /\ Accepts(d.on, code) => SpokenBy(Says(d), Obeyed(S, code), Logs(rules))
           /\ ~ Accepts(d.on, code) => SpokenBy(SaysFallback(d), Obeyed(S, code), Logs(rules))
  BY <1>1, Spoken
<1> SUFFICES SpokenBy(GetLogOverride(action.log, code), Obeyed(S, code), Logs(rules))
  BY DEF S
<1>3. CASE action.log = {}
  <2>1. GetLogOverride(action.log, code) = Nothing
    BY <1>3 DEF GetLogOverride
  <2> QED
    BY <1>2, <1>3, <2>1 DEF SpokenBy, Nothing
<1>4. CASE action.log # {}
  <2>1. PICK d : action.log = {d}
    BY <1>2, <1>4
  <2>2. (CHOOSE e \in action.log : TRUE) = d
    BY <2>1
  <2>3. CASE Accepts(d.on, code)
    <3>1. GetLogOverride(action.log, code) = Says(d)
      BY <2>1, <2>2, <2>3 DEF GetLogOverride
    <3> QED
      BY <1>2, <2>1, <2>3, <3>1
  <2>4. CASE ~ Accepts(d.on, code)
    <3>1. GetLogOverride(action.log, code) = [SaysFallback(d) EXCEPT !.units = {}]
      BY <2>1, <2>2, <2>4 DEF GetLogOverride
    <3>2. /\ GetLogOverride(action.log, code).value = SaysFallback(d).value
          /\ GetLogOverride(action.log, code).ids = SaysFallback(d).ids
      BY <3>1 DEF SaysFallback
    <3>3. SpokenBy(SaysFallback(d), Obeyed(S, code), Logs(rules))
      BY <1>2, <2>1, <2>4
    <3> QED
      BY <3>2, <3>3 DEF SpokenBy
  <2> QED
    BY <2>3, <2>4
<1> QED
  BY <1>3, <1>4

StatusObeyed == Obeyed({k \in Kept : rules[k].status # 0}, asked)

LogObeyed == Obeyed({k \in Kept : rules[k].log # {}}, status)

LEMMA SameRules ==
  ASSUME rules' = rules
  PROVE  /\ Kept' = Kept
         /\ StatusObeyed' = Obeyed({k \in Kept : rules[k].status # 0}, asked')
         /\ LogObeyed' = Obeyed({k \in Kept : rules[k].log # {}}, status')
<1>1. Kept' = Kept
  BY DEF Kept
<1>2. StatusObeyed' = Obeyed({k \in Kept : rules[k].status # 0}, asked')
  BY <1>1 DEF StatusObeyed, Obeyed, Latest, Accepting, Accepts, On
<1>3. LogObeyed' = Obeyed({k \in Kept : rules[k].log # {}}, status')
  BY <1>1 DEF LogObeyed, Obeyed, Latest, Accepting, Accepts, On
<1> QED
  BY <1>1, <1>2, <1>3

----------------------------------------------------------------------------
(* The invariant: the action is what the rules that count so far are       *)
(* merged to, and what was said of it since is what they say.              *)

IsAction(a) ==
  a = [update |-> a.update, headerFilters |-> a.headerFilters, bodyFilters |-> a.bodyFilters,
       traces |-> a.traces, log |-> a.log, peer |-> a.peer, tags |-> a.tags,
       requestFilters |-> a.requestFilters, variables |-> a.variables]

HeardFor(id, code) == \E k \in Kept : Accepts(On(rules[k]), code) /\ rules[k].id = id

AppliedOnly == \A id \in applied : HeardFor(id, 0) \/ HeardFor(id, backend.code) \/ HeardFor(id, status)

AllApplied == \A k \in Kept : Accepts(On(rules[k]), backend.code) => rules[k].id \in applied

ActionInv ==
  /\ rules \in Chosen /\ at \in 1..(Len(rules) + 1)
  /\ at <= Len(rules) => stage = "rules" /\ \A j \in 1..(at - 1) : ~ rules[j].stop
  /\ IsAction(action) /\ MergedOf(rules, action, KeptUpto(rules, at))

ResponseInv ==
  /\ ActionInv
  /\ stage \in {"rules", "request", "status"} => backend.code = 0 /\ status = 0
  /\ AppliedOnly
  /\ stage \in {"create", "body", "tags", "done"} => AllApplied
  /\ StatusHasItsRule /\ LogHasItsRule

(* AppliedWereHeard is a part of it, and follows from it at the end.       *)
LEMMA InvImpliesApplied == ResponseInv => AppliedWereHeard
<1> SUFFICES ASSUME ResponseInv PROVE AppliedWereHeard
  OBVIOUS
<1>1. applied \subseteq {rules[k].id : k \in Accepting(0) \cup Accepting(backend.code) \cup Accepting(status)}
  BY DEF ResponseInv, AppliedOnly, HeardFor, Accepting
<1>2. stage = "done" => {rules[k].id : k \in Accepting(backend.code)} \subseteq applied
  BY DEF ResponseInv, AllApplied, Accepting
<1> QED
  BY <1>1, <1>2 DEF AppliedWereHeard

LEMMA ResponseInvInit == ResponseInit => ResponseInv
<1> SUFFICES ASSUME ResponseInit PROVE ResponseInv
  OBVIOUS
<1>1. rules \in Chosen /\ at = 1 /\ action = NoAction /\ stage = "rules" /\ applied = {}
      /\ backend.code = 0 /\ status = 0
  BY DEF ResponseInit
<1>2. Len(rules) \in Nat
  BY <1>1, RulesAssumption
<1>3. KeptUpto(rules, 1) = {}
  BY DEF KeptUpto, TakenUpto
<1>4. IsAction(NoAction)
  BY DEF IsAction, NoAction
<1>5. ActionInv
  BY <1>1, <1>2, <1>3, <1>4, MergedOfNone, SMTT(20) DEF ActionInv
<1> QED
  BY <1>1, <1>5 DEF ResponseInv, AppliedOnly, StatusHasItsRule, LogHasItsRule

LEMMA ActionIsAction ==
  /\ \A r : IsAction(FromRouteRule(r))
  /\ \A a, b : IsAction(Merge(a, b))
BY DEF IsAction, FromRouteRule, Merge

LEMMA TakeRuleInv == ResponseInv /\ TakeRule => ResponseInv'
<1> SUFFICES ASSUME ResponseInv, TakeRule PROVE ResponseInv'
  OBVIOUS
<1> DEFINE r == rules[at]
           n == at
<1>1. /\ rules \in Chosen /\ at \in 1..Len(rules) /\ \A j \in 1..(at - 1) : ~ rules[j].stop
      /\ MergedOf(rules, action, KeptUpto(rules, at)) /\ Len(rules) \in Nat
  BY RulesAssumption DEF ResponseInv, ActionInv, TakeRule
<1>2. /\ action' = IF r.reset THEN FromRouteRule(r) ELSE Merge(action, FromRouteRule(r))
      /\ at' = IF r.stop THEN Len(rules) + 1 ELSE at + 1
      /\ stage = "rules" /\ rules' = rules /\ stage' = stage /\ backend' = backend /\ status' = status
      /\ applied' = applied
  BY DEF TakeRule
<1>3. KeptUpto(rules, at') = IF r.reset THEN {at} ELSE KeptUpto(rules, at) \cup {at}
  BY <1>1, <1>2, KeptNext
<1>4. KeptUpto(rules, at) \subseteq 1..(at - 1)
  BY DEF KeptUpto, TakenUpto
<1>5. MergedOf(rules, action', KeptUpto(rules, at'))
  BY <1>1, <1>2, <1>3, <1>4, MergedOfRule, MergedOfBoth, ZenonT(20)
<1>6. IsAction(action')
  BY <1>2, ActionIsAction
<1>7. /\ at' \in 1..(Len(rules) + 1)
      /\ at' <= Len(rules) => \A j \in 1..(at' - 1) : ~ rules[j].stop
  BY <1>1, <1>2
<1>8. ActionInv'
  <2>1. MergedOf(rules, action, KeptUpto(rules, at))'
    BY <1>2, <1>5
  <2>2. IsAction(action)'
    BY <1>6 DEF IsAction
  <2> QED
    BY <1>1, <1>2, <1>7, <2>1, <2>2 DEF ActionInv
<1>9. AppliedOnly'
  BY <1>2, SameRules DEF ResponseInv, AppliedOnly, HeardFor, Accepts, On
<1> QED
  BY <1>2, <1>8, <1>9 DEF ResponseInv, StatusHasItsRule, LogHasItsRule

(* Once the rules are merged, a step that changes neither them nor what    *)
(* the response needs of the action leaves the rest as it was.             *)
LEMMA ActionStays ==
  ASSUME ActionInv, at > Len(rules), rules' = rules, at' = at, IsAction(action'),
         /\ action'.update = action.update /\ action'.log = action.log /\ action'.peer = action.peer
         /\ action'.headerFilters = action.headerFilters /\ action'.bodyFilters = action.bodyFilters
         /\ action'.traces = action.traces /\ action'.requestFilters = action.requestFilters
  PROVE  ActionInv'
<1>1. MergedOf(rules, action', KeptUpto(rules, at))
  BY ZenonT(20) DEF ActionInv, MergedOf, RequestPartsOf
<1>2. IsAction(action)'
  BY DEF IsAction
<1> QED
  BY <1>1, <1>2, RulesAssumption DEF ActionInv

LEMMA MergedAtEnd ==
  ASSUME ActionInv, at > Len(rules)
  PROVE  MergedOf(rules, action, Kept) /\ rules \in Chosen /\ Kept \subseteq 1..Len(rules)
<1>1. rules \in Chosen /\ Len(rules) \in Nat /\ at = Len(rules) + 1
  BY RulesAssumption DEF ActionInv
<1> QED
  BY <1>1, KeptAtEnd, KeptAreNumbers DEF ActionInv

(* More is applied, and all of it is heard.                                *)
LEMMA AppliedGrows ==
  ASSUME AppliedOnly, rules' = rules, backend'.code = backend.code, status' = status,
         \A id \in applied' \ applied : HeardFor(id, 0) \/ HeardFor(id, backend.code) \/ HeardFor(id, status)
  PROVE  AppliedOnly'
BY SameRules DEF AppliedOnly, HeardFor

LEMMA StatusStays ==
  ASSUME StatusHasItsRule, rules' = rules, asked' = asked, status' = status, applied \subseteq applied',
         stage \notin {"rules", "request", "status"}
  PROVE  StatusHasItsRule'
BY SameRules DEF StatusHasItsRule, StatusObeyed

LEMMA LogStays ==
  ASSUME LogHasItsRule, rules' = rules, status' = status, logged' = logged, applied \subseteq applied',
         stage \in {"tags", "done"}
  PROVE  LogHasItsRule'
BY SameRules DEF LogHasItsRule, LogObeyed

LEMMA AllStays ==
  ASSUME AllApplied, rules' = rules, backend'.code = backend.code, applied \subseteq applied'
  PROVE  AllApplied'
BY SameRules DEF AllApplied

LEMMA GetPeerInv == ResponseInv /\ GetPeer => ResponseInv'
<1> SUFFICES ASSUME ResponseInv, GetPeer PROVE ResponseInv'
  OBVIOUS
<1>1. /\ at > Len(rules) /\ stage = "rules" /\ stage' = "request" /\ rules' = rules /\ at' = at
      /\ action' = action /\ backend' = backend /\ status' = status
      /\ applied' = applied \cup {p.id : p \in action.peer}
  BY DEF GetPeer
<1>2. ActionInv /\ AppliedOnly /\ backend.code = 0 /\ status = 0
  BY <1>1 DEF ResponseInv
<1>3. ActionInv'
  BY <1>1, <1>2, ActionStays DEF ActionInv
<1>4. ASSUME NEW p \in action.peer PROVE HeardFor(p.id, 0)
  BY <1>1, <1>2, MergedAtEnd DEF MergedOf, RequestPartsOf, HeardFor, Accepts, On
<1>5. AppliedOnly'
  BY <1>1, <1>2, <1>4, AppliedGrows
<1> QED
  BY <1>1, <1>2, <1>3, <1>5 DEF ResponseInv, StatusHasItsRule, LogHasItsRule

LEMMA FilterRequestHeadersInv == ResponseInv /\ FilterRequestHeaders => ResponseInv'
<1> SUFFICES ASSUME ResponseInv, FilterRequestHeaders PROVE ResponseInv'
  OBVIOUS
<1> DEFINE fs == action.requestFilters
<1>1. /\ stage = "request" /\ stage' = "status" /\ rules' = rules /\ at' = at
      /\ action' = action /\ backend' = backend /\ status' = status
      /\ applied' = applied \cup {fs[k].id : k \in DOMAIN fs}
  BY DEF FilterRequestHeaders
<1>2. ActionInv /\ AppliedOnly /\ backend.code = 0 /\ status = 0 /\ at > Len(rules)
  BY <1>1, RulesAssumption DEF ResponseInv, ActionInv
<1>3. ActionInv'
  BY <1>1, <1>2, ActionStays DEF ActionInv
<1>4. ASSUME NEW k \in DOMAIN fs PROVE HeardFor(fs[k].id, 0)
  <2>1. MergedOf(rules, action, Kept)
    BY <1>2, MergedAtEnd
  <2>2. DOMAIN fs = 1..Len(fs)
    BY <2>1 DEF MergedOf, RequestPartsOf, IsSeq
  <2> QED
    BY <2>1, <2>2 DEF MergedOf, RequestPartsOf, HeardFor, Accepts, On
<1>5. AppliedOnly'
  BY <1>1, <1>2, <1>4, AppliedGrows
<1> QED
  BY <1>1, <1>2, <1>3, <1>5 DEF ResponseInv, StatusHasItsRule, LogHasItsRule

(* What the action said of the status is given.                            *)
LEMMA Given ==
  ASSUME ActionInv, at > Len(rules), AppliedOnly, backend.code = 0, status = 0, rules' = rules,
         NEW said,
         SpokenBy(said, Obeyed({k \in Kept : rules[k].status # 0}, asked'), Statuses(rules)),
         status' = IF said.value = {} THEN 0 ELSE CHOOSE v \in said.value : TRUE,
         applied' = applied \cup said.ids,
         asked' \in {0, backend'.code}
  PROVE  StatusHasItsRule' /\ AppliedOnly'
<1> DEFINE S == {k \in Kept : rules[k].status # 0}
           O == Obeyed(S, asked')
<1>1. StatusObeyed' = O /\ Kept' = Kept
  BY SameRules
<1>2. O \subseteq Accepting(asked') /\ Kept \subseteq 1..Len(rules)
  BY ObeyedAccepts, MergedAtEnd
<1>3. Accepting(asked') \subseteq Kept
  BY DEF Accepting
<1> HIDE DEF S, O
<1>4. SpokenBy(said, O, Statuses(rules))
  BY DEF O, S
<1>5. IF O = {} THEN status' = 0 /\ said.ids = {}
      ELSE \E k \in O : status' = rules[k].status /\ said.ids = {rules[k].id}
  <2>1. CASE O = {}
    BY <1>4, <2>1 DEF SpokenBy
  <2>2. CASE O # {}
    <3>1. PICK k \in O : said.value = {Statuses(rules)[k]} /\ said.ids = {rules[k].id}
      BY <1>4, <2>2 DEF SpokenBy
    <3>2. Statuses(rules)[k] = rules[k].status
      BY <1>2, <1>3 DEF Statuses
    <3>3. status' = rules[k].status
      BY <3>1, <3>2
    <3> QED
      BY <2>2, <3>1, <3>3
  <2> QED
    BY <2>1, <2>2
<1>6. StatusHasItsRule'
  <2>1. IF O = {} THEN status' = 0
        ELSE \E k \in O : status' = rules'[k].status /\ rules'[k].id \in applied'
    BY <1>5
  <2> QED
    BY <1>1, <2>1 DEF StatusHasItsRule, StatusObeyed
<1>7. ASSUME NEW id \in applied'
      PROVE  HeardFor(id, 0)' \/ HeardFor(id, backend.code)'
  <2>1. CASE id \in applied
    BY <1>1, <2>1 DEF AppliedOnly, HeardFor
  <2>2. CASE id \in said.ids
    <3>1. PICK k \in O : id = rules[k].id
      BY <1>5, <2>2
    <3>2. k \in Kept /\ Accepts(On(rules[k]), asked')
      BY <1>2, <3>1 DEF Accepting
    <3> QED
      BY <1>1, <3>1, <3>2 DEF HeardFor
  <2> QED
    BY <2>1, <2>2
<1> QED
  BY <1>6, <1>7 DEF AppliedOnly

LEMMA AnswerAtOnceInv == ResponseInv /\ AnswerAtOnce => ResponseInv'
<1> SUFFICES ASSUME ResponseInv, AnswerAtOnce PROVE ResponseInv'
  OBVIOUS
<1> DEFINE said == GetStatusCode(action.update, 0)
<1>1. /\ stage = "status" /\ said.value # {} /\ stage' = "headers"
      /\ status' = IF said.value = {} THEN 0 ELSE CHOOSE v \in said.value : TRUE
      /\ applied' = applied \cup said.ids /\ asked' = 0
      /\ rules' = rules /\ at' = at /\ action' = action
  BY DEF AnswerAtOnce, Give
<1>2. ActionInv /\ AppliedOnly /\ backend.code = 0 /\ status = 0 /\ at > Len(rules)
  BY <1>1, RulesAssumption DEF ResponseInv, ActionInv
<1>3. ActionInv'
  BY <1>1, <1>2, ActionStays DEF ActionInv
<1>4. SpokenBy(said, Obeyed({k \in Kept : rules[k].status # 0}, 0), Statuses(rules))
  BY <1>1, <1>2, MergedAtEnd, StatusSpoken
<1>5. StatusHasItsRule' /\ AppliedOnly'
  <2> HIDE DEF said
  <2> QED
    BY <1>1, <1>2, <1>4, Given
<1> QED
  BY <1>1, <1>3, <1>5 DEF ResponseInv, LogHasItsRule

LEMMA AnswerBackendInv == ResponseInv /\ AnswerBackend => ResponseInv'
<1> SUFFICES ASSUME ResponseInv, AnswerBackend PROVE ResponseInv'
  OBVIOUS
<1>1. PICK b \in Backend(rules) : backend' = b /\ asked' = b.code /\ Give(GetStatusCode(action.update, b.code))
  BY DEF AnswerBackend
<1> DEFINE said == GetStatusCode(action.update, b.code)
<1>2. /\ stage = "status" /\ GetStatusCode(action.update, 0).value = {} /\ stage' = "headers"
      /\ status' = IF said.value = {} THEN 0 ELSE CHOOSE v \in said.value : TRUE
      /\ applied' = applied \cup said.ids
      /\ rules' = rules /\ at' = at /\ action' = action
  BY <1>1 DEF AnswerBackend, Give
<1>3. ActionInv /\ AppliedOnly /\ backend.code = 0 /\ status = 0 /\ at > Len(rules)
  BY <1>2, RulesAssumption DEF ResponseInv, ActionInv
<1>4. ActionInv'
  BY <1>2, <1>3, ActionStays DEF ActionInv
<1>5. b.code # 0
  BY <1>3, MergedAtEnd, BackendAssumption
<1>6. SpokenBy(said, Obeyed({k \in Kept : rules[k].status # 0}, b.code), Statuses(rules))
  BY <1>2, <1>3, <1>5, MergedAtEnd, StatusSpoken
<1>7. StatusHasItsRule' /\ AppliedOnly'
  <2> HIDE DEF said
  <2> QED
    BY <1>1, <1>2, <1>3, <1>6, Given
<1> QED
  BY <1>2, <1>4, <1>7 DEF ResponseInv, LogHasItsRule

LEMMA FilterHeadersInv == ResponseInv /\ FilterHeaders => ResponseInv'
<1> SUFFICES ASSUME ResponseInv, FilterHeaders PROVE ResponseInv'
  OBVIOUS
<1>1. /\ stage = "headers" /\ stage' = "create"
      /\ action' = [action EXCEPT !.tags = [k \in DOMAIN @ |-> TagsResolved(@[k], backend.headers)]]
      /\ applied' = applied \cup {t.id : t \in {u \in action.traces : Accepts(u, backend.code)}}
                            \cup Ids(action.headerFilters, backend.code)
      /\ rules' = rules /\ at' = at /\ asked' = asked /\ status' = status /\ backend' = backend
  BY Zenon DEF FilterHeaders
<1>2. ActionInv /\ AppliedOnly /\ at > Len(rules) /\ StatusHasItsRule
  BY <1>1, RulesAssumption DEF ResponseInv, ActionInv
<1>3. ActionInv'
  <2>1. PICK t : action' = [action EXCEPT !.tags = t]
    BY <1>1, Zenon
  <2>2. action = [update |-> action.update, headerFilters |-> action.headerFilters, bodyFilters |-> action.bodyFilters,
                  traces |-> action.traces, log |-> action.log, peer |-> action.peer, tags |-> action.tags,
                  requestFilters |-> action.requestFilters, variables |-> action.variables]
    BY <1>2 DEF ActionInv, IsAction
  <2>3. action' = [update |-> action.update, headerFilters |-> action.headerFilters, bodyFilters |-> action.bodyFilters,
                   traces |-> action.traces, log |-> action.log, peer |-> action.peer, tags |-> t,
                   requestFilters |-> action.requestFilters, variables |-> action.variables]
    BY <2>1, <2>2
  <2> QED
    BY <1>1, <1>2, <2>3, ActionStays DEF IsAction
<1>4. MergedOf(rules, action, Kept)
  BY <1>2, MergedAtEnd
<1>5. ASSUME NEW id \in applied' \ applied PROVE HeardFor(id, backend.code)
  <2>1. CASE id \in {t.id : t \in {u \in action.traces : Accepts(u, backend.code)}}
    BY <1>4, <2>1 DEF MergedOf, HeardFor, On
  <2>2. CASE id \in Ids(action.headerFilters, backend.code)
    <3>1. DOMAIN action.headerFilters = 1..Len(action.headerFilters)
      BY <1>4 DEF MergedOf, PartsOf, IsSeq
    <3> QED
      BY <1>4, <2>2, <3>1 DEF MergedOf, PartsOf, Ids, HeardFor, On
  <2> QED
    BY <1>1, <2>1, <2>2
<1>6. AppliedOnly'
  BY <1>1, <1>2, <1>5, AppliedGrows
<1>7. AllApplied'
  <2>1. ASSUME NEW k \in Kept, Accepts(On(rules[k]), backend.code) PROVE rules[k].id \in applied'
    BY <1>1, <1>4, <2>1 DEF MergedOf, On
  <2> QED
    BY <1>1, <2>1, SameRules DEF AllApplied
<1>8. StatusHasItsRule'
  BY <1>1, <1>2, StatusStays
<1> QED
  BY <1>1, <1>3, <1>6, <1>7, <1>8 DEF ResponseInv, LogHasItsRule

LEMMA CreateFilterBodyInv ==
  ASSUME ResponseInv, NEW hs, CreateFilterBody(hs)
  PROVE  ResponseInv'
<1>1. /\ stage = "create" /\ stage' = "body"
      /\ applied' = applied \cup Ids(action.bodyFilters, backend.code)
      /\ rules' = rules /\ at' = at /\ action' = action /\ asked' = asked /\ status' = status
      /\ backend' = backend
  BY Zenon DEF CreateFilterBody
<1>2. ActionInv /\ AppliedOnly /\ at > Len(rules) /\ StatusHasItsRule /\ AllApplied
  BY <1>1, RulesAssumption DEF ResponseInv, ActionInv
<1>3. ActionInv'
  BY <1>1, <1>2, ActionStays DEF ActionInv
<1>4. MergedOf(rules, action, Kept)
  BY <1>2, MergedAtEnd
<1>5. ASSUME NEW id \in applied' \ applied PROVE HeardFor(id, backend.code)
  <2>1. id \in Ids(action.bodyFilters, backend.code)
    BY <1>1
  <2>2. DOMAIN action.bodyFilters = 1..Len(action.bodyFilters)
    BY <1>4 DEF MergedOf, PartsOf, IsSeq
  <2> QED
    BY <1>4, <2>1, <2>2 DEF MergedOf, PartsOf, Ids, HeardFor, On
<1>6. AppliedOnly'
  BY <1>1, <1>2, <1>5, AppliedGrows
<1>7. AllApplied' /\ StatusHasItsRule'
  BY <1>1, <1>2, AllStays, StatusStays
<1> QED
  BY <1>1, <1>3, <1>6, <1>7 DEF ResponseInv, LogHasItsRule

(* Nothing of it is changed.                                               *)
LEMMA ResponseStays ==
  ASSUME ResponseInv, UNCHANGED responseVars
  PROVE  ResponseInv'
<1>1. /\ stage' = stage /\ applied' = applied /\ rules' = rules /\ at' = at /\ action' = action
      /\ asked' = asked /\ status' = status /\ backend' = backend /\ logged' = logged
  BY DEF responseVars
<1>2. ActionInv' /\ AppliedOnly' /\ (AllApplied => AllApplied')
  BY <1>1, SameRules DEF ResponseInv, ActionInv, IsAction, AppliedOnly, HeardFor, AllApplied
<1>3. StatusHasItsRule' /\ LogHasItsRule'
  BY <1>1, SameRules
     DEF ResponseInv, StatusHasItsRule, StatusObeyed, LogHasItsRule, LogObeyed
<1> QED
  BY <1>1, <1>2, <1>3 DEF ResponseInv

LEMMA ShouldLogRequestInv == ResponseInv /\ ShouldLogRequest => ResponseInv'
<1> SUFFICES ASSUME ResponseInv, ShouldLogRequest PROVE ResponseInv'
  OBVIOUS
<1> DEFINE said == GetLogOverride(action.log, status)
           S == {k \in Kept : rules[k].log # {}}
           O == Obeyed(S, status)
<1>1. /\ stage = "body" /\ stage' = "tags"
      /\ logged' = IF said.value = {} THEN TRUE ELSE CHOOSE v \in said.value : TRUE
      /\ applied' = applied \cup said.ids
      /\ rules' = rules /\ at' = at /\ action' = action /\ asked' = asked /\ status' = status
      /\ backend' = backend
  BY DEF ShouldLogRequest
<1>2. ActionInv /\ AppliedOnly /\ at > Len(rules) /\ StatusHasItsRule /\ AllApplied
  BY <1>1, RulesAssumption DEF ResponseInv, ActionInv
<1>3. ActionInv'
  BY <1>1, <1>2, ActionStays DEF ActionInv
<1>4. MergedOf(rules, action, Kept) /\ rules \in Chosen /\ Kept \subseteq 1..Len(rules)
  BY <1>2, MergedAtEnd
<1>5. SpokenBy(said, O, Logs(rules))
  BY <1>4, LogSpoken
<1>6. O \subseteq Accepting(status) /\ LogObeyed' = O
  BY <1>1, ObeyedAccepts, SameRules
<1>7. \A k \in O : k \in S /\ k \in 1..Len(rules)
  BY <1>4 DEF Obeyed, Latest
<1> HIDE DEF said
<1>8. IF O = {} THEN logged' = TRUE /\ said.ids = {}
      ELSE \E k \in O : rules[k].log = {logged'} /\ said.ids = {rules[k].id}
  <2>1. CASE O = {}
    BY <1>1, <1>5, <2>1 DEF SpokenBy
  <2>2. CASE O # {}
    <3>1. PICK k \in O : said.value = {Logs(rules)[k]} /\ said.ids = {rules[k].id}
      BY <1>5, <2>2 DEF SpokenBy
    <3>2. Logs(rules)[k] = SomeOf(rules[k].log) /\ rules[k].log # {}
      BY <1>7, <3>1 DEF Logs
    <3>3. PICK l : rules[k].log = {l}
      <4>1. rules[k].log \in {{}, {TRUE}, {FALSE}}
        BY <1>4, <1>7, RulesAssumption, Zenon
      <4> QED
        BY <3>2, <4>1, Zenon
    <3>4. logged' = SomeOf(rules[k].log) /\ SomeOf(rules[k].log) = l
      BY <1>1, <3>1, <3>2, <3>3 DEF SomeOf
    <3> QED
      BY <2>2, <3>1, <3>3, <3>4
  <2> QED
    BY <2>1, <2>2
<1> HIDE DEF O, S
<1>9. LogHasItsRule'
  <2>1. IF O = {} THEN logged'
        ELSE \E k \in O : rules'[k].log = {logged'} /\ rules'[k].id \in applied'
    BY <1>1, <1>8
  <2> QED
    BY <1>6, <2>1 DEF LogHasItsRule, LogObeyed
<1>10. ASSUME NEW id \in applied' \ applied PROVE HeardFor(id, status)
  <2>1. PICK k \in O : id = rules[k].id
    BY <1>1, <1>8
  <2> QED
    BY <1>6, <2>1 DEF Accepting, HeardFor
<1>11. AppliedOnly'
  BY <1>1, <1>2, <1>10, AppliedGrows
<1>12. AllApplied' /\ StatusHasItsRule'
  BY <1>1, <1>2, AllStays, StatusStays
<1> QED
  BY <1>1, <1>3, <1>9, <1>11, <1>12 DEF ResponseInv

LEMMA GetLogTagsInv == ResponseInv /\ GetLogTags => ResponseInv'
<1> SUFFICES ASSUME ResponseInv, GetLogTags PROVE ResponseInv'
  OBVIOUS
<1>1. /\ stage = "tags" /\ stage' = "done" /\ applied' = applied /\ logged' = logged
      /\ rules' = rules /\ at' = at /\ action' = action /\ asked' = asked /\ status' = status
      /\ backend' = backend
  BY DEF GetLogTags
<1>2. ActionInv /\ AppliedOnly /\ at > Len(rules) /\ StatusHasItsRule /\ LogHasItsRule /\ AllApplied
  BY <1>1, RulesAssumption DEF ResponseInv, ActionInv
<1>3. ActionInv'
  BY <1>1, <1>2, ActionStays DEF ActionInv
<1>4. AppliedOnly'
  BY <1>1, <1>2, AppliedGrows
<1>5. AllApplied' /\ StatusHasItsRule' /\ LogHasItsRule'
  BY <1>1, <1>2, AllStays, StatusStays, LogStays
<1> QED
  BY <1>1, <1>3, <1>4, <1>5 DEF ResponseInv

LEMMA ResponseStep == ResponseInv /\ [ResponseNext]_<<responseVars, bodyVars>> => ResponseInv'
<1> SUFFICES ASSUME ResponseInv, [ResponseNext]_<<responseVars, bodyVars>> PROVE ResponseInv'
  OBVIOUS
<1>1. CASE FilterBody
  BY <1>1, ResponseStays DEF FilterBody
<1>2. CASE UNCHANGED <<responseVars, bodyVars>>
  BY <1>2, ResponseStays
<1> QED
  BY <1>1, <1>2, TakeRuleInv, GetPeerInv, FilterRequestHeadersInv, AnswerAtOnceInv, AnswerBackendInv,
     FilterHeadersInv, CreateFilterBodyInv, ShouldLogRequestInv, GetLogTagsInv DEF ResponseNext

LEMMA ResponseAlways == ResponseSpec => []ResponseInv
BY ResponseInvInit, ResponseStep, PTL DEF ResponseSpec

(* The status is that of the rule to be obeyed for the code that was asked:*)
(* Action::merge keeps one fallback beside the last status, and that is    *)
(* enough for get_status_code, whatever the rules exclude, reset and stop. *)
THEOREM StatusIsObeyed == ResponseSpec => []StatusHasItsRule
<1>1. ResponseInv => StatusHasItsRule
  BY DEF ResponseInv
<1> QED
  BY <1>1, ResponseAlways, PTL

(* So is what should_log_request answers, for the status of the action.    *)
THEOREM LogIsObeyed == ResponseSpec => []LogHasItsRule
<1>1. ResponseInv => LogHasItsRule
  BY DEF ResponseInv
<1> QED
  BY <1>1, ResponseAlways, PTL

(* rules_applied has no rule that a reset or a stop has ended, and none    *)
(* that is for other codes; at the end it has all that are for the code.   *)
THEOREM AppliedAreHeard == ResponseSpec => []AppliedWereHeard
BY InvImpliesApplied, ResponseAlways, PTL

-----------------------------------------------------------------------------
(* What the texts of the merged action mean: the body filters and the     *)
(* tags, once the headers of the backend are known.                        *)

LEMMA EmptyIsSeq == IsSeq(<<>>) /\ Len(<<>>) = 0
BY DEF IsSeq

LEMMA EmptyIsIt ==
  ASSUME NEW s, IsSeq(s), Len(s) = 0
  PROVE  s = <<>>
<1>1. s = [k \in 1..0 |-> s[k]]
  BY DEF IsSeq
<1> QED
  BY <1>1

LEMMA SameSeq ==
  ASSUME NEW s, NEW t, IsSeq(s), IsSeq(t), Len(s) = Len(t), \A k \in 1..Len(s) : s[k] = t[k]
  PROVE  s = t
BY DEF IsSeq

LEMMA ConcatIsIt ==
  ASSUME NEW s, NEW t, NEW u, IsSeq(s), IsSeq(t), IsSeq(u), Len(u) = Len(s) + Len(t),
         \A k \in 1..Len(s) : u[k] = s[k], \A k \in 1..Len(t) : u[Len(s) + k] = t[k]
  PROVE  u = s \o t
<1>1. /\ IsSeq(s \o t) /\ Len(s \o t) = Len(s) + Len(t)
      /\ \A k \in 1..Len(s) : (s \o t)[k] = s[k]
      /\ \A k \in 1..Len(t) : (s \o t)[Len(s) + k] = t[k]
  BY ConcatIsSeq
<1>2. Len(s) \in Nat /\ Len(t) \in Nat
  BY DEF IsSeq
<1>3. ASSUME NEW k \in 1..Len(u) PROVE u[k] = (s \o t)[k]
  <2>1. CASE k <= Len(s)
    BY <1>1, <1>2, <2>1
  <2>2. CASE ~ (k <= Len(s))
    <3>1. k - Len(s) \in 1..Len(t) /\ k = Len(s) + (k - Len(s))
      BY <1>2, <2>2
    <3> QED
      BY <1>1, <3>1
  <2> QED
    BY <2>1, <2>2
<1> QED
  BY <1>1, <1>3, SameSeq

LEMMA ConcatEmpty ==
  ASSUME NEW s, IsSeq(s)
  PROVE  s \o <<>> = s /\ <<>> \o s = s
<1>1. IsSeq(<<>>) /\ Len(<<>>) = 0 /\ Len(s) \in Nat
  BY EmptyIsSeq DEF IsSeq
<1>2. s = s \o <<>>
  BY <1>1, ConcatIsIt
<1>3. s = <<>> \o s
  BY <1>1, ConcatIsIt
<1> QED
  BY <1>2, <1>3

LEMMA ConcatThree ==
  ASSUME NEW s, NEW t, NEW u, IsSeq(s), IsSeq(t), IsSeq(u)
  PROVE  s \o (t \o u) = (s \o t) \o u
<1>1. Len(s) \in Nat /\ Len(t) \in Nat /\ Len(u) \in Nat
  BY DEF IsSeq
<1> DEFINE l == s \o t
           r == t \o u
           w == s \o r
<1>2. /\ IsSeq(l) /\ Len(l) = Len(s) + Len(t)
      /\ \A k \in 1..Len(s) : l[k] = s[k]
      /\ \A k \in 1..Len(t) : l[Len(s) + k] = t[k]
  BY ConcatIsSeq
<1>3. /\ IsSeq(r) /\ Len(r) = Len(t) + Len(u)
      /\ \A k \in 1..Len(t) : r[k] = t[k]
      /\ \A k \in 1..Len(u) : r[Len(t) + k] = u[k]
  BY ConcatIsSeq
<1> HIDE DEF l, r
<1>4. /\ IsSeq(w) /\ Len(w) = Len(s) + Len(r)
      /\ \A k \in 1..Len(s) : w[k] = s[k]
      /\ \A k \in 1..Len(r) : w[Len(s) + k] = r[k]
  BY <1>3, ConcatIsSeq
<1> HIDE DEF w
<1>5. Len(w) = Len(l) + Len(u)
  BY <1>1, <1>2, <1>3, <1>4
<1>6. ASSUME NEW k \in 1..Len(l) PROVE w[k] = l[k]
  <2>1. CASE k <= Len(s)
    BY <1>1, <1>2, <1>4, <2>1
  <2>2. CASE ~ (k <= Len(s))
    <3>1. k - Len(s) \in 1..Len(t) /\ k - Len(s) \in 1..Len(r) /\ k = Len(s) + (k - Len(s))
      BY <1>1, <1>2, <1>3, <2>2
    <3>2. l[k] = t[k - Len(s)] /\ r[k - Len(s)] = t[k - Len(s)]
      BY <1>2, <1>3, <3>1
    <3>3. w[k] = r[k - Len(s)]
      BY <1>4, <3>1
    <3> QED
      BY <3>2, <3>3
  <2> QED
    BY <2>1, <2>2
<1>7. ASSUME NEW k \in 1..Len(u) PROVE w[Len(l) + k] = u[k]
  <2>1. Len(t) + k \in 1..Len(r) /\ Len(l) + k = Len(s) + (Len(t) + k)
    BY <1>1, <1>2, <1>3
  <2>2. w[Len(s) + (Len(t) + k)] = r[Len(t) + k]
    BY <1>4, <2>1
  <2> QED
    BY <1>3, <2>1, <2>2
<1>8. w = l \o u
  BY <1>2, <1>4, <1>5, <1>6, <1>7, ConcatIsIt
<1> QED
  BY <1>8 DEF w, l, r

(* Flattened, one more comes behind.                                       *)
AllSeqs(seqs) == IsSeq(seqs) /\ \A k \in 1..Len(seqs) : IsSeq(seqs[k])

LEMMA FlattenIs ==
  ASSUME NEW s
  PROVE  FlattenSeq(s) = IF Len(s) = 0 THEN s ELSE (CHOOSE h : Flattening(s, Len(s), h))[Len(s)]
<1> DEFINE n == Len(s)
           flatten == CHOOSE h : Flattening(s, n, h)
<1>1. FlattenSeq(s) = IF n = 0 THEN s ELSE flatten[n]
  BY Zenon DEF FlattenSeq, flatten, Flattening
<1> QED
  BY <1>1

LEMMA FlattenMore ==
  ASSUME NEW n \in Nat, NEW s, AllSeqs(s), Len(s) = n + 1,
         NEW t, IsSeq(t), Len(t) = n, \A k \in 1..n : t[k] = s[k]
  PROVE  FlattenSeq(s) = FlattenSeq(t) \o s[n + 1]
<1> DEFINE f == CHOOSE h : Flattening(s, n + 1, h)
           g == CHOOSE h : Flattening(t, n, h)
<1>1. Flattening(s, n + 1, f) /\ Flattening(t, n, g)
  <2>1. \E h : Flattening(s, n + 1, h)
    <3> DEFINE m == n + 1
    <3>1. m \in Nat
      OBVIOUS
    <3> HIDE DEF m
    <3>2. \E h : Flattening(s, m, h)
      BY <3>1, FlatteningExists
    <3> QED
      BY <3>2 DEF m
  <2>2. \E h : Flattening(t, n, h)
    BY FlatteningExists
  <2> QED
    BY <2>1, <2>2, Zenon
<1>2. /\ FlattenSeq(s) = IF Len(s) = 0 THEN s ELSE (CHOOSE h : Flattening(s, Len(s), h))[Len(s)]
      /\ FlattenSeq(t) = IF Len(t) = 0 THEN t ELSE (CHOOSE h : Flattening(t, Len(t), h))[Len(t)]
  BY FlattenIs
<1>3. FlattenSeq(s) = f[n + 1] /\ FlattenSeq(t) = IF n = 0 THEN t ELSE g[n]
  BY <1>2
<1> HIDE DEF f, g
<1>4. /\ \A k \in 1..(n + 1) : f[k] = IF k = 1 THEN s[k] ELSE f[k - 1] \o s[k]
      /\ \A k \in 1..n : g[k] = IF k = 1 THEN t[k] ELSE g[k - 1] \o t[k]
  BY <1>1 DEF Flattening
<1>5. \A k \in 1..n : f[k] = g[k]
  <2> DEFINE S == {k \in 1..n : f[k] # g[k]}
  <2>1. SUFFICES ASSUME S # {} PROVE FALSE
    OBVIOUS
  <2>2. PICK m \in S : \A k \in S : m <= k
    <3>1. S \subseteq Nat
      OBVIOUS
    <3> HIDE DEF S
    <3> QED
      BY <2>1, <3>1, Least
  <2>3. m \in 1..n /\ f[m] # g[m] /\ m \in 1..(n + 1) /\ s[m] = t[m]
    BY <2>2
  <2>4. m # 1
    BY <1>4, <2>3
  <2>5. m - 1 \in 1..n /\ m - 1 \notin S
    BY <2>2, <2>3, <2>4
  <2>6. f[m - 1] = g[m - 1]
    BY <2>5
  <2> QED
    BY <1>4, <2>3, <2>4, <2>6
<1>6. CASE n = 0
  <2>1. t = <<>>
    BY <1>6, EmptyIsIt
  <2>2. IsSeq(s[1])
    BY <1>6 DEF AllSeqs
  <2> QED
    BY <1>3, <1>4, <1>6, <2>1, <2>2, ConcatEmpty
<1>7. CASE n # 0
  <2>1. n \in 1..n /\ n + 1 \in 1..(n + 1) /\ n + 1 # 1 /\ (n + 1) - 1 = n
    BY <1>7
  <2>2. f[n + 1] = f[n] \o s[n + 1]
    BY <1>4, <2>1
  <2> QED
    BY <1>3, <1>5, <1>7, <2>1, <2>2
<1> QED
  BY <1>6, <1>7

Upto(s, n) == [k \in 1..n |-> s[k]]

LEMMA UptoIsSeq ==
  ASSUME NEW s, IsSeq(s), NEW n \in 0..Len(s)
  PROVE  /\ IsSeq(Upto(s, n)) /\ Len(Upto(s, n)) = n /\ \A k \in 1..n : Upto(s, n)[k] = s[k]
         /\ AllSeqs(s) => AllSeqs(Upto(s, n))
<1>1. n \in Nat /\ n <= Len(s) /\ Len(s) \in Nat
  BY DEF IsSeq
<1>2. \A k \in 1..n : Upto(s, n)[k] = s[k]
  BY DEF Upto
<1>3. Upto(s, n) = [k \in 1..n |-> Upto(s, n)[k]]
  BY DEF Upto
<1>4. IsSeq(Upto(s, n)) /\ Len(Upto(s, n)) = n
  BY <1>1, <1>3, FunctionIsSeq
<1> QED
  BY <1>1, <1>2, <1>4 DEF AllSeqs

LEMMA UptoAll ==
  ASSUME NEW s, IsSeq(s)
  PROVE  Upto(s, Len(s)) = s
BY DEF Upto, IsSeq

LEMMA FlattenUpto ==
  ASSUME NEW s, AllSeqs(s), NEW n \in 1..Len(s)
  PROVE  FlattenSeq(Upto(s, n)) = FlattenSeq(Upto(s, n - 1)) \o s[n]
<1>1. IsSeq(s) /\ Len(s) \in Nat /\ n - 1 \in 0..Len(s) /\ n - 1 \in Nat /\ n \in 0..Len(s) /\ (n - 1) + 1 = n
  BY DEF AllSeqs, IsSeq
<1> DEFINE m == n - 1
           u == Upto(s, n)
           t == Upto(s, m)
<1>2. AllSeqs(u) /\ Len(u) = n /\ \A k \in 1..n : u[k] = s[k]
  BY <1>1, UptoIsSeq
<1>3. IsSeq(t) /\ Len(t) = m /\ \A k \in 1..m : t[k] = s[k]
  BY <1>1, UptoIsSeq
<1>4. m \in Nat /\ m + 1 = n
  BY <1>1
<1>5. \A k \in 1..m : t[k] = u[k]
  BY <1>2, <1>3, <1>4
<1> HIDE DEF m, u, t
<1>6. FlattenSeq(u) = FlattenSeq(t) \o u[m + 1]
  BY <1>2, <1>3, <1>4, <1>5, FlattenMore
<1>7. u[m + 1] = s[n]
  BY <1>2, <1>4
<1> QED
  BY <1>6, <1>7 DEF m, u, t

LEMMA FlattenEmpty == FlattenSeq(<<>>) = <<>>
BY Zenon, EmptyIsSeq DEF FlattenSeq

LEMMA UptoNone ==
  ASSUME NEW s
  PROVE  Upto(s, 0) = <<>>
BY DEF Upto

(* Where nothing follows.                                                  *)
LEMMA FlattenRest ==
  ASSUME NEW s, AllSeqs(s), NEW n \in 0..Len(s), \A k \in 1..Len(s) : k > n => s[k] = <<>>
  PROVE  FlattenSeq(s) = FlattenSeq(Upto(s, n))
<1>1. IsSeq(s) /\ Len(s) \in Nat /\ n \in Nat
  BY DEF AllSeqs, IsSeq
<1> DEFINE S == {m \in n..Len(s) : FlattenSeq(Upto(s, m)) # FlattenSeq(Upto(s, n))}
<1>2. S = {}
  <2>1. SUFFICES ASSUME S # {} PROVE FALSE
    OBVIOUS
  <2>2. PICK m \in S : \A k \in S : m <= k
    <3>1. S \subseteq Nat
      BY <1>1
    <3> HIDE DEF S
    <3> QED
      BY <2>1, <3>1, Least
  <2>3. m # n /\ m \in n..Len(s)
    BY <2>2
  <2>4. m \in 1..Len(s) /\ m > n /\ m - 1 \in n..Len(s) /\ m - 1 \notin S
    BY <1>1, <2>2, <2>3
  <2>5. FlattenSeq(Upto(s, m)) = FlattenSeq(Upto(s, m - 1)) \o <<>>
    BY <2>4, FlattenUpto
  <2>6. IsSeq(FlattenSeq(Upto(s, m - 1)))
    <3>1. m - 1 \in 0..Len(s)
      BY <1>1, <2>4
    <3>2. AllSeqs(Upto(s, m - 1))
      BY <1>1, <3>1, UptoIsSeq
    <3> QED
      BY <3>2, FlattenIsSeq DEF AllSeqs
  <2>7. FlattenSeq(Upto(s, m)) = FlattenSeq(Upto(s, n))
    BY <2>4, <2>5, <2>6, ConcatEmpty
  <2> QED
    BY <2>2, <2>7
<1>3. Len(s) \in n..Len(s) /\ Upto(s, Len(s)) = s
  BY <1>1, UptoAll
<1> QED
  BY <1>2, <1>3

LEMMA FlattenConcat ==
  ASSUME NEW s, AllSeqs(s), NEW t, AllSeqs(t)
  PROVE  FlattenSeq(s \o t) = FlattenSeq(s) \o FlattenSeq(t)
<1>1. IsSeq(s) /\ IsSeq(t) /\ Len(s) \in Nat /\ Len(t) \in Nat
  BY DEF AllSeqs, IsSeq
<1> DEFINE u == s \o t
<1>2. /\ IsSeq(u) /\ Len(u) = Len(s) + Len(t)
      /\ \A k \in 1..Len(s) : u[k] = s[k]
      /\ \A k \in 1..Len(t) : u[Len(s) + k] = t[k]
      /\ \A k \in 1..Len(u) : (\E i \in 1..Len(s) : u[k] = s[i]) \/ (\E i \in 1..Len(t) : u[k] = t[i])
  BY <1>1, ConcatIsSeq
<1> HIDE DEF u
<1>3. AllSeqs(u)
  BY <1>2 DEF AllSeqs
<1>4. IsSeq(FlattenSeq(s))
  BY FlattenIsSeq DEF AllSeqs
<1> DEFINE P(m) == FlattenSeq(Upto(u, Len(s) + m)) = FlattenSeq(s) \o FlattenSeq(Upto(t, m))
           S == {m \in 0..Len(t) : ~ P(m)}
<1>5. P(0)
  <2>1. Upto(u, Len(s) + 0) = s
    BY <1>1, <1>2 DEF Upto, IsSeq
  <2> QED
    BY <1>4, <2>1, UptoNone, FlattenEmpty, ConcatEmpty
<1>6. ASSUME NEW m \in 1..Len(t), P(m - 1) PROVE P(m)
  <2> DEFINE l == Len(s) + m
  <2>1. l \in 1..Len(u) /\ l - 1 = Len(s) + (m - 1) /\ m - 1 \in 0..Len(t)
    BY <1>1, <1>2
  <2>2. FlattenSeq(Upto(u, l)) = FlattenSeq(Upto(u, l - 1)) \o u[l]
    <3> HIDE DEF l
    <3> QED
      BY <1>3, <2>1, FlattenUpto
  <2>3. FlattenSeq(Upto(t, m)) = FlattenSeq(Upto(t, m - 1)) \o t[m]
    BY FlattenUpto
  <2>4. u[l] = t[m] /\ IsSeq(t[m])
    BY <1>2 DEF AllSeqs
  <2>5. IsSeq(FlattenSeq(Upto(t, m - 1)))
    <3>1. AllSeqs(Upto(t, m - 1))
      BY <1>1, <2>1, UptoIsSeq
    <3> QED
      BY <3>1, FlattenIsSeq DEF AllSeqs
  <2>6. FlattenSeq(Upto(u, l - 1)) = FlattenSeq(s) \o FlattenSeq(Upto(t, m - 1))
    BY <1>6, <2>1
  <2> HIDE DEF l
  <2>7. FlattenSeq(Upto(u, l)) = FlattenSeq(s) \o FlattenSeq(Upto(t, m))
    <3> DEFINE a == FlattenSeq(s)
               b == FlattenSeq(Upto(t, m - 1))
               c == t[m]
    <3>1. IsSeq(a) /\ IsSeq(b) /\ IsSeq(c)
      BY <1>4, <2>4, <2>5
    <3>2. a \o (b \o c) = (a \o b) \o c
      <4> HIDE DEF a, b, c
      <4> QED
        BY <3>1, ConcatThree
    <3> QED
      BY <2>2, <2>3, <2>4, <2>6, <3>2, Zenon
  <2>8. FlattenSeq(Upto(u, Len(s) + m)) = FlattenSeq(s) \o FlattenSeq(Upto(t, m))
    BY <2>7 DEF l
  <2> QED
    BY <2>8
<1>7. S = {}
  <2> HIDE DEF P
  <2>1. SUFFICES ASSUME S # {} PROVE FALSE
    OBVIOUS
  <2>2. PICK m \in S : \A k \in S : m <= k
    <3>1. S \subseteq Nat
      OBVIOUS
    <3> HIDE DEF S
    <3> QED
      BY <2>1, <3>1, Least
  <2>3. m # 0
    BY <1>5, <2>2
  <2>4. m \in 1..Len(t) /\ m - 1 \in 0..Len(t) /\ m - 1 \notin S
    BY <1>1, <2>2, <2>3
  <2>5. P(m - 1)
    BY <2>4
  <2> QED
    BY <1>6, <2>2, <2>4, <2>5
<1>8. P(Len(t))
  <2> HIDE DEF P
  <2> QED
    BY <1>1, <1>7
<1>9. Upto(u, Len(s) + Len(t)) = u /\ Upto(t, Len(t)) = t
  BY <1>1, <1>2, UptoAll
<1> QED
  BY <1>8, <1>9 DEF u

LEMMA OneIsSeq ==
  ASSUME NEW x
  PROVE  IsSeq(<<x>>) /\ Len(<<x>>) = 1 /\ <<x>>[1] = x
BY DEF IsSeq

LEMMA AppendedIsSeq ==
  ASSUME NEW s, IsSeq(s), NEW x
  PROVE  Append(s, x) = s \o <<x>> /\ IsSeq(Append(s, x)) /\ Append(s, x) # <<>>
<1> DEFINE T == {s[k] : k \in 1..Len(s)} \cup {x}
           u == Append(s, x)
<1>1. s \in Seq(T) /\ x \in T
  <2>1. s \in Seq({s[k] : k \in 1..Len(s)})
    BY IsSeqOfItsOwn
  <2> QED
    BY <2>1
<1> HIDE DEF T
<1>2. /\ u \in Seq(T) /\ Len(u) = Len(s) + 1 /\ Len(s) \in Nat
      /\ \A k \in 1..Len(s) : u[k] = s[k]
      /\ u[Len(s) + 1] = x
  BY <1>1
<1> HIDE DEF u
<1>3. IsSeq(u) /\ IsSeq(<<x>>) /\ Len(<<x>>) = 1 /\ <<x>>[1] = x
  BY <1>2, SeqIsSeq, OneIsSeq
<1>4. \A k \in 1..Len(<<x>>) : u[Len(s) + k] = <<x>>[k]
  BY <1>2, <1>3
<1>5. u = s \o <<x>>
  BY <1>2, <1>3, <1>4, ConcatIsIt
<1>6. u # <<>>
  BY <1>2, EmptyIsSeq
<1> QED
  BY <1>3, <1>5, <1>6 DEF u

LEMMA FlattenNone ==
  ASSUME NEW s, IsSeq(s), \A k \in 1..Len(s) : s[k] = <<>>
  PROVE  FlattenSeq(s) = <<>> /\ AllSeqs(s)
<1>1. AllSeqs(s) /\ Len(s) \in Nat
  BY EmptyIsSeq DEF AllSeqs, IsSeq
<1>2. FlattenSeq(s) = FlattenSeq(Upto(s, 0))
  <2>1. 0 \in 0..Len(s)
    BY <1>1
  <2> QED
    BY <1>1, <2>1, FlattenRest
<1> QED
  BY <1>1, <1>2, UptoNone, FlattenEmpty

(* What is flattened has what the sequences have.                          *)
LEMMA FlattenHas ==
  ASSUME NEW s, AllSeqs(s), NEW k \in 1..Len(FlattenSeq(s))
  PROVE  \E i \in 1..Len(s) : \E j \in 1..Len(s[i]) : FlattenSeq(s)[k] = s[i][j]
<1>1. IsSeq(s) /\ Len(s) \in Nat
  BY DEF AllSeqs, IsSeq
<1> DEFINE Comes(f, n) == \A l \in 1..Len(f) : \E i \in 1..n : \E j \in 1..Len(s[i]) : f[l] = s[i][j]
           S == {n \in 0..Len(s) : ~ Comes(FlattenSeq(Upto(s, n)), n)}
<1>2. S = {}
  <2>1. SUFFICES ASSUME S # {} PROVE FALSE
    OBVIOUS
  <2>2. PICK n \in S : \A l \in S : n <= l
    <3>1. S \subseteq Nat
      BY <1>1
    <3> HIDE DEF S
    <3> QED
      BY <2>1, <3>1, Least
  <2>3. n # 0
    <3>1. Comes(<<>>, 0)
      BY EmptyIsSeq
    <3> QED
      BY <2>2, <3>1, UptoNone, FlattenEmpty
  <2>4. n \in 1..Len(s) /\ n - 1 \in 0..Len(s) /\ n - 1 \notin S
    <3> HIDE DEF Comes
    <3>1. n \in 0..Len(s) /\ n \in Nat
      BY <1>1, <2>2
    <3>2. n \in 1..Len(s) /\ n - 1 \in 0..Len(s) /\ ~ (n <= n - 1)
      BY <1>1, <2>3, <3>1
    <3> HIDE DEF S
    <3> QED
      BY <2>2, <3>2
  <2> DEFINE f == FlattenSeq(Upto(s, n - 1))
             g == s[n]
  <2>5. FlattenSeq(Upto(s, n)) = f \o g
    BY <2>4, FlattenUpto
  <2>6. IsSeq(f) /\ IsSeq(g)
    <3>1. AllSeqs(Upto(s, n - 1))
      BY <1>1, <2>4, UptoIsSeq
    <3> QED
      BY <2>4, <3>1, FlattenIsSeq DEF AllSeqs
  <2>7. Comes(f, n - 1)
    BY <2>4
  <2>8. ASSUME NEW l \in 1..Len(f \o g) PROVE \E i \in 1..n : \E j \in 1..Len(s[i]) : (f \o g)[l] = s[i][j]
    <3>1. (\E i \in 1..Len(f) : (f \o g)[l] = f[i]) \/ (\E i \in 1..Len(g) : (f \o g)[l] = g[i])
      <4> HIDE DEF f, g
      <4> QED
        BY <2>6, ConcatIsSeq
    <3> HIDE DEF f
    <3>2. CASE \E i \in 1..Len(f) : (f \o g)[l] = f[i]
      <4>1. PICK h \in 1..Len(f) : (f \o g)[l] = f[h]
        BY <3>2
      <4>2. \E i \in 1..(n - 1) : \E j \in 1..Len(s[i]) : f[h] = s[i][j]
        BY <2>7
      <4>3. PICK i \in 1..(n - 1) : \E j \in 1..Len(s[i]) : (f \o g)[l] = s[i][j]
        BY <4>1, <4>2
      <4> QED
        BY <2>4, <4>3
    <3>3. CASE \E i \in 1..Len(g) : (f \o g)[l] = g[i]
      BY <2>4, <3>3
    <3> QED
      BY <3>1, <3>2, <3>3
  <2>9. Comes(FlattenSeq(Upto(s, n)), n)
    BY <2>5, <2>8, ZenonT(20)
  <2> QED
    BY <2>2, <2>9
<1>3. Comes(FlattenSeq(Upto(s, Len(s))), Len(s))
  <2> HIDE DEF Comes
  <2> QED
    BY <1>1, <1>2
<1> QED
  BY <1>1, <1>3, UptoAll

LEMMA FlattenSingles ==
  ASSUME NEW s, IsSeq(s), NEW p, IsSeq(p), Len(p) = Len(s), \A k \in 1..Len(s) : p[k] = <<s[k]>>
  PROVE  FlattenSeq(p) = s /\ AllSeqs(p)
<1>1. AllSeqs(p) /\ Len(s) \in Nat
  BY OneIsSeq DEF AllSeqs, IsSeq
<1> DEFINE S == {n \in 0..Len(s) : FlattenSeq(Upto(p, n)) # Upto(s, n)}
<1>2. S = {}
  <2>1. SUFFICES ASSUME S # {} PROVE FALSE
    OBVIOUS
  <2>2. PICK n \in S : \A l \in S : n <= l
    <3>1. S \subseteq Nat
      BY <1>1
    <3> HIDE DEF S
    <3> QED
      BY <2>1, <3>1, Least
  <2>3. n # 0
    BY <2>2, UptoNone, FlattenEmpty
  <2>4. n \in 1..Len(s) /\ n \in 0..Len(s) /\ n - 1 \in 0..Len(s) /\ n - 1 \notin S
    BY <1>1, <2>2, <2>3
  <2>5. FlattenSeq(Upto(p, n)) = Upto(s, n - 1) \o <<s[n]>>
    BY <1>1, <2>4, FlattenUpto
  <2> DEFINE u == Upto(s, n)
             t == Upto(s, n - 1)
             o == <<s[n]>>
  <2>6. IsSeq(u) /\ Len(u) = n /\ \A k \in 1..n : u[k] = s[k]
    BY <2>4, UptoIsSeq
  <2>7. IsSeq(t) /\ Len(t) = n - 1 /\ \A k \in 1..(n - 1) : t[k] = s[k]
    BY <2>4, UptoIsSeq
  <2>8. IsSeq(o) /\ Len(o) = 1 /\ o[1] = s[n]
    BY OneIsSeq
  <2> HIDE DEF u, t, o
  <2>9. n \in Nat
    BY <1>1, <2>4
  <2>10. u = t \o o
    <3>1. Len(u) = Len(t) + Len(o)
      BY <2>6, <2>7, <2>8, <2>9
    <3>2. \A k \in 1..Len(t) : u[k] = t[k]
      BY <2>6, <2>7, <2>9
    <3>3. \A k \in 1..Len(o) : u[Len(t) + k] = o[k]
      BY <2>4, <2>6, <2>7, <2>8, <2>9
    <3> QED
      BY <2>6, <2>7, <2>8, <3>1, <3>2, <3>3, ConcatIsIt
  <2> QED
    BY <2>2, <2>5, <2>10 DEF u, t, o
<1>3. FlattenSeq(Upto(p, Len(s))) = Upto(s, Len(s))
  BY <1>1, <1>2
<1> QED
  BY <1>1, <1>3, UptoAll

----------------------------------------------------------------------------
(* The filters of the parts of an action for a body.                       *)

Now(p, hs) ==
  IF p.variables = <<>> THEN <<p.filter>>
  ELSE BodiesReplaced(<<p.filter>>, ResolveResponseHeaders(p.variables, hs))

BodiesOf(parts, hs) == FlattenSeq([k \in DOMAIN parts |-> Now(parts[k], hs)])

KnownTypes == {"text", "html", "markdown", "other"}

(* A filter that waits for the response is of a type that is known.        *)
Ready(p) == p.variables = <<>> \/ p.filter.type \in KnownTypes

BodyParts(parts) == IsSeq(parts) /\ \A k \in 1..Len(parts) : Ready(parts[k])

Pieces(parts, code) == [k \in DOMAIN parts |-> IF Accepts(parts[k].on, code) THEN <<parts[k]>> ELSE <<>>]

LEMMA PiecesAre ==
  ASSUME NEW s, IsSeq(s), NEW code
  PROVE  /\ AllSeqs(Pieces(s, code)) /\ Len(Pieces(s, code)) = Len(s)
         /\ \A k \in 1..Len(s) :
              Pieces(s, code)[k] = IF Accepts(s[k].on, code) THEN <<s[k]>> ELSE <<>>
         /\ Heard(s, code) = FlattenSeq(Pieces(s, code))
<1>1. DOMAIN s = 1..Len(s) /\ Len(s) \in Nat
  BY DEF IsSeq
<1>2. \A k \in 1..Len(s) : Pieces(s, code)[k] = IF Accepts(s[k].on, code) THEN <<s[k]>> ELSE <<>>
  BY <1>1 DEF Pieces
<1>3. Pieces(s, code) = [k \in 1..Len(s) |-> Pieces(s, code)[k]]
  BY <1>1 DEF Pieces
<1>4. IsSeq(Pieces(s, code)) /\ Len(Pieces(s, code)) = Len(s)
  BY <1>1, <1>3, FunctionIsSeq
<1>5. \A k \in 1..Len(s) : IsSeq(Pieces(s, code)[k])
  BY <1>2, EmptyIsSeq, OneIsSeq
<1> QED
  BY <1>2, <1>4, <1>5 DEF AllSeqs, Heard, Pieces

LEMMA HeardIsSeq ==
  ASSUME NEW s, IsSeq(s), NEW code
  PROVE  /\ IsSeq(Heard(s, code))
         /\ \A k \in 1..Len(Heard(s, code)) : \E j \in 1..Len(s) : Heard(s, code)[k] = s[j]
<1> DEFINE p == Pieces(s, code)
<1>1. /\ AllSeqs(p) /\ Len(p) = Len(s) /\ Heard(s, code) = FlattenSeq(p)
      /\ \A k \in 1..Len(s) : p[k] = IF Accepts(s[k].on, code) THEN <<s[k]>> ELSE <<>>
  BY PiecesAre
<1> HIDE DEF p
<1>2. IsSeq(FlattenSeq(p))
  BY <1>1, FlattenIsSeq DEF AllSeqs
<1>3. ASSUME NEW k \in 1..Len(FlattenSeq(p)) PROVE \E j \in 1..Len(s) : FlattenSeq(p)[k] = s[j]
  <2>1. PICK i \in 1..Len(p) : \E j \in 1..Len(p[i]) : FlattenSeq(p)[k] = p[i][j]
    BY <1>1, FlattenHas
  <2>2. CASE p[i] = <<s[i]>>
    BY <1>1, <2>1, <2>2, OneIsSeq
  <2>3. CASE p[i] = <<>>
    BY <2>1, <2>3, EmptyIsSeq
  <2> QED
    BY <1>1, <2>2, <2>3
<1> QED
  BY <1>1, <1>2, <1>3

LEMMA HeardConcat ==
  ASSUME NEW s, IsSeq(s), NEW t, IsSeq(t), NEW code
  PROVE  Heard(s \o t, code) = Heard(s, code) \o Heard(t, code)
<1> DEFINE u == s \o t
           p == Pieces(s, code)
           q == Pieces(t, code)
           r == Pieces(u, code)
<1>1. /\ IsSeq(u) /\ Len(u) = Len(s) + Len(t)
      /\ \A k \in 1..Len(s) : u[k] = s[k]
      /\ \A k \in 1..Len(t) : u[Len(s) + k] = t[k]
      /\ Len(s) \in Nat /\ Len(t) \in Nat
  BY ConcatIsSeq DEF IsSeq
<1> HIDE DEF u
<1>2. /\ AllSeqs(p) /\ Len(p) = Len(s) /\ Heard(s, code) = FlattenSeq(p)
      /\ \A k \in 1..Len(s) : p[k] = IF Accepts(s[k].on, code) THEN <<s[k]>> ELSE <<>>
  BY PiecesAre
<1>3. /\ AllSeqs(q) /\ Len(q) = Len(t) /\ Heard(t, code) = FlattenSeq(q)
      /\ \A k \in 1..Len(t) : q[k] = IF Accepts(t[k].on, code) THEN <<t[k]>> ELSE <<>>
  BY PiecesAre
<1>4. /\ AllSeqs(r) /\ Len(r) = Len(u) /\ Heard(u, code) = FlattenSeq(r)
      /\ \A k \in 1..Len(u) : r[k] = IF Accepts(u[k].on, code) THEN <<u[k]>> ELSE <<>>
  BY <1>1, PiecesAre
<1> HIDE DEF p, q, r
<1>5. ASSUME NEW k \in 1..Len(p) PROVE r[k] = p[k]
  <2>1. k \in 1..Len(s) /\ k \in 1..Len(u) /\ u[k] = s[k]
    BY <1>1, <1>2
  <2> QED
    BY <1>2, <1>4, <2>1, Zenon
<1>6. ASSUME NEW k \in 1..Len(q) PROVE r[Len(p) + k] = q[k]
  <2>1. k \in 1..Len(t) /\ Len(p) + k \in 1..Len(u) /\ u[Len(p) + k] = t[k]
    BY <1>1, <1>2, <1>3
  <2> QED
    BY <1>3, <1>4, <2>1, Zenon
<1>7. r = p \o q
  <2>1. IsSeq(p) /\ IsSeq(q) /\ IsSeq(r) /\ Len(r) = Len(p) + Len(q)
    BY <1>1, <1>2, <1>3, <1>4 DEF AllSeqs
  <2> QED
    BY <1>5, <1>6, <2>1, ConcatIsIt
<1>8. FlattenSeq(p \o q) = FlattenSeq(p) \o FlattenSeq(q)
  BY <1>2, <1>3, FlattenConcat
<1>9. Heard(u, code) = Heard(s, code) \o Heard(t, code)
  BY <1>2, <1>3, <1>4, <1>7, <1>8, Zenon
<1> QED
  BY <1>9 DEF u

LEMMA NowIsSeq ==
  ASSUME NEW p, Ready(p), NEW hs
  PROVE  IsSeq(Now(p, hs))
<1> DEFINE fs == <<p.filter>>
<1>1. IsSeq(fs) /\ Len(fs) = 1 /\ fs[1] = p.filter
  BY OneIsSeq
<1> HIDE DEF fs
<1>2. ASSUME p.filter.type \in KnownTypes, NEW vs PROVE IsSeq(BodiesReplaced(fs, vs))
  <2>1. \A k \in 1..Len(fs) : fs[k].type \in {"text", "html", "markdown", "other"}
    BY <1>1, <1>2 DEF KnownTypes
  <2> QED
    BY <1>1, <2>1, BodiesAreSeq
<1>3. Now(p, hs) = IF p.variables = <<>> THEN fs ELSE BodiesReplaced(fs, ResolveResponseHeaders(p.variables, hs))
  BY Zenon DEF Now, fs
<1> QED
  BY <1>1, <1>2, <1>3 DEF Ready

LEMMA BodiesOfAre ==
  ASSUME NEW s, BodyParts(s), NEW hs, NEW p, p = [k \in DOMAIN s |-> Now(s[k], hs)]
  PROVE  /\ AllSeqs(p) /\ Len(p) = Len(s) /\ BodiesOf(s, hs) = FlattenSeq(p)
         /\ \A k \in 1..Len(s) : p[k] = Now(s[k], hs)
         /\ IsSeq(BodiesOf(s, hs))
<1>1. DOMAIN s = 1..Len(s) /\ Len(s) \in Nat
  BY DEF BodyParts, IsSeq
<1>2. IsSeq(p) /\ Len(p) = Len(s) /\ \A k \in 1..Len(s) : p[k] = Now(s[k], hs)
  BY <1>1, FunctionIsSeq
<1>3. ASSUME NEW k \in 1..Len(s) PROVE IsSeq(p[k])
  <2>1. Ready(s[k]) /\ p[k] = Now(s[k], hs)
    BY <1>2 DEF BodyParts
  <2>2. IsSeq(Now(s[k], hs))
    BY <2>1, NowIsSeq
  <2> QED
    BY <2>1, <2>2
<1>4. BodiesOf(s, hs) = FlattenSeq(p)
  BY DEF BodiesOf
<1> QED
  BY <1>2, <1>3, <1>4, FlattenIsSeq DEF AllSeqs

LEMMA BodiesConcat ==
  ASSUME NEW s, BodyParts(s), NEW t, BodyParts(t), NEW hs
  PROVE  BodiesOf(s \o t, hs) = BodiesOf(s, hs) \o BodiesOf(t, hs) /\ BodyParts(s \o t)
<1> DEFINE u == s \o t
           p == [k \in DOMAIN s |-> Now(s[k], hs)]
           q == [k \in DOMAIN t |-> Now(t[k], hs)]
           r == [k \in DOMAIN u |-> Now(u[k], hs)]
<1>1. /\ IsSeq(u) /\ Len(u) = Len(s) + Len(t)
      /\ \A k \in 1..Len(s) : u[k] = s[k]
      /\ \A k \in 1..Len(t) : u[Len(s) + k] = t[k]
      /\ \A k \in 1..Len(u) : (\E i \in 1..Len(s) : u[k] = s[i]) \/ (\E i \in 1..Len(t) : u[k] = t[i])
      /\ Len(s) \in Nat /\ Len(t) \in Nat
  <2>1. IsSeq(s) /\ IsSeq(t)
    BY DEF BodyParts
  <2>2. Len(s) \in Nat /\ Len(t) \in Nat
    BY <2>1 DEF IsSeq
  <2> QED
    BY <2>1, <2>2, ConcatIsSeq
<1> HIDE DEF u
<1>2. BodyParts(u)
  <2>1. ASSUME NEW k \in 1..Len(u) PROVE Ready(u[k])
    BY <1>1 DEF BodyParts
  <2> QED
    BY <1>1, <2>1 DEF BodyParts
<1>3. /\ AllSeqs(p) /\ Len(p) = Len(s) /\ BodiesOf(s, hs) = FlattenSeq(p)
      /\ \A k \in 1..Len(s) : p[k] = Now(s[k], hs)
  BY BodiesOfAre
<1>4. /\ AllSeqs(q) /\ Len(q) = Len(t) /\ BodiesOf(t, hs) = FlattenSeq(q)
      /\ \A k \in 1..Len(t) : q[k] = Now(t[k], hs)
  BY BodiesOfAre
<1>5. /\ AllSeqs(r) /\ Len(r) = Len(u) /\ BodiesOf(u, hs) = FlattenSeq(r)
      /\ \A k \in 1..Len(u) : r[k] = Now(u[k], hs)
  BY <1>2, BodiesOfAre
<1> HIDE DEF p, q, r
<1>6. \A k \in 1..Len(p) : r[k] = p[k]
  BY <1>1, <1>3, <1>5
<1>7. \A k \in 1..Len(q) : r[Len(p) + k] = q[k]
  BY <1>1, <1>3, <1>4, <1>5
<1>8. r = p \o q
  <2>1. IsSeq(p) /\ IsSeq(q) /\ IsSeq(r) /\ Len(r) = Len(p) + Len(q)
    BY <1>1, <1>3, <1>4, <1>5 DEF AllSeqs
  <2> QED
    BY <1>6, <1>7, <2>1, ConcatIsIt
<1>9. FlattenSeq(p \o q) = FlattenSeq(p) \o FlattenSeq(q)
  BY <1>3, <1>4, FlattenConcat
<1>10. BodiesOf(u, hs) = BodiesOf(s, hs) \o BodiesOf(t, hs)
  BY <1>3, <1>4, <1>5, <1>8, <1>9, Zenon
<1> QED
  BY <1>2, <1>10 DEF u

(* The parts of one rule.                                                  *)
OwnParts(fs, on, vs) == [k \in DOMAIN fs |-> [filter |-> fs[k], on |-> on, variables |-> vs]]

LEMMA OwnPartsAre ==
  ASSUME NEW fs, IsSeq(fs), NEW on, NEW vs, NEW s, s = OwnParts(fs, on, vs)
  PROVE  /\ IsSeq(s) /\ Len(s) = Len(fs)
         /\ \A k \in 1..Len(fs) : s[k].filter = fs[k] /\ s[k].on = on /\ s[k].variables = vs
<1>1. DOMAIN fs = 1..Len(fs) /\ Len(fs) \in Nat
  BY DEF IsSeq
<1>2. s = [k \in 1..Len(fs) |-> s[k]]
  BY <1>1 DEF OwnParts
<1>3. \A k \in 1..Len(fs) : s[k].filter = fs[k] /\ s[k].on = on /\ s[k].variables = vs
  BY <1>1 DEF OwnParts
<1> QED
  BY <1>1, <1>2, <1>3, FunctionIsSeq

LEMMA HeardOfOne ==
  ASSUME NEW fs, IsSeq(fs), NEW on, NEW vs, NEW code
  PROVE  Heard(OwnParts(fs, on, vs), code) = IF Accepts(on, code) THEN OwnParts(fs, on, vs) ELSE <<>>
<1> DEFINE s == OwnParts(fs, on, vs)
           p == Pieces(s, code)
<1>1. IsSeq(s) /\ Len(s) = Len(fs) /\ \A k \in 1..Len(s) : s[k].on = on
  BY OwnPartsAre
<1> HIDE DEF s
<1>2. /\ AllSeqs(p) /\ Len(p) = Len(s) /\ Heard(s, code) = FlattenSeq(p)
      /\ \A k \in 1..Len(s) : p[k] = IF Accepts(s[k].on, code) THEN <<s[k]>> ELSE <<>>
  BY <1>1, PiecesAre
<1> HIDE DEF p
<1>3. IsSeq(p)
  BY <1>2 DEF AllSeqs
<1>4. CASE Accepts(on, code)
  <2>1. \A k \in 1..Len(s) : p[k] = <<s[k]>>
    BY <1>1, <1>2, <1>4, Zenon
  <2>2. FlattenSeq(p) = s
    BY <1>1, <1>2, <1>3, <2>1, FlattenSingles
  <2> QED
    BY <1>2, <1>4, <2>2 DEF s
<1>5. CASE ~ Accepts(on, code)
  <2>1. \A k \in 1..Len(p) : p[k] = <<>>
    <3>1. ASSUME NEW k \in 1..Len(p) PROVE p[k] = <<>>
      <4>1. k \in 1..Len(s)
        BY <1>2
      <4> QED
        BY <1>1, <1>2, <1>5, <4>1, Zenon
    <3> QED
      BY <3>1
  <2>2. FlattenSeq(p) = <<>>
    BY <1>3, <2>1, FlattenNone
  <2> QED
    BY <1>2, <1>5, <2>2 DEF s
<1> QED
  BY <1>4, <1>5

LEMMA BodyReplacedIs ==
  ASSUME NEW f, f.type \in KnownTypes, NEW vs
  PROVE  LET S == BodyReplaced(f, vs) IN S = {} \/ \E x : S = {x}
<1>1. CASE f.type = "text"
  BY <1>1, Zenon DEF BodyReplaced
<1>2. CASE f.type = "html"
  BY <1>2, Zenon DEF BodyReplaced
<1>3. CASE f.type = "markdown"
  BY <1>3, Zenon DEF BodyReplaced
<1>4. CASE f.type = "other"
  BY <1>4, Zenon DEF BodyReplaced
<1> QED
  BY <1>1, <1>2, <1>3, <1>4 DEF KnownTypes

LEMMA OneReplaced ==
  ASSUME NEW f, f.type \in KnownTypes, NEW vs
  PROVE  BodiesReplaced(<<f>>, vs) = SetToSeq(BodyReplaced(f, vs)) /\ IsSeq(SetToSeq(BodyReplaced(f, vs)))
<1> DEFINE S == BodyReplaced(f, vs)
           fs == <<f>>
           g == [k \in DOMAIN fs |-> SetToSeq(BodyReplaced(fs[k], vs))]
<1>1. S = {} \/ \E x : S = {x}
  BY BodyReplacedIs
<1>2. IsSeq(SetToSeq(S))
  <2> HIDE DEF S
  <2> QED
    BY <1>1, SetToSeqIsSeq
<1>3. DOMAIN fs = 1..1 /\ fs[1] = f
  OBVIOUS
<1>4. g = [k \in 1..1 |-> SetToSeq(S)]
  BY <1>3
<1>5. BodiesReplaced(fs, vs) = FlattenSeq(g)
  BY DEF BodiesReplaced
<1> HIDE DEF fs, g, S
<1>6. g = [k \in 1..1 |-> g[k]] /\ g[1] = SetToSeq(S)
  BY <1>4
<1>7. IsSeq(g) /\ Len(g) = 1
  BY <1>6, FunctionIsSeq
<1>8. AllSeqs(g)
  BY <1>2, <1>6, <1>7 DEF AllSeqs
<1>9. FlattenSeq(Upto(g, 1)) = FlattenSeq(Upto(g, 0)) \o g[1]
  <2>1. 1 \in 1..Len(g)
    BY <1>7
  <2>2. FlattenSeq(Upto(g, 1)) = FlattenSeq(Upto(g, 1 - 1)) \o g[1]
    BY <1>8, <2>1, FlattenUpto
  <2>3. 1 - 1 = 0
    OBVIOUS
  <2> QED
    BY <2>2, <2>3
<1>10. Upto(g, 1) = g
  BY <1>7, UptoAll
<1>11. FlattenSeq(g) = SetToSeq(S)
  BY <1>2, <1>6, <1>9, <1>10, UptoNone, FlattenEmpty, ConcatEmpty
<1> QED
  BY <1>2, <1>5, <1>11 DEF fs, S

LEMMA BodiesOfOne ==
  ASSUME NEW fs, IsSeq(fs), NEW on, NEW vs, NEW hs,
         vs = <<>> \/ \A k \in 1..Len(fs) : fs[k].type \in KnownTypes
  PROVE  /\ BodyParts(OwnParts(fs, on, vs))
         /\ BodiesOf(OwnParts(fs, on, vs), hs) =
              IF vs = <<>> THEN fs ELSE BodiesReplaced(fs, ResolveResponseHeaders(vs, hs))
<1> DEFINE s == OwnParts(fs, on, vs)
           p == [k \in DOMAIN s |-> Now(s[k], hs)]
           ws == ResolveResponseHeaders(vs, hs)
<1>1. /\ IsSeq(s) /\ Len(s) = Len(fs)
      /\ \A k \in 1..Len(fs) : s[k].filter = fs[k] /\ s[k].variables = vs
  BY OwnPartsAre
<1> HIDE DEF s
<1>2. BodyParts(s)
  BY <1>1, Zenon DEF BodyParts, Ready
<1>3. /\ AllSeqs(p) /\ Len(p) = Len(s) /\ BodiesOf(s, hs) = FlattenSeq(p)
      /\ \A k \in 1..Len(s) : p[k] = Now(s[k], hs)
  BY <1>2, BodiesOfAre
<1> HIDE DEF p
<1>4. IsSeq(p)
  BY <1>3 DEF AllSeqs
<1>5. CASE vs = <<>>
  <2>1. ASSUME NEW k \in 1..Len(fs) PROVE p[k] = <<fs[k]>>
    BY <1>1, <1>3, <1>5, Zenon DEF Now
  <2>2. FlattenSeq(p) = fs
    BY <1>1, <1>3, <1>4, <2>1, FlattenSingles
  <2> QED
    BY <1>2, <1>3, <1>5, <2>2 DEF s
<1>6. CASE vs # <<>>
  <2> DEFINE g == [k \in DOMAIN fs |-> SetToSeq(BodyReplaced(fs[k], ws))]
  <2>1. BodiesReplaced(fs, ws) = FlattenSeq(g)
    BY DEF BodiesReplaced
  <2>2. DOMAIN fs = 1..Len(fs) /\ Len(fs) \in Nat
    BY DEF IsSeq
  <2>3. g = [k \in 1..Len(fs) |-> g[k]] /\ \A k \in 1..Len(fs) : g[k] = SetToSeq(BodyReplaced(fs[k], ws))
    BY <2>2
  <2> HIDE DEF g, ws
  <2>4. IsSeq(g) /\ Len(g) = Len(fs)
    BY <2>2, <2>3, FunctionIsSeq
  <2>5. ASSUME NEW k \in 1..Len(p) PROVE p[k] = g[k]
    <3>1. k \in 1..Len(fs) /\ k \in 1..Len(s)
      BY <1>1, <1>3
    <3>2. p[k] = BodiesReplaced(<<fs[k]>>, ws)
      BY <1>1, <1>3, <1>6, <3>1, Zenon DEF Now, ws
    <3>3. BodiesReplaced(<<fs[k]>>, ws) = SetToSeq(BodyReplaced(fs[k], ws))
      <4>1. fs[k].type \in KnownTypes
        BY <1>6, <3>1
      <4> QED
        BY <4>1, OneReplaced
    <3> QED
      BY <2>3, <3>1, <3>2, <3>3
  <2>6. p = g
    BY <1>1, <1>3, <1>4, <2>4, <2>5, SameSeq
  <2> QED
    BY <1>2, <1>3, <1>6, <2>1, <2>6 DEF s, ws
<1> QED
  BY <1>5, <1>6

----------------------------------------------------------------------------
(* The variables of a rule are a sequence of names with their values.      *)

GoodText(t) == IsSeq(t) /\ \A k \in 1..Len(t) : t[k][1] = "ref" => IsSeq(t[k][2])

GoodValue(v) ==
  \/ v.kind = "value" /\ GoodText(v.text)
  \/ v.kind \in {"html", "header"} /\ \A t \in v.default : GoodText(t)

IsPair(v) == v = <<v[1], v[2]>> /\ IsSeq(v[1]) /\ GoodValue(v[2])

IsPairs(vs) == IsSeq(vs) /\ \A k \in 1..Len(vs) : IsPair(vs[k])

LEMMA InsertKeepsPairs ==
  ASSUME NEW vs, IsPairs(vs), NEW v, IsPair(v)
  PROVE  IsPairs(InsertByLength(vs, v)) /\ Len(InsertByLength(vs, v)) = Len(vs) + 1
<1> DEFINE L == {k \in DOMAIN vs : Len(vs[k][1]) >= Len(v[1])}
           n == Len(vs)
           i == Cardinality(L) + 1
           s == SubSeq(vs, 1, i - 1)
           t == SubSeq(vs, i, n)
           T == {vs[k] : k \in 1..n}
<1>1. IsSeq(vs) /\ DOMAIN vs = 1..n /\ n \in Nat /\ vs \in Seq(T)
  BY IsSeqOfItsOwn DEF IsPairs, IsSeq
<1>2. i \in 1..(n + 1)
  <2>1. L \subseteq 1..n
    BY <1>1
  <2>2. IsFiniteSet(1..n) /\ Cardinality(1..n) = n
    <3> HIDE DEF n
    <3>1. n \in Nat /\ n \in Int /\ 1 \in Int
      BY <1>1
    <3>2. IsFiniteSet(1..n) /\ Cardinality(1..n) = IF 1 > n THEN 0 ELSE n - 1 + 1
      BY <3>1, FS_Interval
    <3> QED
      BY <3>1, <3>2
  <2> HIDE DEF L
  <2>3. Cardinality(L) \in Nat /\ Cardinality(L) <= n
    BY <2>1, <2>2, FS_Subset, FS_CardinalityType
  <2> QED
    BY <1>1, <2>3
<1>3. InsertByLength(vs, v) = s \o <<v>> \o t
  BY <1>1, Zenon DEF InsertByLength, InsertAt
<1> HIDE DEF L, i
<1>4. /\ s \in Seq(T) /\ Len(s) = i - 1 /\ \A k \in 1..(i - 1) : s[k] = vs[k]
  <2> HIDE DEF T
  <2> QED
    BY <1>1, <1>2
<1>5. /\ t \in Seq(T) /\ Len(t) = n - i + 1 /\ \A k \in 1..(n - i + 1) : t[k] = vs[i + k - 1]
  <2> HIDE DEF T
  <2> QED
    BY <1>1, <1>2
<1>6. IsPairs(s)
  <2>1. ASSUME NEW k \in 1..Len(s) PROVE IsPair(s[k])
    <3>1. k \in 1..n /\ s[k] = vs[k]
      BY <1>1, <1>2, <1>4
    <3> QED
      BY <3>1 DEF IsPairs
  <2> QED
    BY <1>4, <2>1, SeqIsSeq DEF IsPairs
<1>7. IsPairs(t)
  <2>1. ASSUME NEW k \in 1..Len(t) PROVE IsPair(t[k])
    <3>1. i + k - 1 \in 1..n /\ t[k] = vs[i + k - 1]
      BY <1>1, <1>2, <1>5
    <3> QED
      BY <3>1 DEF IsPairs
  <2> QED
    BY <1>5, <2>1, SeqIsSeq DEF IsPairs
<1> HIDE DEF s, t
<1>8. ASSUME NEW a, IsPairs(a), NEW b, IsPairs(b) PROVE IsPairs(a \o b)
  <2>1. IsSeq(a) /\ IsSeq(b)
    BY <1>8 DEF IsPairs
  <2>2. IsSeq(a \o b)
    BY <2>1, ConcatIsSeq
  <2>3. ASSUME NEW k \in 1..Len(a \o b) PROVE IsPair((a \o b)[k])
    <3>1. (\E j \in 1..Len(a) : (a \o b)[k] = a[j]) \/ (\E j \in 1..Len(b) : (a \o b)[k] = b[j])
      BY <2>1, ConcatIsSeq
    <3> QED
      BY <1>8, <3>1 DEF IsPairs
  <2> QED
    BY <2>2, <2>3 DEF IsPairs
<1> DEFINE o == <<v>>
           so == s \o o
<1>9. IsPairs(o) /\ Len(o) = 1
  BY OneIsSeq DEF IsPairs
<1> HIDE DEF o
<1>10. IsPairs(so)
  BY <1>6, <1>8, <1>9
<1>11. Len(so) = Len(s) + Len(o)
  BY <1>6, <1>9, ConcatIsSeq DEF IsPairs
<1> HIDE DEF so
<1>12. IsPairs(so \o t) /\ Len(so \o t) = Len(so) + Len(t)
  BY <1>7, <1>8, <1>10, ConcatIsSeq DEF IsPairs
<1>13. Len(so \o t) = n + 1
  BY <1>1, <1>2, <1>4, <1>5, <1>9, <1>11, <1>12
<1> QED
  BY <1>3, <1>12, <1>13 DEF so, o

Sorting(vs, n, f) ==
  f = [k \in 0..n |-> IF k = 0 THEN <<>> ELSE InsertByLength(f[k - 1], vs[k])]

LEMMA SortingExists ==
  ASSUME NEW vs, NEW n \in Nat
  PROVE  \E f : Sorting(vs, n, f)
<1> DEFINE S == {m \in 0..n : ~ \E f : Sorting(vs, m, f)}
<1>1. SUFFICES ASSUME S # {} PROVE FALSE
  OBVIOUS
<1>2. PICK m \in S : \A k \in S : m <= k
  <2>1. S \subseteq Nat
    OBVIOUS
  <2> HIDE DEF S
  <2> QED
    BY <1>1, <2>1, Least
<1>3. CASE m = 0
  <2> DEFINE f == [k \in 0..0 |-> <<>>]
  <2>1. Sorting(vs, 0, f)
    BY DEF Sorting
  <2> QED
    BY <1>2, <1>3, <2>1
<1>4. CASE m # 0
  <2>1. m - 1 \in 0..n /\ m - 1 \notin S /\ m \in Nat \ {0}
    BY <1>2, <1>4
  <2>2. PICK g : Sorting(vs, m - 1, g)
    BY <2>1
  <2> DEFINE f == [k \in 0..m |-> IF k = m THEN InsertByLength(g[m - 1], vs[m]) ELSE g[k]]
  <2>3. ASSUME NEW k \in 0..m PROVE f[k] = IF k = 0 THEN <<>> ELSE InsertByLength(f[k - 1], vs[k])
    <3>1. CASE k = m
      <4>1. f[k - 1] = g[m - 1] /\ k # 0
        BY <2>1, <3>1
      <4> QED
        BY <3>1, <4>1
    <3>2. CASE k # m
      <4>1. k \in 0..(m - 1) /\ f[k] = g[k] /\ (k # 0 => f[k - 1] = g[k - 1])
        BY <2>1, <3>2
      <4>2. g[k] = IF k = 0 THEN <<>> ELSE InsertByLength(g[k - 1], vs[k])
        BY <2>2, <4>1 DEF Sorting
      <4> QED
        BY <4>1, <4>2
    <3> QED
      BY <3>1, <3>2
  <2>4. Sorting(vs, m, f)
    BY <2>3 DEF Sorting
  <2> QED
    BY <1>2, <2>4
<1> QED
  BY <1>3, <1>4

LEMMA ByLengthKeepsPairs ==
  ASSUME NEW vs, IsPairs(vs)
  PROVE  IsPairs(ByLength(vs)) /\ Len(ByLength(vs)) = Len(vs)
<1> DEFINE n == Len(vs)
           f == CHOOSE h : Sorting(vs, n, h)
<1>1. n \in Nat
  BY DEF IsPairs, IsSeq
<1>2. ByLength(vs) = f[n]
  BY Zenon DEF ByLength, Sorting
<1>3. Sorting(vs, n, f)
  BY <1>1, SortingExists
<1> HIDE DEF f
<1>4. \A k \in 0..n : f[k] = IF k = 0 THEN <<>> ELSE InsertByLength(f[k - 1], vs[k])
  BY <1>3 DEF Sorting
<1> DEFINE S == {k \in 0..n : ~ (IsPairs(f[k]) /\ Len(f[k]) = k)}
<1>5. S = {}
  <2>1. SUFFICES ASSUME S # {} PROVE FALSE
    OBVIOUS
  <2>2. PICK m \in S : \A k \in S : m <= k
    <3>1. S \subseteq Nat
      BY <1>1
    <3> HIDE DEF S
    <3> QED
      BY <2>1, <3>1, Least
  <2>3. m # 0
    BY <1>1, <1>4, <2>2, EmptyIsSeq DEF IsPairs
  <2>4. m \in 1..n /\ m - 1 \in 0..n /\ m - 1 \notin S
    BY <1>1, <2>2, <2>3
  <2>5. IsPairs(f[m - 1]) /\ Len(f[m - 1]) = m - 1
    BY <2>4
  <2>6. IsPair(vs[m])
    BY <2>4 DEF IsPairs
  <2>7. IsPairs(InsertByLength(f[m - 1], vs[m])) /\ Len(InsertByLength(f[m - 1], vs[m])) = m
    <3> DEFINE us == f[m - 1]
               v == vs[m]
    <3>1. IsPairs(us) /\ IsPair(v) /\ Len(us) + 1 = m
      BY <1>1, <2>4, <2>5, <2>6
    <3> HIDE DEF us, v
    <3>2. IsPairs(InsertByLength(us, v)) /\ Len(InsertByLength(us, v)) = m
      BY <3>1, InsertKeepsPairs
    <3> QED
      BY <3>2 DEF us, v
  <2> QED
    BY <1>4, <2>2, <2>3, <2>7
<1> QED
  BY <1>1, <1>2, <1>5

LEMMA SetToSeqOfFinite ==
  ASSUME NEW S, IsFiniteSet(S)
  PROVE  /\ IsSeq(SetToSeq(S)) /\ Len(SetToSeq(S)) = Cardinality(S)
         /\ \A k \in 1..Cardinality(S) : SetToSeq(S)[k] \in S
<1> DEFINE n == Cardinality(S)
<1>1. n \in Nat
  BY FS_CardinalityType
<1>2. \E f \in [1..n -> S] : IsInjective(f)
  <2>1. PICK f : f \in Bijection(1..n, S)
    BY FS_CardinalityType, Zenon DEF ExistsBijection
  <2>2. f \in [1..n -> S] /\ IsInjective(f)
    BY <2>1, Zenon DEF Bijection, Injection
  <2> QED
    BY <2>2
<1>3. SetToSeq(S) \in [1..n -> S]
  BY <1>2, Zenon DEF SetToSeq
<1>4. SetToSeq(S) = [k \in 1..n |-> SetToSeq(S)[k]] /\ \A k \in 1..n : SetToSeq(S)[k] \in S
  BY <1>3
<1> QED
  BY <1>1, <1>4, FunctionIsSeq

LEMMA SequenceIsSeq ==
  ASSUME NEW s, IsSequence(s)
  PROVE  IsSeq(s)
BY SeqIsSeq DEF IsSequence

LEMMA TextIsGood ==
  ASSUME NEW t, IsText(t)
  PROVE  GoodText(t)
<1>1. IsSeq(t)
  BY SequenceIsSeq DEF IsText
<1>2. DOMAIN t = 1..Len(t)
  BY <1>1 DEF IsSeq
<1>3. ASSUME NEW k \in 1..Len(t), t[k][1] = "ref" PROVE IsSeq(t[k][2])
  BY <1>2, <1>3, SequenceIsSeq DEF IsText
<1> QED
  BY <1>1, <1>3 DEF GoodText

LEMMA WordIsGood ==
  ASSUME NEW w
  PROVE  Word(w)[1] # "ref" /\ GoodText(<<Word(w)>>)
<1>1. Word(w)[1] # "ref"
  BY DEF Word
<1> DEFINE x == Word(w)
<1>2. IsSeq(<<x>>) /\ Len(<<x>>) = 1 /\ <<x>>[1] = x
  BY OneIsSeq
<1> HIDE DEF x
<1> QED
  BY <1>1, <1>2 DEF GoodText, x

LEMMA GoodConcat ==
  ASSUME NEW s, NEW t, GoodText(s), GoodText(t)
  PROVE  GoodText(s \o t)
<1> DEFINE u == s \o t
<1>1. IsSeq(s) /\ IsSeq(t)
  BY DEF GoodText
<1>2. /\ IsSeq(u)
      /\ \A k \in 1..Len(u) : (\E i \in 1..Len(s) : u[k] = s[i]) \/ (\E i \in 1..Len(t) : u[k] = t[i])
  BY <1>1, ConcatIsSeq
<1> HIDE DEF u
<1>3. ASSUME NEW k \in 1..Len(u), u[k][1] = "ref" PROVE IsSeq(u[k][2])
  BY <1>2, <1>3 DEF GoodText
<1> QED
  BY <1>2, <1>3 DEF GoodText, u

LEMMA TransformedIsGood ==
  ASSUME NEW t, GoodText(t), NEW transformers
  PROVE  GoodText(Transformed(transformers, t))
<1>1. GoodText(<<Word("T")>> \o t)
  BY WordIsGood, GoodConcat
<1> QED
  BY <1>1, Zenon DEF Transformed

LEMMA OptionIsGood ==
  ASSUME NEW option, \A t \in option : GoodText(t)
  PROVE  GoodText(OrEmpty(option))
<1>1. CASE option = {}
  BY <1>1, EmptyIsSeq DEF OrEmpty, GoodText
<1>2. CASE option # {}
  <2>1. OrEmpty(option) \in option
    BY <1>2, Zenon DEF OrEmpty
  <2> QED
    BY <2>1
<1> QED
  BY <1>1, <1>2

LEMMA VariableIsGood ==
  ASSUME NEW r, OfTexts(r), NEW v \in Range(r.variables)
  PROVE  GoodValue(GetValue(v, r.captured, Request))
<1> DEFINE c == r.captured
<1>1. /\ v.kind \in {"html", "header", "marker", "request"} /\ \A t \in v.default : GoodText(t)
      /\ v.kind = "request" => \A t \in Request[v.from] : GoodText(t)
      /\ \A m \in DOMAIN c : GoodText(c[m])
  BY TextIsGood DEF OfTexts
<1> HIDE DEF c
<1>2. CASE v.kind \in {"html", "header"}
  <2>1. GetValue(v, c, Request) = Deferred(v.kind, v.from, v.default, v.transformers)
    BY <1>2, Zenon DEF GetValue
  <2> QED
    BY <1>1, <1>2, <2>1 DEF GoodValue, Deferred, c
<1>3. ASSUME NEW t, GoodText(t) PROVE GoodValue(Value(Transformed(v.transformers, t)))
  <2>1. GoodText(Transformed(v.transformers, t))
    BY <1>3, TransformedIsGood
  <2> QED
    BY <2>1 DEF GoodValue, Value
<1>4. CASE v.kind = "marker"
  <2> DEFINE t == IF v.from \in DOMAIN c THEN c[v.from] ELSE <<>>
  <2>1. GetValue(v, c, Request) = Value(Transformed(v.transformers, t))
    BY <1>4 DEF GetValue
  <2>2. GoodText(t)
    <3>1. GoodText(<<>>)
      BY EmptyIsSeq DEF GoodText
    <3> QED
      BY <1>1, <3>1
  <2> HIDE DEF t
  <2> QED
    BY <1>3, <2>1, <2>2 DEF c
<1>5. CASE v.kind = "request"
  <2> DEFINE option == IF Request[v.from] = {} THEN v.default ELSE Request[v.from]
  <2>1. GetValue(v, c, Request) = Value(Transformed(v.transformers, OrEmpty(option)))
    BY <1>5 DEF GetValue
  <2>2. \A t \in option : GoodText(t)
    BY <1>1, <1>5
  <2> HIDE DEF option
  <2>3. GoodText(OrEmpty(option))
    BY <2>2, OptionIsGood
  <2> QED
    BY <1>3, <2>1, <2>3 DEF c
<1> QED
  BY <1>1, <1>2, <1>4, <1>5 DEF c

LEMMA VariablesArePairs ==
  ASSUME rules \in Chosen, NEW n \in 1..Len(rules)
  PROVE  IsPairs(RuleVariables(rules[n], rules[n].captured, Request))
<1> DEFINE r == rules[n]
           c == r.captured
           S == {<<m, Value(c[m])>> : m \in DOMAIN c}
           given_ == [k \in DOMAIN r.variables |->
                        <<r.variables[k].name, GetValue(r.variables[k], c, Request)>>]
<1>1. r.variables \in Seq(Range(r.variables)) /\ IsFiniteSet(DOMAIN c)
  BY RulesAssumption, Zenon
<1>6. OfTexts(r)
  BY RulesAssumption, Zenon
<1>2. IsSeq(r.variables)
  BY <1>1, SeqIsSeq
<1>3. IsPairs(SetToSeq(S))
  <2>1. IsFiniteSet(S)
    <3> DEFINE f == [m \in DOMAIN c |-> <<m, Value(c[m])>>]
    <3>1. f \in Surjection(DOMAIN c, S)
      BY DEF Surjection
    <3> HIDE DEF f, S
    <3> QED
      BY <1>1, <3>1, FS_Surjection
  <2>2. \A x \in S : IsPair(x)
    <3>1. ASSUME NEW m \in DOMAIN c PROVE IsPair(<<m, Value(c[m])>>)
      <4>1. IsSeq(m) /\ GoodText(c[m])
        BY <1>6, SequenceIsSeq, TextIsGood DEF OfTexts
      <4> QED
        BY <4>1 DEF IsPair, GoodValue, Value
    <3> QED
      BY <3>1
  <2> HIDE DEF S
  <2> QED
    BY <2>1, <2>2, SetToSeqOfFinite DEF IsPairs
<1>4. IsPairs(given_)
  <2>1. DOMAIN r.variables = 1..Len(r.variables) /\ Len(r.variables) \in Nat
    BY <1>2 DEF IsSeq
  <2>2. given_ = [k \in 1..Len(r.variables) |-> given_[k]]
    BY <2>1
  <2>3. ASSUME NEW k \in 1..Len(r.variables) PROVE IsPair(given_[k])
    <3> DEFINE v == r.variables[k]
    <3>1. given_[k] = <<v.name, GetValue(v, c, Request)>>
      BY <2>1
    <3>2. v \in Range(r.variables)
      BY <2>1 DEF Range
    <3>3. IsSeq(v.name) /\ GoodValue(GetValue(v, c, Request))
      BY <1>6, <3>2, VariableIsGood, SequenceIsSeq DEF OfTexts
    <3> HIDE DEF v, given_
    <3> QED
      BY <3>1, <3>3 DEF IsPair
  <2> HIDE DEF given_
  <2> QED
    BY <2>1, <2>2, <2>3, FunctionIsSeq DEF IsPairs
<1>5. RuleVariables(r, c, Request) = ByLength(IF r.variables = <<>> THEN SetToSeq(S) ELSE given_)
  BY Zenon DEF RuleVariables
<1> HIDE DEF S, given_
<1> QED
  BY <1>3, <1>4, <1>5, ByLengthKeepsPairs

(* Without a header among them nothing is left to resolve.                 *)
LEMMA NothingToResolve ==
  ASSUME NEW vs, IsPairs(vs), ~ IsDeferred(vs), NEW hs
  PROVE  ResolveResponseHeaders(vs, hs) = vs
<1>1. DOMAIN vs = 1..Len(vs)
  BY DEF IsPairs, IsSeq
<1>2. \A k \in DOMAIN vs : vs[k][2].kind # "header"
  BY DEF IsDeferred
<1>3. ASSUME NEW k \in 1..Len(vs) PROVE ResolveResponseHeaders(vs, hs)[k] = vs[k]
  <2>1. ResolveResponseHeaders(vs, hs)[k] = <<vs[k][1], vs[k][2]>>
    BY <1>1, <1>2, Zenon DEF ResolveResponseHeaders
  <2> QED
    BY <2>1 DEF IsPairs, IsPair
<1>4. ResolveResponseHeaders(vs, hs) = [k \in 1..Len(vs) |-> ResolveResponseHeaders(vs, hs)[k]]
  BY <1>1 DEF ResolveResponseHeaders
<1> QED
  BY <1>3, <1>4 DEF IsPairs, IsSeq

LEMMA DeferredIsSome ==
  ASSUME NEW vs, IsDeferred(vs)
  PROVE  vs # <<>>
BY DEF IsDeferred

(* What a rule says of the body for a code, all its variables in place, and*)
(* what the rules of K say, one after the other.                           *)
VariablesIn(rs, k, hs) == ResolveResponseHeaders(RuleVariables(rs[k], rs[k].captured, Request), hs)

BodySaid(rs, k, code, hs) ==
  IF Accepts(On(rs[k]), code) THEN BodiesReplaced(rs[k].bodies, VariablesIn(rs, k, hs)) ELSE <<>>

EachSaid(rs, K, code, hs) == [k \in DOMAIN rs |-> IF k \in K THEN BodySaid(rs, k, code, hs) ELSE <<>>]

BodiesSaid(rs, K, code, hs) == FlattenSeq(EachSaid(rs, K, code, hs))

BodyMergedOf(rs, a, K) ==
  /\ BodyParts(a.bodyFilters)
  /\ \A code, hs : BodiesOf(Heard(a.bodyFilters, code), hs) = BodiesSaid(rs, K, code, hs)

LEMMA RuleBodiesAre ==
  ASSUME rules \in Chosen, NEW n \in 1..Len(rules)
  PROVE  IsSeq(rules[n].bodies) /\ \A k \in 1..Len(rules[n].bodies) : rules[n].bodies[k].type \in KnownTypes
<1> DEFINE fs == rules[n].bodies
<1>1. fs \in Seq(Range(fs)) /\ \A f \in Range(fs) : f.type \in {"text", "html", "markdown", "other"}
  BY RulesAssumption, Zenon DEF OfTexts, OfBody
<1>2. IsSeq(fs)
  BY <1>1, SeqIsSeq
<1>3. \A k \in 1..Len(fs) : fs[k] \in Range(fs)
  BY <1>2 DEF Range, IsSeq
<1> QED
  BY <1>1, <1>2, <1>3 DEF KnownTypes

LEMMA SaidAre ==
  ASSUME rules \in Chosen, NEW K, NEW code, NEW hs, NEW w, w = EachSaid(rules, K, code, hs)
  PROVE  /\ AllSeqs(w) /\ Len(w) = Len(rules) /\ Len(rules) \in Nat
         /\ BodiesSaid(rules, K, code, hs) = FlattenSeq(w)
         /\ \A k \in 1..Len(rules) : w[k] = IF k \in K THEN BodySaid(rules, k, code, hs) ELSE <<>>
<1>1. DOMAIN rules = 1..Len(rules) /\ Len(rules) \in Nat
  BY RulesAssumption
<1>2. /\ w = [k \in 1..Len(rules) |-> w[k]]
      /\ \A k \in 1..Len(rules) : w[k] = IF k \in K THEN BodySaid(rules, k, code, hs) ELSE <<>>
  BY <1>1 DEF EachSaid
<1>3. IsSeq(w) /\ Len(w) = Len(rules)
  BY <1>1, <1>2, FunctionIsSeq
<1>4. ASSUME NEW k \in 1..Len(rules) PROVE IsSeq(w[k])
  <2>1. IsSeq(BodiesReplaced(rules[k].bodies, VariablesIn(rules, k, hs)))
    <3> DEFINE fs == rules[k].bodies
               vs == VariablesIn(rules, k, hs)
    <3>1. IsSeq(fs) /\ \A i \in 1..Len(fs) : fs[i].type \in {"text", "html", "markdown", "other"}
      BY RuleBodiesAre DEF KnownTypes
    <3> HIDE DEF fs, vs
    <3>2. IsSeq(BodiesReplaced(fs, vs))
      BY <3>1, BodiesAreSeq
    <3> QED
      BY <3>2 DEF fs, vs
  <2>2. IsSeq(BodySaid(rules, k, code, hs))
    BY <2>1, EmptyIsSeq, Zenon DEF BodySaid
  <2> QED
    BY <1>2, <2>2, EmptyIsSeq, Zenon
<1> QED
  BY <1>1, <1>2, <1>3, <1>4 DEF AllSeqs, BodiesSaid

LEMMA SaidNone ==
  ASSUME rules \in Chosen, NEW code, NEW hs
  PROVE  BodiesSaid(rules, {}, code, hs) = <<>>
<1> DEFINE w == EachSaid(rules, {}, code, hs)
<1>1. /\ AllSeqs(w) /\ Len(w) = Len(rules) /\ BodiesSaid(rules, {}, code, hs) = FlattenSeq(w)
      /\ \A k \in 1..Len(rules) : w[k] = IF k \in {} THEN BodySaid(rules, k, code, hs) ELSE <<>>
  BY SaidAre
<1> HIDE DEF w
<1>2. \A k \in 1..Len(w) : w[k] = <<>>
  BY <1>1
<1> QED
  BY <1>1, <1>2, FlattenNone DEF AllSeqs

(* One more rule says it behind the others.                                *)
LEMMA SaidMore ==
  ASSUME rules \in Chosen, NEW n \in 1..Len(rules), NEW K \in SUBSET (1..(n - 1))
  PROVE  \A code, hs : BodiesSaid(rules, K \cup {n}, code, hs)
                         = BodiesSaid(rules, K, code, hs) \o BodySaid(rules, n, code, hs)
<1> TAKE code, hs
<1> DEFINE L == K \cup {n}
           said(k) == BodySaid(rules, k, code, hs)
           v == EachSaid(rules, K, code, hs)
           w == EachSaid(rules, L, code, hs)
<1>1. /\ AllSeqs(v) /\ Len(v) = Len(rules) /\ BodiesSaid(rules, K, code, hs) = FlattenSeq(v)
      /\ \A k \in 1..Len(rules) : v[k] = IF k \in K THEN said(k) ELSE <<>>
  BY SaidAre
<1>2. /\ AllSeqs(w) /\ Len(w) = Len(rules) /\ BodiesSaid(rules, L, code, hs) = FlattenSeq(w)
      /\ \A k \in 1..Len(rules) : w[k] = IF k \in L THEN said(k) ELSE <<>>
  <2> HIDE DEF L
  <2> QED
    BY SaidAre
<1>3. Len(rules) \in Nat
  BY SaidAre
<1> HIDE DEF v, w, said
<1>4. n \in 1..Len(w) /\ n \in 0..Len(w) /\ n - 1 \in 0..Len(v) /\ n - 1 \in Nat
  BY <1>1, <1>2, <1>3
<1>5. FlattenSeq(w) = FlattenSeq(Upto(w, n))
  <2>1. ASSUME NEW k \in 1..Len(w), k > n PROVE w[k] = <<>>
    <3>1. k \in 1..Len(rules) /\ k \notin L
      BY <1>2, <2>1
    <3> QED
      BY <1>2, <3>1
  <2> QED
    BY <1>2, <1>4, <2>1, FlattenRest
<1>6. FlattenSeq(Upto(w, n)) = FlattenSeq(Upto(w, n - 1)) \o w[n]
  BY <1>2, <1>4, FlattenUpto
<1>7. w[n] = said(n)
  BY <1>2
<1>8. Upto(w, n - 1) = Upto(v, n - 1)
  <2>1. ASSUME NEW k \in 1..(n - 1) PROVE w[k] = v[k]
    <3>1. k \in 1..Len(rules) /\ (k \in L <=> k \in K)
      BY <1>3
    <3> QED
      BY <1>1, <1>2, <3>1, Zenon
  <2> QED
    BY <2>1 DEF Upto
<1>9. FlattenSeq(v) = FlattenSeq(Upto(v, n - 1))
  <2> DEFINE m == n - 1
  <2>1. ASSUME NEW k \in 1..Len(v), k > m PROVE v[k] = <<>>
    <3>1. k \in 1..Len(rules) /\ k \notin K
      BY <1>1, <2>1
    <3> QED
      BY <1>1, <3>1
  <2>2. m \in 0..Len(v)
    BY <1>4
  <2> HIDE DEF m
  <2>3. FlattenSeq(v) = FlattenSeq(Upto(v, m))
    BY <1>1, <2>1, <2>2, FlattenRest
  <2> QED
    BY <2>3 DEF m
<1> QED
  BY <1>1, <1>2, <1>5, <1>6, <1>7, <1>8, <1>9, Zenon DEF L, said

----------------------------------------------------------------------------
(* What an action has of a rule for the body and for the log's tags.       *)

RuleVars(r) == RuleVariables(r, r.captured, Request)

Waiting(r) == IF IsDeferred(RuleVars(r)) THEN RuleVars(r) ELSE <<>>

TagPart(r) ==
  [tags |-> IF Waiting(r) = <<>> THEN ResolveTags(r.tags, RuleVars(r)) ELSE r.tags,
   on |-> On(r), unit |-> r.units.tags, variables |-> Waiting(r)]

BodiesOfRule(r) == IF Waiting(r) = <<>> THEN BodiesReplaced(r.bodies, RuleVars(r)) ELSE r.bodies

LEMMA TextsOfRule ==
  ASSUME NEW r
  PROVE  /\ FromRouteRule(r).bodyFilters = OwnParts(BodiesOfRule(r), On(r), Waiting(r))
         /\ FromRouteRule(r).tags = IF r.tags = {} THEN <<>> ELSE <<TagPart(r)>>
<1> DEFINE vs == RuleVariables(r, r.captured, Request)
           deferred == IF IsDeferred(vs) THEN vs ELSE <<>>
           bodyFilters == IF deferred = <<>> THEN BodiesReplaced(r.bodies, vs) ELSE r.bodies
<1>1. FromRouteRule(r).bodyFilters = [k \in DOMAIN bodyFilters |->
                                        [filter |-> bodyFilters[k], on |-> On(r), variables |-> deferred]]
  BY DEF FromRouteRule
<1>2. FromRouteRule(r).tags =
        IF r.tags = {} THEN <<>>
        ELSE <<[tags |-> IF deferred = <<>> THEN ResolveTags(r.tags, vs) ELSE r.tags,
                on |-> On(r), unit |-> r.units.tags, variables |-> deferred]>>
  BY DEF FromRouteRule
<1>3. vs = RuleVars(r) /\ deferred = Waiting(r) /\ bodyFilters = BodiesOfRule(r)
  BY DEF RuleVars, Waiting, BodiesOfRule
<1> HIDE DEF vs, deferred, bodyFilters
<1> QED
  BY <1>1, <1>2, <1>3 DEF OwnParts, TagPart

(* The variables that wait are all of them, or none.                       *)
LEMMA WaitingIs ==
  ASSUME rules \in Chosen, NEW n \in 1..Len(rules), NEW hs
  PROVE  /\ Waiting(rules[n]) # <<>> => VariablesIn(rules, n, hs) = ResolveResponseHeaders(Waiting(rules[n]), hs)
         /\ Waiting(rules[n]) = <<>> => VariablesIn(rules, n, hs) = RuleVars(rules[n])
<1> DEFINE vs == RuleVars(rules[n])
<1>1. IsPairs(vs)
  BY VariablesArePairs DEF RuleVars
<1>2. VariablesIn(rules, n, hs) = ResolveResponseHeaders(vs, hs)
  BY Zenon DEF VariablesIn, RuleVars
<1>3. Waiting(rules[n]) = IF IsDeferred(vs) THEN vs ELSE <<>>
  BY Zenon DEF Waiting
<1> HIDE DEF vs
<1>4. CASE IsDeferred(vs)
  BY <1>2, <1>3, <1>4, DeferredIsSome
<1>5. CASE ~ IsDeferred(vs)
  <2>1. ResolveResponseHeaders(vs, hs) = vs
    BY <1>1, <1>5, NothingToResolve
  <2> QED
    BY <1>2, <1>3, <1>5, <2>1 DEF vs
<1> QED
  BY <1>4, <1>5

LEMMA BodyOfRule ==
  ASSUME rules \in Chosen, NEW n \in 1..Len(rules), NEW code, NEW hs,
         NEW s, s = FromRouteRule(rules[n]).bodyFilters
  PROVE  BodyParts(s) /\ BodiesOf(Heard(s, code), hs) = BodySaid(rules, n, code, hs)
<1> DEFINE r == rules[n]
           vs == Waiting(r)
           fs == BodiesOfRule(r)
           bs == r.bodies
<1>1. s = OwnParts(fs, On(r), vs)
  BY TextsOfRule
<1>2. IsSeq(bs) /\ \A k \in 1..Len(bs) : bs[k].type \in KnownTypes
  BY RuleBodiesAre
<1>3. fs = IF vs = <<>> THEN BodiesReplaced(bs, RuleVars(r)) ELSE bs
  BY Zenon DEF BodiesOfRule
<1>4. /\ vs # <<>> => VariablesIn(rules, n, hs) = ResolveResponseHeaders(vs, hs)
      /\ vs = <<>> => VariablesIn(rules, n, hs) = RuleVars(r)
  BY WaitingIs
<1> HIDE DEF vs, fs, bs
<1>5. IsSeq(fs)
  <2>1. \A us : IsSeq(BodiesReplaced(bs, us))
    BY <1>2, BodiesAreSeq DEF KnownTypes
  <2> QED
    BY <1>2, <1>3, <2>1
<1>6. vs = <<>> \/ \A k \in 1..Len(fs) : fs[k].type \in KnownTypes
  BY <1>2, <1>3
<1>7. /\ BodyParts(s)
      /\ BodiesOf(s, hs) = IF vs = <<>> THEN fs ELSE BodiesReplaced(fs, ResolveResponseHeaders(vs, hs))
  <2> DEFINE on == On(r)
  <2> HIDE DEF on
  <2>1. /\ BodyParts(OwnParts(fs, on, vs))
        /\ BodiesOf(OwnParts(fs, on, vs), hs) =
             IF vs = <<>> THEN fs ELSE BodiesReplaced(fs, ResolveResponseHeaders(vs, hs))
    BY <1>5, <1>6, BodiesOfOne
  <2> QED
    BY <1>1, <2>1 DEF on
<1>8. BodiesOf(s, hs) = BodiesReplaced(bs, VariablesIn(rules, n, hs))
  <2>1. CASE vs = <<>>
    BY <1>3, <1>4, <1>7, <2>1
  <2>2. CASE vs # <<>>
    BY <1>3, <1>4, <1>7, <2>2
  <2> QED
    BY <2>1, <2>2
<1>9. Heard(s, code) = IF Accepts(On(r), code) THEN s ELSE <<>>
  <2> DEFINE on == On(r)
  <2> HIDE DEF on
  <2>1. Heard(OwnParts(fs, on, vs), code) = IF Accepts(on, code) THEN OwnParts(fs, on, vs) ELSE <<>>
    BY <1>5, HeardOfOne
  <2> QED
    BY <1>1, <2>1 DEF on
<1>10. BodiesOf(<<>>, hs) = <<>>
  <2>1. [k \in DOMAIN <<>> |-> Now(<<>>[k], hs)] = <<>>
    OBVIOUS
  <2> QED
    BY <2>1, FlattenEmpty, Zenon DEF BodiesOf
<1> QED
  BY <1>7, <1>8, <1>9, <1>10, Zenon DEF BodySaid, bs

LEMMA BodyMergedOfNone ==
  ASSUME rules \in Chosen
  PROVE  BodyMergedOf(rules, NoAction, {})
<1>1. NoAction.bodyFilters = <<>> /\ BodyParts(<<>>)
  BY EmptyIsSeq DEF NoAction, BodyParts
<1>2. ASSUME NEW code, NEW hs PROVE BodiesOf(Heard(<<>>, code), hs) = <<>>
  <2>1. [k \in DOMAIN <<>> |-> IF Accepts(<<>>[k].on, code) THEN << <<>>[k]>> ELSE <<>>] = <<>>
    OBVIOUS
  <2>2. Heard(<<>>, code) = <<>>
    BY <2>1, FlattenEmpty, Zenon DEF Heard
  <2>3. [k \in DOMAIN <<>> |-> Now(<<>>[k], hs)] = <<>>
    OBVIOUS
  <2> QED
    BY <2>2, <2>3, FlattenEmpty, Zenon DEF BodiesOf
<1> QED
  BY <1>1, <1>2, SaidNone DEF BodyMergedOf

LEMMA BodyMergedOfRule ==
  ASSUME rules \in Chosen, NEW n \in 1..Len(rules)
  PROVE  BodyMergedOf(rules, FromRouteRule(rules[n]), {n})
<1> DEFINE s == FromRouteRule(rules[n]).bodyFilters
<1>1. BodyParts(s) /\ \A code, hs : BodiesOf(Heard(s, code), hs) = BodySaid(rules, n, code, hs)
  BY BodyOfRule
<1>2. ASSUME NEW code, NEW hs PROVE BodiesSaid(rules, {n}, code, hs) = BodySaid(rules, n, code, hs)
  <2>1. BodiesSaid(rules, {} \cup {n}, code, hs) = BodiesSaid(rules, {}, code, hs) \o BodySaid(rules, n, code, hs)
    <3> DEFINE K == {}
    <3>1. K \in SUBSET (1..(n - 1))
      OBVIOUS
    <3> HIDE DEF K
    <3>2. BodiesSaid(rules, K \cup {n}, code, hs) = BodiesSaid(rules, K, code, hs) \o BodySaid(rules, n, code, hs)
      BY <3>1, SaidMore
    <3> QED
      BY <3>2, Zenon DEF K
  <2>2. {} \cup {n} = {n} /\ BodiesSaid(rules, {}, code, hs) = <<>>
    BY SaidNone
  <2>3. IsSeq(BodySaid(rules, n, code, hs))
    <3> DEFINE K == {n}
               w == EachSaid(rules, K, code, hs)
    <3>1. n \in K
      OBVIOUS
    <3> HIDE DEF K
    <3>2. /\ AllSeqs(w) /\ Len(w) = Len(rules)
          /\ \A k \in 1..Len(rules) : w[k] = IF k \in K THEN BodySaid(rules, k, code, hs) ELSE <<>>
      BY SaidAre
    <3> HIDE DEF w
    <3>3. w[n] = BodySaid(rules, n, code, hs)
      BY <3>1, <3>2
    <3> QED
      BY <3>2, <3>3 DEF AllSeqs
  <2> QED
    BY <2>1, <2>2, <2>3, ConcatEmpty
<1> HIDE DEF s
<1> QED
  BY <1>1, <1>2 DEF BodyMergedOf, s

LEMMA BodyMergedOfBoth ==
  ASSUME rules \in Chosen, NEW n \in 1..Len(rules), NEW K, K \subseteq 1..(n - 1),
         NEW a, BodyMergedOf(rules, a, K)
  PROVE  BodyMergedOf(rules, Merge(a, FromRouteRule(rules[n])), K \cup {n})
<1> DEFINE s == a.bodyFilters
           t == FromRouteRule(rules[n]).bodyFilters
           c == Merge(a, FromRouteRule(rules[n]))
<1>1. c.bodyFilters = s \o t
  BY DEF Merge
<1>2. BodyParts(s) /\ BodyParts(t)
  BY BodyOfRule DEF BodyMergedOf
<1>3. ASSUME NEW code, NEW hs
      PROVE  /\ BodiesOf(Heard(s, code), hs) = BodiesSaid(rules, K, code, hs)
             /\ BodiesOf(Heard(t, code), hs) = BodySaid(rules, n, code, hs)
  BY BodyOfRule DEF BodyMergedOf
<1> HIDE DEF s, t, c
<1>4. BodyParts(s \o t)
  BY <1>2, BodiesConcat
<1>5. ASSUME NEW code, NEW hs
      PROVE  BodiesOf(Heard(s \o t, code), hs) = BodiesSaid(rules, K \cup {n}, code, hs)
  <2>1. IsSeq(s) /\ IsSeq(t)
    BY <1>2 DEF BodyParts
  <2>2. Heard(s \o t, code) = Heard(s, code) \o Heard(t, code)
    BY <2>1, HeardConcat
  <2>3. ASSUME NEW u, BodyParts(u) PROVE BodyParts(Heard(u, code))
    <3> DEFINE h == Heard(u, code)
    <3>1. IsSeq(u)
      BY <2>3 DEF BodyParts
    <3>2. IsSeq(h) /\ \A k \in 1..Len(h) : \E j \in 1..Len(u) : h[k] = u[j]
      BY <3>1, HeardIsSeq
    <3> HIDE DEF h
    <3>3. BodyParts(h)
      BY <2>3, <3>2 DEF BodyParts
    <3> QED
      BY <3>3 DEF h
  <2>4. BodiesOf(Heard(s, code) \o Heard(t, code), hs) = BodiesOf(Heard(s, code), hs) \o BodiesOf(Heard(t, code), hs)
    <3> DEFINE x == Heard(s, code)
               y == Heard(t, code)
    <3>1. BodyParts(x) /\ BodyParts(y)
      BY <1>2, <2>3
    <3> HIDE DEF x, y
    <3>2. BodiesOf(x \o y, hs) = BodiesOf(x, hs) \o BodiesOf(y, hs)
      BY <3>1, BodiesConcat
    <3> QED
      BY <3>2 DEF x, y
  <2>5. BodiesSaid(rules, K \cup {n}, code, hs) = BodiesSaid(rules, K, code, hs) \o BodySaid(rules, n, code, hs)
    <3>1. K \in SUBSET (1..(n - 1))
      OBVIOUS
    <3>2. \A d, h : BodiesSaid(rules, K \cup {n}, d, h) = BodiesSaid(rules, K, d, h) \o BodySaid(rules, n, d, h)
      BY <3>1, SaidMore
    <3> QED
      BY <3>2
  <2> QED
    BY <1>3, <2>2, <2>4, <2>5, Zenon
<1> QED
  BY <1>1, <1>4, <1>5 DEF BodyMergedOf, c

(* The tags of the rules of K, as they are merged, and once the headers of *)
(* the backend have been seen.                                             *)
Tagging(rs, K) == {k \in K : rs[k].tags # {}}

TagsMergedOf(rs, a, K) ==
  IsSeq(a.tags) /\ {a.tags[i] : i \in 1..Len(a.tags)} = {TagPart(rs[k]) : k \in Tagging(rs, K)}

TagsResolvedOf(rs, a, hs, K) ==
  /\ IsSeq(a.tags)
  /\ {a.tags[i] : i \in 1..Len(a.tags)} = {TagsResolved(TagPart(rs[k]), hs) : k \in Tagging(rs, K)}

LEMMA TagsMergedOfNone == TagsMergedOf(rules, NoAction, {})
<1>1. NoAction.tags = <<>> /\ Tagging(rules, {}) = {}
  BY DEF NoAction, Tagging
<1> QED
  BY <1>1, EmptyIsSeq DEF TagsMergedOf

LEMMA TagsMergedOfRule ==
  ASSUME NEW n
  PROVE  TagsMergedOf(rules, FromRouteRule(rules[n]), {n})
<1> DEFINE r == rules[n]
           s == FromRouteRule(r).tags
<1>1. s = IF r.tags = {} THEN <<>> ELSE <<TagPart(r)>>
  BY TextsOfRule
<1> HIDE DEF s
<1>2. CASE r.tags = {}
  <2>1. Tagging(rules, {n}) = {} /\ s = <<>>
    BY <1>1, <1>2 DEF Tagging
  <2>2. IsSeq(s) /\ {s[i] : i \in 1..Len(s)} = {}
    BY <2>1, EmptyIsSeq
  <2> QED
    BY <2>1, <2>2 DEF TagsMergedOf, s
<1>3. CASE r.tags # {}
  <2>1. Tagging(rules, {n}) = {n}
    BY <1>3 DEF Tagging
  <2>2. IsSeq(s) /\ Len(s) = 1 /\ s[1] = TagPart(rules[n])
    BY <1>1, <1>3, OneIsSeq
  <2>3. {s[i] : i \in 1..Len(s)} = {TagPart(rules[n])}
    BY <2>2
  <2> QED
    BY <2>1, <2>2, <2>3 DEF TagsMergedOf, s
<1> QED
  BY <1>2, <1>3

LEMMA TagsMergedOfBoth ==
  ASSUME NEW n, NEW K, NEW a, TagsMergedOf(rules, a, K)
  PROVE  TagsMergedOf(rules, Merge(a, FromRouteRule(rules[n])), K \cup {n})
<1> DEFINE b == FromRouteRule(rules[n])
           s == a.tags
           t == b.tags
<1>1. Merge(a, b).tags = s \o t
  BY DEF Merge
<1>2. /\ IsSeq(s) /\ {s[i] : i \in 1..Len(s)} = {TagPart(rules[k]) : k \in Tagging(rules, K)}
      /\ IsSeq(t) /\ {t[i] : i \in 1..Len(t)} = {TagPart(rules[k]) : k \in Tagging(rules, {n})}
  BY TagsMergedOfRule DEF TagsMergedOf
<1>3. Tagging(rules, K \cup {n}) = Tagging(rules, K) \cup Tagging(rules, {n})
  BY DEF Tagging
<1> HIDE DEF s, t
<1> DEFINE u == s \o t
<1>4. /\ IsSeq(u) /\ Len(u) = Len(s) + Len(t)
      /\ \A k \in 1..Len(s) : u[k] = s[k]
      /\ \A k \in 1..Len(t) : u[Len(s) + k] = t[k]
      /\ \A k \in 1..Len(u) : (\E i \in 1..Len(s) : u[k] = s[i]) \/ (\E i \in 1..Len(t) : u[k] = t[i])
  BY <1>2, ConcatIsSeq
<1>5. Len(s) \in Nat /\ Len(t) \in Nat
  BY <1>2 DEF IsSeq
<1> HIDE DEF u
<1>6. {u[i] : i \in 1..Len(u)} = {s[i] : i \in 1..Len(s)} \cup {t[i] : i \in 1..Len(t)}
  <2>1. \A k \in 1..Len(s) : k \in 1..Len(u)
    BY <1>4, <1>5
  <2>2. \A k \in 1..Len(t) : Len(s) + k \in 1..Len(u)
    BY <1>4, <1>5
  <2>3. ASSUME NEW i \in 1..Len(u)
        PROVE  u[i] \in {s[j] : j \in 1..Len(s)} \cup {t[j] : j \in 1..Len(t)}
    BY <1>4, <2>3
  <2>4. ASSUME NEW i \in 1..Len(s) PROVE s[i] \in {u[j] : j \in 1..Len(u)}
    <3>1. s[i] = u[i] /\ i \in 1..Len(u)
      BY <1>4, <2>1
    <3> QED
      BY <3>1, Zenon
  <2>5. ASSUME NEW i \in 1..Len(t) PROVE t[i] \in {u[j] : j \in 1..Len(u)}
    <3>1. t[i] = u[Len(s) + i] /\ Len(s) + i \in 1..Len(u)
      BY <1>4, <2>2
    <3> QED
      BY <3>1, Zenon
  <2> QED
    BY <2>3, <2>4, <2>5
<1>7. {u[i] : i \in 1..Len(u)} = {TagPart(rules[k]) : k \in Tagging(rules, K \cup {n})}
  BY <1>2, <1>3, <1>6
<1>8. Merge(a, b).tags = u
  BY <1>1 DEF u
<1> HIDE DEF b
<1>9. TagsMergedOf(rules, Merge(a, b), K \cup {n})
  BY <1>4, <1>7, <1>8 DEF TagsMergedOf
<1> QED
  BY <1>9 DEF b

(* The tags of a rule, resolved at once or with the headers later.         *)
LEMMA TagsOfRule ==
  ASSUME rules \in Chosen, NEW n \in 1..Len(rules), NEW hs
  PROVE  LET t == TagsResolved(TagPart(rules[n]), hs)
         IN t.on = On(rules[n]) /\ t.tags = ResolveTags(rules[n].tags, VariablesIn(rules, n, hs))
<1> DEFINE r == rules[n]
           vs == Waiting(r)
           p == TagPart(r)
           t == TagsResolved(p, hs)
<1>1. /\ vs # <<>> => VariablesIn(rules, n, hs) = ResolveResponseHeaders(vs, hs)
      /\ vs = <<>> => VariablesIn(rules, n, hs) = RuleVars(r)
  BY WaitingIs
<1>2. /\ p.tags = (IF vs = <<>> THEN ResolveTags(r.tags, RuleVars(r)) ELSE r.tags)
      /\ p.on = On(r) /\ p.variables = vs
      /\ p = [tags |-> p.tags, on |-> p.on, unit |-> p.unit, variables |-> p.variables]
  BY DEF TagPart
<1> HIDE DEF vs, p
<1>3. CASE vs = <<>>
  <2>1. t = p
    BY <1>2, <1>3, Zenon DEF TagsResolved
  <2> QED
    BY <1>1, <1>2, <1>3, <2>1 DEF t, p
<1>4. CASE vs # <<>>
  <2> DEFINE w == ResolveTags(p.tags, ResolveResponseHeaders(vs, hs))
  <2>1. t = [p EXCEPT !.tags = w, !.variables = <<>>]
    BY <1>2, <1>4, Zenon DEF TagsResolved
  <2> HIDE DEF w
  <2>2. t.tags = w /\ t.on = p.on
    BY <1>2, <2>1
  <2>3. w = ResolveTags(r.tags, VariablesIn(rules, n, hs))
    BY <1>1, <1>2, <1>4 DEF w
  <2> QED
    BY <1>2, <2>2, <2>3 DEF t, p
<1> QED
  BY <1>3, <1>4

LEMMA TagsAreResolved ==
  ASSUME NEW a, NEW b, NEW hs, NEW K, TagsMergedOf(rules, a, K),
         b.tags = [k \in DOMAIN a.tags |-> TagsResolved(a.tags[k], hs)]
  PROVE  TagsResolvedOf(rules, b, hs, K)
<1> DEFINE s == a.tags
           t == b.tags
<1>1. IsSeq(s) /\ {s[i] : i \in 1..Len(s)} = {TagPart(rules[k]) : k \in Tagging(rules, K)}
  BY DEF TagsMergedOf
<1>2. DOMAIN s = 1..Len(s) /\ Len(s) \in Nat
  BY <1>1 DEF IsSeq
<1>3. t = [k \in 1..Len(s) |-> t[k]] /\ \A k \in 1..Len(s) : t[k] = TagsResolved(s[k], hs)
  BY <1>2
<1> HIDE DEF s, t
<1>4. IsSeq(t) /\ Len(t) = Len(s)
  BY <1>2, <1>3, FunctionIsSeq
<1>5. {t[i] : i \in 1..Len(t)} = {TagsResolved(TagPart(rules[k]), hs) : k \in Tagging(rules, K)}
  <2>1. ASSUME NEW i \in 1..Len(t)
        PROVE  \E k \in Tagging(rules, K) : t[i] = TagsResolved(TagPart(rules[k]), hs)
    <3>1. i \in 1..Len(s) /\ s[i] \in {s[j] : j \in 1..Len(s)}
      BY <1>4
    <3>2. PICK k \in Tagging(rules, K) : s[i] = TagPart(rules[k])
      BY <1>1, <3>1
    <3> QED
      BY <1>3, <3>1, <3>2
  <2>2. ASSUME NEW k \in Tagging(rules, K)
        PROVE  \E i \in 1..Len(t) : t[i] = TagsResolved(TagPart(rules[k]), hs)
    <3>1. TagPart(rules[k]) \in {s[j] : j \in 1..Len(s)}
      BY <1>1
    <3>2. PICK i \in 1..Len(s) : s[i] = TagPart(rules[k])
      BY <3>1
    <3> QED
      BY <1>3, <1>4, <3>2
  <2> QED
    BY <2>1, <2>2
<1> QED
  BY <1>4, <1>5 DEF TagsResolvedOf, t

(* What the log gets of them.                                              *)
TagsTo(a, code) == UNION {t.tags : t \in {u \in Range(a.tags) : Accepts(u.on, code)}}

TagsSaid(rs, K, code, hs) ==
  UNION {ResolveTags(rs[k].tags, VariablesIn(rs, k, hs)) : k \in {j \in K : Accepts(On(rs[j]), code)}}

LEMMA TagsTold ==
  ASSUME rules \in Chosen, NEW hs, NEW K, K \subseteq 1..Len(rules), NEW a, TagsResolvedOf(rules, a, hs, K), NEW code
  PROVE  TagsTo(a, code) = TagsSaid(rules, K, code, hs)
<1> DEFINE told(k) == TagsResolved(TagPart(rules[k]), hs)
           T == Range(a.tags)
           said(k) == ResolveTags(rules[k].tags, VariablesIn(rules, k, hs))
<1>1. T = {told(k) : k \in Tagging(rules, K)}
  <2>1. DOMAIN a.tags = 1..Len(a.tags)
    BY DEF TagsResolvedOf, IsSeq
  <2>2. T = {a.tags[i] : i \in 1..Len(a.tags)}
    BY <2>1, Zenon DEF Range
  <2> QED
    BY <2>2 DEF TagsResolvedOf
<1>2. \A k \in K : told(k).on = On(rules[k]) /\ told(k).tags = said(k)
  BY TagsOfRule
<1>3. ASSUME NEW k, rules[k].tags = {} PROVE said(k) = {}
  BY <1>3 DEF ResolveTags
<1>4. Tagging(rules, K) = {k \in K : rules[k].tags # {}}
  BY DEF Tagging
<1> HIDE DEF told, T, said
<1>5. ASSUME NEW x, NEW k \in K, Accepts(On(rules[k]), code), x \in said(k)
      PROVE  \E t \in T : Accepts(t.on, code) /\ x \in t.tags
  <2>1. k \in Tagging(rules, K)
    BY <1>3, <1>4, <1>5
  <2>2. told(k) \in T /\ told(k).on = On(rules[k]) /\ told(k).tags = said(k)
    BY <1>1, <1>2, <2>1
  <2> QED
    BY <1>5, <2>2
<1>6. ASSUME NEW x, NEW t \in T, Accepts(t.on, code), x \in t.tags
      PROVE  \E k \in K : Accepts(On(rules[k]), code) /\ x \in said(k)
  <2>1. PICK k \in K : t = told(k)
    BY <1>1, <1>4
  <2> QED
    BY <1>2, <1>6, <2>1
<1>7. UNION {t.tags : t \in {u \in T : Accepts(u.on, code)}}
        = UNION {said(k) : k \in {j \in K : Accepts(On(rules[j]), code)}}
  BY <1>5, <1>6
<1> QED
  BY <1>7 DEF T, said, TagsTo, TagsSaid

----------------------------------------------------------------------------
(* The texts of an action, from the rules to the response.                 *)

TextsInv ==
  /\ BodyMergedOf(rules, action, KeptUpto(rules, at))
  /\ stage \in {"rules", "request", "status", "headers"} =>
       TagsMergedOf(rules, action, KeptUpto(rules, at))
  /\ stage \in {"create", "body", "tags", "done"} => TagsResolvedOf(rules, action, backend.headers, Kept)
  /\ stage \in {"body", "tags", "done"} => body.filters = BodiesSaid(rules, Kept, backend.code, given)
  /\ TagsSeeTheBackend

LEMMA TextsInvInit == ResponseInit => TextsInv
<1> SUFFICES ASSUME ResponseInit PROVE TextsInv
  OBVIOUS
<1>1. rules \in Chosen /\ at = 1 /\ action = NoAction /\ stage = "rules"
  BY DEF ResponseInit
<1>2. KeptUpto(rules, 1) = {}
  BY DEF KeptUpto, TakenUpto
<1> QED
  BY <1>1, <1>2, BodyMergedOfNone, TagsMergedOfNone DEF TextsInv, TagsSeeTheBackend

LEMMA TextsTaken == ResponseInv /\ TextsInv /\ TakeRule => TextsInv'
<1> SUFFICES ASSUME ResponseInv, TextsInv, TakeRule PROVE TextsInv'
  OBVIOUS
<1> DEFINE r == rules[at]
<1>1. /\ rules \in Chosen /\ at \in 1..Len(rules) /\ \A j \in 1..(at - 1) : ~ rules[j].stop
      /\ Len(rules) \in Nat
  BY RulesAssumption DEF ResponseInv, ActionInv, TakeRule
<1>2. /\ action' = IF r.reset THEN FromRouteRule(r) ELSE Merge(action, FromRouteRule(r))
      /\ at' = IF r.stop THEN Len(rules) + 1 ELSE at + 1
      /\ stage = "rules" /\ rules' = rules /\ stage' = stage
  BY DEF TakeRule
<1>3. KeptUpto(rules, at') = IF r.reset THEN {at} ELSE KeptUpto(rules, at) \cup {at}
  BY <1>1, <1>2, KeptNext
<1>4. KeptUpto(rules, at) \subseteq 1..(at - 1)
  BY DEF KeptUpto, TakenUpto
<1>5. BodyMergedOf(rules, action, KeptUpto(rules, at)) /\ TagsMergedOf(rules, action, KeptUpto(rules, at))
  BY <1>2 DEF TextsInv
<1>6. BodyMergedOf(rules, action', KeptUpto(rules, at')) /\ TagsMergedOf(rules, action', KeptUpto(rules, at'))
  <2>1. CASE r.reset
    BY <1>1, <1>2, <1>3, <2>1, BodyMergedOfRule, TagsMergedOfRule
  <2>2. CASE ~ r.reset
    BY <1>1, <1>2, <1>3, <1>4, <1>5, <2>2, BodyMergedOfBoth, TagsMergedOfBoth, ZenonT(20)
  <2> QED
    BY <2>1, <2>2
<1>7. BodyMergedOf(rules, action, KeptUpto(rules, at))' /\ TagsMergedOf(rules, action, KeptUpto(rules, at))'
  BY <1>2, <1>6
<1> QED
  BY <1>2, <1>7 DEF TextsInv, TagsSeeTheBackend

(* A step between the calls for the headers and the log.                   *)
LEMMA TextsStay ==
  ASSUME TextsInv, rules' = rules, at' = at, action' = action,
         stage \in {"rules", "request", "status"}, stage' \in {"request", "status", "headers"}
  PROVE  TextsInv'
BY DEF TextsInv, TagsSeeTheBackend

LEMMA TextsHeaders == ResponseInv /\ TextsInv /\ FilterHeaders => TextsInv'
<1> SUFFICES ASSUME ResponseInv, TextsInv, FilterHeaders PROVE TextsInv'
  OBVIOUS
<1>1. /\ stage = "headers" /\ stage' = "create"
      /\ action' = [action EXCEPT !.tags = [k \in DOMAIN @ |-> TagsResolved(@[k], backend.headers)]]
      /\ rules' = rules /\ at' = at /\ backend' = backend
  BY Zenon DEF FilterHeaders
<1>2. ActionInv /\ at > Len(rules)
  BY <1>1, RulesAssumption DEF ResponseInv, ActionInv
<1>3. rules \in Chosen /\ at = Len(rules) + 1 /\ IsAction(action)
  BY <1>2, RulesAssumption DEF ActionInv
<1>4. KeptUpto(rules, at) = Kept
  BY <1>3, KeptAtEnd
<1> DEFINE t == [k \in DOMAIN action.tags |-> TagsResolved(action.tags[k], backend.headers)]
<1>5. action' = [action EXCEPT !.tags = t]
  BY <1>1, Zenon
<1> HIDE DEF t
<1>6. action'.tags = t /\ action'.bodyFilters = action.bodyFilters
  BY <1>3, <1>5 DEF IsAction
<1>7. TagsResolvedOf(rules, action', backend.headers, Kept)
  BY <1>1, <1>4, <1>6, TagsAreResolved DEF TextsInv, t
<1>8. BodyMergedOf(rules, action', KeptUpto(rules, at))
  BY <1>6 DEF TextsInv, BodyMergedOf
<1>9. Kept' = Kept
  BY <1>1, SameRules
<1>10. BodyMergedOf(rules, action, KeptUpto(rules, at))' /\ TagsResolvedOf(rules, action, backend.headers, Kept)'
  BY <1>1, <1>7, <1>8, <1>9
<1> QED
  BY <1>1, <1>10 DEF TextsInv, TagsSeeTheBackend

LEMMA TextsCreate ==
  ASSUME ResponseInv, TextsInv, NEW hs, CreateFilterBody(hs)
  PROVE  TextsInv'
<1> DEFINE heard == Heard(action.bodyFilters, backend.code)
           fs == FlattenSeq([k \in DOMAIN heard |-> Now(heard[k], hs)])
<1>1. /\ stage = "create" /\ stage' = "body" /\ given' = hs
      /\ rules' = rules /\ at' = at /\ action' = action /\ backend' = backend
  BY Zenon DEF CreateFilterBody
<1>2. body' = BodyOfResponse(fs, hs)
  BY Zenon DEF CreateFilterBody, Begin, Now
<1>3. body'.filters = fs
  <2> HIDE DEF fs
  <2> QED
    BY <1>2 DEF BodyOfResponse
<1>4. fs = BodiesOf(heard, hs)
  BY Zenon DEF BodiesOf
<1> HIDE DEF heard, fs
<1>5. rules \in Chosen /\ at = Len(rules) + 1
  BY <1>1, RulesAssumption DEF ResponseInv, ActionInv
<1>6. KeptUpto(rules, at) = Kept
  BY <1>5, KeptAtEnd
<1>7. body'.filters = BodiesSaid(rules, Kept, backend.code, hs)
  BY <1>3, <1>4, <1>6 DEF TextsInv, BodyMergedOf, heard
<1>8. Kept' = Kept
  BY <1>1, SameRules
<1>9. /\ BodyMergedOf(rules, action, KeptUpto(rules, at))'
      /\ TagsResolvedOf(rules, action, backend.headers, Kept)'
      /\ (body.filters = BodiesSaid(rules, Kept, backend.code, given))'
  BY <1>1, <1>7, <1>8 DEF TextsInv
<1> QED
  BY <1>1, <1>9 DEF TextsInv, TagsSeeTheBackend

(* Nothing of it is changed but, at most, how far the body has come.       *)
LEMMA TextsKept ==
  ASSUME TextsInv, UNCHANGED responseVars, body' = body
  PROVE  TextsInv'
<1>1. /\ stage' = stage /\ rules' = rules /\ at' = at /\ action' = action /\ backend' = backend
      /\ given' = given /\ tags' = tags /\ status' = status
  BY DEF responseVars
<1>2. Kept' = Kept
  BY <1>1, SameRules
<1>3. TagsSeeTheBackend'
  BY <1>1, <1>2 DEF TextsInv, TagsSeeTheBackend, ResponseCode, Accepting, VariablesOf, Accepts, On
<1>4. /\ BodyMergedOf(rules, action, KeptUpto(rules, at))' = BodyMergedOf(rules, action, KeptUpto(rules, at))
      /\ TagsMergedOf(rules, action, KeptUpto(rules, at))' = TagsMergedOf(rules, action, KeptUpto(rules, at))
  BY <1>1
<1> QED
  BY <1>1, <1>2, <1>3, <1>4 DEF TextsInv

LEMMA BodyStays == FilterBody => body' = body /\ UNCHANGED responseVars
<1> SUFFICES ASSUME FilterBody PROVE body' = body /\ UNCHANGED responseVars
  OBVIOUS
<1>1. UNCHANGED responseVars /\ ((\E n \in 1..Len(body.input) : Filter(n)) \/ End \/ Panic)
  BY Zenon DEF FilterBody
<1>2. ASSUME NEW n, Filter(n) PROVE body' = body
  BY <1>2, Zenon DEF Filter
<1>3. CASE End
  BY <1>1, <1>3, Zenon DEF End
<1>5. CASE Panic
  BY <1>1, <1>5, Zenon DEF Panic
<1>4. ASSUME \E n \in 1..Len(body.input) : Filter(n) PROVE body' = body
  <2>1. PICK n \in 1..Len(body.input) : Filter(n)
    BY <1>4, Zenon
  <2> QED
    BY <1>2, <2>1, Zenon
<1> QED
  BY <1>1, <1>3, <1>4, <1>5, Zenon

LEMMA TextsLogged == TextsInv /\ ShouldLogRequest => TextsInv'
<1> SUFFICES ASSUME TextsInv, ShouldLogRequest PROVE TextsInv'
  OBVIOUS
<1>1. /\ stage = "body" /\ stage' = "tags" /\ rules' = rules /\ at' = at /\ action' = action
      /\ backend' = backend /\ given' = given /\ body' = body
  BY DEF ShouldLogRequest, unitVars
<1>2. Kept' = Kept
  BY <1>1, SameRules
<1> QED
  BY <1>1, <1>2 DEF TextsInv, TagsSeeTheBackend

LEMMA TextsTagged == ResponseInv /\ TextsInv /\ GetLogTags => TextsInv'
<1> SUFFICES ASSUME ResponseInv, TextsInv, GetLogTags PROVE TextsInv'
  OBVIOUS
<1>1. /\ stage = "tags" /\ stage' = "done" /\ rules' = rules /\ at' = at /\ action' = action
      /\ backend' = backend /\ given' = given /\ body' = body /\ status' = status
      /\ tags' = UNION {t.tags : t \in {u \in Range(action.tags) : Accepts(u.on, ResponseCode)}}
  BY DEF GetLogTags, unitVars
<1>2. rules \in Chosen
  BY DEF ResponseInv, ActionInv
<1>3. Kept' = Kept /\ ResponseCode' = ResponseCode /\ Kept \subseteq 1..Len(rules)
  BY <1>1, <1>2, SameRules, KeptAreNumbers DEF ResponseCode
<1>4. TagsResolvedOf(rules, action, backend.headers, Kept)
  BY <1>1 DEF TextsInv
<1>5. tags' = TagsSaid(rules, Kept, ResponseCode, backend.headers)
  <2>1. tags' = TagsTo(action, ResponseCode)
    BY <1>1, Zenon DEF TagsTo
  <2> QED
    BY <1>2, <1>3, <1>4, <2>1, TagsTold
<1>6. TagsSeeTheBackend'
  <2>1. (UNION {ResolveTags(rules[k].tags, VariablesOf(k, backend.headers)) : k \in Accepting(ResponseCode)})'
          = TagsSaid(rules, Kept, ResponseCode, backend.headers)
    BY <1>1, <1>3, Zenon DEF TagsSaid, VariablesOf, VariablesIn, Accepting, Accepts, On
  <2> QED
    BY <1>5, <2>1 DEF TagsSeeTheBackend
<1> QED
  BY <1>1, <1>3, <1>6 DEF TextsInv

LEMMA TextsStep == ResponseInv /\ TextsInv /\ [ResponseNext]_<<responseVars, bodyVars>> => TextsInv'
<1> SUFFICES ASSUME ResponseInv, TextsInv, [ResponseNext]_<<responseVars, bodyVars>> PROVE TextsInv'
  OBVIOUS
<1>1. CASE GetPeer
  BY <1>1, TextsStay DEF GetPeer
<1>2. CASE FilterRequestHeaders
  BY <1>2, TextsStay DEF FilterRequestHeaders
<1>3. CASE AnswerAtOnce
  BY <1>3, TextsStay DEF AnswerAtOnce, Give
<1>4. CASE AnswerBackend
  <2>1. stage = "status" /\ stage' = "headers" /\ rules' = rules /\ at' = at /\ action' = action
    BY <1>4 DEF AnswerBackend, Give
  <2> QED
    BY <2>1, TextsStay
<1>5. CASE FilterBody
  BY <1>5, BodyStays, TextsKept
<1>6. CASE UNCHANGED <<responseVars, bodyVars>>
  <2>1. UNCHANGED responseVars /\ body' = body
    BY <1>6 DEF bodyVars
  <2> QED
    BY <2>1, TextsKept
<1> QED
  BY <1>1, <1>2, <1>3, <1>4, <1>5, <1>6, TextsTaken, TextsHeaders, TextsCreate, TextsLogged, TextsTagged DEF ResponseNext

LEMMA TextsAlways == ResponseSpec => []TextsInv
BY TextsInvInit, TextsStep, ResponseAlways, PTL DEF ResponseSpec

(* That texts of a rule wait for the headers of the response changes       *)
(* nothing of the body's filters: create_filter_body gives those of the    *)
(* rules for the code, in their order, as if all variables had been known. *)
THEOREM BodyIsAsSaid == ResponseSpec => []BodyAsRulesSay
<1>1. TextsInv => BodyAsRulesSay
  <2> SUFFICES ASSUME TextsInv, stage = "body"
               PROVE  body.filters =
                        FlattenSeq([k \in DOMAIN rules |->
                          IF k \in Accepting(backend.code) THEN BodiesReplaced(rules[k].bodies, VariablesOf(k, given))
                                                           ELSE <<>>])
    BY Zenon DEF BodyAsRulesSay
  <2>1. body.filters = FlattenSeq(EachSaid(rules, Kept, backend.code, given))
    BY DEF TextsInv, BodiesSaid
  <2>2. EachSaid(rules, Kept, backend.code, given)
          = [k \in DOMAIN rules |->
              IF k \in Accepting(backend.code) THEN BodiesReplaced(rules[k].bodies, VariablesOf(k, given)) ELSE <<>>]
    BY Zenon DEF EachSaid, BodySaid, Accepting, VariablesOf, VariablesIn
  <2> QED
    BY <2>1, <2>2, Zenon
<1> QED
  BY <1>1, TextsAlways, PTL

(* The tags of the log are those of the rules for the code of the response,*)
(* with the headers of the backend in them: FilterHeaders resolves them    *)
(* from what the backend sent, not from what the filters leave of it.      *)
THEOREM TagsAreTheBackends == ResponseSpec => []TagsSeeTheBackend
<1>1. TextsInv => TagsSeeTheBackend
  BY DEF TextsInv
<1> QED
  BY <1>1, TextsAlways, PTL

----------------------------------------------------------------------------
(* Two sequences that are flattened alike.                                 *)

Aligned(f, g, p, q, n) ==
  /\ Len(f) = Len(g)
  /\ \A i \in 1..Len(f) : \E k \in 1..n : \E j \in 1..Len(p[k]) : f[i] = p[k][j] /\ g[i] = q[k][j]

LEMMA AlignedMore ==
  ASSUME NEW f, NEW g, IsSeq(f), IsSeq(g), NEW p, NEW q, NEW n \in Nat \ {0}, Aligned(f, g, p, q, n - 1),
         NEW u, NEW v, IsSeq(u), IsSeq(v), u = p[n], v = q[n], Len(u) = Len(v)
  PROVE  Aligned(f \o u, g \o v, p, q, n)
<1>1. /\ IsSeq(f \o u) /\ Len(f \o u) = Len(f) + Len(u) /\ Len(f) \in Nat /\ Len(u) \in Nat
      /\ \A k \in 1..Len(f) : (f \o u)[k] = f[k]
      /\ \A k \in 1..Len(u) : (f \o u)[Len(f) + k] = u[k]
  <2>1. Len(f) \in Nat /\ Len(u) \in Nat
    BY DEF IsSeq
  <2> QED
    BY <2>1, ConcatIsSeq
<1>2. /\ IsSeq(g \o v) /\ Len(g \o v) = Len(g) + Len(v)
      /\ \A k \in 1..Len(g) : (g \o v)[k] = g[k]
      /\ \A k \in 1..Len(v) : (g \o v)[Len(g) + k] = v[k]
  BY ConcatIsSeq
<1>3. Len(f) = Len(g) /\ Len(f \o u) = Len(g \o v)
  BY <1>1, <1>2 DEF Aligned
<1> DEFINE a == f \o u
           b == g \o v
<1>4. ASSUME NEW i \in 1..Len(a)
      PROVE  \E k \in 1..n : \E j \in 1..Len(p[k]) : a[i] = p[k][j] /\ b[i] = q[k][j]
  <2>1. CASE i <= Len(f)
    <3>1. i \in 1..Len(f) /\ a[i] = f[i] /\ b[i] = g[i]
      BY <1>1, <1>2, <1>3, <1>4, <2>1
    <3>2. PICK k \in 1..(n - 1) : \E j \in 1..Len(p[k]) : f[i] = p[k][j] /\ g[i] = q[k][j]
      BY <3>1 DEF Aligned
    <3>3. k \in 1..n
      OBVIOUS
    <3> HIDE DEF a, b
    <3> QED
      BY <3>1, <3>2, <3>3
  <2>2. CASE ~ (i <= Len(f))
    <3> DEFINE j == i - Len(f)
    <3>1. j \in 1..Len(u) /\ i = Len(f) + j
      BY <1>1, <1>4, <2>2
    <3>2. a[i] = u[j] /\ b[i] = v[j]
      BY <1>1, <1>2, <1>3, <3>1, ZenonT(20)
    <3>3. n \in 1..n
      OBVIOUS
    <3> HIDE DEF a, b, j
    <3> QED
      BY <3>1, <3>2, <3>3
  <2> QED
    BY <2>1, <2>2
<1> QED
  BY <1>3, <1>4 DEF Aligned

LEMMA FlattenAligned ==
  ASSUME NEW p, NEW q, AllSeqs(p), AllSeqs(q), Len(p) = Len(q),
         \A k \in 1..Len(p) : Len(p[k]) = Len(q[k])
  PROVE  Aligned(FlattenSeq(p), FlattenSeq(q), p, q, Len(p))
<1>1. IsSeq(p) /\ IsSeq(q) /\ Len(p) \in Nat
  BY DEF AllSeqs, IsSeq
<1> DEFINE l == Len(p)
           P(n) == Aligned(FlattenSeq(Upto(p, n)), FlattenSeq(Upto(q, n)), p, q, n)
           S == {n \in 0..l : ~ P(n)}
<1>2. P(0)
  <2>1. Aligned(<<>>, <<>>, p, q, 0)
    BY EmptyIsSeq DEF Aligned
  <2> QED
    BY <2>1, UptoNone, FlattenEmpty
<1>3. ASSUME NEW n \in 1..l, P(n - 1) PROVE P(n)
  <2> DEFINE f == FlattenSeq(Upto(p, n - 1))
             g == FlattenSeq(Upto(q, n - 1))
  <2>1. FlattenSeq(Upto(p, n)) = f \o p[n] /\ FlattenSeq(Upto(q, n)) = g \o q[n]
    BY FlattenUpto
  <2>2. IsSeq(f) /\ IsSeq(g)
    <3>1. n - 1 \in 0..Len(p) /\ n - 1 \in 0..Len(q)
      BY <1>1
    <3>2. AllSeqs(Upto(p, n - 1)) /\ AllSeqs(Upto(q, n - 1))
      BY <1>1, <3>1, UptoIsSeq
    <3> QED
      BY <3>2, FlattenIsSeq DEF AllSeqs
  <2>3. IsSeq(p[n]) /\ IsSeq(q[n]) /\ Len(p[n]) = Len(q[n]) /\ n \in Nat \ {0}
    BY <1>1 DEF AllSeqs
  <2>4. Aligned(f, g, p, q, n - 1)
    BY <1>3
  <2> HIDE DEF f, g
  <2>5. Aligned(f \o p[n], g \o q[n], p, q, n)
    BY <2>2, <2>3, <2>4, AlignedMore
  <2> QED
    BY <2>1, <2>5
<1> HIDE DEF P
<1>4. S = {}
  <2>1. SUFFICES ASSUME S # {} PROVE FALSE
    OBVIOUS
  <2>2. PICK m \in S : \A k \in S : m <= k
    <3>1. S \subseteq Nat
      BY <1>1
    <3> HIDE DEF S
    <3> QED
      BY <2>1, <3>1, Least
  <2>3. m # 0
    BY <1>2, <2>2
  <2>4. m \in 1..l /\ m - 1 \in 0..l /\ m - 1 \notin S
    BY <1>1, <2>2, <2>3
  <2> QED
    BY <1>3, <2>2, <2>4
<1>5. P(l)
  BY <1>1, <1>4
<1> QED
  BY <1>1, <1>5, UptoAll DEF P

(* Headers, and filters, that differ in values with two question marks.    *)
Alike(s, t, d) ==
  /\ IsSeq(s) /\ IsSeq(t) /\ Len(s) = Len(t)
  /\ \A k \in 1..Len(s) : s[k] = t[k] \/ (d /\ s[k].name = t[k].name /\ TwoQuestionMarks(s[k].value))

Similar(f, g, d) ==
  f = g \/ (d /\ f.action = g.action /\ f.header = g.header /\ TwoQuestionMarks(f.value))

KnownActions == {"add", "remove", "replace", "override", "default"}

LEMMA AppendedIs ==
  ASSUME NEW s, IsSeq(s), NEW x
  PROVE  /\ IsSeq(Append(s, x)) /\ Len(Append(s, x)) = Len(s) + 1
         /\ (\A k \in 1..Len(s) : Append(s, x)[k] = s[k]) /\ Append(s, x)[Len(s) + 1] = x
<1> DEFINE o == <<x>>
<1>1. IsSeq(o) /\ Len(o) = 1 /\ o[1] = x
  BY OneIsSeq
<1>2. Append(s, x) = s \o o
  BY AppendedIsSeq
<1> HIDE DEF o
<1>3. /\ IsSeq(s \o o) /\ Len(s \o o) = Len(s) + Len(o)
      /\ \A k \in 1..Len(s) : (s \o o)[k] = s[k]
      /\ \A k \in 1..Len(o) : (s \o o)[Len(s) + k] = o[k]
  <2>1. IsSeq(o)
    BY <1>1
  <2> QED
    BY <2>1, ConcatIsSeq
<1> QED
  BY <1>1, <1>2, <1>3

LEMMA AlikeAppended ==
  ASSUME NEW s, NEW t, NEW d, Alike(s, t, d), NEW f, NEW g, Similar(f, g, d)
  PROVE  Alike(Append(s, Set(f)), Append(t, Set(g)), d)
<1> DEFINE a == Append(s, Set(f))
           b == Append(t, Set(g))
<1>1. IsSeq(s) /\ IsSeq(t) /\ Len(s) = Len(t) /\ Len(s) \in Nat
  BY DEF Alike, IsSeq
<1>2. IsSeq(a) /\ Len(a) = Len(s) + 1 /\ (\A k \in 1..Len(s) : a[k] = s[k]) /\ a[Len(s) + 1] = Set(f)
  BY <1>1, AppendedIs
<1>3. IsSeq(b) /\ Len(b) = Len(t) + 1 /\ (\A k \in 1..Len(t) : b[k] = t[k]) /\ b[Len(t) + 1] = Set(g)
  BY <1>1, AppendedIs
<1> HIDE DEF a, b
<1>4. Set(f) = Set(g) \/ (d /\ Set(f).name = Set(g).name /\ TwoQuestionMarks(Set(f).value))
  BY DEF Similar, Set
<1>5. ASSUME NEW k \in 1..Len(a)
      PROVE  a[k] = b[k] \/ (d /\ a[k].name = b[k].name /\ TwoQuestionMarks(a[k].value))
  <2>1. CASE k \in 1..Len(s)
    BY <1>1, <1>2, <1>3, <2>1 DEF Alike
  <2>2. CASE k = Len(s) + 1
    BY <1>1, <1>2, <1>3, <1>4, <2>2
  <2> QED
    BY <1>1, <1>2, <2>1, <2>2
<1>6. Alike(a, b, d)
  BY <1>1, <1>2, <1>3, <1>5 DEF Alike
<1> QED
  BY <1>6 DEF a, b

LEMMA AlikeReplaced ==
  ASSUME NEW s, NEW t, NEW d, Alike(s, t, d), NEW f, NEW g, Similar(f, g, d)
  PROVE  Alike(Replaced(f, s), Replaced(g, t), d)
<1> DEFINE a == Replaced(f, s)
           b == Replaced(g, t)
<1>1. IsSeq(s) /\ IsSeq(t) /\ Len(s) = Len(t) /\ Len(s) \in Nat /\ DOMAIN s = 1..Len(s) /\ DOMAIN t = 1..Len(s)
  BY DEF Alike, IsSeq
<1>2. /\ a = [k \in 1..Len(s) |-> a[k]]
      /\ \A k \in 1..Len(s) : a[k] = IF SameHeader(s[k].name, f.header) THEN Set(f) ELSE s[k]
  BY <1>1 DEF Replaced
<1>3. /\ b = [k \in 1..Len(s) |-> b[k]]
      /\ \A k \in 1..Len(s) : b[k] = IF SameHeader(t[k].name, g.header) THEN Set(g) ELSE t[k]
  BY <1>1 DEF Replaced
<1> HIDE DEF a, b
<1>4. IsSeq(a) /\ Len(a) = Len(s) /\ IsSeq(b) /\ Len(b) = Len(s)
  BY <1>1, <1>2, <1>3, FunctionIsSeq
<1>5. Set(f) = Set(g) \/ (d /\ Set(f).name = Set(g).name /\ TwoQuestionMarks(Set(f).value))
  BY DEF Similar, Set
<1>6. f.header = g.header
  BY DEF Similar
<1>7. ASSUME NEW k \in 1..Len(s)
      PROVE  a[k] = b[k] \/ (d /\ a[k].name = b[k].name /\ TwoQuestionMarks(a[k].value))
  <2>1. s[k].name = t[k].name /\ (s[k] = t[k] \/ (d /\ TwoQuestionMarks(s[k].value)))
    BY DEF Alike
  <2>2. CASE SameHeader(s[k].name, f.header)
    BY <1>2, <1>3, <1>5, <1>6, <2>1, <2>2, Zenon
  <2>3. CASE ~ SameHeader(s[k].name, f.header)
    BY <1>2, <1>3, <1>5, <1>6, <2>1, <2>3, Zenon
  <2> QED
    BY <2>2, <2>3
<1>8. Alike(a, b, d)
  BY <1>4, <1>7 DEF Alike
<1> QED
  BY <1>8 DEF a, b

Others(f, s) == [k \in DOMAIN s |-> IF SameHeader(s[k].name, f.header) THEN <<>> ELSE <<s[k]>>]

LEMMA OthersAre ==
  ASSUME NEW s, IsSeq(s), NEW f
  PROVE  /\ AllSeqs(Others(f, s)) /\ Len(Others(f, s)) = Len(s)
         /\ \A k \in 1..Len(s) : Others(f, s)[k] = IF SameHeader(s[k].name, f.header) THEN <<>> ELSE <<s[k]>>
<1>1. DOMAIN s = 1..Len(s) /\ Len(s) \in Nat
  BY DEF IsSeq
<1>2. /\ Others(f, s) = [k \in 1..Len(s) |-> Others(f, s)[k]]
      /\ \A k \in 1..Len(s) : Others(f, s)[k] = IF SameHeader(s[k].name, f.header) THEN <<>> ELSE <<s[k]>>
  BY <1>1 DEF Others
<1>3. IsSeq(Others(f, s)) /\ Len(Others(f, s)) = Len(s)
  BY <1>1, <1>2, FunctionIsSeq
<1>4. \A k \in 1..Len(s) : IsSeq(Others(f, s)[k])
  BY <1>2, EmptyIsSeq, OneIsSeq
<1> QED
  BY <1>2, <1>3, <1>4 DEF AllSeqs

LEMMA AlikeRemoved ==
  ASSUME NEW s, NEW t, NEW d, Alike(s, t, d), NEW f, NEW g, Similar(f, g, d)
  PROVE  Alike(FlattenSeq(Others(f, s)), FlattenSeq(Others(g, t)), d)
<1> DEFINE p == Others(f, s)
           q == Others(g, t)
<1>1. IsSeq(s) /\ IsSeq(t) /\ Len(s) = Len(t) /\ f.header = g.header
  BY DEF Alike, Similar
<1>2. /\ AllSeqs(p) /\ Len(p) = Len(s)
      /\ \A k \in 1..Len(s) : p[k] = IF SameHeader(s[k].name, f.header) THEN <<>> ELSE <<s[k]>>
  BY <1>1, OthersAre
<1>3. /\ AllSeqs(q) /\ Len(q) = Len(s)
      /\ \A k \in 1..Len(s) : q[k] = IF SameHeader(t[k].name, f.header) THEN <<>> ELSE <<t[k]>>
  BY <1>1, OthersAre
<1> HIDE DEF p, q
<1>4. ASSUME NEW k \in 1..Len(s)
      PROVE  /\ Len(p[k]) = Len(q[k])
             /\ \A j \in 1..Len(p[k]) : p[k][j] = s[k] /\ q[k][j] = t[k]
  <2>1. s[k].name = t[k].name
    BY DEF Alike
  <2>2. CASE SameHeader(s[k].name, f.header)
    <3>1. p[k] = <<>> /\ q[k] = <<>>
      BY <1>2, <1>3, <2>1, <2>2, Zenon
    <3> QED
      BY <3>1
  <2>3. CASE ~ SameHeader(s[k].name, f.header)
    <3>1. p[k] = <<s[k]>> /\ q[k] = <<t[k]>>
      BY <1>2, <1>3, <2>1, <2>3, Zenon
    <3> QED
      BY <3>1
  <2> QED
    BY <2>2, <2>3
<1> DEFINE a == FlattenSeq(p)
           b == FlattenSeq(q)
<1>5. Aligned(a, b, p, q, Len(p))
  BY <1>2, <1>3, <1>4, FlattenAligned
<1>6. IsSeq(a) /\ IsSeq(b)
  BY <1>2, <1>3, FlattenIsSeq DEF AllSeqs
<1> HIDE DEF a, b
<1>7. ASSUME NEW i \in 1..Len(a)
      PROVE  a[i] = b[i] \/ (d /\ a[i].name = b[i].name /\ TwoQuestionMarks(a[i].value))
  <2>1. PICK k \in 1..Len(s) : \E j \in 1..Len(p[k]) : a[i] = p[k][j] /\ b[i] = q[k][j]
    BY <1>2, <1>5 DEF Aligned
  <2>2. a[i] = s[k] /\ b[i] = t[k]
    BY <1>4, <2>1
  <2> QED
    BY <2>2 DEF Alike
<1>8. Alike(a, b, d)
  BY <1>5, <1>6, <1>7 DEF Alike, Aligned
<1> QED
  BY <1>8 DEF a, b, p, q

(* One filter, whatever the trace.                                         *)
HeadersOf(f, hs) ==
  CASE f.action = "add" -> Append(hs, Set(f))
    [] f.action = "default" -> IF Has(hs, f.header) THEN hs ELSE Append(hs, Set(f))
    [] f.action = "override" -> IF Has(hs, f.header) THEN Replaced(f, hs) ELSE Append(hs, Set(f))
    [] f.action = "replace" -> Replaced(f, hs)
    [] f.action = "remove" -> FlattenSeq(Others(f, hs))

LEMMA FilterOneIs ==
  ASSUME NEW f, f.action \in KnownActions, NEW s
  PROVE  FilterOne(f, s).headers = HeadersOf(f, s.headers)
<1>1. CASE f.action = "add"
  <2>1. FilterOne(f, s) = HeaderAdd(f, s)
    BY <1>1 DEF FilterOne
  <2> QED
    BY <1>1, <2>1 DEF HeaderAdd, HeadersOf
<1>2. CASE f.action = "default"
  <2>1. FilterOne(f, s) = HeaderDefault(f, s)
    BY <1>2 DEF FilterOne
  <2> QED
    BY <1>2, <2>1 DEF HeaderDefault, HeaderAdd, HeadersOf
<1>3. CASE f.action = "override"
  <2>1. FilterOne(f, s) = HeaderOverride(f, s)
    BY <1>3 DEF FilterOne
  <2> QED
    BY <1>3, <2>1 DEF HeaderOverride, HeadersOf
<1>4. CASE f.action = "replace"
  <2>1. FilterOne(f, s) = HeaderReplace(f, s)
    BY <1>4 DEF FilterOne
  <2> QED
    BY <1>4, <2>1 DEF HeaderReplace, HeadersOf
<1>5. CASE f.action = "remove"
  <2>1. FilterOne(f, s) = HeaderRemove(f, s)
    BY <1>5 DEF FilterOne
  <2> QED
    BY <1>5, <2>1 DEF HeaderRemove, HeadersOf, Others
<1> QED
  BY <1>1, <1>2, <1>3, <1>4, <1>5 DEF KnownActions

LEMMA AlikeFiltered ==
  ASSUME NEW s, NEW t, NEW d, Alike(s, t, d), NEW f, NEW g, Similar(f, g, d), f.action \in KnownActions
  PROVE  Alike(HeadersOf(f, s), HeadersOf(g, t), d)
<1>1. f.action = g.action /\ f.header = g.header
  BY DEF Similar
<1>2. Has(s, f.header) = Has(t, g.header)
  <2>1. DOMAIN s = 1..Len(s) /\ DOMAIN t = 1..Len(s)
    BY DEF Alike, IsSeq
  <2>2. \A k \in 1..Len(s) : s[k].name = t[k].name
    BY DEF Alike
  <2> QED
    BY <1>1, <2>1, <2>2 DEF Has
<1>3. /\ Alike(Append(s, Set(f)), Append(t, Set(g)), d) /\ Alike(Replaced(f, s), Replaced(g, t), d)
      /\ Alike(FlattenSeq(Others(f, s)), FlattenSeq(Others(g, t)), d)
  BY AlikeAppended, AlikeReplaced, AlikeRemoved
<1>4. CASE f.action = "add"
  BY <1>1, <1>3, <1>4 DEF HeadersOf
<1>5. CASE f.action = "default"
  BY <1>1, <1>2, <1>3, <1>5 DEF HeadersOf
<1>6. CASE f.action = "override"
  BY <1>1, <1>2, <1>3, <1>6 DEF HeadersOf
<1>7. CASE f.action = "replace"
  BY <1>1, <1>3, <1>7 DEF HeadersOf
<1>8. CASE f.action = "remove"
  BY <1>1, <1>3, <1>8 DEF HeadersOf
<1> QED
  BY <1>4, <1>5, <1>6, <1>7, <1>8 DEF KnownActions

(* All filters, one after the other.                                       *)
StepsOf(known, first, n, f) ==
  f = [k \in 0..n |-> IF k = 0 THEN first ELSE FilterOne(known[k], f[k - 1])]

LEMMA StepsExist ==
  ASSUME NEW known, NEW first, NEW n \in Nat
  PROVE  \E f : StepsOf(known, first, n, f)
<1> DEFINE S == {m \in 0..n : ~ \E f : StepsOf(known, first, m, f)}
<1>1. SUFFICES ASSUME S # {} PROVE FALSE
  OBVIOUS
<1>2. PICK m \in S : \A k \in S : m <= k
  <2>1. S \subseteq Nat
    OBVIOUS
  <2> HIDE DEF S
  <2> QED
    BY <1>1, <2>1, Least
<1>3. CASE m = 0
  <2> DEFINE f == [k \in 0..0 |-> first]
  <2>1. StepsOf(known, first, 0, f)
    BY DEF StepsOf
  <2> QED
    BY <1>2, <1>3, <2>1
<1>4. CASE m # 0
  <2>1. m - 1 \in 0..n /\ m - 1 \notin S /\ m \in Nat \ {0}
    BY <1>2, <1>4
  <2>2. PICK g : StepsOf(known, first, m - 1, g)
    BY <2>1
  <2> DEFINE f == [k \in 0..m |-> IF k = m THEN FilterOne(known[m], g[m - 1]) ELSE g[k]]
  <2>3. ASSUME NEW k \in 0..m PROVE f[k] = IF k = 0 THEN first ELSE FilterOne(known[k], f[k - 1])
    <3>1. CASE k = m
      <4>1. f[k - 1] = g[m - 1] /\ k # 0
        BY <2>1, <3>1
      <4> QED
        BY <3>1, <4>1
    <3>2. CASE k # m
      <4>1. k \in 0..(m - 1) /\ f[k] = g[k] /\ (k # 0 => f[k - 1] = g[k - 1])
        BY <2>1, <3>2
      <4>2. g[k] = IF k = 0 THEN first ELSE FilterOne(known[k], g[k - 1])
        BY <2>2, <4>1 DEF StepsOf
      <4> QED
        BY <4>1, <4>2
    <3> QED
      BY <3>1, <3>2
  <2>4. StepsOf(known, first, m, f)
    BY <2>3 DEF StepsOf
  <2> QED
    BY <1>2, <2>4
<1> QED
  BY <1>3, <1>4

LEMMA FilterAllIs ==
  ASSUME NEW fs, Len(Known(fs)) \in Nat, \A k \in 1..Len(Known(fs)) : Known(fs)[k].action \in KnownActions,
         NEW hs, NEW t
  PROVE  \E f : /\ FilterAll(fs, hs, t).headers = f[Len(Known(fs))].headers
                /\ f[0].headers = hs
                /\ \A k \in 1..Len(Known(fs)) : f[k].headers = HeadersOf(Known(fs)[k], f[k - 1].headers)
<1> DEFINE known == Known(fs)
           n == Len(known)
           first == [headers |-> hs, trace |-> t]
           f == CHOOSE g : StepsOf(known, first, n, g)
<1>1. FilterAll(fs, hs, t) = f[n]
  BY Zenon DEF FilterAll, StepsOf
<1>2. StepsOf(known, first, n, f)
  <2> HIDE DEF known, first
  <2> QED
    BY StepsExist
<1>3. first.headers = hs
  OBVIOUS
<1>4. n \in Nat /\ \A k \in 1..n : known[k].action \in KnownActions
  OBVIOUS
<1> HIDE DEF f, known, first
<1>5. \A k \in 0..n : f[k] = IF k = 0 THEN first ELSE FilterOne(known[k], f[k - 1])
  BY <1>2 DEF StepsOf
<1>6. ASSUME NEW k \in 1..n PROVE f[k].headers = HeadersOf(known[k], f[k - 1].headers)
  <2>1. f[k] = FilterOne(known[k], f[k - 1])
    BY <1>4, <1>5
  <2> QED
    BY <1>4, <2>1, FilterOneIs
<1>7. f[0].headers = hs
  BY <1>3, <1>4, <1>5
<1> QED
  BY <1>1, <1>6, <1>7 DEF known

KnownOnes(fs) ==
  [k \in DOMAIN fs |->
    IF fs[k].action \in {"add", "remove", "replace", "override", "default"} THEN <<fs[k]>> ELSE <<>>]

LEMMA KnownAre ==
  ASSUME NEW fs, IsSeq(fs)
  PROVE  /\ AllSeqs(KnownOnes(fs)) /\ Len(KnownOnes(fs)) = Len(fs) /\ Known(fs) = FlattenSeq(KnownOnes(fs))
         /\ \A k \in 1..Len(fs) : KnownOnes(fs)[k] = IF fs[k].action \in KnownActions THEN <<fs[k]>> ELSE <<>>
<1>1. DOMAIN fs = 1..Len(fs) /\ Len(fs) \in Nat
  BY DEF IsSeq
<1>2. /\ KnownOnes(fs) = [k \in 1..Len(fs) |-> KnownOnes(fs)[k]]
      /\ \A k \in 1..Len(fs) : KnownOnes(fs)[k] = IF fs[k].action \in KnownActions THEN <<fs[k]>> ELSE <<>>
  BY <1>1 DEF KnownOnes, KnownActions
<1>3. IsSeq(KnownOnes(fs)) /\ Len(KnownOnes(fs)) = Len(fs)
  BY <1>1, <1>2, FunctionIsSeq
<1>4. \A k \in 1..Len(fs) : IsSeq(KnownOnes(fs)[k])
  BY <1>2, EmptyIsSeq, OneIsSeq
<1> QED
  BY <1>2, <1>3, <1>4 DEF AllSeqs, Known, KnownOnes

LEMMA KnownSimilar ==
  ASSUME NEW fs, IsSeq(fs), NEW gs, IsSeq(gs), Len(fs) = Len(gs), NEW d,
         \A k \in 1..Len(fs) : Similar(fs[k], gs[k], d)
  PROVE  /\ IsSeq(Known(fs)) /\ IsSeq(Known(gs)) /\ Len(Known(fs)) = Len(Known(gs))
         /\ \A k \in 1..Len(Known(fs)) :
              Similar(Known(fs)[k], Known(gs)[k], d) /\ Known(fs)[k].action \in KnownActions
<1> DEFINE p == KnownOnes(fs)
           q == KnownOnes(gs)
<1>1. /\ AllSeqs(p) /\ Len(p) = Len(fs) /\ Known(fs) = FlattenSeq(p)
      /\ \A k \in 1..Len(fs) : p[k] = IF fs[k].action \in KnownActions THEN <<fs[k]>> ELSE <<>>
  BY KnownAre
<1>2. /\ AllSeqs(q) /\ Len(q) = Len(fs) /\ Known(gs) = FlattenSeq(q)
      /\ \A k \in 1..Len(fs) : q[k] = IF gs[k].action \in KnownActions THEN <<gs[k]>> ELSE <<>>
  BY KnownAre
<1> HIDE DEF p, q
<1>3. ASSUME NEW k \in 1..Len(fs)
      PROVE  /\ Len(p[k]) = Len(q[k])
             /\ \A j \in 1..Len(p[k]) : p[k][j] = fs[k] /\ q[k][j] = gs[k] /\ fs[k].action \in KnownActions
  <2>1. fs[k].action = gs[k].action
    BY DEF Similar
  <2>2. CASE fs[k].action \in KnownActions
    <3>1. p[k] = <<fs[k]>> /\ q[k] = <<gs[k]>>
      BY <1>1, <1>2, <2>1, <2>2, Zenon
    <3> QED
      BY <2>2, <3>1
  <2>3. CASE fs[k].action \notin KnownActions
    <3>1. p[k] = <<>> /\ q[k] = <<>>
      BY <1>1, <1>2, <2>1, <2>3, Zenon
    <3> QED
      BY <3>1
  <2> QED
    BY <2>2, <2>3
<1> DEFINE a == FlattenSeq(p)
           b == FlattenSeq(q)
<1>4. Aligned(a, b, p, q, Len(p))
  BY <1>1, <1>2, <1>3, FlattenAligned
<1>5. IsSeq(a) /\ IsSeq(b)
  BY <1>1, <1>2, FlattenIsSeq DEF AllSeqs
<1> HIDE DEF a, b
<1>6. ASSUME NEW i \in 1..Len(a) PROVE Similar(a[i], b[i], d) /\ a[i].action \in KnownActions
  <2>1. PICK k \in 1..Len(fs) : \E j \in 1..Len(p[k]) : a[i] = p[k][j] /\ b[i] = q[k][j]
    BY <1>1, <1>4 DEF Aligned
  <2>2. a[i] = fs[k] /\ b[i] = gs[k] /\ fs[k].action \in KnownActions
    BY <1>3, <2>1
  <2> QED
    BY <2>2
<1>7. Len(a) = Len(b)
  BY <1>4 DEF Aligned
<1> QED
  BY <1>1, <1>2, <1>5, <1>6, <1>7 DEF a, b

(* Filters that are similar make headers that are alike.                   *)
LEMMA FilterAllAlike ==
  ASSUME NEW fs, IsSeq(fs), NEW gs, IsSeq(gs), Len(fs) = Len(gs), NEW d,
         \A k \in 1..Len(fs) : Similar(fs[k], gs[k], d), NEW hs, IsSeq(hs), NEW t, NEW u
  PROVE  Alike(FilterAll(fs, hs, t).headers, FilterAll(gs, hs, u).headers, d)
<1> DEFINE p == Known(fs)
           q == Known(gs)
           n == Len(p)
<1>1. /\ n \in Nat /\ Len(q) = n
      /\ \A k \in 1..n : Similar(p[k], q[k], d) /\ p[k].action \in KnownActions
  <2>1. /\ IsSeq(p) /\ Len(q) = n
        /\ \A k \in 1..n : Similar(p[k], q[k], d) /\ p[k].action \in KnownActions
    BY KnownSimilar
  <2>2. n \in Nat
    BY <2>1 DEF IsSeq
  <2> QED
    BY <2>1, <2>2
<1>2. \A k \in 1..n : q[k].action \in KnownActions
  BY <1>1 DEF Similar
<1>3. PICK f : /\ FilterAll(fs, hs, t).headers = f[n].headers /\ f[0].headers = hs
               /\ \A k \in 1..n : f[k].headers = HeadersOf(p[k], f[k - 1].headers)
  BY <1>1, FilterAllIs
<1>4. PICK g : /\ FilterAll(gs, hs, u).headers = g[n].headers /\ g[0].headers = hs
               /\ \A k \in 1..n : g[k].headers = HeadersOf(q[k], g[k - 1].headers)
  <2> DEFINE m == Len(q)
  <2>1. m = n
    BY <1>1
  <2>2. m \in Nat /\ \A k \in 1..m : q[k].action \in KnownActions
    BY <1>1, <1>2
  <2>3. \E g : /\ FilterAll(gs, hs, u).headers = g[m].headers /\ g[0].headers = hs
               /\ \A k \in 1..m : g[k].headers = HeadersOf(q[k], g[k - 1].headers)
    BY <2>2, FilterAllIs
  <2> HIDE DEF m, n, p, q
  <2> QED
    BY <2>1, <2>3
<1> HIDE DEF p, q
<1> DEFINE S == {m \in 0..n : ~ Alike(f[m].headers, g[m].headers, d)}
<1>5. S = {}
  <2>1. SUFFICES ASSUME S # {} PROVE FALSE
    OBVIOUS
  <2>2. PICK m \in S : \A k \in S : m <= k
    <3>1. S \subseteq Nat
      BY <1>1
    <3> HIDE DEF S
    <3> QED
      BY <2>1, <3>1, Least
  <2>3. m # 0
    <3>1. Alike(hs, hs, d)
      BY DEF Alike
    <3> QED
      BY <1>3, <1>4, <2>2, <3>1
  <2>4. m \in 1..n /\ m - 1 \in 0..n /\ m - 1 \notin S
    BY <1>1, <2>2, <2>3
  <2>5. Alike(f[m - 1].headers, g[m - 1].headers, d)
    BY <2>4
  <2>6. Alike(HeadersOf(p[m], f[m - 1].headers), HeadersOf(q[m], g[m - 1].headers), d)
    BY <1>1, <2>4, <2>5, AlikeFiltered
  <2> QED
    BY <1>3, <1>4, <2>2, <2>4, <2>6
<1>6. Alike(f[n].headers, g[n].headers, d)
  BY <1>1, <1>5
<1> QED
  BY <1>3, <1>4, <1>6

----------------------------------------------------------------------------
(* What the variables leave of a text, and of what comes behind it.        *)

LEMMA FlattenKeeps ==
  ASSUME NEW p, AllSeqs(p), NEW k \in 1..Len(p), NEW j \in 1..Len(p[k])
  PROVE  \E i \in 1..Len(FlattenSeq(p)) : FlattenSeq(p)[i] = p[k][j]
<1>1. IsSeq(p) /\ Len(p) \in Nat /\ k \in Nat
  BY DEF AllSeqs, IsSeq
<1> DEFINE x == p[k][j]
           Keeps(n) == \E i \in 1..Len(FlattenSeq(Upto(p, n))) : FlattenSeq(Upto(p, n))[i] = x
           S == {n \in k..Len(p) : ~ Keeps(n)}
<1>2. ASSUME NEW n \in k..Len(p), n = k \/ Keeps(n - 1) PROVE Keeps(n)
  <2> DEFINE f == FlattenSeq(Upto(p, n - 1))
             g == p[n]
  <2>1. n \in 1..Len(p) /\ n - 1 \in 0..Len(p)
    BY <1>1
  <2>2. FlattenSeq(Upto(p, n)) = f \o g
    BY <2>1, FlattenUpto
  <2>3. IsSeq(f) /\ IsSeq(g)
    <3>1. AllSeqs(Upto(p, n - 1))
      BY <1>1, <2>1, UptoIsSeq
    <3> QED
      BY <2>1, <3>1, FlattenIsSeq DEF AllSeqs
  <2>4. n = k => \E i \in 1..Len(g) : g[i] = x
    OBVIOUS
  <2>5. n # k => \E i \in 1..Len(f) : f[i] = x
    BY <1>2
  <2> HIDE DEF f, g, x
  <2>6. /\ Len(f \o g) = Len(f) + Len(g)
        /\ \A i \in 1..Len(f) : (f \o g)[i] = f[i]
        /\ \A i \in 1..Len(g) : (f \o g)[Len(f) + i] = g[i]
    BY <2>3, ConcatIsSeq
  <2>7. Len(f) \in Nat /\ Len(g) \in Nat
    BY <2>3 DEF IsSeq
  <2>8. CASE n = k
    <3>1. PICK i \in 1..Len(g) : g[i] = x
      BY <2>4, <2>8
    <3>2. Len(f) + i \in 1..Len(f \o g) /\ (f \o g)[Len(f) + i] = x
      BY <2>6, <2>7, <3>1
    <3> QED
      BY <2>2, <3>2
  <2>9. CASE n # k
    <3>1. PICK i \in 1..Len(f) : f[i] = x
      BY <2>5, <2>9
    <3>2. i \in 1..Len(f \o g) /\ (f \o g)[i] = x
      BY <2>6, <2>7, <3>1
    <3> QED
      BY <2>2, <3>2
  <2> QED
    BY <2>8, <2>9
<1> HIDE DEF Keeps
<1>3. S = {}
  <2>1. SUFFICES ASSUME S # {} PROVE FALSE
    OBVIOUS
  <2>2. PICK m \in S : \A n \in S : m <= n
    <3>1. S \subseteq Nat
      BY <1>1
    <3> HIDE DEF S
    <3> QED
      BY <2>1, <3>1, Least
  <2>3. m \in k..Len(p) /\ ~ Keeps(m)
    BY <2>2
  <2>4. m # k /\ ~ Keeps(m - 1)
    BY <1>2, <2>3
  <2>5. m - 1 \in k..Len(p) /\ m - 1 \notin S
    BY <1>1, <2>2, <2>3, <2>4
  <2> QED
    BY <2>4, <2>5
<1>4. Keeps(Len(p))
  BY <1>1, <1>3
<1> QED
  BY <1>1, <1>4, UptoAll DEF Keeps

(* Without a reference nothing is replaced.                                *)
Fixed(t) == IsSeq(t) /\ \A k \in 1..Len(t) : t[k][1] # "ref"

LEMMA ReplacedInIs ==
  ASSUME NEW token, token[1] = "ref" => IsSeq(token[2]), NEW name, IsSeq(name), NEW by, GoodText(by)
  PROVE  /\ GoodText(ReplacedIn(token, name, by))
         /\ token[1] # "ref" => ReplacedIn(token, name, by) = <<token>>
<1>1. GoodText(<<token>>)
  BY OneIsSeq DEF GoodText
<1> DEFINE n == Len(token[2]) - Len(name)
           rest == [k \in 1..n |-> Word(token[2][Len(name) + k])]
<1>2. ASSUME token[1] = "ref", IsPrefix(name, token[2]) PROVE GoodText(rest)
  <2>1. n \in Nat
    BY <1>2 DEF IsPrefix, IsSeq
  <2> HIDE DEF n
  <2>2. rest = [k \in 1..n |-> rest[k]] /\ \A k \in 1..n : rest[k][1] # "ref"
    BY DEF Word
  <2> HIDE DEF rest
  <2>3. IsSeq(rest) /\ Len(rest) = n
    BY <2>1, <2>2, FunctionIsSeq
  <2> QED
    BY <2>2, <2>3 DEF GoodText
<1>3. CASE token[1] = "ref" /\ IsPrefix(name, token[2])
  <2>1. ReplacedIn(token, name, by) = by \o rest
    BY <1>3 DEF ReplacedIn
  <2>2. GoodText(rest)
    BY <1>2, <1>3
  <2> HIDE DEF rest
  <2>3. GoodText(by \o rest)
    BY <2>2, GoodConcat
  <2> QED
    BY <1>3, <2>1, <2>3
<1>4. CASE ~ (token[1] = "ref" /\ IsPrefix(name, token[2]))
  BY <1>1, <1>4, Zenon DEF ReplacedIn
<1> QED
  BY <1>3, <1>4

Replacing(t, name, by) == [k \in DOMAIN t |-> ReplacedIn(t[k], name, by)]

LEMMA ReplacingIs ==
  ASSUME NEW t, GoodText(t), NEW name, IsSeq(name), NEW by, GoodText(by)
  PROVE  /\ AllSeqs(Replacing(t, name, by)) /\ Len(Replacing(t, name, by)) = Len(t)
         /\ ReplaceOne(t, name, by) = FlattenSeq(Replacing(t, name, by))
         /\ \A k \in 1..Len(t) : /\ Replacing(t, name, by)[k] = ReplacedIn(t[k], name, by)
                                 /\ GoodText(Replacing(t, name, by)[k])
                                 /\ t[k][1] # "ref" => Replacing(t, name, by)[k] = <<t[k]>>
         /\ GoodText(ReplaceOne(t, name, by))
<1> DEFINE p == Replacing(t, name, by)
<1>1. IsSeq(t) /\ DOMAIN t = 1..Len(t) /\ Len(t) \in Nat
  BY DEF GoodText, IsSeq
<1>2. p = [k \in 1..Len(t) |-> p[k]] /\ \A k \in 1..Len(t) : p[k] = ReplacedIn(t[k], name, by)
  BY <1>1 DEF Replacing
<1>3. ReplaceOne(t, name, by) = FlattenSeq(p)
  BY DEF ReplaceOne, Replacing
<1> HIDE DEF p
<1>4. IsSeq(p) /\ Len(p) = Len(t)
  BY <1>1, <1>2, FunctionIsSeq
<1>5. ASSUME NEW k \in 1..Len(t) PROVE GoodText(p[k]) /\ (t[k][1] # "ref" => p[k] = <<t[k]>>)
  <2>1. t[k][1] = "ref" => IsSeq(t[k][2])
    BY DEF GoodText
  <2> DEFINE x == t[k]
  <2> HIDE DEF x
  <2>2. ASSUME x[1] = "ref" => IsSeq(x[2])
        PROVE  GoodText(ReplacedIn(x, name, by)) /\ (x[1] # "ref" => ReplacedIn(x, name, by) = <<x>>)
    BY <2>2, ReplacedInIs
  <2> QED
    BY <1>2, <2>1, <2>2 DEF x
<1>6. AllSeqs(p)
  BY <1>4, <1>5 DEF AllSeqs, GoodText
<1> DEFINE f == FlattenSeq(p)
<1>7. GoodText(f)
  <2>1. IsSeq(f)
    BY <1>6, FlattenIsSeq DEF AllSeqs
  <2>2. ASSUME NEW i \in 1..Len(f), f[i][1] = "ref" PROVE IsSeq(f[i][2])
    <3>1. PICK k \in 1..Len(p) : \E j \in 1..Len(p[k]) : f[i] = p[k][j]
      BY <1>6, FlattenHas
    <3> HIDE DEF f
    <3> QED
      BY <1>4, <1>5, <2>2, <3>1 DEF GoodText
  <2> HIDE DEF f
  <2> QED
    BY <2>1, <2>2 DEF GoodText
<1> QED
  BY <1>2, <1>3, <1>4, <1>5, <1>6, <1>7 DEF p

LEMMA ReplaceOneAround ==
  ASSUME NEW s, GoodText(s), NEW t, Fixed(t), NEW name, IsSeq(name), NEW by, GoodText(by)
  PROVE  /\ ReplaceOne(s \o t, name, by) = ReplaceOne(s, name, by) \o t
         /\ GoodText(ReplaceOne(s, name, by))
         /\ \A x : Contains(s, x) /\ x[1] # "ref" => Contains(ReplaceOne(s, name, by), x)
<1> DEFINE u == s \o t
           p == Replacing(s, name, by)
           q == Replacing(t, name, by)
           r == Replacing(u, name, by)
<1>1. GoodText(t) /\ GoodText(u) /\ IsSeq(s) /\ IsSeq(t) /\ Len(s) \in Nat /\ Len(t) \in Nat
  <2>1. GoodText(t)
    BY DEF Fixed, GoodText
  <2>2. GoodText(u)
    BY <2>1, GoodConcat
  <2> HIDE DEF u
  <2> QED
    BY <2>1, <2>2, Zenon DEF GoodText, IsSeq
<1>2. /\ Len(u) = Len(s) + Len(t)
      /\ \A k \in 1..Len(s) : u[k] = s[k]
      /\ \A k \in 1..Len(t) : u[Len(s) + k] = t[k]
  BY <1>1, ConcatIsSeq
<1> HIDE DEF u
<1>3. /\ AllSeqs(p) /\ Len(p) = Len(s) /\ ReplaceOne(s, name, by) = FlattenSeq(p)
      /\ \A k \in 1..Len(s) : p[k] = ReplacedIn(s[k], name, by) /\ (s[k][1] # "ref" => p[k] = <<s[k]>>)
      /\ GoodText(ReplaceOne(s, name, by))
  BY ReplacingIs
<1>4. /\ AllSeqs(q) /\ Len(q) = Len(t)
      /\ \A k \in 1..Len(t) : q[k] = ReplacedIn(t[k], name, by) /\ (t[k][1] # "ref" => q[k] = <<t[k]>>)
  BY <1>1, ReplacingIs
<1>5. /\ AllSeqs(r) /\ Len(r) = Len(u) /\ ReplaceOne(u, name, by) = FlattenSeq(r)
      /\ \A k \in 1..Len(u) : r[k] = ReplacedIn(u[k], name, by)
  BY <1>1, ReplacingIs
<1> HIDE DEF p, q, r
<1>6. r = p \o q
  <2>1. \A k \in 1..Len(p) : r[k] = p[k]
    BY <1>1, <1>2, <1>3, <1>5
  <2>2. \A k \in 1..Len(q) : r[Len(p) + k] = q[k]
    BY <1>1, <1>2, <1>3, <1>4, <1>5
  <2>3. IsSeq(p) /\ IsSeq(q) /\ IsSeq(r) /\ Len(r) = Len(p) + Len(q)
    BY <1>1, <1>2, <1>3, <1>4, <1>5 DEF AllSeqs
  <2> QED
    BY <2>1, <2>2, <2>3, ConcatIsIt
<1>7. FlattenSeq(q) = t
  <2>1. \A k \in 1..Len(t) : q[k] = <<t[k]>>
    BY <1>4 DEF Fixed
  <2> QED
    BY <1>1, <1>4, <2>1, FlattenSingles DEF AllSeqs
<1>8. FlattenSeq(p \o q) = FlattenSeq(p) \o FlattenSeq(q)
  BY <1>3, <1>4, FlattenConcat
<1>9. ReplaceOne(u, name, by) = ReplaceOne(s, name, by) \o t
  BY <1>3, <1>5, <1>6, <1>7, <1>8, Zenon
<1>10. ASSUME NEW x, Contains(s, x), x[1] # "ref" PROVE Contains(FlattenSeq(p), x)
  <2>1. PICK k \in 1..Len(s) : s[k] = x
    BY <1>10 DEF Contains
  <2>2. p[k] = <<x>>
    BY <1>3, <1>10, <2>1
  <2>3. 1 \in 1..Len(p[k]) /\ p[k][1] = x
    BY <2>2
  <2>4. \E i \in 1..Len(FlattenSeq(p)) : FlattenSeq(p)[i] = p[k][1]
    BY <1>3, <2>1, <2>3, FlattenKeeps
  <2> QED
    BY <2>3, <2>4 DEF Contains
<1> QED
  BY <1>3, <1>9, <1>10 DEF u

Around(s, t, f, g) ==
  /\ f = g \o t /\ GoodText(g)
  /\ \A x : Contains(s, x) /\ x[1] # "ref" => Contains(g, x)

LEMMA ReplaceVariableAround ==
  ASSUME NEW s, NEW t, Fixed(t), NEW f, NEW g, Around(s, t, f, g), NEW v, IsPair(v), NEW d \in BOOLEAN
  PROVE  Around(s, t, ReplaceVariable(f, v, d), ReplaceVariable(g, v, d))
<1> DEFINE by == Replacement(v[2], d)
           w == OrEmpty(by)
           name == v[1]
<1>1. CASE by = {}
  BY <1>1, Zenon DEF ReplaceVariable
<1>2. CASE by # {}
  <2>1. \A x \in by : GoodText(x)
    BY DEF Replacement, IsPair, GoodValue
  <2>2. IsSeq(name)
    BY DEF IsPair
  <2>3. ReplaceVariable(f, v, d) = ReplaceOne(f, name, w) /\ ReplaceVariable(g, v, d) = ReplaceOne(g, name, w)
    BY <1>2, Zenon DEF ReplaceVariable
  <2> HIDE DEF by
  <2>4. GoodText(w)
    BY <2>1, OptionIsGood
  <2> HIDE DEF w, name
  <2>5. /\ ReplaceOne(g \o t, name, w) = ReplaceOne(g, name, w) \o t
        /\ GoodText(ReplaceOne(g, name, w))
        /\ \A x : Contains(g, x) /\ x[1] # "ref" => Contains(ReplaceOne(g, name, w), x)
    BY <2>2, <2>4, ReplaceOneAround DEF Around
  <2> QED
    BY <2>3, <2>5, Zenon DEF Around
<1> QED
  BY <1>1, <1>2

ReplacingAll(text, vs, d, n, f) ==
  f = [k \in 0..n |-> IF k = 0 THEN text ELSE ReplaceVariable(f[k - 1], vs[k], d)]

LEMMA ReplacingExists ==
  ASSUME NEW text, NEW vs, NEW n \in Nat, NEW d
  PROVE  \E f : ReplacingAll(text, vs, d, n, f)
<1> DEFINE S == {m \in 0..n : ~ \E f : ReplacingAll(text, vs, d, m, f)}
<1>1. SUFFICES ASSUME S # {} PROVE FALSE
  OBVIOUS
<1>2. PICK m \in S : \A k \in S : m <= k
  <2>1. S \subseteq Nat
    OBVIOUS
  <2> HIDE DEF S
  <2> QED
    BY <1>1, <2>1, Least
<1>3. CASE m = 0
  <2> DEFINE f == [k \in 0..0 |-> text]
  <2>1. ReplacingAll(text, vs, d, 0, f)
    BY DEF ReplacingAll
  <2> QED
    BY <1>2, <1>3, <2>1
<1>4. CASE m # 0
  <2>1. m - 1 \in 0..n /\ m - 1 \notin S /\ m \in Nat \ {0}
    BY <1>2, <1>4
  <2>5. m - 1 \in 0..m /\ m \in 0..m /\ m - 1 # m
    BY <2>1
  <2>2. PICK g : ReplacingAll(text, vs, d, m - 1, g)
    BY <2>1
  <2> DEFINE f == [k \in 0..m |-> IF k = m THEN ReplaceVariable(g[m - 1], vs[m], d) ELSE g[k]]
  <2>6. f[m] = ReplaceVariable(g[m - 1], vs[m], d) /\ \A k \in 0..m : k # m => f[k] = g[k]
    BY <2>5
  <2> HIDE DEF f, S
  <2>3. ASSUME NEW k \in 0..m PROVE f[k] = IF k = 0 THEN text ELSE ReplaceVariable(f[k - 1], vs[k], d)
    <3>1. CASE k = m
      <4>1. f[k - 1] = g[m - 1] /\ k # 0
        BY <2>1, <2>5, <2>6, <3>1
      <4> QED
        BY <2>6, <3>1, <4>1
    <3>2. CASE k # m
      <4>1. k \in 0..(m - 1) /\ (k # 0 => k - 1 \in 0..m /\ k - 1 # m)
        BY <2>1, <3>2
      <4>3. f[k] = g[k] /\ (k # 0 => f[k - 1] = g[k - 1])
        BY <2>6, <3>2, <4>1
      <4>2. g[k] = IF k = 0 THEN text ELSE ReplaceVariable(g[k - 1], vs[k], d)
        BY <2>2, <4>1 DEF ReplacingAll
      <4> QED
        BY <4>3, <4>2
    <3> QED
      BY <3>1, <3>2
  <2>7. f = [k \in 0..m |-> f[k]]
    BY DEF f
  <2>4. ReplacingAll(text, vs, d, m, f)
    BY <2>3, <2>7 DEF ReplacingAll
  <2> QED
    BY <1>2, <2>4 DEF S
<1> QED
  BY <1>3, <1>4

Replaces(text, vs, d, f) ==
  /\ Replace(text, vs, d) = f[Len(vs)]
  /\ f[0] = text
  /\ \A k \in 1..Len(vs) : f[k] = ReplaceVariable(f[k - 1], vs[k], d)

LEMMA ReplaceIs ==
  ASSUME NEW text, NEW vs, NEW d, Len(vs) \in Nat
  PROVE  \E f : Replaces(text, vs, d, f)
<1> DEFINE n == Len(vs)
           f == CHOOSE g : ReplacingAll(text, vs, d, n, g)
<1>1. Replace(text, vs, d) = f[n]
  BY Zenon DEF Replace, ReplacingAll
<1>2. ReplacingAll(text, vs, d, n, f)
  BY ReplacingExists
<1> HIDE DEF f
<1>3. \A k \in 0..n : f[k] = IF k = 0 THEN text ELSE ReplaceVariable(f[k - 1], vs[k], d)
  BY <1>2 DEF ReplacingAll
<1>5. n \in Nat /\ 0 \in 0..n /\ \A k \in 1..n : k \in 0..n /\ k # 0
  OBVIOUS
<1> HIDE DEF n
<1>4. f[0] = text /\ \A k \in 1..n : f[k] = ReplaceVariable(f[k - 1], vs[k], d)
  BY <1>3, <1>5, Zenon
<1>6. Replaces(text, vs, d, f)
  BY <1>1, <1>4, Zenon DEF n, Replaces
<1> QED
  BY <1>6

LEMMA ReplaceNothing ==
  ASSUME NEW text, NEW d
  PROVE  Replace(text, <<>>, d) = text
<1> DEFINE vs == <<>>
<1>1. Len(vs) = 0 /\ Len(vs) \in Nat
  OBVIOUS
<1> HIDE DEF vs
<1>2. PICK f : Replaces(text, vs, d, f)
  BY <1>1, ReplaceIs
<1> QED
  BY <1>1, <1>2 DEF vs, Replaces

(* A text in which nothing is to be replaced stays behind another one.     *)
LEMMA ReplaceAround ==
  ASSUME NEW s, GoodText(s), NEW t, Fixed(t), NEW vs, IsPairs(vs), NEW d \in BOOLEAN
  PROVE  Around(s, t, Replace(s \o t, vs, d), Replace(s, vs, d))
<1> DEFINE u == s \o t
           n == Len(vs)
<1>1. n \in Nat
  BY DEF IsPairs, IsSeq
<1>6. PICK f : Replaces(u, vs, d, f)
  <2> HIDE DEF u
  <2> QED
    BY <1>1, ReplaceIs
<1>2. /\ Replace(u, vs, d) = f[n] /\ f[0] = u
      /\ \A k \in 1..n : f[k] = ReplaceVariable(f[k - 1], vs[k], d)
  BY <1>6 DEF Replaces
<1>7. PICK g : Replaces(s, vs, d, g)
  BY <1>1, ReplaceIs
<1>3. /\ Replace(s, vs, d) = g[n] /\ g[0] = s
      /\ \A k \in 1..n : g[k] = ReplaceVariable(g[k - 1], vs[k], d)
  BY <1>7 DEF Replaces
<1> DEFINE S == {m \in 0..n : ~ Around(s, t, f[m], g[m])}
<1>4. S = {}
  <2>1. SUFFICES ASSUME S # {} PROVE FALSE
    OBVIOUS
  <2>2. PICK m \in S : \A k \in S : m <= k
    <3>1. S \subseteq Nat
      BY <1>1
    <3> HIDE DEF S
    <3> QED
      BY <2>1, <3>1, Least
  <2>3. m # 0
    <3>1. Around(s, t, u, s)
      BY DEF Around
    <3> QED
      BY <1>2, <1>3, <2>2, <3>1
  <2>4. m \in 1..n /\ m - 1 \in 0..n /\ m - 1 \notin S
    BY <1>1, <2>2, <2>3
  <2>5. Around(s, t, f[m - 1], g[m - 1]) /\ IsPair(vs[m])
    BY <2>4 DEF IsPairs
  <2>6. Around(s, t, ReplaceVariable(f[m - 1], vs[m], d), ReplaceVariable(g[m - 1], vs[m], d))
    BY <2>5, ReplaceVariableAround
  <2> QED
    BY <1>2, <1>3, <2>2, <2>4, <2>6
<1>5. Around(s, t, f[n], g[n])
  BY <1>1, <1>4
<1> QED
  BY <1>2, <1>3, <1>5

----------------------------------------------------------------------------
(* The variables, once the headers of the backend are known.               *)

GoodHeaders(hs) == IsSeq(hs) /\ \A k \in 1..Len(hs) : GoodText(hs[k].value)

LEMMA FlattenIsGood ==
  ASSUME NEW p, IsSeq(p), \A k \in 1..Len(p) : GoodText(p[k])
  PROVE  GoodText(FlattenSeq(p))
<1>1. AllSeqs(p)
  BY DEF AllSeqs, GoodText
<1> DEFINE f == FlattenSeq(p)
<1>2. IsSeq(f)
  BY <1>1, FlattenIsSeq DEF AllSeqs
<1>3. ASSUME NEW i \in 1..Len(f), f[i][1] = "ref" PROVE IsSeq(f[i][2])
  <2>1. PICK k \in 1..Len(p) : \E j \in 1..Len(p[k]) : f[i] = p[k][j]
    BY <1>1, FlattenHas
  <2> HIDE DEF f
  <2> QED
    BY <1>3, <2>1 DEF GoodText
<1> HIDE DEF f
<1>4. GoodText(f)
  BY <1>2, <1>3 DEF GoodText
<1> QED
  BY <1>4 DEF f

LEMMA JoinedIsGood ==
  ASSUME NEW hs, GoodHeaders(hs), NEW name
  PROVE  GoodText(Joined(hs, name))
<1> DEFINE first(k) == \A j \in 1..(k - 1) : ~ SameHeader(hs[j].name, name)
           comma == <<Word(",")>>
           piece(k) == IF ~ SameHeader(hs[k].name, name) THEN <<>>
                       ELSE IF first(k) THEN hs[k].value ELSE comma \o hs[k].value
           p == [k \in DOMAIN hs |-> piece(k)]
<1>1. DOMAIN hs = 1..Len(hs) /\ Len(hs) \in Nat
  BY DEF GoodHeaders, IsSeq
<1>2. Joined(hs, name) = FlattenSeq(p)
  BY Zenon DEF Joined
<1>3. ASSUME NEW k \in 1..Len(hs) PROVE GoodText(piece(k))
  <2>1. GoodText(hs[k].value)
    BY DEF GoodHeaders
  <2>2. GoodText(<<>>)
    BY EmptyIsSeq DEF GoodText
  <2>3. GoodText(comma)
    BY WordIsGood
  <2> HIDE DEF first, comma
  <2>4. GoodText(comma \o hs[k].value)
    BY <2>1, <2>3, GoodConcat
  <2> QED
    BY <2>1, <2>2, <2>4, Zenon
<1> HIDE DEF piece
<1>4. p = [k \in 1..Len(hs) |-> p[k]] /\ \A k \in 1..Len(hs) : GoodText(p[k])
  BY <1>1, <1>3
<1> HIDE DEF p
<1>5. IsSeq(p) /\ Len(p) = Len(hs)
  BY <1>1, <1>4, FunctionIsSeq
<1> QED
  BY <1>2, <1>4, <1>5, FlattenIsGood

LEMMA ResolvedArePairs ==
  ASSUME NEW vs, IsPairs(vs), NEW hs, GoodHeaders(hs)
  PROVE  IsPairs(ResolveResponseHeaders(vs, hs))
<1> DEFINE ws == ResolveResponseHeaders(vs, hs)
           from(v) == IF \E j \in DOMAIN hs : SameHeader(hs[j].name, v.from)
                      THEN Joined(hs, v.from) ELSE OrEmpty(v.default)
<1>1. DOMAIN vs = 1..Len(vs) /\ Len(vs) \in Nat
  BY DEF IsPairs, IsSeq
<1>2. ws = [k \in 1..Len(vs) |-> ws[k]]
  BY <1>1 DEF ResolveResponseHeaders
<1>3. ASSUME NEW k \in 1..Len(vs) PROVE IsPair(ws[k])
  <2> DEFINE v == vs[k][2]
             n == vs[k][1]
  <2>1. ws[k] = <<n, IF v.kind # "header" THEN v ELSE ToStatic(v, from(v))>>
    BY <1>1, Zenon DEF ResolveResponseHeaders
  <2>2. IsSeq(n) /\ GoodValue(v)
    BY DEF IsPairs, IsPair
  <2> HIDE DEF n, v, ws
  <2>3. ASSUME v.kind = "header" PROVE GoodValue(ToStatic(v, from(v)))
    <3>1. \A t \in v.default : GoodText(t)
      BY <2>2, <2>3 DEF GoodValue
    <3>2. GoodText(from(v))
      BY <3>1, JoinedIsGood, OptionIsGood, Zenon
    <3> HIDE DEF from
    <3>3. GoodText(Transformed(v.transformers, from(v)))
      BY <3>2, TransformedIsGood
    <3>4. ToStatic(v, from(v)) = Value(Transformed(v.transformers, from(v)))
      BY <2>3, Zenon DEF ToStatic
    <3> QED
      BY <3>3, <3>4 DEF GoodValue, Value
  <2> HIDE DEF from
  <2>4. CASE v.kind = "header"
    BY <2>1, <2>2, <2>3, <2>4 DEF IsPair
  <2>5. CASE v.kind # "header"
    BY <2>1, <2>2, <2>5 DEF IsPair
  <2> QED
    BY <2>4, <2>5
<1> HIDE DEF ws
<1>4. IsSeq(ws) /\ Len(ws) = Len(vs)
  BY <1>1, <1>2, FunctionIsSeq
<1>5. IsPairs(ws)
  BY <1>3, <1>4 DEF IsPairs
<1> QED
  BY <1>5 DEF ws

----------------------------------------------------------------------------
(* What is picked of the rules' parts, one after the other.                *)

PickedOf(w, K) == [k \in DOMAIN w |-> IF k \in K THEN w[k] ELSE <<>>]
Picked(w, K) == FlattenSeq(PickedOf(w, K))

LEMMA PickedAre ==
  ASSUME NEW w, AllSeqs(w), NEW K
  PROVE  /\ AllSeqs(PickedOf(w, K)) /\ Len(PickedOf(w, K)) = Len(w) /\ Len(w) \in Nat
         /\ \A k \in 1..Len(w) : PickedOf(w, K)[k] = IF k \in K THEN w[k] ELSE <<>>
         /\ IsSeq(Picked(w, K))
<1>1. DOMAIN w = 1..Len(w) /\ Len(w) \in Nat
  BY DEF AllSeqs, IsSeq
<1>2. /\ PickedOf(w, K) = [k \in 1..Len(w) |-> PickedOf(w, K)[k]]
      /\ \A k \in 1..Len(w) : PickedOf(w, K)[k] = IF k \in K THEN w[k] ELSE <<>>
  BY <1>1 DEF PickedOf
<1>3. IsSeq(PickedOf(w, K)) /\ Len(PickedOf(w, K)) = Len(w)
  BY <1>1, <1>2, FunctionIsSeq
<1>4. \A k \in 1..Len(w) : IsSeq(PickedOf(w, K)[k])
  BY <1>2, EmptyIsSeq DEF AllSeqs
<1>5. AllSeqs(PickedOf(w, K))
  BY <1>3, <1>4 DEF AllSeqs
<1> QED
  BY <1>1, <1>2, <1>3, <1>5, FlattenIsSeq DEF AllSeqs, Picked

LEMMA PickedNone ==
  ASSUME NEW w, AllSeqs(w)
  PROVE  Picked(w, {}) = <<>>
<1> DEFINE p == PickedOf(w, {})
<1>1. /\ IsSeq(p) /\ Len(p) = Len(w)
      /\ \A k \in 1..Len(w) : p[k] = IF k \in {} THEN w[k] ELSE <<>>
  BY PickedAre DEF AllSeqs
<1>2. Picked(w, {}) = FlattenSeq(p)
  BY DEF Picked
<1> HIDE DEF p
<1>3. \A k \in 1..Len(p) : p[k] = <<>>
  BY <1>1
<1> QED
  BY <1>1, <1>2, <1>3, FlattenNone

LEMMA PickedMore ==
  ASSUME NEW w, AllSeqs(w), NEW n \in 1..Len(w), NEW K, K \subseteq 1..(n - 1)
  PROVE  Picked(w, K \cup {n}) = Picked(w, K) \o w[n]
<1> DEFINE L == K \cup {n}
           p == PickedOf(w, K)
           q == PickedOf(w, L)
<1>1. /\ AllSeqs(p) /\ Len(p) = Len(w) /\ Len(w) \in Nat /\ Picked(w, K) = FlattenSeq(p)
      /\ \A k \in 1..Len(w) : p[k] = IF k \in K THEN w[k] ELSE <<>>
  BY PickedAre DEF Picked
<1>2. /\ AllSeqs(q) /\ Len(q) = Len(w) /\ Picked(w, L) = FlattenSeq(q)
      /\ \A k \in 1..Len(w) : q[k] = IF k \in L THEN w[k] ELSE <<>>
  <2> HIDE DEF L
  <2> QED
    BY PickedAre DEF Picked
<1> HIDE DEF p, q
<1>3. n \in 1..Len(q) /\ n \in 0..Len(q) /\ n - 1 \in 0..Len(p) /\ n - 1 \in Nat
  BY <1>1, <1>2
<1>4. FlattenSeq(q) = FlattenSeq(Upto(q, n))
  <2>1. ASSUME NEW k \in 1..Len(q), k > n PROVE q[k] = <<>>
    <3>1. k \in 1..Len(w) /\ k \notin L
      BY <1>2, <2>1
    <3> QED
      BY <1>2, <3>1
  <2> QED
    BY <1>2, <1>3, <2>1, FlattenRest
<1>5. FlattenSeq(Upto(q, n)) = FlattenSeq(Upto(q, n - 1)) \o q[n]
  BY <1>2, <1>3, FlattenUpto
<1>6. q[n] = w[n]
  BY <1>2
<1>7. Upto(q, n - 1) = Upto(p, n - 1)
  <2>1. ASSUME NEW k \in 1..(n - 1) PROVE q[k] = p[k]
    <3>1. k \in 1..Len(w) /\ (k \in L <=> k \in K)
      BY <1>1
    <3> QED
      BY <1>1, <1>2, <3>1, Zenon
  <2> QED
    BY <2>1 DEF Upto
<1>8. FlattenSeq(p) = FlattenSeq(Upto(p, n - 1))
  <2> DEFINE m == n - 1
  <2>1. ASSUME NEW k \in 1..Len(p), k > m PROVE p[k] = <<>>
    <3>1. k \in 1..Len(w) /\ k \notin K
      BY <1>1, <2>1
    <3> QED
      BY <1>1, <3>1
  <2>2. m \in 0..Len(p)
    BY <1>3
  <2> HIDE DEF m
  <2>3. FlattenSeq(p) = FlattenSeq(Upto(p, m))
    BY <1>1, <2>1, <2>2, FlattenRest
  <2> QED
    BY <2>3 DEF m
<1> QED
  BY <1>1, <1>2, <1>4, <1>5, <1>6, <1>7, <1>8, Zenon DEF L

LEMMA PickedOne ==
  ASSUME NEW w, AllSeqs(w), NEW n \in 1..Len(w)
  PROVE  Picked(w, {n}) = w[n]
<1> DEFINE K == {}
<1>1. K \subseteq 1..(n - 1)
  OBVIOUS
<1>2. Picked(w, K) = <<>> /\ K \cup {n} = {n}
  BY PickedNone
<1> HIDE DEF K
<1>3. Picked(w, K \cup {n}) = Picked(w, K) \o w[n]
  BY <1>1, PickedMore
<1>4. IsSeq(w[n])
  BY DEF AllSeqs
<1> QED
  BY <1>2, <1>3, <1>4, ConcatEmpty

----------------------------------------------------------------------------
(* The headers of one rule, when its texts have waited for the response,   *)
(* are those it says; only a target may get a second question mark.        *)

LEMMA FixedTail ==
  ASSUME NEW w, NEW x, Fixed(x)
  PROVE  Fixed(<<Word(w)>> \o x)
<1> DEFINE s == <<Word(w)>>
           u == s \o x
<1>1. IsSeq(s) /\ \A k \in 1..Len(s) : s[k][1] # "ref"
  <2> DEFINE y == Word(w)
  <2>1. y[1] # "ref"
    BY WordIsGood
  <2>2. s = <<y>>
    OBVIOUS
  <2> HIDE DEF y, s
  <2>3. IsSeq(s) /\ Len(s) = 1 /\ s[1] = y
    BY <2>2, OneIsSeq
  <2> QED
    BY <2>1, <2>3
<1>2. IsSeq(x) /\ \A k \in 1..Len(x) : x[k][1] # "ref"
  BY DEF Fixed
<1> HIDE DEF s
<1>3. /\ IsSeq(u)
      /\ \A k \in 1..Len(u) : (\E i \in 1..Len(s) : u[k] = s[i]) \/ (\E i \in 1..Len(x) : u[k] = x[i])
  BY <1>1, <1>2, ConcatIsSeq
<1> HIDE DEF u
<1>4. Fixed(u)
  BY <1>1, <1>2, <1>3 DEF Fixed
<1> QED
  BY <1>4 DEF u, s

LEMMA SkippedIsFixed ==
  ASSUME ~ SkippedRefers
  PROVE  Fixed(OrEmpty(Request.skipped))
<1> DEFINE x == OrEmpty(Request.skipped)
<1>1. CASE Request.skipped = {}
  BY <1>1, EmptyIsSeq DEF OrEmpty, Fixed
<1>2. CASE Request.skipped # {}
  <2>1. x \in Request.skipped
    BY <1>2, Zenon DEF OrEmpty
  <2>2. IsText(x) /\ \A k \in DOMAIN x : x[k][1] # "ref"
    BY <2>1, RequestAssumption, Zenon DEF SkippedRefers
  <2> HIDE DEF x
  <2>3. IsSeq(x)
    BY <2>2, TextIsGood DEF GoodText
  <2>4. Fixed(x)
    BY <2>2, <2>3 DEF Fixed, IsSeq
  <2> QED
    BY <2>4 DEF x
<1> QED
  BY <1>1, <1>2

Mark(t) == IF Contains(t, Word("?")) THEN "&" ELSE "?"

LEMMA WithSkippedIs ==
  ASSUME NEW t, IsSeq(t), ~ SkippedRefers
  PROVE  WithSkipped(t) = IF Request.skipped = {} THEN t
                          ELSE t \o (<<Word(Mark(t))>> \o OrEmpty(Request.skipped))
<1> DEFINE x == OrEmpty(Request.skipped)
           s == <<Word(Mark(t))>>
<1>1. IsSeq(x) /\ IsSeq(s)
  BY SkippedIsFixed, OneIsSeq DEF Fixed
<1>2. WithSkipped(t) = IF Request.skipped = {} THEN t ELSE t \o s \o x
  BY Zenon DEF WithSkipped, Mark
<1> HIDE DEF x, s
<1>3. (t \o s) \o x = t \o (s \o x)
  BY <1>1, ConcatThree
<1> QED
  BY <1>2, <1>3 DEF x, s

LEMMA TwoMarks ==
  ASSUME NEW g, IsSeq(g), Contains(g, Word("?")), NEW x, IsSeq(x)
  PROVE  TwoQuestionMarks(g \o (<<Word("?")>> \o x))
<1> DEFINE q == Word("?")
           s == <<q>>
           t == s \o x
           u == g \o t
<1>1. PICK i \in 1..Len(g) : g[i] = q
  BY DEF Contains
<1>2. IsSeq(s) /\ Len(s) = 1 /\ s[1] = q
  <2> HIDE DEF q
  <2> QED
    BY OneIsSeq
<1> HIDE DEF s
<1>3. IsSeq(t) /\ Len(t) = 1 + Len(x) /\ t[1] = q
  <2>1. /\ IsSeq(s \o x) /\ Len(s \o x) = Len(s) + Len(x)
        /\ \A k \in 1..Len(s) : (s \o x)[k] = s[k]
    BY <1>2, ConcatIsSeq, ZenonT(20)
  <2>2. 1 \in 1..Len(s)
    BY <1>2
  <2> HIDE DEF q
  <2> QED
    BY <1>2, <2>1, <2>2
<1> HIDE DEF t
<1>4. /\ IsSeq(u) /\ Len(u) = Len(g) + Len(t)
      /\ \A k \in 1..Len(g) : u[k] = g[k]
      /\ \A k \in 1..Len(t) : u[Len(g) + k] = t[k]
  BY <1>3, ConcatIsSeq
<1> HIDE DEF u
<1>5. Len(g) \in Nat /\ Len(x) \in Nat /\ DOMAIN u = 1..Len(u)
  BY <1>4 DEF IsSeq
<1> DEFINE j == Len(g) + 1
<1>6. 1 \in 1..Len(t) /\ j \in 1..Len(u) /\ i \in 1..Len(u) /\ i # j
  BY <1>3, <1>4, <1>5
<1>7. u[i] = q /\ u[j] = q
  BY <1>1, <1>3, <1>4, <1>6
<1> HIDE DEF j, q
<1>8. \E a, b \in DOMAIN u : a # b /\ u[a] = q /\ u[b] = q
  BY <1>5, <1>6, <1>7
<1> QED
  BY <1>8 DEF TwoQuestionMarks, q, u, t, s

LEMMA TargetAlike ==
  ASSUME NEW t, GoodText(t), NEW vs, IsPairs(vs), ~ SkippedRefers,
         NEW a, a = Replace(WithSkipped(t), vs, TRUE), NEW b, b = WithSkipped(Replace(t, vs, TRUE))
  PROVE  a = b \/ TwoQuestionMarks(a)
<1> DEFINE x == OrEmpty(Request.skipped)
           q == Word("?")
           g == Replace(t, vs, TRUE)
           tail(w) == <<Word(w)>> \o x
<1>1. Fixed(x)
  BY SkippedIsFixed
<1>2. ASSUME NEW w PROVE Around(t, tail(w), Replace(t \o tail(w), vs, TRUE), g)
  <2>1. Fixed(tail(w))
    BY <1>1, FixedTail
  <2> HIDE DEF tail, g
  <2>2. Around(t, tail(w), Replace(t \o tail(w), vs, TRUE), Replace(t, vs, TRUE))
    BY <2>1, ReplaceAround
  <2> QED
    BY <2>2 DEF g
<1>3. IsSeq(g) /\ (Contains(t, q) => Contains(g, q))
  <2>1. GoodText(g) /\ \A y : Contains(t, y) /\ y[1] # "ref" => Contains(g, y)
    BY <1>2, Zenon DEF Around
  <2>2. q[1] # "ref"
    BY WordIsGood
  <2> QED
    BY <2>1, <2>2, Zenon DEF GoodText
<1>4. /\ WithSkipped(t) = IF Request.skipped = {} THEN t ELSE t \o tail(Mark(t))
      /\ WithSkipped(g) = IF Request.skipped = {} THEN g ELSE g \o tail(Mark(g))
  <2>1. IsSeq(t)
    BY DEF GoodText
  <2>2. \A y : IsSeq(y) => WithSkipped(y) = IF Request.skipped = {} THEN y ELSE y \o tail(Mark(y))
    BY WithSkippedIs
  <2> HIDE DEF tail, g
  <2> QED
    BY <1>3, <2>1, <2>2
<1>5. \A w : Replace(t \o tail(w), vs, TRUE) = g \o tail(w)
  BY <1>2, Zenon DEF Around
<1>6. ASSUME Contains(g, q) PROVE TwoQuestionMarks(g \o tail("?"))
  <2>1. IsSeq(x)
    BY <1>1 DEF Fixed
  <2> HIDE DEF g, x
  <2> QED
    BY <1>3, <1>6, <2>1, TwoMarks
<1>7. a = Replace(WithSkipped(t), vs, TRUE) /\ b = WithSkipped(g)
  OBVIOUS
<1>8. Mark(t) = (IF Contains(t, q) THEN "&" ELSE "?") /\ Mark(g) = (IF Contains(g, q) THEN "&" ELSE "?")
  BY Zenon DEF Mark
<1>9. CASE Request.skipped = {}
  BY <1>4, <1>7, <1>9, Zenon
<1> HIDE DEF tail, x
<1>10. CASE Request.skipped # {}
  <2>1. a = g \o tail(Mark(t)) /\ b = g \o tail(Mark(g))
    <3>1. WithSkipped(t) = t \o tail(Mark(t)) /\ b = g \o tail(Mark(g))
      BY <1>4, <1>7, <1>10, Zenon
    <3> QED
      BY <1>5, <1>7, <3>1, Zenon
  <2> HIDE DEF g, q
  <2>2. CASE Contains(t, q)
    BY <1>3, <1>8, <2>1, <2>2, Zenon
  <2>3. CASE ~ Contains(t, q) /\ ~ Contains(g, q)
    BY <1>8, <2>1, <2>3, Zenon
  <2>4. CASE ~ Contains(t, q) /\ Contains(g, q)
    BY <1>6, <1>8, <2>1, <2>4, Zenon
  <2> QED
    BY <2>2, <2>3, <2>4
<1> QED
  BY <1>9, <1>10

Filled(f, vs) == [f EXCEPT !.value = Replace(@, vs, TRUE)]

LEMMA LateIs ==
  ASSUME NEW f, NEW vs
  PROVE  Filled(Filled(f, <<>>), vs) = Filled(f, vs)
<1> DEFINE x == Replace(f.value, <<>>, TRUE)
           g == [f EXCEPT !.value = x]
           R(t) == Replace(t, vs, TRUE)
<1>1. x = f.value
  BY ReplaceNothing
<1>2. Filled(f, <<>>) = g /\ Filled(f, vs) = [f EXCEPT !.value = R(f.value)]
  BY DEF Filled
<1> HIDE DEF x
<1>3. Filled(g, vs) = [g EXCEPT !.value = R(g.value)]
  BY DEF Filled
<1> HIDE DEF R
<1>4. CASE "value" \in DOMAIN f
  <2>1. g.value = x
    BY <1>4
  <2>2. [g EXCEPT !.value = R(g.value)] = [f EXCEPT !.value = R(f.value)]
    BY <1>1, <1>4, <2>1
  <2> QED
    BY <1>2, <1>3, <2>2, Zenon
<1>5. CASE "value" \notin DOMAIN f
  <2>1. DOMAIN g = DOMAIN f /\ \A k \in DOMAIN f : g[k] = f[k]
    BY <1>5
  <2>2. [g EXCEPT !.value = R(g.value)] = [f EXCEPT !.value = R(f.value)]
    BY <1>5, <2>1
  <2> QED
    BY <1>2, <1>3, <2>2, Zenon
<1> QED
  BY <1>4, <1>5

OwnHeaders(r, vs) == [k \in DOMAIN r.headers |-> Filled(r.headers[k], vs)]

LEMMA OwnHeadersAre ==
  ASSUME NEW r, IsSeq(r.headers), NEW vs
  PROVE  /\ IsSeq(OwnHeaders(r, vs)) /\ Len(OwnHeaders(r, vs)) = Len(r.headers)
         /\ \A k \in 1..Len(r.headers) : OwnHeaders(r, vs)[k] = Filled(r.headers[k], vs)
         /\ IsSeq(TargetFilters(r, vs)) /\ HeaderFiltersOf(r, vs) = TargetFilters(r, vs) \o OwnHeaders(r, vs)
<1>1. DOMAIN r.headers = 1..Len(r.headers) /\ Len(r.headers) \in Nat
  BY DEF IsSeq
<1>2. /\ OwnHeaders(r, vs) = [k \in 1..Len(r.headers) |-> OwnHeaders(r, vs)[k]]
      /\ \A k \in 1..Len(r.headers) : OwnHeaders(r, vs)[k] = Filled(r.headers[k], vs)
  BY <1>1 DEF OwnHeaders
<1>3. IsSeq(OwnHeaders(r, vs)) /\ Len(OwnHeaders(r, vs)) = Len(r.headers)
  BY <1>1, <1>2, FunctionIsSeq
<1>4. IsSeq(TargetFilters(r, vs))
  BY EmptyIsSeq, OneIsSeq, Zenon DEF TargetFilters
<1>5. HeaderFiltersOf(r, vs) = TargetFilters(r, vs) \o OwnHeaders(r, vs)
  BY Zenon DEF HeaderFiltersOf, OwnHeaders, Filled
<1> QED
  BY <1>2, <1>3, <1>4, <1>5

LEMMA LateTarget ==
  ASSUME NEW r, GoodText(OrEmpty(r.target)), NEW vs, IsPairs(vs), ~ SkippedRefers
  PROVE  /\ Len(TargetFilters(r, <<>>)) = Len(TargetFilters(r, vs))
         /\ \A k \in 1..Len(TargetFilters(r, vs)) :
              Similar(Filled(TargetFilters(r, <<>>)[k], vs), TargetFilters(r, vs)[k], TRUE)
<1> DEFINE t == OrEmpty(r.target)
           u == r.units.redirect
           f == LocationFilter(t, u)
           g == LocationFilter(Replace(t, vs, TRUE), u)
           a == Replace(WithSkipped(t), vs, TRUE)
           b == WithSkipped(Replace(t, vs, TRUE))
           p == TargetFilters(r, <<>>)
           q == TargetFilters(r, vs)
<1>1. p = IF t = <<>> THEN <<>> ELSE <<f>>
  <2>1. Replace(t, <<>>, TRUE) = t
    BY ReplaceNothing
  <2> QED
    BY <2>1, Zenon DEF TargetFilters
<1>2. q = IF t = <<>> THEN <<>> ELSE <<g>>
  BY Zenon DEF TargetFilters
<1>3. a = b \/ TwoQuestionMarks(a)
  BY TargetAlike
<1>4. /\ f.value = WithSkipped(t) /\ f = [action |-> "override", header |-> Location, value |-> WithSkipped(t),
                                          target |-> "location", unit |-> u]
      /\ g = [action |-> "override", header |-> Location, value |-> b, target |-> "location", unit |-> u]
  BY DEF LocationFilter
<1>5. Filled(f, vs) = [action |-> "override", header |-> Location, value |-> a, target |-> "location", unit |-> u]
  <2>1. Filled(f, vs) = [f EXCEPT !.value = a]
    BY <1>4, Zenon DEF Filled
  <2> HIDE DEF a
  <2> QED
    BY <1>4, <2>1
<1> HIDE DEF f, g, a, b, p, q, u
<1>6. Similar(Filled(f, vs), g, TRUE)
  BY <1>3, <1>4, <1>5 DEF Similar
<1>7. Len(p) = Len(q) /\ \A k \in 1..Len(q) : p[k] = f /\ q[k] = g
  <2>1. CASE t = <<>>
    BY <1>1, <1>2, <2>1, EmptyIsSeq
  <2>2. CASE t # <<>>
    <3>1. p = <<f>> /\ q = <<g>>
      BY <1>1, <1>2, <2>2
    <3> QED
      BY <3>1
  <2> QED
    BY <2>1, <2>2
<1>8. Len(p) = Len(q) /\ \A k \in 1..Len(q) : Similar(Filled(p[k], vs), q[k], TRUE)
  BY <1>6, <1>7
<1> QED
  BY <1>8 DEF p, q

(* Those that wait, one by one.                                            *)
LEMMA LateSimilar ==
  ASSUME NEW r, IsSeq(r.headers), GoodText(OrEmpty(r.target)), NEW vs, IsPairs(vs), ~ SkippedRefers,
         NEW f, f = HeaderFiltersOf(r, <<>>), NEW g, g = HeaderFiltersOf(r, vs)
  PROVE  /\ IsSeq(f) /\ IsSeq(g) /\ Len(f) = Len(g)
         /\ \A k \in 1..Len(g) : Similar(Filled(f[k], vs), g[k], TRUE)
<1> DEFINE a == TargetFilters(r, <<>>)
           b == OwnHeaders(r, <<>>)
           c == TargetFilters(r, vs)
           d == OwnHeaders(r, vs)
           n == Len(r.headers)
<1>1. /\ IsSeq(b) /\ Len(b) = n /\ \A k \in 1..n : b[k] = Filled(r.headers[k], <<>>)
      /\ IsSeq(a) /\ f = a \o b
  <2> DEFINE us == <<>>
  <2> HIDE DEF us
  <2>1. /\ IsSeq(OwnHeaders(r, us)) /\ Len(OwnHeaders(r, us)) = Len(r.headers)
        /\ \A k \in 1..Len(r.headers) : OwnHeaders(r, us)[k] = Filled(r.headers[k], us)
        /\ IsSeq(TargetFilters(r, us)) /\ HeaderFiltersOf(r, us) = TargetFilters(r, us) \o OwnHeaders(r, us)
    BY OwnHeadersAre
  <2> QED
    BY <2>1, Zenon DEF us
<1>2. /\ IsSeq(d) /\ Len(d) = n /\ \A k \in 1..n : d[k] = Filled(r.headers[k], vs)
      /\ IsSeq(c) /\ g = c \o d
  BY OwnHeadersAre
<1>3. Len(a) = Len(c) /\ \A k \in 1..Len(c) : Similar(Filled(a[k], vs), c[k], TRUE)
  BY LateTarget
<1> HIDE DEF a, b, c, d
<1>4. ASSUME NEW k \in 1..n PROVE Similar(Filled(b[k], vs), d[k], TRUE)
  <2>1. Filled(b[k], vs) = d[k]
    BY <1>1, <1>2, LateIs, Zenon
  <2> QED
    BY <2>1 DEF Similar
<1>5. /\ IsSeq(f) /\ Len(f) = Len(a) + Len(b)
      /\ (\A k \in 1..Len(a) : f[k] = a[k]) /\ \A k \in 1..Len(b) : f[Len(a) + k] = b[k]
  <2>0. IsSeq(a) /\ IsSeq(b)
    BY <1>1
  <2>1. /\ IsSeq(a \o b) /\ Len(a \o b) = Len(a) + Len(b)
        /\ (\A k \in 1..Len(a) : (a \o b)[k] = a[k]) /\ \A k \in 1..Len(b) : (a \o b)[Len(a) + k] = b[k]
    BY <2>0, ConcatIsSeq
  <2>2. f = a \o b
    BY <1>1
  <2> QED
    BY <2>1, <2>2, Zenon
<1>6. /\ IsSeq(g) /\ Len(g) = Len(c) + Len(d)
      /\ (\A k \in 1..Len(c) : g[k] = c[k]) /\ \A k \in 1..Len(d) : g[Len(c) + k] = d[k]
  <2>0. IsSeq(c) /\ IsSeq(d)
    BY <1>2
  <2>1. /\ IsSeq(c \o d) /\ Len(c \o d) = Len(c) + Len(d)
        /\ (\A k \in 1..Len(c) : (c \o d)[k] = c[k]) /\ \A k \in 1..Len(d) : (c \o d)[Len(c) + k] = d[k]
    BY <2>0, ConcatIsSeq
  <2>2. g = c \o d
    BY <1>2
  <2> QED
    BY <2>1, <2>2, Zenon
<1>7. Len(a) \in Nat /\ n \in Nat
  BY <1>1 DEF IsSeq
<1> HIDE DEF n
<1>8. ASSUME NEW k \in 1..Len(g) PROVE Similar(Filled(f[k], vs), g[k], TRUE)
  <2>1. CASE k <= Len(c)
    <3>1. k \in 1..Len(c) /\ f[k] = a[k] /\ g[k] = c[k]
      BY <1>3, <1>5, <1>6, <1>7, <1>2, <2>1, SMTT(20)
    <3> QED
      BY <1>3, <3>1
  <2>2. CASE ~ (k <= Len(c))
    <3> DEFINE j == k - Len(c)
    <3>1. j \in 1..n /\ k = Len(c) + j
      BY <1>2, <1>3, <1>6, <1>7, <2>2
    <3>2. f[k] = b[j] /\ g[k] = d[j]
      BY <1>1, <1>2, <1>3, <1>5, <1>6, <3>1
    <3> HIDE DEF j
    <3> QED
      BY <1>4, <3>1, <3>2
  <2> QED
    BY <2>1, <2>2
<1> QED
  BY <1>1, <1>2, <1>3, <1>5, <1>6, <1>8

----------------------------------------------------------------------------
(* What an action has of its rules for the headers of the response.        *)

HeaderNow(p, hs) ==
  IF p.variables = <<>> THEN p.filter ELSE Filled(p.filter, ResolveResponseHeaders(p.variables, hs))

HeadersNow(parts, hs) == [k \in DOMAIN parts |-> HeaderNow(parts[k], hs)]

LEMMA HeadersNowAre ==
  ASSUME NEW s, IsSeq(s), NEW hs
  PROVE  /\ IsSeq(HeadersNow(s, hs)) /\ Len(HeadersNow(s, hs)) = Len(s)
         /\ \A k \in 1..Len(s) : HeadersNow(s, hs)[k] = HeaderNow(s[k], hs)
<1>1. DOMAIN s = 1..Len(s) /\ Len(s) \in Nat
  BY DEF IsSeq
<1>2. /\ HeadersNow(s, hs) = [k \in 1..Len(s) |-> HeadersNow(s, hs)[k]]
      /\ \A k \in 1..Len(s) : HeadersNow(s, hs)[k] = HeaderNow(s[k], hs)
  BY <1>1 DEF HeadersNow
<1> QED
  BY <1>1, <1>2, FunctionIsSeq

LEMMA HeadersNowConcat ==
  ASSUME NEW s, IsSeq(s), NEW t, IsSeq(t), NEW hs
  PROVE  HeadersNow(s \o t, hs) = HeadersNow(s, hs) \o HeadersNow(t, hs)
<1> DEFINE u == s \o t
           a == HeadersNow(s, hs)
           b == HeadersNow(t, hs)
           c == HeadersNow(u, hs)
<1>1. /\ IsSeq(u) /\ Len(u) = Len(s) + Len(t)
      /\ \A k \in 1..Len(s) : u[k] = s[k]
      /\ \A k \in 1..Len(t) : u[Len(s) + k] = t[k]
      /\ Len(s) \in Nat /\ Len(t) \in Nat
  BY ConcatIsSeq DEF IsSeq
<1> HIDE DEF u
<1>2. IsSeq(a) /\ Len(a) = Len(s) /\ \A k \in 1..Len(s) : a[k] = HeaderNow(s[k], hs)
  BY HeadersNowAre
<1>3. IsSeq(b) /\ Len(b) = Len(t) /\ \A k \in 1..Len(t) : b[k] = HeaderNow(t[k], hs)
  BY HeadersNowAre
<1>4. IsSeq(c) /\ Len(c) = Len(u) /\ \A k \in 1..Len(u) : c[k] = HeaderNow(u[k], hs)
  BY <1>1, HeadersNowAre
<1> HIDE DEF a, b, c
<1>5. \A k \in 1..Len(a) : c[k] = a[k]
  BY <1>1, <1>2, <1>4
<1>6. \A k \in 1..Len(b) : c[Len(a) + k] = b[k]
  BY <1>1, <1>2, <1>3, <1>4
<1>7. c = a \o b
  <2>1. IsSeq(a) /\ IsSeq(b) /\ IsSeq(c) /\ Len(c) = Len(a) + Len(b)
    BY <1>1, <1>2, <1>3, <1>4
  <2> QED
    BY <1>5, <1>6, <2>1, ConcatIsIt
<1> QED
  BY <1>7 DEF a, b, c, u

HeadersOfRule(r) == HeaderFiltersOf(r, IF Waiting(r) = <<>> THEN RuleVars(r) ELSE <<>>)

ActualHeaders(r, hs) == HeadersNow(OwnParts(HeadersOfRule(r), On(r), Waiting(r)), hs)

HeardOfRules(rs, code, hs) ==
  [k \in DOMAIN rs |-> IF Accepts(On(rs[k]), code) THEN ActualHeaders(rs[k], hs) ELSE <<>>]

HeadersMergedOf(rs, a, K) ==
  /\ IsSeq(a.headerFilters)
  /\ \A code, hs : HeadersNow(Heard(a.headerFilters, code), hs) = Picked(HeardOfRules(rs, code, hs), K)

LEMMA RuleHeadersAre ==
  ASSUME rules \in Chosen, NEW n \in 1..Len(rules)
  PROVE  /\ IsSeq(rules[n].headers) /\ IsSeq(rules[n].requestHeaders) /\ GoodText(OrEmpty(rules[n].target))
         /\ IsSeq(HeadersOfRule(rules[n]))
<1> DEFINE r == rules[n]
<1>1. r.headers \in Seq(Range(r.headers)) /\ r.requestHeaders \in Seq(Range(r.requestHeaders)) /\ OfTexts(r)
  BY RulesAssumption, Zenon
<1>2. IsSeq(r.headers) /\ IsSeq(r.requestHeaders)
  BY <1>1, SeqIsSeq
<1>3. \A t \in r.target : GoodText(t)
  BY <1>1, TextIsGood DEF OfTexts
<1> HIDE DEF r
<1>4. GoodText(OrEmpty(r.target))
  BY <1>3, OptionIsGood
<1>5. IsSeq(HeadersOfRule(r))
  BY <1>2, HeaderFiltersAreSeq, Zenon DEF HeadersOfRule
<1> QED
  BY <1>2, <1>4, <1>5 DEF r

LEMMA HeardOfRulesAre ==
  ASSUME rules \in Chosen, NEW code, NEW hs, NEW w, w = HeardOfRules(rules, code, hs)
  PROVE  /\ AllSeqs(w) /\ Len(w) = Len(rules) /\ Len(rules) \in Nat
         /\ \A k \in 1..Len(rules) :
              w[k] = IF Accepts(On(rules[k]), code) THEN ActualHeaders(rules[k], hs) ELSE <<>>
<1>1. DOMAIN rules = 1..Len(rules) /\ Len(rules) \in Nat
  BY RulesAssumption
<1>2. /\ w = [k \in 1..Len(rules) |-> w[k]]
      /\ \A k \in 1..Len(rules) :
           w[k] = IF Accepts(On(rules[k]), code) THEN ActualHeaders(rules[k], hs) ELSE <<>>
  BY <1>1 DEF HeardOfRules
<1>3. IsSeq(w) /\ Len(w) = Len(rules)
  BY <1>1, <1>2, FunctionIsSeq
<1>4. ASSUME NEW k \in 1..Len(rules) PROVE IsSeq(w[k])
  <2> DEFINE s == OwnParts(HeadersOfRule(rules[k]), On(rules[k]), Waiting(rules[k]))
  <2>1. IsSeq(s)
    BY RuleHeadersAre, OwnPartsAre
  <2>2. ActualHeaders(rules[k], hs) = HeadersNow(s, hs)
    BY DEF ActualHeaders
  <2> HIDE DEF s
  <2>3. IsSeq(ActualHeaders(rules[k], hs))
    BY <2>1, <2>2, HeadersNowAre
  <2> QED
    BY <1>2, <2>3, EmptyIsSeq, Zenon
<1> QED
  BY <1>1, <1>2, <1>3, <1>4 DEF AllSeqs

LEMMA HeadersFromRule ==
  ASSUME NEW r
  PROVE  FromRouteRule(r).headerFilters = OwnParts(HeadersOfRule(r), On(r), Waiting(r))
<1> DEFINE vs == RuleVariables(r, r.captured, Request)
           deferred == IF IsDeferred(vs) THEN vs ELSE <<>>
           headerFilters == HeaderFiltersOf(r, IF deferred = <<>> THEN vs ELSE <<>>)
<1>1. FromRouteRule(r).headerFilters = [k \in DOMAIN headerFilters |->
                                          [filter |-> headerFilters[k], on |-> On(r), variables |-> deferred]]
  BY DEF FromRouteRule
<1>2. vs = RuleVars(r) /\ deferred = Waiting(r) /\ headerFilters = HeadersOfRule(r)
  BY DEF RuleVars, Waiting, HeadersOfRule
<1> HIDE DEF vs, deferred, headerFilters
<1> QED
  BY <1>1, <1>2 DEF OwnParts

LEMMA HeadersOfOne ==
  ASSUME rules \in Chosen, NEW n \in 1..Len(rules), NEW code, NEW hs
  PROVE  /\ IsSeq(FromRouteRule(rules[n]).headerFilters)
         /\ HeadersNow(Heard(FromRouteRule(rules[n]).headerFilters, code), hs)
              = HeardOfRules(rules, code, hs)[n]
<1> DEFINE r == rules[n]
           on == On(r)
           vs == Waiting(r)
           fs == HeadersOfRule(r)
           s == OwnParts(fs, on, vs)
<1>1. IsSeq(fs)
  BY RuleHeadersAre
<1>2. FromRouteRule(r).headerFilters = s
  BY HeadersFromRule
<1>3. HeardOfRules(rules, code, hs)[n] = IF Accepts(on, code) THEN HeadersNow(s, hs) ELSE <<>>
  <2> DEFINE w == HeardOfRules(rules, code, hs)
  <2>1. \A k \in 1..Len(rules) : w[k] = IF Accepts(On(rules[k]), code) THEN ActualHeaders(rules[k], hs) ELSE <<>>
    BY HeardOfRulesAre
  <2>2. ActualHeaders(r, hs) = HeadersNow(s, hs)
    BY DEF ActualHeaders
  <2> HIDE DEF w
  <2>3. w[n] = IF Accepts(On(rules[n]), code) THEN ActualHeaders(rules[n], hs) ELSE <<>>
    BY <2>1
  <2> QED
    BY <2>2, <2>3, Zenon DEF w
<1> HIDE DEF on, vs, fs
<1>4. IsSeq(s) /\ Heard(s, code) = IF Accepts(on, code) THEN s ELSE <<>>
  BY <1>1, OwnPartsAre, HeardOfOne
<1>5. HeadersNow(<<>>, hs) = <<>>
  BY EmptyIsSeq, HeadersNowAre, EmptyIsIt
<1> HIDE DEF s, r
<1>6. HeadersNow(Heard(s, code), hs) = IF Accepts(on, code) THEN HeadersNow(s, hs) ELSE <<>>
  BY <1>4, <1>5
<1> QED
  BY <1>2, <1>3, <1>4, <1>6, Zenon DEF r

LEMMA HeadersMergedOfNone ==
  ASSUME rules \in Chosen
  PROVE  HeadersMergedOf(rules, NoAction, {})
<1>1. NoAction.headerFilters = <<>> /\ IsSeq(<<>>)
  BY EmptyIsSeq DEF NoAction
<1>2. ASSUME NEW code, NEW hs PROVE HeadersNow(Heard(<<>>, code), hs) = Picked(HeardOfRules(rules, code, hs), {})
  <2>1. [k \in DOMAIN <<>> |-> IF Accepts(<<>>[k].on, code) THEN << <<>>[k]>> ELSE <<>>] = <<>>
    OBVIOUS
  <2>2. Heard(<<>>, code) = <<>>
    BY <2>1, FlattenEmpty, Zenon DEF Heard
  <2>3. HeadersNow(<<>>, hs) = <<>>
    BY EmptyIsSeq, HeadersNowAre, EmptyIsIt
  <2> DEFINE w == HeardOfRules(rules, code, hs)
  <2>4. AllSeqs(w)
    BY HeardOfRulesAre
  <2> HIDE DEF w
  <2>5. Picked(w, {}) = <<>>
    BY <2>4, PickedNone
  <2> QED
    BY <2>2, <2>3, <2>5 DEF w
<1> QED
  BY <1>1, <1>2 DEF HeadersMergedOf

LEMMA HeadersMergedOfRule ==
  ASSUME rules \in Chosen, NEW n \in 1..Len(rules)
  PROVE  HeadersMergedOf(rules, FromRouteRule(rules[n]), {n})
<1> DEFINE s == FromRouteRule(rules[n]).headerFilters
<1>1. IsSeq(s)
  BY HeadersOfOne
<1>2. ASSUME NEW code, NEW hs PROVE HeadersNow(Heard(s, code), hs) = Picked(HeardOfRules(rules, code, hs), {n})
  <2> DEFINE w == HeardOfRules(rules, code, hs)
  <2>1. AllSeqs(w) /\ n \in 1..Len(w)
    BY HeardOfRulesAre
  <2>2. HeadersNow(Heard(s, code), hs) = w[n]
    BY HeadersOfOne
  <2> HIDE DEF w, s
  <2>3. Picked(w, {n}) = w[n]
    BY <2>1, PickedOne
  <2> QED
    BY <2>2, <2>3 DEF w
<1> HIDE DEF s
<1> QED
  BY <1>1, <1>2 DEF HeadersMergedOf, s

LEMMA HeadersMergedOfBoth ==
  ASSUME rules \in Chosen, NEW n \in 1..Len(rules), NEW K, K \subseteq 1..(n - 1),
         NEW a, HeadersMergedOf(rules, a, K)
  PROVE  HeadersMergedOf(rules, Merge(a, FromRouteRule(rules[n])), K \cup {n})
<1> DEFINE s == a.headerFilters
           t == FromRouteRule(rules[n]).headerFilters
           c == Merge(a, FromRouteRule(rules[n]))
<1>1. c.headerFilters = s \o t
  BY DEF Merge
<1>2. IsSeq(s) /\ IsSeq(t)
  BY HeadersOfOne DEF HeadersMergedOf
<1>3. ASSUME NEW code, NEW hs
      PROVE  /\ HeadersNow(Heard(s, code), hs) = Picked(HeardOfRules(rules, code, hs), K)
             /\ HeadersNow(Heard(t, code), hs) = HeardOfRules(rules, code, hs)[n]
  BY HeadersOfOne DEF HeadersMergedOf
<1> HIDE DEF s, t, c
<1>4. IsSeq(s \o t)
  BY <1>2, ConcatIsSeq
<1>5. ASSUME NEW code, NEW hs
      PROVE  HeadersNow(Heard(s \o t, code), hs) = Picked(HeardOfRules(rules, code, hs), K \cup {n})
  <2> DEFINE x == Heard(s, code)
             y == Heard(t, code)
             w == HeardOfRules(rules, code, hs)
  <2>1. Heard(s \o t, code) = x \o y
    BY <1>2, HeardConcat
  <2>2. IsSeq(x) /\ IsSeq(y)
    BY <1>2, HeardIsSeq
  <2>3. HeadersNow(x, hs) = Picked(w, K) /\ HeadersNow(y, hs) = w[n]
    BY <1>3
  <2>4. AllSeqs(w) /\ n \in 1..Len(w)
    BY HeardOfRulesAre
  <2> HIDE DEF x, y, w
  <2>5. HeadersNow(x \o y, hs) = HeadersNow(x, hs) \o HeadersNow(y, hs)
    BY <2>2, HeadersNowConcat
  <2>6. Picked(w, K \cup {n}) = Picked(w, K) \o w[n]
    BY <2>4, PickedMore
  <2> QED
    BY <2>1, <2>3, <2>5, <2>6, Zenon DEF w
<1> QED
  BY <1>1, <1>4, <1>5 DEF HeadersMergedOf, c

----------------------------------------------------------------------------
(* Said and actual headers of all rules.                                   *)

SaidOfRules(rs, code, hs) ==
  [k \in DOMAIN rs |-> IF Accepts(On(rs[k]), code) THEN HeaderFiltersOf(rs[k], VariablesIn(rs, k, hs)) ELSE <<>>]

LEMMA RuleSimilar ==
  ASSUME rules \in Chosen, NEW n \in 1..Len(rules), NEW hs, GoodHeaders(hs), ~ SkippedRefers,
         NEW f, f = ActualHeaders(rules[n], hs),
         NEW g, g = HeaderFiltersOf(rules[n], VariablesIn(rules, n, hs))
  PROVE  /\ IsSeq(f) /\ IsSeq(g) /\ Len(f) = Len(g)
         /\ \A k \in 1..Len(f) : Similar(f[k], g[k], TRUE)
<1> DEFINE r == rules[n]
           vs == Waiting(r)
           ws == VariablesIn(rules, n, hs)
           fs == HeadersOfRule(r)
           s == OwnParts(fs, On(r), vs)
<1>1. IsSeq(fs) /\ IsSeq(r.headers) /\ GoodText(OrEmpty(r.target))
  BY RuleHeadersAre
<1>2. f = HeadersNow(s, hs)
  BY DEF ActualHeaders
<1>3. /\ fs = HeaderFiltersOf(r, IF vs = <<>> THEN RuleVars(r) ELSE <<>>) /\ g = HeaderFiltersOf(r, ws)
      /\ vs # <<>> => ws = ResolveResponseHeaders(vs, hs)
      /\ vs = <<>> => ws = RuleVars(r)
  BY WaitingIs, Zenon DEF HeadersOfRule
<1>4. IsSeq(s) /\ Len(s) = Len(fs) /\ \A k \in 1..Len(fs) : s[k].filter = fs[k] /\ s[k].variables = vs
  <2> DEFINE on == On(r)
  <2> HIDE DEF on, fs, vs
  <2>1. s = OwnParts(fs, on, vs)
    BY DEF on
  <2> HIDE DEF s
  <2> QED
    BY <1>1, <2>1, OwnPartsAre
<1>5. IsPairs(ws)
  <2>1. IsPairs(RuleVars(r))
    BY VariablesArePairs DEF RuleVars
  <2>2. IsPairs(ResolveResponseHeaders(RuleVars(r), hs))
    BY <2>1, ResolvedArePairs
  <2> QED
    BY <2>2 DEF VariablesIn, RuleVars
<1> HIDE DEF s, fs, vs, ws, r
<1>6. /\ IsSeq(f) /\ Len(f) = Len(fs)
      /\ \A k \in 1..Len(fs) : f[k] = IF vs = <<>> THEN fs[k] ELSE Filled(fs[k], ResolveResponseHeaders(vs, hs))
  <2>1. IsSeq(f) /\ Len(f) = Len(s) /\ \A k \in 1..Len(s) : f[k] = HeaderNow(s[k], hs)
    BY <1>2, <1>4, HeadersNowAre
  <2>2. ASSUME NEW k \in 1..Len(fs)
        PROVE  f[k] = IF vs = <<>> THEN fs[k] ELSE Filled(fs[k], ResolveResponseHeaders(vs, hs))
    <3>1. f[k] = HeaderNow(s[k], hs) /\ s[k].filter = fs[k] /\ s[k].variables = vs
      BY <1>4, <2>1
    <3> QED
      BY <3>1, Zenon DEF HeaderNow
  <2> QED
    BY <1>4, <2>1, <2>2
<1>7. CASE vs = <<>>
  <2>1. fs = g
    BY <1>3, <1>7, Zenon
  <2>2. Len(f) = Len(g) /\ \A k \in 1..Len(f) : f[k] = g[k]
    BY <1>6, <1>7, <2>1
  <2>3. IsSeq(g) /\ \A k \in 1..Len(f) : Similar(f[k], g[k], TRUE)
    BY <1>1, <2>1, <2>2, Zenon DEF Similar
  <2> QED
    BY <1>6, <2>2, <2>3
<1>8. CASE vs # <<>>
  <2>1. fs = HeaderFiltersOf(r, <<>>) /\ ws = ResolveResponseHeaders(vs, hs)
    BY <1>3, <1>8, Zenon
  <2>2. g = HeaderFiltersOf(r, ws)
    BY <1>3
  <2> DEFINE a == HeaderFiltersOf(r, <<>>)
             b == HeaderFiltersOf(r, ws)
  <2>3. /\ IsSeq(b) /\ Len(a) = Len(b)
        /\ \A k \in 1..Len(b) : Similar(Filled(a[k], ws), b[k], TRUE)
    <3>1. ASSUME NEW q, IsSeq(q.headers), GoodText(OrEmpty(q.target)), NEW us, IsPairs(us)
          PROVE  /\ IsSeq(HeaderFiltersOf(q, us)) /\ Len(HeaderFiltersOf(q, <<>>)) = Len(HeaderFiltersOf(q, us))
                 /\ \A k \in 1..Len(HeaderFiltersOf(q, us)) :
                      Similar(Filled(HeaderFiltersOf(q, <<>>)[k], us), HeaderFiltersOf(q, us)[k], TRUE)
      BY <3>1, LateSimilar, Zenon
    <3> QED
      BY <1>1, <1>5, <3>1, Zenon
  <2>5. fs = a /\ g = b
    BY <2>1, <2>2
  <2> HIDE DEF a, b
  <2>4. \A k \in 1..Len(fs) : f[k] = Filled(fs[k], ws)
    BY <1>6, <1>8, <2>1, Zenon
  <2> QED
    BY <1>6, <2>3, <2>4, <2>5
<1> QED
  BY <1>7, <1>8

LEMMA SaidOfRulesAre ==
  ASSUME rules \in Chosen, NEW code, NEW hs, GoodHeaders(hs), ~ SkippedRefers,
         NEW w, w = HeardOfRules(rules, code, hs), NEW v, v = SaidOfRules(rules, code, hs)
  PROVE  /\ AllSeqs(w) /\ AllSeqs(v) /\ Len(w) = Len(v)
         /\ \A k \in 1..Len(w) : /\ Len(w[k]) = Len(v[k])
                                 /\ \A j \in 1..Len(w[k]) : Similar(w[k][j], v[k][j], TRUE)
<1>1. /\ AllSeqs(w) /\ Len(w) = Len(rules) /\ Len(rules) \in Nat /\ DOMAIN rules = 1..Len(rules)
      /\ \A k \in 1..Len(rules) :
           w[k] = IF Accepts(On(rules[k]), code) THEN ActualHeaders(rules[k], hs) ELSE <<>>
  BY HeardOfRulesAre, RulesAssumption
<1>2. /\ v = [k \in 1..Len(rules) |-> v[k]]
      /\ \A k \in 1..Len(rules) :
           v[k] = IF Accepts(On(rules[k]), code) THEN HeaderFiltersOf(rules[k], VariablesIn(rules, k, hs)) ELSE <<>>
  BY <1>1 DEF SaidOfRules
<1>3. IsSeq(v) /\ Len(v) = Len(rules)
  BY <1>1, <1>2, FunctionIsSeq
<1>4. ASSUME NEW k \in 1..Len(rules)
      PROVE  IsSeq(v[k]) /\ Len(w[k]) = Len(v[k]) /\ \A j \in 1..Len(w[k]) : Similar(w[k][j], v[k][j], TRUE)
  <2> DEFINE f == ActualHeaders(rules[k], hs)
             g == HeaderFiltersOf(rules[k], VariablesIn(rules, k, hs))
  <2>1. /\ IsSeq(f) /\ IsSeq(g) /\ Len(f) = Len(g)
        /\ \A j \in 1..Len(f) : Similar(f[j], g[j], TRUE)
    BY RuleSimilar
  <2> HIDE DEF f, g
  <2>2. CASE Accepts(On(rules[k]), code)
    <3>1. w[k] = f /\ v[k] = g
      BY <1>1, <1>2, <2>2, Zenon DEF f, g
    <3> QED
      BY <2>1, <3>1
  <2>3. CASE ~ Accepts(On(rules[k]), code)
    <3>1. w[k] = <<>> /\ v[k] = <<>>
      BY <1>1, <1>2, <2>3, Zenon
    <3> QED
      BY <3>1, EmptyIsSeq
  <2> QED
    BY <2>2, <2>3
<1> QED
  BY <1>1, <1>3, <1>4 DEF AllSeqs

LEMMA PickedSimilar ==
  ASSUME NEW w, AllSeqs(w), NEW v, AllSeqs(v), Len(w) = Len(v), NEW d,
         \A k \in 1..Len(w) : /\ Len(w[k]) = Len(v[k])
                              /\ \A j \in 1..Len(w[k]) : Similar(w[k][j], v[k][j], d),
         NEW K, NEW a, a = Picked(w, K), NEW b, b = Picked(v, K)
  PROVE  IsSeq(a) /\ IsSeq(b) /\ Len(a) = Len(b) /\ \A k \in 1..Len(a) : Similar(a[k], b[k], d)
<1> DEFINE p == PickedOf(w, K)
           q == PickedOf(v, K)
<1>1. /\ AllSeqs(p) /\ Len(p) = Len(w) /\ Len(w) \in Nat /\ IsSeq(a) /\ a = FlattenSeq(p)
      /\ \A k \in 1..Len(w) : p[k] = IF k \in K THEN w[k] ELSE <<>>
  BY PickedAre DEF Picked
<1>2. /\ AllSeqs(q) /\ Len(q) = Len(v) /\ IsSeq(b) /\ b = FlattenSeq(q)
      /\ \A k \in 1..Len(v) : q[k] = IF k \in K THEN v[k] ELSE <<>>
  BY PickedAre DEF Picked
<1> HIDE DEF p, q
<1>3. \A k \in 1..Len(p) : Len(p[k]) = Len(q[k]) /\ \A j \in 1..Len(p[k]) : Similar(p[k][j], q[k][j], d)
  <2> SUFFICES ASSUME NEW k \in 1..Len(p)
               PROVE  Len(p[k]) = Len(q[k]) /\ \A j \in 1..Len(p[k]) : Similar(p[k][j], q[k][j], d)
    OBVIOUS
  <2>1. CASE k \in K
    <3>1. p[k] = w[k] /\ q[k] = v[k]
      BY <1>1, <1>2, <2>1
    <3> QED
      BY <1>1, <3>1
  <2>2. CASE k \notin K
    <3>1. p[k] = <<>> /\ q[k] = <<>>
      BY <1>1, <1>2, <2>2
    <3> QED
      BY <3>1, EmptyIsSeq
  <2> QED
    BY <2>1, <2>2
<1>4. Aligned(a, b, p, q, Len(p))
  BY <1>1, <1>2, <1>3, FlattenAligned
<1>5. ASSUME NEW i \in 1..Len(a) PROVE Similar(a[i], b[i], d)
  <2>1. PICK k \in 1..Len(p) : \E j \in 1..Len(p[k]) : a[i] = p[k][j] /\ b[i] = q[k][j]
    BY <1>4 DEF Aligned
  <2> QED
    BY <1>3, <2>1
<1>6. Len(a) = Len(b)
  BY <1>4 DEF Aligned
<1> QED
  BY <1>1, <1>2, <1>5, <1>6

(* What filter_headers leaves.                                             *)
LEMMA HeadersTold ==
  ASSUME rules \in Chosen, NEW code, NEW hs, GoodHeaders(hs), ~ SkippedRefers, NEW K,
         NEW fs, fs = Picked(HeardOfRules(rules, code, hs), K),
         NEW gs, gs = Picked(SaidOfRules(rules, code, hs), K), NEW t, NEW u
  PROVE  Alike(FilterAll(fs, hs, t).headers, FilterAll(gs, hs, u).headers, TRUE)
<1> DEFINE w == HeardOfRules(rules, code, hs)
           v == SaidOfRules(rules, code, hs)
<1>1. /\ AllSeqs(w) /\ AllSeqs(v) /\ Len(w) = Len(v)
      /\ \A k \in 1..Len(w) : /\ Len(w[k]) = Len(v[k])
                              /\ \A j \in 1..Len(w[k]) : Similar(w[k][j], v[k][j], TRUE)
  BY SaidOfRulesAre
<1>2. fs = Picked(w, K) /\ gs = Picked(v, K)
  OBVIOUS
<1> HIDE DEF w, v
<1>3. IsSeq(fs) /\ IsSeq(gs) /\ Len(fs) = Len(gs) /\ \A k \in 1..Len(fs) : Similar(fs[k], gs[k], TRUE)
  BY <1>1, <1>2, PickedSimilar
<1>4. IsSeq(hs)
  BY DEF GoodHeaders
<1> QED
  BY <1>3, <1>4, FilterAllAlike

----------------------------------------------------------------------------
(* What an action has of its rules for the headers of the request.         *)

FiltersOf(parts) == [k \in DOMAIN parts |-> parts[k].filter]

LEMMA FiltersOfAre ==
  ASSUME NEW s, IsSeq(s)
  PROVE  /\ IsSeq(FiltersOf(s)) /\ Len(FiltersOf(s)) = Len(s)
         /\ \A k \in 1..Len(s) : FiltersOf(s)[k] = s[k].filter
<1>1. DOMAIN s = 1..Len(s) /\ Len(s) \in Nat
  BY DEF IsSeq
<1>2. /\ FiltersOf(s) = [k \in 1..Len(s) |-> FiltersOf(s)[k]]
      /\ \A k \in 1..Len(s) : FiltersOf(s)[k] = s[k].filter
  BY <1>1 DEF FiltersOf
<1> QED
  BY <1>1, <1>2, FunctionIsSeq

LEMMA FiltersOfConcat ==
  ASSUME NEW s, IsSeq(s), NEW t, IsSeq(t)
  PROVE  FiltersOf(s \o t) = FiltersOf(s) \o FiltersOf(t)
<1> DEFINE u == s \o t
           a == FiltersOf(s)
           b == FiltersOf(t)
           c == FiltersOf(u)
<1>1. /\ IsSeq(u) /\ Len(u) = Len(s) + Len(t)
      /\ \A k \in 1..Len(s) : u[k] = s[k]
      /\ \A k \in 1..Len(t) : u[Len(s) + k] = t[k]
      /\ Len(s) \in Nat /\ Len(t) \in Nat
  BY ConcatIsSeq DEF IsSeq
<1> HIDE DEF u
<1>2. IsSeq(a) /\ Len(a) = Len(s) /\ \A k \in 1..Len(s) : a[k] = s[k].filter
  BY FiltersOfAre
<1>3. IsSeq(b) /\ Len(b) = Len(t) /\ \A k \in 1..Len(t) : b[k] = t[k].filter
  BY FiltersOfAre
<1>4. IsSeq(c) /\ Len(c) = Len(u) /\ \A k \in 1..Len(u) : c[k] = u[k].filter
  BY <1>1, FiltersOfAre
<1> HIDE DEF a, b, c
<1>5. \A k \in 1..Len(a) : c[k] = a[k]
  BY <1>1, <1>2, <1>4
<1>6. ASSUME NEW k \in 1..Len(b) PROVE c[Len(a) + k] = b[k]
  <2>1. k \in 1..Len(t) /\ Len(s) + k \in 1..Len(u)
    BY <1>1, <1>3
  <2> QED
    BY <1>1, <1>2, <1>3, <1>4, <2>1
<1>7. c = a \o b
  <2>1. IsSeq(a) /\ IsSeq(b) /\ IsSeq(c) /\ Len(c) = Len(a) + Len(b)
    BY <1>1, <1>2, <1>3, <1>4
  <2> QED
    BY <1>5, <1>6, <2>1, ConcatIsIt
<1> QED
  BY <1>7 DEF a, b, c, u

RequestOfRules(rs) == [k \in DOMAIN rs |-> RequestFiltersOf(rs[k], RuleVars(rs[k]))]

RequestMergedOf(rs, a, K) ==
  IsSeq(a.requestFilters) /\ FiltersOf(a.requestFilters) = Picked(RequestOfRules(rs), K)

LEMMA RequestOfRulesAre ==
  ASSUME rules \in Chosen, NEW w, w = RequestOfRules(rules)
  PROVE  /\ AllSeqs(w) /\ Len(w) = Len(rules) /\ Len(rules) \in Nat
         /\ \A k \in 1..Len(rules) : w[k] = RequestFiltersOf(rules[k], RuleVars(rules[k]))
<1>1. DOMAIN rules = 1..Len(rules) /\ Len(rules) \in Nat
  BY RulesAssumption
<1>2. /\ w = [k \in 1..Len(rules) |-> w[k]]
      /\ \A k \in 1..Len(rules) : w[k] = RequestFiltersOf(rules[k], RuleVars(rules[k]))
  BY <1>1 DEF RequestOfRules
<1>3. IsSeq(w) /\ Len(w) = Len(rules)
  BY <1>1, <1>2, FunctionIsSeq
<1>4. \A k \in 1..Len(rules) : IsSeq(w[k])
  BY <1>2, RuleHeadersAre, RequestFiltersAreSeq
<1> QED
  BY <1>1, <1>2, <1>3, <1>4 DEF AllSeqs

LEMMA RequestOfOne ==
  ASSUME rules \in Chosen, NEW n \in 1..Len(rules)
  PROVE  /\ IsSeq(FromRouteRule(rules[n]).requestFilters)
         /\ FiltersOf(FromRouteRule(rules[n]).requestFilters) = RequestOfRules(rules)[n]
<1> DEFINE r == rules[n]
           fs == RequestFiltersOf(r, RuleVars(r))
           s == FromRouteRule(r).requestFilters
<1>1. s = [k \in DOMAIN fs |-> [filter |-> fs[k], id |-> r.id]]
  BY DEF FromRouteRule, RuleVars
<1>2. IsSeq(fs) /\ fs = RequestOfRules(rules)[n]
  <2> DEFINE w == RequestOfRules(rules)
  <2>1. /\ AllSeqs(w) /\ Len(w) = Len(rules)
        /\ \A k \in 1..Len(rules) : w[k] = RequestFiltersOf(rules[k], RuleVars(rules[k]))
    BY RequestOfRulesAre
  <2> HIDE DEF w
  <2>2. w[n] = fs
    BY <2>1
  <2>3. IsSeq(w[n])
    BY <2>1 DEF AllSeqs
  <2> QED
    BY <2>2, <2>3 DEF w
<1> HIDE DEF fs, s
<1>3. DOMAIN fs = 1..Len(fs) /\ Len(fs) \in Nat
  BY <1>2 DEF IsSeq
<1>4. s = [k \in 1..Len(fs) |-> s[k]] /\ \A k \in 1..Len(fs) : s[k].filter = fs[k]
  BY <1>1, <1>3
<1>5. IsSeq(s) /\ Len(s) = Len(fs)
  BY <1>3, <1>4, FunctionIsSeq
<1>6. FiltersOf(s) = fs
  <2>1. /\ IsSeq(FiltersOf(s)) /\ Len(FiltersOf(s)) = Len(s)
        /\ \A k \in 1..Len(s) : FiltersOf(s)[k] = s[k].filter
    BY <1>5, FiltersOfAre
  <2>2. \A k \in 1..Len(FiltersOf(s)) : FiltersOf(s)[k] = fs[k]
    BY <1>4, <1>5, <2>1
  <2> QED
    BY <1>2, <1>5, <2>1, <2>2, SameSeq
<1> QED
  BY <1>2, <1>5, <1>6 DEF s

LEMMA RequestMergedOfNone ==
  ASSUME rules \in Chosen
  PROVE  RequestMergedOf(rules, NoAction, {})
<1>1. NoAction.requestFilters = <<>> /\ IsSeq(<<>>) /\ FiltersOf(<<>>) = <<>>
  BY EmptyIsSeq, FiltersOfAre, EmptyIsIt DEF NoAction
<1> DEFINE w == RequestOfRules(rules)
<1>2. AllSeqs(w)
  BY RequestOfRulesAre
<1> HIDE DEF w
<1>3. Picked(w, {}) = <<>>
  BY <1>2, PickedNone
<1> QED
  BY <1>1, <1>3 DEF RequestMergedOf, w

LEMMA RequestMergedOfRule ==
  ASSUME rules \in Chosen, NEW n \in 1..Len(rules)
  PROVE  RequestMergedOf(rules, FromRouteRule(rules[n]), {n})
<1> DEFINE w == RequestOfRules(rules)
<1>1. AllSeqs(w) /\ n \in 1..Len(w)
  BY RequestOfRulesAre
<1>2. IsSeq(FromRouteRule(rules[n]).requestFilters) /\ FiltersOf(FromRouteRule(rules[n]).requestFilters) = w[n]
  BY RequestOfOne
<1> HIDE DEF w
<1>3. Picked(w, {n}) = w[n]
  BY <1>1, PickedOne
<1> QED
  BY <1>2, <1>3 DEF RequestMergedOf, w

LEMMA RequestMergedOfBoth ==
  ASSUME rules \in Chosen, NEW n \in 1..Len(rules), NEW K, K \subseteq 1..(n - 1),
         NEW a, RequestMergedOf(rules, a, K)
  PROVE  RequestMergedOf(rules, Merge(a, FromRouteRule(rules[n])), K \cup {n})
<1> DEFINE s == a.requestFilters
           t == FromRouteRule(rules[n]).requestFilters
           c == Merge(a, FromRouteRule(rules[n]))
           w == RequestOfRules(rules)
<1>1. c.requestFilters = s \o t
  BY DEF Merge
<1>2. AllSeqs(w) /\ n \in 1..Len(w)
  BY RequestOfRulesAre
<1>3. IsSeq(s) /\ IsSeq(t) /\ FiltersOf(s) = Picked(w, K) /\ FiltersOf(t) = w[n]
  BY RequestOfOne DEF RequestMergedOf
<1> HIDE DEF s, t, c, w
<1>4. IsSeq(s \o t) /\ FiltersOf(s \o t) = FiltersOf(s) \o FiltersOf(t)
  BY <1>3, ConcatIsSeq, FiltersOfConcat
<1>5. Picked(w, K \cup {n}) = Picked(w, K) \o w[n]
  BY <1>2, PickedMore
<1>6. IsSeq(c.requestFilters) /\ FiltersOf(c.requestFilters) = Picked(w, K \cup {n})
  BY <1>1, <1>3, <1>4, <1>5, Zenon
<1> QED
  BY <1>6 DEF RequestMergedOf, c, w

----------------------------------------------------------------------------
(* The headers that frame a request stay as they are.                      *)

FrameOne(h) == IF h.name[1] \in Protected THEN <<h>> ELSE <<>>
FramePieces(hs) == [k \in DOMAIN hs |-> FrameOne(hs[k])]

LEMMA FramePiecesAre ==
  ASSUME NEW hs, IsSeq(hs)
  PROVE  /\ AllSeqs(FramePieces(hs)) /\ Len(FramePieces(hs)) = Len(hs) /\ Frame(hs) = FlattenSeq(FramePieces(hs))
         /\ \A k \in 1..Len(hs) : FramePieces(hs)[k] = FrameOne(hs[k])
         /\ IsSeq(Frame(hs))
<1>1. DOMAIN hs = 1..Len(hs) /\ Len(hs) \in Nat
  BY DEF IsSeq
<1>2. /\ FramePieces(hs) = [k \in 1..Len(hs) |-> FramePieces(hs)[k]]
      /\ \A k \in 1..Len(hs) : FramePieces(hs)[k] = FrameOne(hs[k])
  BY <1>1 DEF FramePieces
<1>3. IsSeq(FramePieces(hs)) /\ Len(FramePieces(hs)) = Len(hs)
  BY <1>1, <1>2, FunctionIsSeq
<1>4. Frame(hs) = FlattenSeq(FramePieces(hs))
  BY DEF Frame, FramePieces, FrameOne
<1>5. \A h : IsSeq(FrameOne(h))
  BY EmptyIsSeq, OneIsSeq DEF FrameOne
<1>6. AllSeqs(FramePieces(hs))
  BY <1>2, <1>3, <1>5 DEF AllSeqs
<1> QED
  BY <1>2, <1>3, <1>4, <1>6, FlattenIsSeq DEF AllSeqs

LEMMA FrameConcat ==
  ASSUME NEW s, IsSeq(s), NEW t, IsSeq(t)
  PROVE  Frame(s \o t) = Frame(s) \o Frame(t)
<1> DEFINE u == s \o t
           a == FramePieces(s)
           b == FramePieces(t)
           c == FramePieces(u)
<1>1. /\ IsSeq(u) /\ Len(u) = Len(s) + Len(t)
      /\ \A k \in 1..Len(s) : u[k] = s[k]
      /\ \A k \in 1..Len(t) : u[Len(s) + k] = t[k]
      /\ Len(s) \in Nat /\ Len(t) \in Nat
  BY ConcatIsSeq DEF IsSeq
<1> HIDE DEF u
<1>2. /\ AllSeqs(a) /\ Len(a) = Len(s) /\ Frame(s) = FlattenSeq(a)
      /\ \A k \in 1..Len(s) : a[k] = FrameOne(s[k])
  BY FramePiecesAre
<1>3. /\ AllSeqs(b) /\ Len(b) = Len(t) /\ Frame(t) = FlattenSeq(b)
      /\ \A k \in 1..Len(t) : b[k] = FrameOne(t[k])
  BY FramePiecesAre
<1>4. /\ AllSeqs(c) /\ Len(c) = Len(u) /\ Frame(u) = FlattenSeq(c)
      /\ \A k \in 1..Len(u) : c[k] = FrameOne(u[k])
  BY <1>1, FramePiecesAre
<1> HIDE DEF a, b, c
<1>5. \A k \in 1..Len(a) : c[k] = a[k]
  BY <1>1, <1>2, <1>4
<1>6. ASSUME NEW k \in 1..Len(b) PROVE c[Len(a) + k] = b[k]
  <2>1. k \in 1..Len(t) /\ Len(s) + k \in 1..Len(u)
    BY <1>1, <1>3
  <2> QED
    BY <1>1, <1>2, <1>3, <1>4, <2>1
<1>7. c = a \o b
  <2>1. IsSeq(a) /\ IsSeq(b) /\ IsSeq(c) /\ Len(c) = Len(a) + Len(b)
    BY <1>1, <1>2, <1>3, <1>4 DEF AllSeqs
  <2> QED
    BY <1>5, <1>6, <2>1, ConcatIsIt
<1>8. FlattenSeq(a \o b) = FlattenSeq(a) \o FlattenSeq(b)
  BY <1>2, <1>3, FlattenConcat
<1>9. Frame(u) = Frame(s) \o Frame(t)
  BY <1>2, <1>3, <1>4, <1>7, <1>8, Zenon
<1> QED
  BY <1>9 DEF u

LEMMA FrameOfOne ==
  ASSUME NEW h
  PROVE  Frame(<<h>>) = FrameOne(h)
<1> DEFINE s == <<h>>
<1>1. IsSeq(s) /\ Len(s) = 1 /\ s[1] = h
  BY OneIsSeq
<1> HIDE DEF s
<1> DEFINE p == FramePieces(s)
           x == FrameOne(h)
<1>2. /\ AllSeqs(p) /\ Len(p) = Len(s) /\ Frame(s) = FlattenSeq(p)
      /\ \A k \in 1..Len(s) : p[k] = FrameOne(s[k])
  BY <1>1, FramePiecesAre
<1> HIDE DEF p
<1>3. 1 \in 1..Len(p) /\ p[1] = x /\ IsSeq(p) /\ IsSeq(p[1])
  BY <1>1, <1>2 DEF AllSeqs
<1>4. FlattenSeq(p) = p[1]
  <2>1. FlattenSeq(Upto(p, 1)) = FlattenSeq(Upto(p, 1 - 1)) \o p[1]
    BY <1>2, <1>3, FlattenUpto
  <2>2. FlattenSeq(Upto(p, 1 - 1)) = <<>>
    BY UptoNone, FlattenEmpty
  <2>3. Upto(p, 1) = p
    BY <1>1, <1>2, <1>3, UptoAll
  <2> QED
    BY <1>3, <2>1, <2>2, <2>3, ConcatEmpty
<1> QED
  BY <1>2, <1>3, <1>4 DEF s

Framed(f) == f.header[1] \in Protected

LEMMA FrameAppended ==
  ASSUME NEW hs, IsSeq(hs), NEW f, ~ Framed(f)
  PROVE  Frame(Append(hs, Set(f))) = Frame(hs)
<1> DEFINE h == Set(f)
           o == <<h>>
<1>1. FrameOne(h) = <<>>
  BY DEF FrameOne, Set, Framed
<1> HIDE DEF h
<1>2. IsSeq(o) /\ Frame(o) = <<>>
  BY <1>1, OneIsSeq, FrameOfOne
<1>3. Append(hs, h) = hs \o o
  BY AppendedIsSeq
<1> HIDE DEF o
<1>4. Frame(hs \o o) = Frame(hs) \o Frame(o)
  BY <1>2, FrameConcat
<1>5. IsSeq(Frame(hs))
  BY FramePiecesAre
<1> QED
  BY <1>2, <1>3, <1>4, <1>5, ConcatEmpty DEF h

LEMMA FrameReplaced ==
  ASSUME NEW hs, IsSeq(hs), NEW f, ~ Framed(f)
  PROVE  IsSeq(Replaced(f, hs)) /\ Frame(Replaced(f, hs)) = Frame(hs)
<1> DEFINE r == Replaced(f, hs)
           p == FramePieces(hs)
           q == FramePieces(r)
<1>1. DOMAIN hs = 1..Len(hs) /\ Len(hs) \in Nat
  BY DEF IsSeq
<1>2. /\ r = [k \in 1..Len(hs) |-> r[k]]
      /\ \A k \in 1..Len(hs) : r[k] = IF SameHeader(hs[k].name, f.header) THEN Set(f) ELSE hs[k]
  BY <1>1 DEF Replaced
<1> HIDE DEF r
<1>3. IsSeq(r) /\ Len(r) = Len(hs)
  BY <1>1, <1>2, FunctionIsSeq
<1>4. /\ AllSeqs(p) /\ Len(p) = Len(hs) /\ Frame(hs) = FlattenSeq(p)
      /\ \A k \in 1..Len(hs) : p[k] = FrameOne(hs[k])
  BY FramePiecesAre
<1>5. /\ AllSeqs(q) /\ Len(q) = Len(r) /\ Frame(r) = FlattenSeq(q)
      /\ \A k \in 1..Len(r) : q[k] = FrameOne(r[k])
  BY <1>3, FramePiecesAre
<1> HIDE DEF p, q
<1>6. ASSUME NEW k \in 1..Len(hs) PROVE FrameOne(r[k]) = FrameOne(hs[k])
  <2>1. CASE SameHeader(hs[k].name, f.header)
    <3>1. r[k] = Set(f) /\ hs[k].name[1] = f.header[1]
      BY <1>2, <2>1 DEF SameHeader
    <3>2. Set(f).name = f.header
      BY DEF Set
    <3> QED
      BY <3>1, <3>2, Zenon DEF FrameOne, Framed
  <2>2. CASE ~ SameHeader(hs[k].name, f.header)
    BY <1>2, <2>2
  <2> QED
    BY <2>1, <2>2
<1>7. p = q
  <2>1. IsSeq(p) /\ IsSeq(q) /\ Len(p) = Len(q)
    BY <1>3, <1>4, <1>5 DEF AllSeqs
  <2>2. \A k \in 1..Len(p) : p[k] = q[k]
    BY <1>3, <1>4, <1>5, <1>6
  <2> QED
    BY <2>1, <2>2, SameSeq
<1> QED
  BY <1>3, <1>4, <1>5, <1>7 DEF r

LEMMA FrameRemoved ==
  ASSUME NEW hs, IsSeq(hs), NEW f, ~ Framed(f)
  PROVE  IsSeq(FlattenSeq(Others(f, hs))) /\ Frame(FlattenSeq(Others(f, hs))) = Frame(hs)
<1> DEFINE o == Others(f, hs)
           p == FramePieces(hs)
           l == Len(hs)
           P(n) == Frame(FlattenSeq(Upto(o, n))) = FlattenSeq(Upto(p, n))
           S == {n \in 0..l : ~ P(n)}
<1>1. /\ AllSeqs(o) /\ Len(o) = l /\ l \in Nat
      /\ \A k \in 1..l : o[k] = IF SameHeader(hs[k].name, f.header) THEN <<>> ELSE <<hs[k]>>
  BY OthersAre DEF IsSeq
<1>2. /\ AllSeqs(p) /\ Len(p) = l /\ Frame(hs) = FlattenSeq(p)
      /\ \A k \in 1..l : p[k] = FrameOne(hs[k])
  BY FramePiecesAre
<1> HIDE DEF o, p
<1>3. IsSeq(o) /\ IsSeq(p)
  BY <1>1, <1>2 DEF AllSeqs
<1>4. Frame(<<>>) = <<>>
  <2> DEFINE e == <<>>
             q == FramePieces(e)
  <2>1. IsSeq(q) /\ Len(q) = 0 /\ Frame(e) = FlattenSeq(q)
    BY EmptyIsSeq, FramePiecesAre DEF AllSeqs
  <2> HIDE DEF q
  <2>2. q = <<>>
    BY <2>1, EmptyIsIt
  <2> QED
    BY <2>1, <2>2, FlattenEmpty
<1>5. P(0)
  BY <1>4, UptoNone, FlattenEmpty
<1>6. ASSUME NEW n \in 1..l, P(n - 1) PROVE P(n)
  <2> DEFINE a == FlattenSeq(Upto(o, n - 1))
             b == FlattenSeq(Upto(p, n - 1))
  <2>1. FlattenSeq(Upto(o, n)) = a \o o[n] /\ FlattenSeq(Upto(p, n)) = b \o p[n]
    BY <1>1, <1>2, FlattenUpto
  <2>2. IsSeq(a) /\ IsSeq(o[n])
    <3>1. n - 1 \in 0..Len(o)
      BY <1>1
    <3>2. AllSeqs(Upto(o, n - 1))
      BY <1>1, <1>3, <3>1, UptoIsSeq
    <3> QED
      BY <1>1, <3>2, FlattenIsSeq DEF AllSeqs
  <2>3. Frame(a) = b
    BY <1>6
  <2>4. Frame(o[n]) = p[n]
    <3>1. CASE SameHeader(hs[n].name, f.header)
      <4>1. o[n] = <<>> /\ hs[n].name[1] = f.header[1]
        BY <1>1, <3>1 DEF SameHeader
      <4>2. p[n] = <<>>
        BY <1>2, <4>1 DEF FrameOne, Framed
      <4> QED
        BY <1>4, <4>1, <4>2
    <3>2. CASE ~ SameHeader(hs[n].name, f.header)
      <4>1. o[n] = <<hs[n]>>
        BY <1>1, <3>2
      <4> QED
        BY <1>2, <4>1, FrameOfOne
    <3> QED
      BY <3>1, <3>2
  <2> HIDE DEF a, b
  <2>5. Frame(a \o o[n]) = Frame(a) \o Frame(o[n])
    BY <2>2, FrameConcat
  <2> QED
    BY <2>1, <2>3, <2>4, <2>5, Zenon
<1> HIDE DEF P
<1>7. S = {}
  <2>1. SUFFICES ASSUME S # {} PROVE FALSE
    OBVIOUS
  <2>2. PICK m \in S : \A k \in S : m <= k
    <3>1. S \subseteq Nat
      BY <1>1
    <3> HIDE DEF S
    <3> QED
      BY <2>1, <3>1, Least
  <2>3. m # 0
    BY <1>5, <2>2
  <2>4. m \in 1..l /\ m - 1 \in 0..l /\ m - 1 \notin S
    BY <1>1, <2>2, <2>3
  <2> QED
    BY <1>6, <2>2, <2>4
<1>8. P(l)
  BY <1>1, <1>7
<1>9. Upto(o, l) = o /\ Upto(p, l) = p
  BY <1>1, <1>2, <1>3, UptoAll
<1>10. IsSeq(FlattenSeq(o))
  BY <1>1, FlattenIsSeq DEF AllSeqs
<1> QED
  BY <1>2, <1>8, <1>9, <1>10 DEF P, o

LEMMA FrameOfOneFilter ==
  ASSUME NEW f, f.action \in KnownActions, ~ Framed(f), NEW hs, IsSeq(hs)
  PROVE  IsSeq(HeadersOf(f, hs)) /\ Frame(HeadersOf(f, hs)) = Frame(hs)
<1>1. IsSeq(Append(hs, Set(f))) /\ Frame(Append(hs, Set(f))) = Frame(hs)
  BY FrameAppended, AppendedIsSeq
<1>2. IsSeq(Replaced(f, hs)) /\ Frame(Replaced(f, hs)) = Frame(hs)
  BY FrameReplaced
<1>3. IsSeq(FlattenSeq(Others(f, hs))) /\ Frame(FlattenSeq(Others(f, hs))) = Frame(hs)
  BY FrameRemoved
<1>4. CASE f.action = "add"
  BY <1>1, <1>4 DEF HeadersOf
<1>5. CASE f.action = "default"
  BY <1>1, <1>5 DEF HeadersOf
<1>6. CASE f.action = "override"
  BY <1>1, <1>2, <1>6 DEF HeadersOf
<1>7. CASE f.action = "replace"
  BY <1>2, <1>7 DEF HeadersOf
<1>8. CASE f.action = "remove"
  BY <1>3, <1>8 DEF HeadersOf
<1> QED
  BY <1>4, <1>5, <1>6, <1>7, <1>8 DEF KnownActions

LEMMA FrameStays ==
  ASSUME NEW fs, IsSeq(fs), \A k \in 1..Len(fs) : ~ Framed(fs[k]), NEW hs, IsSeq(hs), NEW t
  PROVE  Frame(FilterAll(fs, hs, t).headers) = Frame(hs)
<1> DEFINE known == Known(fs)
           n == Len(known)
<1>1. IsSeq(known) /\ n \in Nat /\ \A k \in 1..n : known[k].action \in KnownActions /\ ~ Framed(known[k])
  <2> DEFINE p == KnownOnes(fs)
  <2>1. /\ AllSeqs(p) /\ Len(p) = Len(fs) /\ known = FlattenSeq(p)
        /\ \A k \in 1..Len(fs) : p[k] = IF fs[k].action \in KnownActions THEN <<fs[k]>> ELSE <<>>
    BY KnownAre
  <2> HIDE DEF p, known
  <2>2. IsSeq(known)
    BY <2>1, FlattenIsSeq DEF AllSeqs
  <2>3. ASSUME NEW k \in 1..Len(known) PROVE known[k].action \in KnownActions /\ ~ Framed(known[k])
    <3>1. PICK i \in 1..Len(p) : \E j \in 1..Len(p[i]) : known[k] = p[i][j]
      BY <2>1, FlattenHas
    <3>2. CASE fs[i].action \in KnownActions
      <4>1. p[i] = <<fs[i]>> /\ i \in 1..Len(fs)
        BY <2>1, <3>2
      <4>2. known[k] = fs[i]
        BY <3>1, <4>1
      <4> QED
        BY <3>2, <4>1, <4>2
    <3>3. CASE fs[i].action \notin KnownActions
      <4>1. p[i] = <<>>
        BY <2>1, <3>3
      <4> QED
        BY <3>1, <4>1, EmptyIsSeq
    <3> QED
      BY <3>2, <3>3
  <2> QED
    BY <2>2, <2>3 DEF IsSeq
<1>2. PICK f : /\ FilterAll(fs, hs, t).headers = f[Len(Known(fs))].headers
               /\ f[0].headers = hs
               /\ \A k \in 1..Len(Known(fs)) : f[k].headers = HeadersOf(Known(fs)[k], f[k - 1].headers)
  BY <1>1, FilterAllIs
<1> DEFINE P(k) == IsSeq(f[k].headers) /\ Frame(f[k].headers) = Frame(hs)
           S == {k \in 0..n : ~ P(k)}
<1> HIDE DEF known
<1>3. ASSUME NEW k \in 1..n, P(k - 1) PROVE P(k)
  <2>1. f[k].headers = HeadersOf(known[k], f[k - 1].headers)
    BY <1>2 DEF known
  <2> DEFINE g == known[k]
             gs == f[k - 1].headers
  <2>2. g.action \in KnownActions /\ ~ Framed(g) /\ IsSeq(gs) /\ Frame(gs) = Frame(hs)
    BY <1>1, <1>3
  <2> HIDE DEF g, gs
  <2>3. IsSeq(HeadersOf(g, gs)) /\ Frame(HeadersOf(g, gs)) = Frame(gs)
    BY <2>2, FrameOfOneFilter
  <2> QED
    BY <2>1, <2>2, <2>3, Zenon DEF g, gs
<1>4. P(0)
  BY <1>2
<1> HIDE DEF P
<1>5. S = {}
  <2>1. SUFFICES ASSUME S # {} PROVE FALSE
    OBVIOUS
  <2>2. PICK m \in S : \A k \in S : m <= k
    <3>1. S \subseteq Nat
      BY <1>1
    <3> HIDE DEF S
    <3> QED
      BY <2>1, <3>1, Least
  <2>3. m # 0
    BY <1>4, <2>2
  <2>4. m \in 1..n /\ m - 1 \in 0..n /\ m - 1 \notin S
    BY <1>1, <2>2, <2>3
  <2> QED
    BY <1>3, <2>2, <2>4
<1>6. P(n)
  BY <1>1, <1>5
<1> QED
  BY <1>2, <1>6 DEF P, known

----------------------------------------------------------------------------
(* No rule says anything of what frames a request.                         *)

LEMMA RequestOfRuleIsOpen ==
  ASSUME NEW r, IsSeq(r.requestHeaders), \A f \in Range(r.requestHeaders) : "header" \in DOMAIN f, NEW vs
  PROVE  \A k \in 1..Len(RequestFiltersOf(r, vs)) : ~ Framed(RequestFiltersOf(r, vs)[k])
<1> DEFINE now == ResolveResponseHeaders(vs, <<>>)
           g == [k \in DOMAIN r.requestHeaders |->
                   LET f == r.requestHeaders[k]
                   IN IF f.header[1] \in Protected THEN <<>>
                      ELSE <<[f EXCEPT !.value = Replace(@, now, TRUE)]>>]
           n == Len(r.requestHeaders)
<1>1. DOMAIN r.requestHeaders = 1..n /\ n \in Nat
  BY DEF IsSeq
<1>2. RequestFiltersOf(r, vs) = IF r.codes # {} THEN <<>> ELSE FlattenSeq(g)
  BY Zenon DEF RequestFiltersOf
<1>3. ASSUME NEW k \in 1..n PROVE g[k] = <<>> \/ \E e : g[k] = <<e>> /\ ~ Framed(e)
  <2> DEFINE f == r.requestHeaders[k]
             x == Replace(f.value, now, TRUE)
             e == [f EXCEPT !.value = x]
  <2>1. g[k] = IF f.header[1] \in Protected THEN <<>> ELSE <<e>>
    BY <1>1, Zenon
  <2>2. "header" \in DOMAIN f
    BY <1>1 DEF Range
  <2> HIDE DEF x, f, g
  <2>3. e.header = f.header
    BY <2>2
  <2>4. CASE f.header[1] \in Protected
    BY <2>1, <2>4
  <2>5. CASE f.header[1] \notin Protected
    <3>1. g[k] = <<e>> /\ ~ Framed(e)
      BY <2>1, <2>3, <2>5, Zenon DEF Framed
    <3> QED
      BY <3>1
  <2> QED
    BY <2>4, <2>5
<1>4. g = [k \in 1..n |-> g[k]]
  BY <1>1
<1> HIDE DEF g
<1>5. IsSeq(g) /\ Len(g) = n
  BY <1>1, <1>4, FunctionIsSeq
<1>6. AllSeqs(g)
  BY <1>3, <1>5, EmptyIsSeq, OneIsSeq DEF AllSeqs
<1> DEFINE h == FlattenSeq(g)
<1>7. ASSUME NEW k \in 1..Len(h) PROVE ~ Framed(h[k])
  <2>1. PICK i \in 1..Len(g) : \E j \in 1..Len(g[i]) : h[k] = g[i][j]
    BY <1>6, FlattenHas
  <2> HIDE DEF h
  <2>2. PICK j \in 1..Len(g[i]) : h[k] = g[i][j]
    BY <2>1
  <2>3. g[i] # <<>>
    BY EmptyIsSeq
  <2>4. PICK e : g[i] = <<e>> /\ ~ Framed(e)
    BY <1>3, <1>5, <2>3
  <2>5. h[k] = e
    BY <2>2, <2>4
  <2> QED
    BY <2>4, <2>5
<1> HIDE DEF h
<1>8. CASE r.codes # {}
  BY <1>2, <1>8, EmptyIsSeq
<1>9. CASE r.codes = {}
  <2>1. RequestFiltersOf(r, vs) = h
    BY <1>2, <1>9 DEF h
  <2> QED
    BY <1>7, <2>1, Zenon
<1> QED
  BY <1>8, <1>9

LEMMA RequestIsOpen ==
  ASSUME rules \in Chosen, NEW K, NEW fs, fs = Picked(RequestOfRules(rules), K)
  PROVE  IsSeq(fs) /\ \A k \in 1..Len(fs) : ~ Framed(fs[k])
<1> DEFINE w == RequestOfRules(rules)
           p == PickedOf(w, K)
<1>1. /\ AllSeqs(w) /\ Len(w) = Len(rules)
      /\ \A k \in 1..Len(rules) : w[k] = RequestFiltersOf(rules[k], RuleVars(rules[k]))
  BY RequestOfRulesAre
<1>2. fs = Picked(w, K)
  OBVIOUS
<1> HIDE DEF w
<1>3. /\ AllSeqs(p) /\ Len(p) = Len(w) /\ IsSeq(fs) /\ fs = FlattenSeq(p)
      /\ \A k \in 1..Len(w) : p[k] = IF k \in K THEN w[k] ELSE <<>>
  BY <1>1, <1>2, PickedAre DEF Picked
<1> HIDE DEF p
<1>4. ASSUME NEW k \in 1..Len(rules) PROVE \A j \in 1..Len(w[k]) : ~ Framed(w[k][j])
  <2> DEFINE r == rules[k]
             vs == RuleVars(r)
  <2>1. IsSeq(r.requestHeaders) /\ \A f \in Range(r.requestHeaders) : "header" \in DOMAIN f
    BY RuleHeadersAre, RulesAssumption, Zenon
  <2>2. w[k] = RequestFiltersOf(r, vs)
    BY <1>1
  <2> HIDE DEF r, vs
  <2>3. \A j \in 1..Len(RequestFiltersOf(r, vs)) : ~ Framed(RequestFiltersOf(r, vs)[j])
    BY <2>1, RequestOfRuleIsOpen
  <2> QED
    BY <2>2, <2>3, Zenon
<1>5. ASSUME NEW i \in 1..Len(fs) PROVE ~ Framed(fs[i])
  <2>0. AllSeqs(p) /\ fs = FlattenSeq(p) /\ i \in 1..Len(FlattenSeq(p))
    BY <1>3
  <2>a. \E k \in 1..Len(p) : \E j \in 1..Len(p[k]) : FlattenSeq(p)[i] = p[k][j]
    BY <2>0, FlattenHas
  <2>1. PICK k \in 1..Len(p) : \E j \in 1..Len(p[k]) : fs[i] = p[k][j]
    BY <2>0, <2>a
  <2>2. CASE k \in K
    <3>1. p[k] = w[k] /\ k \in 1..Len(rules)
      BY <1>1, <1>3, <2>2
    <3> QED
      BY <1>4, <2>1, <3>1
  <2>3. CASE k \notin K
    <3>1. p[k] = <<>>
      BY <1>3, <2>3
    <3> QED
      BY <2>1, <3>1, EmptyIsSeq
  <2> QED
    BY <2>2, <2>3
<1> QED
  BY <1>3, <1>5

LEMMA SaidOfRequestIs ==
  ASSUME rules \in Chosen
  PROVE  SaidOfRequest = Picked(RequestOfRules(rules), Kept)
<1>1. ASSUME NEW k \in DOMAIN rules, rules[k].codes # {} PROVE RequestOfRules(rules)[k] = <<>>
  BY <1>1, Zenon DEF RequestOfRules, RequestFiltersOf
<1>2. ASSUME NEW k \in DOMAIN rules
      PROVE  RequestOfRules(rules)[k] = RequestFiltersOf(rules[k], RuleVariables(rules[k], rules[k].captured, Request))
  BY DEF RequestOfRules, RuleVars
<1>3. DOMAIN RequestOfRules(rules) = DOMAIN rules
  BY DEF RequestOfRules
<1> DEFINE w == RequestOfRules(rules)
           a == [k \in DOMAIN rules |->
                  IF k \in Kept /\ rules[k].codes = {}
                  THEN RequestFiltersOf(rules[k], RuleVariables(rules[k], rules[k].captured, Request)) ELSE <<>>]
<1>4. a = PickedOf(w, Kept)
  <2>1. ASSUME NEW k \in DOMAIN rules PROVE a[k] = IF k \in Kept THEN w[k] ELSE <<>>
    <3> HIDE DEF w
    <3> QED
      BY <1>1, <1>2, Zenon DEF w
  <2> QED
    BY <1>3, <2>1, Zenon DEF PickedOf
<1> HIDE DEF a, w
<1>5. SaidOfRequest = FlattenSeq(a)
  BY DEF SaidOfRequest, a
<1> QED
  BY <1>4, <1>5 DEF Picked, w

LEMMA SaidHeadersAre ==
  ASSUME rules \in Chosen
  PROVE  SaidHeaders = Picked(SaidOfRules(rules, backend.code, backend.headers), Kept)
<1> DEFINE w == SaidOfRules(rules, backend.code, backend.headers)
           a == [k \in DOMAIN rules |->
                  IF k \in Accepting(backend.code)
                  THEN HeaderFiltersOf(rules[k], VariablesOf(k, backend.headers)) ELSE <<>>]
<1>1. DOMAIN w = DOMAIN rules
  BY DEF SaidOfRules
<1>2. ASSUME NEW k \in DOMAIN rules PROVE a[k] = IF k \in Kept THEN w[k] ELSE <<>>
  <2>1. VariablesOf(k, backend.headers) = VariablesIn(rules, k, backend.headers)
    BY Zenon DEF VariablesOf, VariablesIn
  <2>2. k \in Accepting(backend.code) <=> k \in Kept /\ Accepts(On(rules[k]), backend.code)
    BY Zenon DEF Accepting
  <2>3. w[k] = IF Accepts(On(rules[k]), backend.code)
               THEN HeaderFiltersOf(rules[k], VariablesIn(rules, k, backend.headers)) ELSE <<>>
    BY Zenon DEF SaidOfRules
  <2>4. a[k] = IF k \in Accepting(backend.code)
               THEN HeaderFiltersOf(rules[k], VariablesOf(k, backend.headers)) ELSE <<>>
    BY Zenon
  <2> HIDE DEF a, w
  <2> QED
    BY <2>1, <2>2, <2>3, <2>4, Zenon
<1>3. a = PickedOf(w, Kept)
  <2>1. a = [k \in DOMAIN rules |-> a[k]]
    OBVIOUS
  <2> HIDE DEF a, w
  <2> QED
    BY <1>1, <1>2, <2>1, Zenon DEF PickedOf
<1> HIDE DEF a, w
<1>4. SaidHeaders = FlattenSeq(a)
  BY DEF SaidHeaders, a
<1> QED
  BY <1>3, <1>4 DEF Picked, w

----------------------------------------------------------------------------
(* The invariant: what is merged of the headers is what the rules that     *)
(* count say of them, whatever the backend will answer.                    *)

HeadersInv ==
  /\ stage \in {"rules", "request", "status", "headers"} => HeadersMergedOf(rules, action, KeptUpto(rules, at))
  /\ stage \in {"rules", "request"} =>
       RequestMergedOf(rules, action, KeptUpto(rules, at)) /\ forwarded = Request.headers
  /\ stage \in {"status", "headers", "create"} => RequestKeepsItsFrame
  /\ stage \in {"headers", "create"} => GoodHeaders(backend.headers)
  /\ HeadersAsRulesSay

LEMMA HeadersInvInit == ResponseInit => HeadersInv
<1> SUFFICES ASSUME ResponseInit PROVE HeadersInv
  OBVIOUS
<1>1. rules \in Chosen /\ at = 1 /\ action = NoAction /\ stage = "rules" /\ forwarded = Request.headers
  BY DEF ResponseInit
<1>2. KeptUpto(rules, 1) = {}
  BY DEF KeptUpto, TakenUpto
<1> QED
  BY <1>1, <1>2, HeadersMergedOfNone, RequestMergedOfNone DEF HeadersInv, HeadersAsRulesSay

LEMMA HeadersTaken == ResponseInv /\ HeadersInv /\ TakeRule => HeadersInv'
<1> SUFFICES ASSUME ResponseInv, HeadersInv, TakeRule PROVE HeadersInv'
  OBVIOUS
<1> DEFINE r == rules[at]
<1>1. /\ rules \in Chosen /\ at \in 1..Len(rules) /\ \A j \in 1..(at - 1) : ~ rules[j].stop
      /\ Len(rules) \in Nat
  BY RulesAssumption DEF ResponseInv, ActionInv, TakeRule
<1>2. /\ action' = IF r.reset THEN FromRouteRule(r) ELSE Merge(action, FromRouteRule(r))
      /\ at' = IF r.stop THEN Len(rules) + 1 ELSE at + 1
      /\ stage = "rules" /\ rules' = rules /\ stage' = stage /\ forwarded' = forwarded
  BY DEF TakeRule
<1>3. KeptUpto(rules, at') = IF r.reset THEN {at} ELSE KeptUpto(rules, at) \cup {at}
  BY <1>1, <1>2, KeptNext
<1>4. KeptUpto(rules, at) \subseteq 1..(at - 1)
  BY DEF KeptUpto, TakenUpto
<1>5. HeadersMergedOf(rules, action, KeptUpto(rules, at)) /\ RequestMergedOf(rules, action, KeptUpto(rules, at))
  BY <1>2 DEF HeadersInv
<1>6. HeadersMergedOf(rules, action', KeptUpto(rules, at')) /\ RequestMergedOf(rules, action', KeptUpto(rules, at'))
  <2>1. CASE r.reset
    BY <1>1, <1>2, <1>3, <2>1, HeadersMergedOfRule, RequestMergedOfRule
  <2>2. CASE ~ r.reset
    BY <1>1, <1>2, <1>3, <1>4, <1>5, <2>2, HeadersMergedOfBoth, RequestMergedOfBoth
  <2> QED
    BY <2>1, <2>2
<1>7. HeadersMergedOf(rules, action, KeptUpto(rules, at))' /\ RequestMergedOf(rules, action, KeptUpto(rules, at))'
  BY <1>2, <1>6
<1> QED
  BY <1>2, <1>7 DEF HeadersInv, HeadersAsRulesSay

(* The filters of the request are those of the rules that are for any      *)
(* code, and none of them touches the frame.                               *)
LEMMA RequestIsFiltered ==
  ASSUME rules \in Chosen, RequestMergedOf(rules, action, Kept), NEW t,
         NEW hs, hs = FilterAll(FiltersOf(action.requestFilters), Request.headers, t).headers
  PROVE  hs = FilterAll(SaidOfRequest, Request.headers, NoTrace).headers /\ Frame(hs) = Frame(Request.headers)
<1> DEFINE fs == FiltersOf(action.requestFilters)
           gs == FilterAll(SaidOfRequest, Request.headers, NoTrace).headers
<1>1. fs = Picked(RequestOfRules(rules), Kept) /\ fs = SaidOfRequest
  BY SaidOfRequestIs DEF RequestMergedOf
<1>2. hs = FilterAll(fs, Request.headers, t).headers /\ gs = FilterAll(fs, Request.headers, NoTrace).headers
  BY <1>1
<1> HIDE DEF fs, gs
<1>3. IsSeq(fs) /\ (\A k \in 1..Len(fs) : ~ Framed(fs[k]))
  BY <1>1, RequestIsOpen
<1>4. IsSeq(Request.headers)
  BY RequestAssumption, SequenceIsSeq
<1>5. \A k \in 1..Len(fs) : Similar(fs[k], fs[k], FALSE)
  BY DEF Similar
<1>6. Alike(hs, gs, FALSE)
  BY <1>2, <1>3, <1>4, <1>5, FilterAllAlike
<1>7. hs = gs
  BY <1>6, SameSeq DEF Alike
<1>8. Frame(hs) = Frame(Request.headers)
  BY <1>2, <1>3, <1>4, FrameStays
<1> QED
  BY <1>7, <1>8 DEF gs

LEMMA HeadersForwarded == ResponseInv /\ HeadersInv /\ FilterRequestHeaders => HeadersInv'
<1> SUFFICES ASSUME ResponseInv, HeadersInv, FilterRequestHeaders PROVE HeadersInv'
  OBVIOUS
<1>1. /\ stage = "request" /\ stage' = "status" /\ rules' = rules /\ at' = at /\ action' = action
  BY Zenon DEF FilterRequestHeaders
<1>2. forwarded' = FilterAll(FiltersOf(action.requestFilters), forwarded, trace).headers
  BY Zenon DEF FilterRequestHeaders, FiltersOf
<1>3. rules \in Chosen /\ at = Len(rules) + 1
  BY <1>1, RulesAssumption DEF ResponseInv, ActionInv
<1>4. KeptUpto(rules, at) = Kept
  BY <1>3, KeptAtEnd
<1>5. RequestMergedOf(rules, action, Kept) /\ forwarded = Request.headers
  BY <1>1, <1>4 DEF HeadersInv
<1>6. /\ forwarded' = FilterAll(SaidOfRequest, Request.headers, NoTrace).headers
      /\ Frame(forwarded') = Frame(Request.headers)
  <2>1. forwarded' = FilterAll(FiltersOf(action.requestFilters), Request.headers, trace).headers
    BY <1>2, <1>5
  <2> QED
    BY <1>3, <1>5, <2>1, RequestIsFiltered
<1>7. SaidOfRequest' = SaidOfRequest
  BY <1>1, SameRules, Zenon DEF SaidOfRequest
<1>8. RequestKeepsItsFrame'
  BY <1>6, <1>7 DEF RequestKeepsItsFrame, Frame
<1>9. HeadersMergedOf(rules, action, KeptUpto(rules, at))'
  BY <1>1 DEF HeadersInv
<1> QED
  BY <1>1, <1>8, <1>9 DEF HeadersInv, HeadersAsRulesSay

LEMMA FrameIsKept ==
  ASSUME RequestKeepsItsFrame, rules' = rules, forwarded' = forwarded
  PROVE  RequestKeepsItsFrame'
<1>1. SaidOfRequest' = SaidOfRequest
  BY SameRules, Zenon DEF SaidOfRequest
<1> QED
  BY <1>1 DEF RequestKeepsItsFrame, Frame

LEMMA BackendIsGood ==
  ASSUME rules \in Chosen, NEW b \in Backend(rules)
  PROVE  GoodHeaders(b.headers)
<1>1. IsSequence(b.headers) /\ \A h \in Range(b.headers) : IsText(h.value)
  BY BackendAssumption
<1>2. IsSeq(b.headers)
  BY <1>1, SequenceIsSeq
<1>3. DOMAIN b.headers = 1..Len(b.headers)
  BY <1>2 DEF IsSeq
<1>4. ASSUME NEW k \in 1..Len(b.headers) PROVE GoodText(b.headers[k].value)
  <2>1. IsText(b.headers[k].value)
    BY <1>1, <1>3 DEF Range
  <2> QED
    BY <2>1, TextIsGood
<1> QED
  BY <1>2, <1>4 DEF GoodHeaders

LEMMA HeadersAnswered ==
  ASSUME HeadersInv, rules' = rules, at' = at, action' = action, forwarded' = forwarded,
         stage = "status", stage' = "headers", GoodHeaders(backend'.headers)
  PROVE  HeadersInv'
<1>1. RequestKeepsItsFrame'
  BY FrameIsKept DEF HeadersInv
<1>2. HeadersMergedOf(rules, action, KeptUpto(rules, at))'
  BY DEF HeadersInv
<1>3. GoodHeaders(backend.headers)'
  BY DEF GoodHeaders
<1> QED
  BY <1>1, <1>2, <1>3 DEF HeadersInv, HeadersAsRulesSay

LEMMA HeadersFiltered == ResponseInv /\ HeadersInv /\ FilterHeaders => HeadersInv'
<1> SUFFICES ASSUME ResponseInv, HeadersInv, FilterHeaders PROVE HeadersInv'
  OBVIOUS
<1> DEFINE heard == Heard(action.headerFilters, backend.code)
           fs == HeadersNow(heard, backend.headers)
           said == FilterAll(SaidHeaders, backend.headers, NoTrace).headers
<1>1. /\ stage = "headers" /\ stage' = "create" /\ rules' = rules /\ at' = at /\ backend' = backend
      /\ forwarded' = forwarded
  BY Zenon DEF FilterHeaders
<1>2. headers' = FilterAll(fs, backend.headers, trace).headers
  BY Zenon DEF FilterHeaders, HeadersNow, HeaderNow, Filled
<1>3. rules \in Chosen /\ at = Len(rules) + 1
  BY <1>1, RulesAssumption DEF ResponseInv, ActionInv
<1>4. KeptUpto(rules, at) = Kept
  BY <1>3, KeptAtEnd
<1>5. fs = Picked(HeardOfRules(rules, backend.code, backend.headers), Kept)
  BY <1>1, <1>4, Zenon DEF HeadersInv, HeadersMergedOf
<1>6. GoodHeaders(backend.headers)
  BY <1>1 DEF HeadersInv
<1>7. ASSUME ~ SkippedRefers PROVE Alike(headers', said, TRUE)
  <2>1. SaidHeaders = Picked(SaidOfRules(rules, backend.code, backend.headers), Kept)
    BY <1>3, SaidHeadersAre
  <2> HIDE DEF fs
  <2> DEFINE gs == SaidHeaders
  <2>2. gs = Picked(SaidOfRules(rules, backend.code, backend.headers), Kept)
    BY <2>1
  <2>3. headers' = FilterAll(fs, backend.headers, trace).headers
        /\ said = FilterAll(gs, backend.headers, NoTrace).headers
    BY <1>2
  <2> HIDE DEF gs, said
  <2>4. Alike(FilterAll(fs, backend.headers, trace).headers, FilterAll(gs, backend.headers, NoTrace).headers, TRUE)
    BY <1>3, <1>5, <1>6, <1>7, <2>2, HeadersTold
  <2> QED
    BY <2>3, <2>4
<1>8. SaidHeaders' = SaidHeaders
  BY <1>1, SameRules, Zenon DEF SaidHeaders, Accepting, VariablesOf, Accepts, On
<1>9. (headers = FilterAll(SaidHeaders, backend.headers, NoTrace).headers)' <=> headers' = said
  BY <1>1, <1>8
<1> HIDE DEF said, fs
<1>10. ASSUME ~ SkippedRefers, headers' # said PROVE SecondQuestionMark'
  <2>1. PICK k \in 1..Len(headers') : headers'[k] # said[k]
    BY <1>7, <1>10, SameSeq DEF Alike
  <2>2. TwoQuestionMarks(headers'[k].value)
    BY <1>7, <1>10, <2>1 DEF Alike
  <2>3. k \in DOMAIN headers'
    BY <1>7, <1>10, <2>1 DEF Alike, IsSeq
  <2> QED
    BY <2>2, <2>3, Zenon DEF SecondQuestionMark, TwoQuestionMarks
<1>11. RequestKeepsItsFrame'
  BY <1>1, FrameIsKept DEF HeadersInv
<1>12. GoodHeaders(backend.headers)'
  BY <1>1, <1>6 DEF GoodHeaders
<1>13. HeadersAsRulesSay'
  <2>1. (headers = FilterAll(SaidHeaders, backend.headers, NoTrace).headers)' \/ SecondQuestionMark' \/ SkippedRefers
    BY <1>9, <1>10
  <2> QED
    BY <1>11, <2>1 DEF HeadersAsRulesSay, SkippedRefers
<1> QED
  BY <1>1, <1>11, <1>12, <1>13 DEF HeadersInv

(* Nothing of it is changed.                                               *)
LEMMA HeadersKept ==
  ASSUME HeadersInv, UNCHANGED responseVars
  PROVE  HeadersInv'
<1>1. /\ stage' = stage /\ rules' = rules /\ at' = at /\ action' = action /\ backend' = backend
      /\ forwarded' = forwarded /\ headers' = headers
  BY DEF responseVars
<1>2. SaidHeaders' = SaidHeaders
  BY <1>1, SameRules, Zenon DEF SaidHeaders, Accepting, VariablesOf, Accepts, On
<1>3. SecondQuestionMark' <=> SecondQuestionMark
  BY <1>1 DEF SecondQuestionMark, TwoQuestionMarks
<1>4. RequestKeepsItsFrame => RequestKeepsItsFrame'
  BY <1>1, FrameIsKept
<1>5. HeadersAsRulesSay'
  BY <1>1, <1>2, <1>3, <1>4 DEF HeadersInv, HeadersAsRulesSay, SkippedRefers
<1>6. /\ HeadersMergedOf(rules, action, KeptUpto(rules, at))' = HeadersMergedOf(rules, action, KeptUpto(rules, at))
      /\ RequestMergedOf(rules, action, KeptUpto(rules, at))' = RequestMergedOf(rules, action, KeptUpto(rules, at))
      /\ GoodHeaders(backend.headers)' = GoodHeaders(backend.headers)
  BY <1>1
<1> QED
  BY <1>1, <1>4, <1>5, <1>6 DEF HeadersInv

LEMMA HeadersStep == ResponseInv /\ HeadersInv /\ [ResponseNext]_<<responseVars, bodyVars>> => HeadersInv'
<1> SUFFICES ASSUME ResponseInv, HeadersInv, [ResponseNext]_<<responseVars, bodyVars>> PROVE HeadersInv'
  OBVIOUS
<1>1. CASE GetPeer
  <2>1. /\ stage = "rules" /\ stage' = "request" /\ rules' = rules /\ at' = at /\ action' = action
        /\ forwarded' = forwarded
    BY <1>1 DEF GetPeer
  <2>2. /\ HeadersMergedOf(rules, action, KeptUpto(rules, at))'
        /\ RequestMergedOf(rules, action, KeptUpto(rules, at))'
    BY <2>1 DEF HeadersInv
  <2> QED
    BY <2>1, <2>2 DEF HeadersInv, HeadersAsRulesSay
<1>2. CASE AnswerAtOnce
  <2>1. /\ stage = "status" /\ stage' = "headers" /\ rules' = rules /\ at' = at /\ action' = action
        /\ forwarded' = forwarded /\ backend'.headers = <<>>
    BY <1>2 DEF AnswerAtOnce, Give
  <2>2. GoodHeaders(backend'.headers)
    BY <2>1, EmptyIsSeq DEF GoodHeaders
  <2> QED
    BY <2>1, <2>2, HeadersAnswered
<1>3. CASE AnswerBackend
  <2>1. /\ stage = "status" /\ stage' = "headers" /\ rules' = rules /\ at' = at /\ action' = action
        /\ forwarded' = forwarded /\ backend' \in Backend(rules)
    BY <1>3 DEF AnswerBackend, Give
  <2>2. GoodHeaders(backend'.headers)
    BY <2>1, BackendIsGood DEF ResponseInv, ActionInv
  <2> QED
    BY <2>1, <2>2, HeadersAnswered
<1>4. CASE \E hs \in {<<>>, headers} : CreateFilterBody(hs)
  <2>1. PICK hs \in {<<>>, headers} : CreateFilterBody(hs)
    BY <1>4, Zenon
  <2>2. stage' = "body"
    BY <2>1, Zenon DEF CreateFilterBody
  <2> QED
    BY <2>2 DEF HeadersInv, HeadersAsRulesSay
<1>5. CASE FilterBody
  BY <1>5, BodyStays, HeadersKept
<1>6. CASE ShouldLogRequest \/ GetLogTags
  <2>1. stage' \in {"tags", "done"}
    BY <1>6, Zenon DEF ShouldLogRequest, GetLogTags
  <2> QED
    BY <2>1 DEF HeadersInv, HeadersAsRulesSay
<1>7. CASE UNCHANGED <<responseVars, bodyVars>>
  BY <1>7, HeadersKept
<1> QED
  BY <1>1, <1>2, <1>3, <1>4, <1>5, <1>6, <1>7, HeadersTaken, HeadersForwarded, HeadersFiltered DEF ResponseNext

LEMMA HeadersAlways == ResponseSpec => []HeadersInv
BY HeadersInvInit, HeadersStep, ResponseAlways, PTL DEF ResponseSpec

(* The headers of the response are those that the rules for the code make  *)
(* of the backend's, with all variables in their places, though a rule's   *)
(* texts may have waited for the response: filter_headers replaces late    *)
(* what from_route_rule could not.  Only the end of a target that waits    *)
(* may differ: a question mark that a variable brings is not seen by then, *)
(* and the skipped parameters are searched for names of variables.  And    *)
(* what frames the request goes to the backend as it came.                 *)
THEOREM HeadersAreAsSaid == ResponseSpec => []HeadersAsRulesSay
<1>1. HeadersInv => HeadersAsRulesSay
  BY DEF HeadersInv
<1> QED
  BY <1>1, HeadersAlways, PTL
=============================================================================
