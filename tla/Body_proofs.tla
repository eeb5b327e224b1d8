----------------------------- MODULE Body_proofs ----------------------------
(***************************************************************************)
(* Theorems about the body of a response, for any rules and any backend:   *)
(* where the proxy is not needed, and where the body does not decode; and  *)
(* what the trace of its units tells of its headers.                       *)
(***************************************************************************)
EXTENDS Response_proofs

----------------------------------------------------------------------------
(* An action that does not need the proxy changes nothing: the visitor     *)
(* that listens for variables lets every token through, in the end.        *)

LEMMA FrontIsSeq ==
  ASSUME NEW s, IsSeq(s), s # <<>>
  PROVE  /\ IsSeq(Front(s)) /\ Len(Front(s)) = Len(s) - 1 /\ Len(s) \in Nat \ {0}
         /\ \A k \in 1..(Len(s) - 1) : Front(s)[k] = s[k]
         /\ Last(s) = s[Len(s)]
<1> DEFINE T == {s[k] : k \in 1..Len(s)}
<1>1. s \in Seq(T)
  BY IsSeqOfItsOwn
<1>2. Len(s) \in Nat \ {0}
  BY EmptyIsIt DEF IsSeq
<1> HIDE DEF T
<1> DEFINE m == Len(s) - 1
           l == IF m >= 1 THEN m - 1 + 1 ELSE 0
           u == SubSeq(s, 1, m)
<1>3. u \in Seq(T) /\ Len(u) = l /\ \A k \in 1..l : u[k] = s[k + 1 - 1]
  BY <1>1, <1>2
<1>7. l = m
  <2>1. \A n \in Nat \ {0} : (IF n - 1 >= 1 THEN n - 1 - 1 + 1 ELSE 0) = n - 1
    OBVIOUS
  <2> QED
    BY <1>2, <2>1
<1> HIDE DEF u, l
<1>8. \A k \in 1..m : k + 1 - 1 = k
  OBVIOUS
<1>5. Len(u) = m /\ \A k \in 1..m : u[k] = s[k]
  BY <1>3, <1>7, <1>8
<1>6. Front(s) = u
  BY DEF Front, u
<1>4. IsSeq(u)
  BY <1>3, SeqIsSeq
<1> QED
  BY <1>2, <1>4, <1>5, <1>6 DEF Last

LEMMA UptoAnother ==
  ASSUME NEW s, IsSeq(s), NEW m \in 1..Len(s)
  PROVE  Upto(s, m) = Upto(s, m - 1) \o <<s[m]>>
<1> DEFINE u == Upto(s, m)
           v == Upto(s, m - 1)
           x == <<s[m]>>
<1>1. Len(s) \in Nat /\ m \in 0..Len(s) /\ m - 1 \in 0..Len(s)
  BY DEF IsSeq
<1>2. /\ IsSeq(u) /\ Len(u) = m /\ \A k \in 1..m : u[k] = s[k]
      /\ IsSeq(v) /\ Len(v) = m - 1 /\ \A k \in 1..(m - 1) : v[k] = s[k]
  BY <1>1, UptoIsSeq
<1>3. IsSeq(x) /\ Len(x) = 1 /\ x[1] = s[m]
  BY OneIsSeq
<1> HIDE DEF u, v, x
<1>4. (\A k \in 1..Len(v) : u[k] = v[k]) /\ (\A k \in 1..Len(x) : u[Len(v) + k] = x[k])
  BY <1>1, <1>2, <1>3
<1>6. Len(u) = Len(v) + Len(x)
  <2>1. m \in Int /\ (m - 1) + 1 = m
    BY <1>1
  <2> QED
    BY <1>2, <1>3, <2>1
<1>7. IsSeq(u) /\ IsSeq(v) /\ IsSeq(x)
  BY <1>2, <1>3
<1>8. /\ \A k \in 1..Len(v) : u[k] = v[k]
      /\ \A k \in 1..Len(x) : u[Len(v) + k] = x[k]
  BY <1>4
<1>5. u = v \o x
  BY <1>6, <1>7, <1>8, ConcatIsIt
<1> QED
  BY <1>5 DEF u, v, x

(* A visitor that listens: it lets everything through, in the end.         *)
IsVisitor(h) == {"kind", "selector", "held", "open", "seen", "text", "inText", "broken"} \subseteq DOMAIN h

AsksNot(element) ==
  /\ element.drop = FALSE /\ element.last = <<>> /\ element.unless = <<>> /\ element.after = <<>>

Readable(data) == \A k \in 1..Len(data) : ~ IsOdd(data[k])

Listens(h) ==
  /\ IsVisitor(h) /\ h.kind = "html" /\ h.selector = {} /\ h.broken = FALSE /\ Readable(h.held)
  /\ IsSeq(h.held) /\ IsSeq(h.open) /\ \A k \in 1..Len(h.open) : AsksNot(h.open[k])

(* All that matters of a visitor that is left by another.                  *)
Leaves(h, g, held, open) ==
  /\ DOMAIN g = DOMAIN h /\ g.kind = h.kind /\ g.selector = h.selector /\ g.broken = h.broken
  /\ g.held = held /\ g.open = open

Passes(h, token, s) ==
  /\ s = Step(s.item, s.out, s.registry, s.units)
  /\ Listens(s.item) /\ IsSeq(s.out) /\ s.out \o s.item.held = h.held \o <<token>>

LEMMA PassesStep ==
  ASSUME NEW h, NEW token, NEW g, Listens(g), NEW o, IsSeq(o), o \o g.held = h.held \o <<token>>,
         NEW r, NEW units
  PROVE  Passes(h, token, Step(g, o, r, units))
BY DEF Passes, Step

LEMMA ReadableJoined ==
  ASSUME NEW s, IsSeq(s), Readable(s), NEW t, IsSeq(t), Readable(t)
  PROVE  Readable(s \o t)
<1> DEFINE u == s \o t
<1>1. \A k \in 1..Len(u) : (\E i \in 1..Len(s) : u[k] = s[i]) \/ (\E i \in 1..Len(t) : u[k] = t[i])
  BY ConcatIsSeq
<1> HIDE DEF u
<1> QED
  BY <1>1, Zenon DEF Readable, u

LEMMA ReadableOne ==
  ASSUME NEW token, ~ IsOdd(token)
  PROVE  Readable(<<token>>) /\ Readable(<<>>)
<1>1. Len(<<token>>) = 1 /\ <<token>>[1] = token /\ Len(<<>>) = 0
  OBVIOUS
<1>2. \A k \in 1..1 : k = 1
  OBVIOUS
<1>3. \A k : k \notin 1..0
  OBVIOUS
<1> QED
  BY <1>1, <1>2, <1>3 DEF Readable

LEMMA NoDropping ==
  ASSUME NEW h, Listens(h)
  PROVE  ~ Dropping(h) /\ \A e : ~ Matches(h.selector, h, e)
<1>1. DOMAIN h.open = 1..Len(h.open)
  BY IsSeqOfItsOwn DEF Listens
<1>2. ~ Dropping(h)
  BY <1>1 DEF Listens, AsksNot, Dropping
<1>3. \A e : ~ Matches(h.selector, h, e)
  BY Zenon DEF Listens, Matches
<1> QED
  BY <1>2, <1>3

LEMMA TokenPasses ==
  ASSUME NEW h, Listens(h), NEW token, ~ IsOdd(token), NEW r
  PROVE  Passes(h, token, RewriteToken(h, token, r))
<1> DEFINE s == RewriteToken(h, token, r)
           element == [element |-> token[2], drop |-> FALSE, last |-> <<>>, unless |-> <<>>, after |-> <<>>]
<1> SUFFICES Passes(h, token, s)
  OBVIOUS
<1> HIDE DEF s
<1>1. /\ IsVisitor(h) /\ IsSeq(h.held) /\ IsSeq(h.open) /\ Readable(h.held)
      /\ \A k \in 1..Len(h.open) : AsksNot(h.open[k])
  BY DEF Listens
<1>2. IsSeq(<<>>) /\ Len(<<>>) = 0 /\ IsSeq(<<token>>) /\ <<>> \o <<token>> = <<token>> /\ <<token>> \o <<>> = <<token>>
  BY EmptyIsSeq, OneIsSeq, ConcatEmpty
<1>8. Readable(<<token>>) /\ Readable(<<>>)
  BY ReadableOne
<1>3. CASE h.held # <<>> /\ token[1] # "gt"
  <2> DEFINE g == [h EXCEPT !.held = Append(h.held, token)]
  <2>1. s = Step(g, <<>>, r, {})
    BY <1>1, <1>3, Zenon DEF RewriteToken, s
  <2>2. Leaves(h, g, Append(h.held, token), h.open)
    BY <1>1 DEF IsVisitor, Leaves
  <2>3. IsSeq(Append(h.held, token)) /\ Append(h.held, token) = h.held \o <<token>>
    BY <1>1, AppendedIsSeq
  <2>6. Readable(Append(h.held, token))
    BY <1>1, <1>2, <1>8, <2>3, ReadableJoined
  <2> HIDE DEF g
  <2>4. Listens(g) /\ g.held = h.held \o <<token>>
    BY <1>1, <2>2, <2>3, <2>6 DEF Listens, Leaves, IsVisitor
  <2>5. <<>> \o (h.held \o <<token>>) = h.held \o <<token>>
    BY <2>3, ConcatEmpty
  <2> QED
    BY <1>2, <2>1, <2>4, <2>5, PassesStep
<1>4. CASE h.held = <<>> /\ token[1] = "lt"
  <2> DEFINE g == [NoText(h) EXCEPT !.held = <<token>>]
  <2>1. s = Step(g, <<>>, EndOfText(h, r), {})
    BY <1>4, Zenon DEF RewriteToken, s
  <2>2. Leaves(h, g, <<token>>, h.open)
    BY <1>1 DEF IsVisitor, NoText, Leaves
  <2> HIDE DEF g
  <2>3. Listens(g) /\ g.held = <<token>>
    BY <1>1, <1>2, <1>8, <2>2 DEF Listens, Leaves, IsVisitor
  <2> QED
    BY <1>2, <1>4, <2>1, <2>3, PassesStep
<1>5. CASE token[1] = "gt"
  <2> DEFINE h0 == [h EXCEPT !.held = <<>>]
             tag == h.held \o <<token>>
             g == [h0 EXCEPT !.open = Append(@, element), !.seen = @ \/ Matches(h0.ignore, h0, token[2])]
  <2>1. Leaves(h, h0, <<>>, h.open)
    BY <1>1 DEF IsVisitor, Leaves
  <2>2. Listens(h0) /\ h0.open = h.open /\ h0.held = <<>>
    BY <1>1, <1>2, <1>8, <2>1 DEF Listens, Leaves, IsVisitor
  <2>3. IsSeq(tag)
    BY <1>1, <1>2, ConcatIsSeq
  <2>4. s = StartTag(h0, token[2], tag, r)
    BY <1>5, Zenon DEF RewriteToken, s
  <2> HIDE DEF h0, tag
  <2>5. s = Opened(h0, token[2], tag, r, AsksNothing)
    BY <2>2, <2>4, NoDropping, Zenon DEF StartTag
  <2>6. s = Step(g, <<>> \o tag \o <<>>, r, {})
    BY <2>2, <2>5, NoDropping DEF Opened, AsksNothing
  <2>7. <<>> \o tag \o <<>> = tag
    BY <2>3, ConcatEmpty
  <2>8. IsSeq(Append(h.open, element)) /\ \A k \in 1..Len(Append(h.open, element)) : AsksNot(Append(h.open, element)[k])
    <3> DEFINE o == h.open \o <<element>>
    <3>1. Append(h.open, element) = o
      BY <1>1, AppendedIsSeq
    <3>2. IsSeq(<<element>>) /\ Len(<<element>>) = 1 /\ <<element>>[1] = element /\ AsksNot(element)
      BY OneIsSeq DEF AsksNot
    <3>3. IsSeq(o) /\ \A k \in 1..Len(o) : (\E i \in 1..Len(h.open) : o[k] = h.open[i])
                                        \/ (\E i \in 1..Len(<<element>>) : o[k] = <<element>>[i])
      BY <1>1, <3>2, ConcatIsSeq
    <3> HIDE DEF o, element
    <3>4. \A i \in 1..Len(<<element>>) : AsksNot(<<element>>[i])
      BY <3>2
    <3>5. \A k \in 1..Len(o) : AsksNot(o[k])
      BY <1>1, <3>3, <3>4
    <3> QED
      BY <3>1, <3>3, <3>5
  <2>9. Leaves(h0, g, <<>>, Append(h.open, element))
    <3> HIDE DEF element
    <3>1. IsVisitor(h0)
      BY <2>2 DEF Listens
    <3> QED
      BY <2>2, <3>1 DEF IsVisitor, Leaves
  <2> HIDE DEF g, element
  <2>10. Listens(g) /\ g.held = <<>>
    BY <1>2, <1>8, <2>2, <2>8, <2>9 DEF Listens, Leaves, IsVisitor
  <2>11. s = Step(g, tag, r, {})
    BY <2>6, <2>7
  <2>12. tag \o <<>> = tag
    BY <2>3, ConcatEmpty
  <2> QED
    BY <2>3, <2>10, <2>11, <2>12, PassesStep DEF tag
<1>6. CASE h.held = <<>> /\ token[1] = "close" /\ h.open # <<>>
  <2> DEFINE h0 == NoText(h)
             r0 == EndOfText(h, r)
             g == [h0 EXCEPT !.open = Front(@)]
             top == Last(h0.open)
             late == IF h0.seen THEN <<>> ELSE top.unless
  <2>1. Leaves(h, h0, <<>>, h.open)
    BY <1>1, <1>6 DEF IsVisitor, NoText, Leaves
  <2>2. Listens(h0) /\ h0.open = h.open /\ h0.held = <<>>
    BY <1>1, <1>2, <1>8, <2>1 DEF Listens, Leaves, IsVisitor
  <2>3. s = EndTag(h0, <<token>>, r0)
    BY <1>6, Zenon DEF RewriteToken, s
  <2> HIDE DEF h0, r0
  <2>4. /\ IsSeq(Front(h.open)) /\ Len(Front(h.open)) = Len(h.open) - 1 /\ Len(h.open) \in Nat \ {0}
        /\ \A k \in 1..(Len(h.open) - 1) : Front(h.open)[k] = h.open[k]
        /\ top = h.open[Len(h.open)]
    BY <1>1, <1>6, <2>2, FrontIsSeq
  <2>5. AsksNot(top)
    BY <1>1, <2>4
  <2> HIDE DEF top
  <2>6. late = <<>> /\ top.last = <<>> /\ top.after = <<>>
    BY <2>5 DEF AsksNot
  <2>7. s = Step(g, top.last \o late \o <<token>> \o top.after, r0, IF late # <<>> THEN h0.unit ELSE {})
    BY <2>2, <2>3, NoDropping DEF EndTag, top
  <2> HIDE DEF late
  <2>8. top.last \o late \o <<token>> \o top.after = <<token>>
    <3>1. <<>> \o <<>> = <<>>
      BY <1>2, ConcatEmpty
    <3> QED
      BY <1>2, <2>6, <3>1
  <2>9. \A k \in 1..Len(Front(h.open)) : AsksNot(Front(h.open)[k])
    <3>1. \A k \in 1..Len(Front(h.open)) : k \in 1..(Len(h.open) - 1) /\ k \in 1..Len(h.open)
      BY <2>4
    <3> QED
      BY <1>1, <2>4, <3>1
  <2>10. Leaves(h0, g, <<>>, Front(h.open))
    <3>1. IsVisitor(h0)
      BY <2>2 DEF Listens
    <3> QED
      BY <2>2, <3>1 DEF IsVisitor, Leaves
  <2> HIDE DEF g
  <2>11. Listens(g) /\ g.held = <<>>
    BY <1>2, <1>8, <2>2, <2>4, <2>9, <2>10 DEF Listens, Leaves, IsVisitor
  <2> QED
    BY <1>2, <1>6, <2>7, <2>8, <2>11, PassesStep
<1>7. CASE /\ ~ (h.held # <<>> /\ token[1] # "gt") /\ ~ (h.held = <<>> /\ token[1] = "lt")
           /\ ~ token[1] = "gt" /\ ~ (h.held = <<>> /\ token[1] = "close" /\ h.open # <<>>)
  <2> DEFINE g == [h EXCEPT !.inText = TRUE,
                     !.text = [n \in DOMAIN @ |-> IF Within(h, n) THEN Append(@[n], token) ELSE @[n]]]
  <2>1. h.held = <<>>
    BY <1>7
  <2>2. s = TextToken(h, token, r)
    BY <1>7, Zenon DEF RewriteToken, s
  <2>3. s = Step(g, <<token>>, r, {})
    BY <2>2, NoDropping DEF TextToken
  <2>4. Leaves(h, g, <<>>, h.open)
    BY <1>1, <2>1 DEF IsVisitor, Leaves
  <2> HIDE DEF g
  <2>5. Listens(g) /\ g.held = <<>>
    BY <1>1, <1>2, <1>8, <2>4 DEF Listens, Leaves, IsVisitor
  <2> QED
    BY <1>2, <2>1, <2>3, <2>5, PassesStep
<1> QED
  BY <1>3, <1>4, <1>5, <1>6, <1>7

Rewriting(h, data, r, n, f) ==
  f = [k \in 0..n |-> IF k = 0 THEN Step(h, <<>>, r, {}) ELSE RewriteNext(f[k - 1], data[k])]

LEMMA RewritingExists ==
  ASSUME NEW h, NEW data, NEW r, NEW n \in Nat
  PROVE  \E f : Rewriting(h, data, r, n, f)
<1> DEFINE S == {m \in 0..n : ~ \E f : Rewriting(h, data, r, m, f)}
<1>1. SUFFICES ASSUME S # {} PROVE FALSE
  OBVIOUS
<1>2. PICK m \in S : \A k \in S : m <= k
  <2>1. S \subseteq Nat
    OBVIOUS
  <2> HIDE DEF S
  <2> QED
    BY <1>1, <2>1, Least
<1>3. CASE m = 0
  <2> DEFINE f == [k \in 0..0 |-> Step(h, <<>>, r, {})]
  <2>1. Rewriting(h, data, r, 0, f)
    BY DEF Rewriting
  <2> QED
    BY <1>2, <1>3, <2>1
<1>4. CASE m # 0
  <2>1. m - 1 \in 0..n /\ m - 1 \notin S /\ m \in Nat \ {0}
    BY <1>2, <1>4
  <2>2. PICK g : Rewriting(h, data, r, m - 1, g)
    BY <2>1
  <2> DEFINE f == [k \in 0..m |-> IF k = m THEN RewriteNext(g[m - 1], data[m]) ELSE g[k]]
  <2>3. ASSUME NEW k \in 0..m PROVE f[k] = IF k = 0 THEN Step(h, <<>>, r, {}) ELSE RewriteNext(f[k - 1], data[k])
    <3>1. CASE k = m
      <4>1. f[k - 1] = g[m - 1] /\ k # 0
        BY <2>1, <3>1
      <4> QED
        BY <3>1, <4>1
    <3>2. CASE k # m
      <4>1. k \in 0..(m - 1) /\ f[k] = g[k] /\ (k # 0 => f[k - 1] = g[k - 1])
        BY <2>1, <3>2
      <4>2. g[k] = IF k = 0 THEN Step(h, <<>>, r, {}) ELSE RewriteNext(g[k - 1], data[k])
        BY <2>2, <4>1 DEF Rewriting
      <4> QED
        BY <4>1, <4>2
    <3> QED
      BY <3>1, <3>2
  <2>4. Rewriting(h, data, r, m, f)
    BY <2>3 DEF Rewriting
  <2> QED
    BY <1>2, <2>4
<1> QED
  BY <1>3, <1>4

LEMMA RewriteIs ==
  ASSUME NEW h, NEW data, NEW r, Len(data) \in Nat
  PROVE  \E f : Rewrite(h, data, r) = f[Len(data)] /\ Rewriting(h, data, r, Len(data), f)
<1> DEFINE n == Len(data)
           f == CHOOSE g : Rewriting(h, data, r, n, g)
<1>1. Rewrite(h, data, r) = f[n]
  BY Zenon DEF Rewrite, Rewriting
<1>2. Rewriting(h, data, r, n, f)
  BY RewritingExists
<1> QED
  BY <1>1, <1>2, Zenon

Passed2(h, data, s) ==
  /\ s = Step(s.item, s.out, s.registry, s.units)
  /\ Listens(s.item) /\ IsSeq(s.out) /\ s.out \o s.item.held = h.held \o data

LEMMA RewritePasses ==
  ASSUME NEW h, Listens(h), NEW data, IsSeq(data), Readable(data), NEW r
  PROVE  Passed2(h, data, Rewrite(h, data, r))
<1> DEFINE n == Len(data)
<1>1. n \in Nat
  BY DEF IsSeq
<1>2. PICK f : Rewrite(h, data, r) = f[n] /\ Rewriting(h, data, r, n, f)
  BY <1>1, RewriteIs
<1>3. \A k \in 0..n : f[k] = IF k = 0 THEN Step(h, <<>>, r, {}) ELSE RewriteNext(f[k - 1], data[k])
  BY <1>2 DEF Rewriting
<1> DEFINE S == {k \in 0..n : ~ Passed2(h, Upto(data, k), f[k])}
<1>4. S = {}
  <2>1. SUFFICES ASSUME S # {} PROVE FALSE
    OBVIOUS
  <2>2. PICK m \in S : \A k \in S : m <= k
    <3>1. S \subseteq Nat
      OBVIOUS
    <3> HIDE DEF S
    <3> QED
      BY <2>1, <3>1, Least
  <2>3. m \in 0..n /\ ~ Passed2(h, Upto(data, m), f[m])
    BY <2>2
  <2>4. CASE m = 0
    <3>1. f[m] = Step(h, <<>>, r, {}) /\ Upto(data, m) = <<>>
      BY <1>3, <2>3, <2>4, UptoNone
    <3>2. IsSeq(h.held) /\ IsSeq(<<>>) /\ <<>> \o h.held = h.held \o <<>>
      BY EmptyIsSeq, ConcatEmpty DEF Listens
    <3> QED
      BY <2>3, <3>1, <3>2 DEF Passed2, Step
  <2>5. CASE m # 0
    <3> DEFINE s == f[m - 1]
               token == data[m]
               next == RewriteToken(s.item, token, s.registry)
               u == Upto(data, m - 1)
               t == f[m]
    <3>1. m - 1 \in 0..n /\ m \in 1..n /\ m - 1 \notin S
      BY <1>1, <2>2, <2>3, <2>5
    <3>2. Passed2(h, u, s)
      BY <3>1
    <3>3. t = RewriteNext(s, token)
      BY <1>3, <3>1
    <3>4. IsSeq(u) /\ IsSeq(h.held) /\ IsSeq(<<token>>)
      BY <3>1, UptoIsSeq, OneIsSeq DEF Listens
    <3>5. Upto(data, m) = u \o <<token>>
      BY <3>1, UptoAnother
    <3>12. ~ IsOdd(token)
      BY <3>1 DEF Readable
    <3> HIDE DEF u, s, token
    <3>6. Passes(s.item, token, next)
      BY <3>2, <3>12, TokenPasses, SMTT(20) DEF Passed2
    <3>13. s.item.broken = FALSE
      BY <3>2 DEF Passed2, Listens
    <3> HIDE DEF next
    <3>7. /\ t = [next EXCEPT !.out = s.out \o @, !.units = s.units \cup @]
          /\ next = [item |-> next.item, out |-> next.out, registry |-> next.registry, units |-> next.units]
      BY <3>3, <3>6, <3>12, <3>13 DEF RewriteNext, next, Passes, Step
    <3>8. t = Step(next.item, s.out \o next.out, next.registry, s.units \cup next.units)
      BY <3>7, ZenonT(20) DEF Step
    <3> HIDE DEF t
    <3>9. /\ IsSeq(s.out) /\ IsSeq(s.item.held) /\ s.out \o s.item.held = h.held \o u
          /\ IsSeq(next.out) /\ IsSeq(next.item.held) /\ next.out \o next.item.held = s.item.held \o <<token>>
          /\ Listens(next.item)
      BY <3>2, <3>6 DEF Passed2, Passes, Listens
    <3>10. IsSeq(s.out \o next.out) /\ (s.out \o next.out) \o next.item.held = h.held \o (u \o <<token>>)
      <4> DEFINE o == s.out
                 p == next.out
                 q == next.item.held
                 b == s.item.held
                 c == h.held
                 x == <<token>>
      <4>1. IsSeq(o) /\ IsSeq(p) /\ IsSeq(q) /\ IsSeq(b) /\ IsSeq(c) /\ IsSeq(u) /\ IsSeq(x)
        BY <3>4, <3>9
      <4>2. o \o b = c \o u /\ p \o q = b \o x
        BY <3>9
      <4> HIDE DEF o, p, q, b, c, x
      <4>3. IsSeq(o \o p) /\ (o \o p) \o q = c \o (u \o x)
        <5>1. o \o (p \o q) = (o \o p) \o q
          <6>1. IsSeq(o) /\ IsSeq(p) /\ IsSeq(q)
            BY <4>1
          <6> QED
            BY <6>1, ConcatThree
        <5>2. o \o (b \o x) = (o \o b) \o x
          <6>1. IsSeq(o) /\ IsSeq(b) /\ IsSeq(x)
            BY <4>1
          <6> QED
            BY <6>1, ConcatThree
        <5>3. c \o (u \o x) = (c \o u) \o x
          <6>1. IsSeq(c) /\ IsSeq(u) /\ IsSeq(x)
            BY <4>1
          <6> QED
            BY <6>1, ConcatThree
        <5>4. IsSeq(o \o p)
          BY <4>1, ConcatIsSeq
        <5> QED
          BY <4>2, <5>1, <5>2, <5>3, <5>4
      <4> QED
        BY <4>3 DEF o, p, q, c, x
    <3>11. Passed2(h, Upto(data, m), t)
      BY <3>5, <3>8, <3>9, <3>10, ZenonT(20) DEF Passed2, Step
    <3> QED
      BY <2>3, <3>11 DEF t
  <2> QED
    BY <2>4, <2>5
<1>5. Passed2(h, Upto(data, n), f[n])
  <2>1. n \in 0..n
    BY <1>1
  <2> QED
    BY <1>4, <2>1
<1> QED
  BY <1>2, <1>5, UptoAll

Filtering(data, n, f) ==
  f = [k \in 0..n |-> IF k = 0 THEN Through(<<>>, data, registry, trace, FALSE) ELSE FilterItem(f[k - 1], chain[k])]

LEMMA FilteringExists ==
  ASSUME NEW data, NEW n \in Nat
  PROVE  \E f : Filtering(data, n, f)
<1> DEFINE S == {m \in 0..n : ~ \E f : Filtering(data, m, f)}
<1>1. SUFFICES ASSUME S # {} PROVE FALSE
  OBVIOUS
<1>2. PICK m \in S : \A k \in S : m <= k
  <2>1. S \subseteq Nat
    OBVIOUS
  <2> HIDE DEF S
  <2> QED
    BY <1>1, <2>1, Least
<1>3. CASE m = 0
  <2> DEFINE f == [k \in 0..0 |-> Through(<<>>, data, registry, trace, FALSE)]
  <2>1. Filtering(data, 0, f)
    BY DEF Filtering
  <2> QED
    BY <1>2, <1>3, <2>1
<1>4. CASE m # 0
  <2>1. m - 1 \in 0..n /\ m - 1 \notin S /\ m \in Nat \ {0}
    BY <1>2, <1>4
  <2>2. PICK g : Filtering(data, m - 1, g)
    BY <2>1
  <2> DEFINE f == [k \in 0..m |-> IF k = m THEN FilterItem(g[m - 1], chain[m]) ELSE g[k]]
  <2>3. ASSUME NEW k \in 0..m PROVE f[k] = IF k = 0 THEN Through(<<>>, data, registry, trace, FALSE) ELSE FilterItem(f[k - 1], chain[k])
    <3>1. CASE k = m
      <4>1. f[k - 1] = g[m - 1] /\ k # 0
        BY <2>1, <3>1
      <4> QED
        BY <3>1, <4>1
    <3>2. CASE k # m
      <4>1. k \in 0..(m - 1) /\ f[k] = g[k] /\ (k # 0 => f[k - 1] = g[k - 1])
        BY <2>1, <3>2
      <4>2. g[k] = IF k = 0 THEN Through(<<>>, data, registry, trace, FALSE) ELSE FilterItem(g[k - 1], chain[k])
        BY <2>2, <4>1 DEF Filtering
      <4> QED
        BY <4>1, <4>2
    <3> QED
      BY <3>1, <3>2
  <2>4. Filtering(data, m, f)
    BY <2>3 DEF Filtering
  <2> QED
    BY <1>2, <2>4
<1> QED
  BY <1>3, <1>4

LEMMA FilterChainIs ==
  ASSUME NEW data, Len(chain) \in Nat
  PROVE  \E f : FilterChain(data) = f[Len(chain)] /\ Filtering(data, Len(chain), f)
<1> DEFINE n == Len(chain)
           f == CHOOSE g : Filtering(data, n, g)
<1>1. FilterChain(data) = f[n]
  BY Zenon DEF FilterChain, Filtering
<1>2. Filtering(data, n, f)
  BY FilteringExists
<1> QED
  BY <1>1, <1>2, Zenon

Ending(n, f) ==
  f = [k \in 0..n |-> IF k = 0 THEN Through(<<>>, <<>>, registry, trace, FALSE) ELSE EndItem(f[k - 1], chain[k])]

LEMMA EndingExists ==
  ASSUME NEW n \in Nat
  PROVE  \E f : Ending(n, f)
<1> DEFINE S == {m \in 0..n : ~ \E f : Ending(m, f)}
<1>1. SUFFICES ASSUME S # {} PROVE FALSE
  OBVIOUS
<1>2. PICK m \in S : \A k \in S : m <= k
  <2>1. S \subseteq Nat
    OBVIOUS
  <2> HIDE DEF S
  <2> QED
    BY <1>1, <2>1, Least
<1>3. CASE m = 0
  <2> DEFINE f == [k \in 0..0 |-> Through(<<>>, <<>>, registry, trace, FALSE)]
  <2>1. Ending(0, f)
    BY DEF Ending
  <2> QED
    BY <1>2, <1>3, <2>1
<1>4. CASE m # 0
  <2>1. m - 1 \in 0..n /\ m - 1 \notin S /\ m \in Nat \ {0}
    BY <1>2, <1>4
  <2>2. PICK g : Ending(m - 1, g)
    BY <2>1
  <2> DEFINE f == [k \in 0..m |-> IF k = m THEN EndItem(g[m - 1], chain[m]) ELSE g[k]]
  <2>3. ASSUME NEW k \in 0..m PROVE f[k] = IF k = 0 THEN Through(<<>>, <<>>, registry, trace, FALSE) ELSE EndItem(f[k - 1], chain[k])
    <3>1. CASE k = m
      <4>1. f[k - 1] = g[m - 1] /\ k # 0
        BY <2>1, <3>1
      <4> QED
        BY <3>1, <4>1
    <3>2. CASE k # m
      <4>1. k \in 0..(m - 1) /\ f[k] = g[k] /\ (k # 0 => f[k - 1] = g[k - 1])
        BY <2>1, <3>2
      <4>2. g[k] = IF k = 0 THEN Through(<<>>, <<>>, registry, trace, FALSE) ELSE EndItem(g[k - 1], chain[k])
        BY <2>2, <4>1 DEF Ending
      <4> QED
        BY <4>1, <4>2
    <3> QED
      BY <3>1, <3>2
  <2>4. Ending(m, f)
    BY <2>3 DEF Ending
  <2> QED
    BY <1>2, <2>4
<1> QED
  BY <1>3, <1>4

LEMMA EndChainIs ==
  ASSUME Len(chain) \in Nat
  PROVE  \E f : EndChain = f[Len(chain)] /\ Ending(Len(chain), f)
<1> DEFINE n == Len(chain)
           f == CHOOSE g : Ending(n, g)
<1>1. EndChain = f[n]
  BY Zenon DEF EndChain, Ending
<1>2. Ending(n, f)
  BY EndingExists
<1> QED
  BY <1>1, <1>2, Zenon

(* A chain of none, two or four.                                           *)
LEMMA ThroughNone ==
  ASSUME chain = <<>>, NEW data
  PROVE  /\ FilterChain(data) = Through(<<>>, data, registry, trace, FALSE)
         /\ EndChain = Through(<<>>, <<>>, registry, trace, FALSE)
<1>1. Len(chain) = 0 /\ 0 \in 0..0
  OBVIOUS
<1>2. Len(chain) \in Nat
  BY <1>1
<1>3. FilterChain(data) = Through(<<>>, data, registry, trace, FALSE)
  <2>1. PICK f : FilterChain(data) = f[Len(chain)] /\ Filtering(data, Len(chain), f)
    BY <1>2, FilterChainIs
  <2> QED
    BY <1>1, <2>1 DEF Filtering
<1>4. EndChain = Through(<<>>, <<>>, registry, trace, FALSE)
  <2>1. PICK f : EndChain = f[Len(chain)] /\ Ending(Len(chain), f)
    BY <1>2, EndChainIs
  <2> QED
    BY <1>1, <2>1 DEF Ending
<1> QED
  BY <1>3, <1>4

LEMMA ThroughTwo ==
  ASSUME NEW x, NEW y, chain = <<x, y>>, NEW data
  PROVE  /\ FilterChain(data) = FilterItem(FilterItem(Through(<<>>, data, registry, trace, FALSE), x), y)
         /\ EndChain = EndItem(EndItem(Through(<<>>, <<>>, registry, trace, FALSE), x), y)
<1>1. Len(chain) = 2 /\ Len(chain) \in Nat /\ chain[1] = x /\ chain[2] = y
  OBVIOUS
<1>2. 0 \in 0..2 /\ 1 \in 0..2 /\ 2 \in 0..2 /\ 1 - 1 = 0 /\ 2 - 1 = 1 /\ 1 # 0 /\ 2 # 0
  OBVIOUS
<1>3. FilterChain(data) = FilterItem(FilterItem(Through(<<>>, data, registry, trace, FALSE), x), y)
  <2>1. PICK f : FilterChain(data) = f[Len(chain)] /\ Filtering(data, Len(chain), f)
    BY <1>1, FilterChainIs
  <2>2. f[0] = Through(<<>>, data, registry, trace, FALSE)
    BY <1>1, <1>2, <2>1 DEF Filtering
  <2>3. f[1] = FilterItem(f[0], x)
    BY <1>1, <1>2, <2>1 DEF Filtering
  <2>4. f[2] = FilterItem(f[1], y)
    BY <1>1, <1>2, <2>1 DEF Filtering
  <2> QED
    BY <1>1, <2>1, <2>2, <2>3, <2>4
<1>4. EndChain = EndItem(EndItem(Through(<<>>, <<>>, registry, trace, FALSE), x), y)
  <2>1. PICK f : EndChain = f[Len(chain)] /\ Ending(Len(chain), f)
    BY <1>1, EndChainIs
  <2>2. f[0] = Through(<<>>, <<>>, registry, trace, FALSE)
    BY <1>1, <1>2, <2>1 DEF Ending
  <2>3. f[1] = EndItem(f[0], x)
    BY <1>1, <1>2, <2>1 DEF Ending
  <2>4. f[2] = EndItem(f[1], y)
    BY <1>1, <1>2, <2>1 DEF Ending
  <2> QED
    BY <1>1, <2>1, <2>2, <2>3, <2>4
<1> QED
  BY <1>3, <1>4

LEMMA ThroughFour ==
  ASSUME Len(chain) = 4, NEW data
  PROVE  /\ FilterChain(data) =
              FilterItem(FilterItem(FilterItem(FilterItem(Through(<<>>, data, registry, trace, FALSE), chain[1]), chain[2]), chain[3]), chain[4])
         /\ EndChain = EndItem(EndItem(EndItem(EndItem(Through(<<>>, <<>>, registry, trace, FALSE), chain[1]), chain[2]), chain[3]), chain[4])
<1>1. Len(chain) = 4 /\ Len(chain) \in Nat
  OBVIOUS
<1>2. /\ 0 \in 0..4 /\ 1 \in 0..4 /\ 2 \in 0..4 /\ 3 \in 0..4 /\ 4 \in 0..4
      /\ 1 - 1 = 0 /\ 2 - 1 = 1 /\ 3 - 1 = 2 /\ 4 - 1 = 3 /\ 1 # 0 /\ 2 # 0 /\ 3 # 0 /\ 4 # 0
  OBVIOUS
<1>3. FilterChain(data) =
        FilterItem(FilterItem(FilterItem(FilterItem(Through(<<>>, data, registry, trace, FALSE), chain[1]), chain[2]), chain[3]), chain[4])
  <2>1. PICK f : FilterChain(data) = f[Len(chain)] /\ Filtering(data, Len(chain), f)
    BY <1>1, FilterChainIs
  <2>2. f[0] = Through(<<>>, data, registry, trace, FALSE)
    BY <1>1, <1>2, <2>1 DEF Filtering
  <2>3. f[1] = FilterItem(f[0], chain[1]) /\ f[2] = FilterItem(f[1], chain[2])
    BY <1>1, <1>2, <2>1 DEF Filtering
  <2>4. f[3] = FilterItem(f[2], chain[3]) /\ f[4] = FilterItem(f[3], chain[4])
    BY <1>1, <1>2, <2>1 DEF Filtering
  <2> QED
    BY <1>1, <2>1, <2>2, <2>3, <2>4
<1>4. EndChain = EndItem(EndItem(EndItem(EndItem(Through(<<>>, <<>>, registry, trace, FALSE), chain[1]), chain[2]), chain[3]), chain[4])
  <2>1. PICK f : EndChain = f[Len(chain)] /\ Ending(Len(chain), f)
    BY <1>1, EndChainIs
  <2>2. f[0] = Through(<<>>, <<>>, registry, trace, FALSE)
    BY <1>1, <1>2, <2>1 DEF Ending
  <2>3. f[1] = EndItem(f[0], chain[1]) /\ f[2] = EndItem(f[1], chain[2])
    BY <1>1, <1>2, <2>1 DEF Ending
  <2>4. f[3] = EndItem(f[2], chain[3]) /\ f[4] = EndItem(f[3], chain[4])
    BY <1>1, <1>2, <2>1 DEF Ending
  <2> QED
    BY <1>1, <2>1, <2>2, <2>3, <2>4
<1> QED
  BY <1>3, <1>4

----------------------------------------------------------------------------
(* The items of a chain that has no filter.                                *)

Keeping(d) == [kind |-> "buffer", data |-> d]
Decoder(e, c) == [kind |-> "decode", encoding |-> e, closed |-> c]
Encoder == [kind |-> "encode"]

(* What was held back of the data by a visitor comes before what comes now.*)
Lets(h, data, g, o) == Listens(g) /\ IsSeq(o) /\ o \o g.held = h.held \o data

(* An item that is not broken.                                             *)
Gone(c, d, r, t, f, p) ==
  [chain |-> c, data |-> d, registry |-> r, trace |-> t, refused |-> f, panicked |-> p]

LEMMA GoneOn ==
  ASSUME NEW c, NEW d, NEW r, NEW t, NEW f, NEW p, NEW q
  PROVE  [Gone(c, d, r, t, f, p) EXCEPT !.panicked = q] = Gone(c, d, r, t, f, q)
BY DEF Gone

LEMMA ThroughIsGone ==
  ASSUME NEW c, NEW d, NEW r, NEW t, NEW f
  PROVE  Through(c, d, r, t, f) = Gone(c, d, r, t, f, FALSE)
BY Zenon DEF Through, Gone

GoesOn(s) == ~ s.panicked

LEMMA EndsWell ==
  ASSUME NEW s, GoesOn(s), NEW item, NEW i, NEW o, NEW r, NEW t, ~ Poisoned(i)
  PROVE  EndAfter(s, item, Went(i, o, r, t)) = Ended(s, item, o, Flush(i, r, t))
<1> DEFINE w == Went(i, o, r, t)
           last == Flush(i, r, t)
           e == Ended(s, item, o, last)
           b == s.panicked \/ (~ s.refused /\ Poisoned(i))
           x == o \o last.out
           f == s.refused \/ RefusesEnd(item)
<1>1. w.item = i /\ w.out = o /\ w.registry = r /\ w.trace = t
  BY DEF Went
<1>2. b = FALSE
  <2>1. ~ b
    BY Zenon DEF GoesOn
  <2>2. b \in BOOLEAN
    OBVIOUS
  <2> HIDE DEF b
  <2> QED
    BY <2>1, <2>2
<1> HIDE DEF w, b
<1>3. EndAfter(s, item, w) = [e EXCEPT !.panicked = b]
  BY <1>1, Zenon DEF EndAfter, b
<1>4. e = Through(<<>>, x, last.registry, last.trace, f)
  BY Zenon DEF Ended
<1> HIDE DEF e, last, x, f
<1>5. e = Gone(<<>>, x, last.registry, last.trace, f, FALSE)
  BY <1>4, ThroughIsGone, Zenon
<1> DEFINE no == FALSE
<1>6. b = no /\ e = Gone(<<>>, x, last.registry, last.trace, f, no)
  BY <1>2, <1>5, Zenon
<1> HIDE DEF no
<1>7. [Gone(<<>>, x, last.registry, last.trace, f, no) EXCEPT !.panicked = no]
        = Gone(<<>>, x, last.registry, last.trace, f, no)
  BY GoneOn
<1>8. EndAfter(s, item, w) = e
  BY <1>3, <1>6, <1>7, Zenon
<1> QED
  BY <1>8 DEF w, e, last

LetsThrough(h, data, items, s) ==
  \E g, o, r, t : s = Through(Append(items, g), o, r, t, FALSE) /\ Lets(h, data, g, o)

LEMMA ListensPasses ==
  ASSUME NEW h, Listens(h), NEW items, NEW data, IsSeq(data), Readable(data), NEW r, NEW t
  PROVE  LetsThrough(h, data, items, FilterItem(Through(items, data, r, t, FALSE), h))
<1> DEFINE s == Through(items, data, r, t, FALSE)
<1>1. s.refused = FALSE /\ s.panicked = FALSE /\ s.chain = items /\ s.data = data /\ s.registry = r /\ s.trace = t
  BY DEF Through
<1>2. CASE items # <<>> /\ data = <<>>
  <2>1. FilterItem(s, h) = [s EXCEPT !.chain = Append(@, h)]
    BY <1>1, <1>2 DEF FilterItem
  <2>2. FilterItem(s, h) = Through(Append(items, h), <<>>, r, t, FALSE)
    BY <1>2, <2>1 DEF Through
  <2>3. IsSeq(h.held) /\ IsSeq(<<>>)
    BY EmptyIsSeq DEF Listens
  <2>4. Lets(h, data, h, <<>>)
    BY <1>2, <2>3, ConcatEmpty DEF Lets
  <2> QED
    BY <2>2, <2>4 DEF LetsThrough
<1>3. CASE ~ (items # <<>> /\ data = <<>>)
  <2> DEFINE v == Rewrite(h, data, r)
  <2>1. Passed2(h, data, v)
    BY RewritePasses
  <2>2. h.kind = "html"
    BY DEF Listens
  <2>3. ~ Refuses(h, data) /\ ~ Poisoned(h)
    BY <2>2 DEF Refuses, Poisoned, Panics, Listens
  <2>4. FilterItem(s, h) = Passed(s, Feed(h, data, r, t))
    BY <1>1, <1>3, <2>3 DEF FilterItem
  <2>5. Feed(h, data, r, t) = Rewritten(v, t)
    BY <2>2 DEF Feed
  <2> HIDE DEF v, s
  <2>6. Passed(s, Rewritten(v, t)) = Through(Append(items, v.item), v.out, v.registry, Traced(v.units, t), FALSE)
    BY <1>1 DEF Passed, Rewritten, Went
  <2>7. Lets(h, data, v.item, v.out)
    BY <2>1 DEF Passed2, Lets
  <2>8. FilterItem(s, h) = Through(Append(items, v.item), v.out, v.registry, Traced(v.units, t), FALSE)
    BY <2>4, <2>5, <2>6
  <2> QED
    BY <2>7, <2>8 DEF s, LetsThrough
<1> QED
  BY <1>2, <1>3

LEMMA KeepingKeeps ==
  ASSUME NEW d, IsSeq(d), NEW items, items # <<>>, NEW data, NEW r, NEW t
  PROVE  FilterItem(Through(items, data, r, t, FALSE), Keeping(d)) =
           Through(Append(items, Keeping(d \o data)), <<>>, r, t, FALSE)
<1> DEFINE s == Through(items, data, r, t, FALSE)
<1>1. s.refused = FALSE /\ s.panicked = FALSE /\ s.chain = items /\ s.data = data /\ s.registry = r /\ s.trace = t
  BY DEF Through
<1>2. CASE data = <<>>
  <2>1. FilterItem(s, Keeping(d)) = [s EXCEPT !.chain = Append(@, Keeping(d))]
    BY <1>1, <1>2 DEF FilterItem
  <2>2. d \o data = d
    BY <1>2, ConcatEmpty
  <2> QED
    BY <1>2, <2>1, <2>2 DEF Through
<1>3. CASE data # <<>>
  <2>1. Keeping(d).kind = "buffer" /\ Keeping(d).data = d /\ [Keeping(d) EXCEPT !.data = @ \o data] = Keeping(d \o data)
    <3>1. Keeping(d).kind = "buffer" /\ Keeping(d).data = d
      BY DEF Keeping
    <3>2. \A u : [Keeping(d) EXCEPT !.data = u] = Keeping(u)
      BY DEF Keeping
    <3> QED
      BY <3>1, <3>2, Zenon
  <2>2. ~ Refuses(Keeping(d), data) /\ ~ Poisoned(Keeping(d))
    BY <2>1 DEF Refuses, Poisoned
  <2>3. FilterItem(s, Keeping(d)) = Passed(s, Feed(Keeping(d), data, r, t))
    BY <1>1, <1>3, <2>2 DEF FilterItem
  <2>4. Feed(Keeping(d), data, r, t) = Went(Keeping(d \o data), <<>>, r, t)
    BY <2>1 DEF Feed
  <2> HIDE DEF s
  <2>5. Passed(s, Went(Keeping(d \o data), <<>>, r, t)) = Through(Append(items, Keeping(d \o data)), <<>>, r, t, FALSE)
    BY <1>1 DEF Passed, Went
  <2> QED
    BY <2>3, <2>4, <2>5 DEF s
<1> QED
  BY <1>2, <1>3

LEMMA EncoderWaits ==
  ASSUME NEW items, items # <<>>, NEW r, NEW t
  PROVE  FilterItem(Through(items, <<>>, r, t, FALSE), Encoder) =
           Through(Append(items, Encoder), <<>>, r, t, FALSE)
BY DEF FilterItem, Through

LEMMA DecoderDecodes ==
  ASSUME NEW e, NEW data, ~ Refuses(Decoder(e, FALSE), data),
         NEW b \in BOOLEAN, b <=> Contains(data, Trailer), NEW r, NEW t
  PROVE  FilterItem(Through(<<>>, data, r, t, FALSE), Decoder(e, FALSE)) =
           Through(<<Decoder(e, b)>>, Decoded(data), r, t, FALSE)
<1> DEFINE s == Through(<<>>, data, r, t, FALSE)
           i == Decoder(e, FALSE)
           j == Decoder(e, b)
<1>1. s.refused = FALSE /\ s.panicked = FALSE /\ s.chain = <<>> /\ s.data = data /\ s.registry = r /\ s.trace = t
  BY DEF Through
<1>2. i.kind = "decode" /\ [i EXCEPT !.closed = @ \/ Contains(data, Trailer)] = j
  BY DEF Decoder
<1>7. ~ Poisoned(i)
  BY <1>2 DEF Poisoned
<1> HIDE DEF i, j
<1>3. FilterItem(s, i) = Passed(s, Feed(i, data, r, t))
  BY <1>1, <1>7 DEF FilterItem, i
<1>4. Feed(i, data, r, t) = Went(j, Decoded(data), r, t)
  BY <1>2 DEF Feed
<1> HIDE DEF s
<1>5. Passed(s, Went(j, Decoded(data), r, t)) = Through(Append(<<>>, j), Decoded(data), r, t, FALSE)
  BY <1>1 DEF Passed, Went
<1>6. Append(<<>>, j) = <<j>>
  OBVIOUS
<1> QED
  BY <1>3, <1>4, <1>5, <1>6 DEF s, i, j

EndsKeeping(h, d, s, u) == \E r, t : EndItem(EndItem(s, h), Keeping(d)) = Through(<<>>, u, r, t, FALSE)

LEMMA EndKeeping ==
  ASSUME NEW h, Listens(h), NEW d, IsSeq(d), NEW r, NEW t
  PROVE  EndsKeeping(h, d, Through(<<>>, <<>>, r, t, FALSE), d \o h.held)
<1> DEFINE r2 == EndOfText(h, r)
           s == Through(<<>>, <<>>, r, t, FALSE)
           v == Through(<<>>, h.held, r2, t, FALSE)
<1>1. /\ h.kind = "html" /\ ~ Dropping(h) /\ IsSeq(h.held) /\ <<>> \o h.held = h.held
      /\ <<>> \o d = d
  BY NoDropping, ConcatEmpty DEF Listens
<1>4. ~ RefusesHeld(h) /\ ~ Poisoned(h)
  <2>1. DOMAIN h.held = 1..Len(h.held)
    BY <1>1, IsSeqOfItsOwn
  <2> QED
    BY <2>1 DEF Listens, Readable, RefusesHeld, Poisoned, Panics
<1>2. EndItem(s, h) = v
  <2>1. s.data = <<>> /\ s.registry = r /\ s.trace = t /\ s.refused = FALSE /\ GoesOn(s)
    BY DEF Through, GoesOn
  <2> HIDE DEF s
  <2>2. EndItem(s, h) = EndAfter(s, h, Went(h, <<>>, r, t))
    BY <2>1 DEF EndItem
  <2>3. EndAfter(s, h, Went(h, <<>>, r, t)) = Ended(s, h, <<>>, Flush(h, r, t))
    BY <1>4, <2>1, EndsWell
  <2>4. EndRewrite(h, r) = Step(h, h.held, r2, {})
    BY <1>1, <1>4 DEF EndRewrite
  <2>5. Flush(h, r, t) = Went(h, h.held, r2, t)
    <3> HIDE DEF r2
    <3>1. Flush(h, r, t) = Went(h, EndRewrite(h, r).out, EndRewrite(h, r).registry, t)
      BY <1>1 DEF Flush
    <3> QED
      BY <2>4, <3>1 DEF Step
  <2>6. ~ RefusesEnd(h)
    BY <1>1 DEF RefusesEnd
  <2> HIDE DEF r2
  <2>7. Ended(s, h, <<>>, Went(h, h.held, r2, t)) = Through(<<>>, <<>> \o h.held, r2, t, FALSE)
    BY <2>1, <2>6 DEF Ended, Went
  <2> QED
    BY <1>1, <2>2, <2>3, <2>5, <2>7
<1> HIDE DEF r2
<1>3. EndItem(v, Keeping(d)) = Through(<<>>, d \o h.held, r2, t, FALSE)
  <2>1. v.data = h.held /\ v.registry = r2 /\ v.trace = t /\ v.refused = FALSE /\ GoesOn(v)
    BY DEF Through, GoesOn
  <2> HIDE DEF v
  <2>2. ~ RefusesEnd(Keeping(d))
    BY DEF RefusesEnd, Keeping
  <2>3. ASSUME NEW u, NEW o PROVE EndAfter(v, Keeping(d), Went(Keeping(u), <<>>, r2, t)) = Through(<<>>, <<>> \o u, r2, t, FALSE)
    <3>1. Flush(Keeping(u), r2, t) = Went(Keeping(u), u, r2, t)
      BY DEF Flush, Keeping
    <3>4. ~ Poisoned(Keeping(u))
      BY DEF Poisoned, Keeping
    <3>2. EndAfter(v, Keeping(d), Went(Keeping(u), <<>>, r2, t)) = Ended(v, Keeping(d), <<>>, Flush(Keeping(u), r2, t))
      BY <2>1, <3>4, EndsWell
    <3>3. Ended(v, Keeping(d), <<>>, Went(Keeping(u), u, r2, t)) = Through(<<>>, <<>> \o u, r2, t, FALSE)
      BY <2>1, <2>2 DEF Ended, Went
    <3> QED
      BY <3>1, <3>2, <3>3
  <2>4. CASE h.held = <<>>
    <3>1. EndItem(v, Keeping(d)) = EndAfter(v, Keeping(d), Went(Keeping(d), <<>>, r2, t))
      BY <2>1, <2>4 DEF EndItem
    <3>2. d \o h.held = d
      BY <2>4, ConcatEmpty
    <3> QED
      BY <1>1, <2>3, <3>1, <3>2
  <2>5. CASE h.held # <<>>
    <3> DEFINE u == d \o h.held
    <3>1. EndItem(v, Keeping(d)) = EndAfter(v, Keeping(d), Feed(Keeping(d), h.held, r2, t))
      BY <2>1, <2>5 DEF EndItem
    <3>2. Feed(Keeping(d), h.held, r2, t) = Went(Keeping(u), <<>>, r2, t)
      <4>1. Keeping(d).kind = "buffer" /\ Keeping(d).data = d
        BY DEF Keeping
      <4>2. \A w : [Keeping(d) EXCEPT !.data = w] = Keeping(w)
        BY DEF Keeping
      <4>3. [Keeping(d) EXCEPT !.data = @ \o h.held] = Keeping(u)
        BY <4>1, <4>2, Zenon
      <4> QED
        BY <4>1, <4>3 DEF Feed
    <3>3. IsSeq(u) /\ <<>> \o u = u
      BY <1>1, ConcatIsSeq, ConcatEmpty
    <3> HIDE DEF u
    <3>4. EndItem(v, Keeping(d)) = Through(<<>>, u, r2, t, FALSE)
      BY <2>3, <3>1, <3>2, <3>3
    <3> QED
      BY <3>4 DEF u
  <2> QED
    BY <2>4, <2>5
<1> QED
  BY <1>2, <1>3 DEF s, v, EndsKeeping

LEMMA EndDecoder ==
  ASSUME NEW e, NEW r, NEW t
  PROVE  EndItem(Through(<<>>, <<>>, r, t, FALSE), Decoder(e, TRUE)) = Through(<<>>, <<>>, r, t, FALSE)
<1> DEFINE s == Through(<<>>, <<>>, r, t, FALSE)
           i == Decoder(e, TRUE)
<1>1. s.data = <<>> /\ s.registry = r /\ s.trace = t /\ s.refused = FALSE /\ GoesOn(s)
  BY DEF Through, GoesOn
<1>2. i.kind = "decode" /\ i.closed = TRUE
  BY DEF Decoder
<1> HIDE DEF s, i
<1>3. EndItem(s, i) = EndAfter(s, i, Went(i, <<>>, r, t))
  BY <1>1 DEF EndItem
<1>4. Flush(i, r, t) = Went(i, <<>>, r, t) /\ ~ RefusesEnd(i) /\ ~ Poisoned(i)
  BY <1>2 DEF Flush, RefusesEnd, Poisoned
<1>5. EndAfter(s, i, Went(i, <<>>, r, t)) = Ended(s, i, <<>>, Flush(i, r, t))
  BY <1>1, <1>4, EndsWell
<1>6. Ended(s, i, <<>>, Went(i, <<>>, r, t)) = Through(<<>>, <<>> \o <<>>, r, t, FALSE)
  BY <1>1, <1>4 DEF Ended, Went
<1>7. <<>> \o <<>> = <<>>
  BY EmptyIsSeq, ConcatEmpty
<1> QED
  BY <1>3, <1>4, <1>5, <1>6, <1>7 DEF s, i

LEMMA EndEncoder ==
  ASSUME NEW u, IsSeq(u), NEW r, NEW t
  PROVE  EndItem(Through(<<>>, u, r, t, FALSE), Encoder) = Through(<<>>, Coded(u) \o <<Trailer>>, r, t, FALSE)
<1> DEFINE s == Through(<<>>, u, r, t, FALSE)
<1>1. s.data = u /\ s.registry = r /\ s.trace = t /\ s.refused = FALSE /\ GoesOn(s)
  BY DEF Through, GoesOn
<1> HIDE DEF s
<1>2. Flush(Encoder, r, t) = Went(Encoder, <<Trailer>>, r, t) /\ ~ RefusesEnd(Encoder) /\ ~ Poisoned(Encoder)
  BY DEF Flush, RefusesEnd, Encoder, Poisoned
<1>3. ASSUME NEW o PROVE EndAfter(s, Encoder, Went(Encoder, o, r, t)) = Through(<<>>, o \o <<Trailer>>, r, t, FALSE)
  <2>1. EndAfter(s, Encoder, Went(Encoder, o, r, t)) = Ended(s, Encoder, o, Flush(Encoder, r, t))
    BY <1>1, <1>2, EndsWell
  <2>2. Ended(s, Encoder, o, Went(Encoder, <<Trailer>>, r, t)) = Through(<<>>, o \o <<Trailer>>, r, t, FALSE)
    BY <1>1, <1>2 DEF Ended, Went
  <2> QED
    BY <1>2, <2>1, <2>2
<1>4. CASE u = <<>>
  <2>1. EndItem(s, Encoder) = EndAfter(s, Encoder, Went(Encoder, <<>>, r, t))
    BY <1>1, <1>4 DEF EndItem
  <2>2. Coded(u) = <<>>
    BY <1>4 DEF Coded
  <2> QED
    BY <1>3, <2>1, <2>2 DEF s
<1>5. CASE u # <<>>
  <2>1. EndItem(s, Encoder) = EndAfter(s, Encoder, Feed(Encoder, u, r, t))
    BY <1>1, <1>5 DEF EndItem
  <2>2. Feed(Encoder, u, r, t) = Went(Encoder, Coded(u), r, t)
    BY DEF Feed, Encoder
  <2> QED
    BY <1>3, <2>1, <2>2 DEF s
<1> QED
  BY <1>4, <1>5

(* What is kept and what is held back are the text so far.                 *)
Holds(u, h, d) == Listens(h) /\ IsSeq(d) /\ d \o h.held = u

LEMMA HoldsMore ==
  ASSUME NEW u, IsSeq(u), NEW h, NEW d, Holds(u, h, d), NEW data, IsSeq(data), NEW g, NEW o, Lets(h, data, g, o)
  PROVE  Holds(u \o data, g, d \o o)
<1> DEFINE p == h.held
           q == g.held
<1>1. Listens(h) /\ Listens(g) /\ IsSeq(d) /\ IsSeq(o) /\ IsSeq(p) /\ IsSeq(q)
  BY DEF Holds, Lets, Listens
<1>2. d \o p = u /\ o \o q = p \o data
  BY DEF Holds, Lets
<1> HIDE DEF p, q
<1>3. d \o (o \o q) = (d \o o) \o q
  <2>1. IsSeq(d) /\ IsSeq(o) /\ IsSeq(q)
    BY <1>1
  <2> QED
    BY <2>1, ConcatThree
<1>4. d \o (p \o data) = (d \o p) \o data
  <2>1. IsSeq(d) /\ IsSeq(p) /\ IsSeq(data)
    BY <1>1
  <2> QED
    BY <2>1, ConcatThree
<1>5. IsSeq(d \o o)
  BY <1>1, ConcatIsSeq
<1>6. (d \o o) \o q = u \o data
  BY <1>2, <1>3, <1>4
<1> QED
  BY <1>1, <1>5, <1>6 DEF Holds, q

OfText(h, d) == <<h, Keeping(d)>>
OfCode(n, c, h, d) == <<Decoder(n, c), h, Keeping(d), Encoder>>

LEMMA AppendsTwo ==
  ASSUME NEW w, NEW x
  PROVE  Append(<<w>>, x) = <<w, x>>
<1> DEFINE T == {w, x}
           s == <<w>>
           u == Append(s, x)
           v == <<w, x>>
<1>1. s \in Seq(T) /\ x \in T /\ Len(s) = 1 /\ s[1] = w
  OBVIOUS
<1>2. v \in Seq(T) /\ Len(v) = 2 /\ v[1] = w /\ v[2] = x
  OBVIOUS
<1>3. u \in Seq(T) /\ Len(u) = 2 /\ u[1] = w /\ u[2] = x
  BY <1>1
<1> HIDE DEF u, v
<1>4. IsSeq(u) /\ IsSeq(v)
  BY <1>2, <1>3, SeqIsSeq
<1>5. \A k \in 1..2 : u[k] = v[k]
  <2>1. \A k \in 1..2 : k = 1 \/ k = 2
    OBVIOUS
  <2> QED
    BY <1>2, <1>3, <2>1
<1>6. u = v
  BY <1>2, <1>3, <1>4, <1>5, SameSeq
<1> QED
  BY <1>6 DEF u, v

LEMMA AppendsThree ==
  ASSUME NEW w, NEW x, NEW y
  PROVE  Append(<<w, x>>, y) = <<w, x, y>>
<1> DEFINE T == {w, x, y}
           s == <<w, x>>
           u == Append(s, y)
           v == <<w, x, y>>
<1>1. s \in Seq(T) /\ y \in T /\ Len(s) = 2 /\ s[1] = w /\ s[2] = x
  OBVIOUS
<1>2. v \in Seq(T) /\ Len(v) = 3 /\ v[1] = w /\ v[2] = x /\ v[3] = y
  OBVIOUS
<1>3. u \in Seq(T) /\ Len(u) = 3 /\ u[1] = w /\ u[2] = x /\ u[3] = y
  BY <1>1
<1> HIDE DEF u, v
<1>4. IsSeq(u) /\ IsSeq(v)
  BY <1>2, <1>3, SeqIsSeq
<1>5. \A k \in 1..3 : u[k] = v[k]
  <2>1. \A k \in 1..3 : k = 1 \/ k = 2 \/ k = 3
    OBVIOUS
  <2> QED
    BY <1>2, <1>3, <2>1
<1>6. u = v
  BY <1>2, <1>3, <1>4, <1>5, SameSeq
<1> QED
  BY <1>6 DEF u, v

LEMMA AppendsFour ==
  ASSUME NEW w, NEW x, NEW y, NEW z
  PROVE  Append(<<w, x, y>>, z) = <<w, x, y, z>>
<1> DEFINE T == {w, x, y, z}
           s == <<w, x, y>>
           u == Append(s, z)
           v == <<w, x, y, z>>
<1>1. s \in Seq(T) /\ z \in T /\ Len(s) = 3 /\ s[1] = w /\ s[2] = x /\ s[3] = y
  OBVIOUS
<1>2. v \in Seq(T) /\ Len(v) = 4 /\ v[1] = w /\ v[2] = x /\ v[3] = y /\ v[4] = z
  OBVIOUS
<1>3. u \in Seq(T) /\ Len(u) = 4 /\ u[1] = w /\ u[2] = x /\ u[3] = y /\ u[4] = z
  BY <1>1
<1> HIDE DEF u, v
<1>4. IsSeq(u) /\ IsSeq(v)
  BY <1>2, <1>3, SeqIsSeq
<1>5. \A k \in 1..4 : u[k] = v[k]
  <2>1. \A k \in 1..4 : k = 1 \/ k = 2 \/ k = 3 \/ k = 4
    OBVIOUS
  <2> QED
    BY <1>2, <1>3, <2>1
<1>6. u = v
  BY <1>2, <1>3, <1>4, <1>5, SameSeq
<1> QED
  BY <1>6 DEF u, v

LEMMA Appends ==
  ASSUME NEW w, NEW x, NEW y, NEW z
  PROVE  /\ Append(<<>>, w) = <<w>> /\ Append(<<w>>, x) = <<w, x>> /\ Append(<<w, x>>, y) = <<w, x, y>>
         /\ Append(<<w, x, y>>, z) = <<w, x, y, z>>
         /\ <<w>> # <<>> /\ <<w, x>> # <<>> /\ <<w, x, y>> # <<>>
<1>1. Append(<<>>, w) = <<w>>
  OBVIOUS
<1>2. Append(<<w>>, x) = <<w, x>>
  BY AppendsTwo
<1>3. Append(<<w, x>>, y) = <<w, x, y>>
  BY AppendsThree
<1>4. Append(<<w, x, y>>, z) = <<w, x, y, z>>
  BY AppendsFour
<1>5. <<w>> # <<>> /\ <<w, x>> # <<>> /\ <<w, x, y>> # <<>>
  OBVIOUS
<1> QED
  BY <1>1, <1>2, <1>3, <1>4, <1>5

LEMMA PlainChain ==
  ASSUME NEW h, NEW d, chain = OfText(h, d), NEW u, IsSeq(u), Holds(u, h, d)
  PROVE  /\ \A data : IsSeq(data) /\ Readable(data) =>
              \E g, e, r, t : /\ FilterChain(data) = Through(OfText(g, e), <<>>, r, t, FALSE)
                              /\ Holds(u \o data, g, e)
         /\ \E r, t : EndChain = Through(<<>>, u, r, t, FALSE)
<1>1. Listens(h) /\ IsSeq(d) /\ d \o h.held = u
  BY DEF Holds
<1>2. ASSUME NEW data, IsSeq(data), Readable(data)
      PROVE  \E g, e, r, t : /\ FilterChain(data) = Through(OfText(g, e), <<>>, r, t, FALSE)
                             /\ Holds(u \o data, g, e)
  <2>1. PICK g, o, r, t : /\ FilterItem(Through(<<>>, data, registry, trace, FALSE), h)
                              = Through(Append(<<>>, g), o, r, t, FALSE)
                          /\ Lets(h, data, g, o)
    <3>1. LetsThrough(h, data, <<>>, FilterItem(Through(<<>>, data, registry, trace, FALSE), h))
      BY <1>1, <1>2, ListensPasses
    <3> QED
      BY <3>1, Zenon DEF LetsThrough
  <2>2. Append(<<>>, g) = <<g>> /\ <<g>> # <<>>
    BY Appends
  <2>3. FilterItem(Through(<<g>>, o, r, t, FALSE), Keeping(d)) = Through(Append(<<g>>, Keeping(d \o o)), <<>>, r, t, FALSE)
    BY <1>1, <2>2, KeepingKeeps
  <2>4. Append(<<g>>, Keeping(d \o o)) = <<g, Keeping(d \o o)>>
    BY Appends
  <2>5. FilterChain(data) = FilterItem(FilterItem(Through(<<>>, data, registry, trace, FALSE), h), Keeping(d))
    BY ThroughTwo DEF OfText
  <2>6. FilterChain(data) = Through(<<g, Keeping(d \o o)>>, <<>>, r, t, FALSE)
    BY <2>1, <2>2, <2>3, <2>4, <2>5
  <2>7. Holds(u \o data, g, d \o o)
    BY <1>2, <2>1, HoldsMore
  <2> QED
    BY <2>6, <2>7 DEF OfText
<1>3. \E r, t : EndChain = Through(<<>>, u, r, t, FALSE)
  <2>1. EndsKeeping(h, d, Through(<<>>, <<>>, registry, trace, FALSE), d \o h.held)
    BY <1>1, EndKeeping
  <2>2. EndChain = EndItem(EndItem(Through(<<>>, <<>>, registry, trace, FALSE), h), Keeping(d))
    BY ThroughTwo DEF OfText
  <2> QED
    BY <1>1, <2>1, <2>2, Zenon DEF EndsKeeping
<1> QED
  BY <1>2, <1>3

LEMMA CodeItems ==
  ASSUME NEW n, NEW c, NEW h, NEW d, chain = OfCode(n, c, h, d)
  PROVE  /\ Len(chain) = 4 /\ chain[1] = Decoder(n, c) /\ chain[2] = h /\ chain[3] = Keeping(d)
         /\ chain[4] = Encoder
BY DEF OfCode

LEMMA CodedChainFilters ==
  ASSUME NEW n, NEW h, NEW d, chain = OfCode(n, FALSE, h, d),
         NEW u, IsSeq(u), Holds(u, h, d), NEW data, ~ Refuses(Decoder(n, FALSE), data),
         NEW b \in BOOLEAN, b <=> Contains(data, Trailer),
         IsSeq(Decoded(data)), Readable(Decoded(data))
  PROVE  \E g, e, r, t :
           /\ FilterChain(data)
                = Through(OfCode(n, b, g, e), <<>>, r, t, FALSE)
           /\ Holds(u \o Decoded(data), g, e)
<1> DEFINE i == Decoder(n, FALSE)
           j == Decoder(n, b)
           text == Decoded(data)
<1>1. Listens(h) /\ IsSeq(d) /\ IsSeq(text) /\ Readable(text)
  BY DEF Holds
<1>2. FilterItem(Through(<<>>, data, registry, trace, FALSE), i) = Through(<<j>>, text, registry, trace, FALSE)
  BY DecoderDecodes
<1>3. FilterChain(data) =
        FilterItem(FilterItem(FilterItem(FilterItem(Through(<<>>, data, registry, trace, FALSE), i), h), Keeping(d)), Encoder)
  <2>1. /\ Len(chain) = 4 /\ chain[1] = Decoder(n, FALSE) /\ chain[2] = h /\ chain[3] = Keeping(d)
        /\ chain[4] = Encoder
    BY CodeItems
  <2> QED
    BY <2>1, ThroughFour
<1> HIDE DEF i, j, text
<1>4. PICK g, o, r, t : /\ FilterItem(Through(<<j>>, text, registry, trace, FALSE), h)
                            = Through(Append(<<j>>, g), o, r, t, FALSE)
                        /\ Lets(h, text, g, o)
  <2>1. LetsThrough(h, text, <<j>>, FilterItem(Through(<<j>>, text, registry, trace, FALSE), h))
    BY <1>1, ListensPasses
  <2> QED
    BY <2>1, Zenon DEF LetsThrough
<1>5. Append(<<j>>, g) = <<j, g>> /\ <<j, g>> # <<>>
  BY Appends
<1>6. FilterItem(Through(<<j, g>>, o, r, t, FALSE), Keeping(d)) = Through(Append(<<j, g>>, Keeping(d \o o)), <<>>, r, t, FALSE)
  BY <1>1, <1>5, KeepingKeeps
<1>7. Append(<<j, g>>, Keeping(d \o o)) = <<j, g, Keeping(d \o o)>> /\ <<j, g, Keeping(d \o o)>> # <<>>
  BY Appends
<1>8. FilterItem(Through(<<j, g, Keeping(d \o o)>>, <<>>, r, t, FALSE), Encoder)
        = Through(Append(<<j, g, Keeping(d \o o)>>, Encoder), <<>>, r, t, FALSE)
  BY <1>7, EncoderWaits
<1>9. Append(<<j, g, Keeping(d \o o)>>, Encoder) = <<j, g, Keeping(d \o o), Encoder>>
  BY Appends
<1>10. FilterChain(data) = Through(<<j, g, Keeping(d \o o), Encoder>>, <<>>, r, t, FALSE)
  BY <1>2, <1>3, <1>4, <1>5, <1>6, <1>7, <1>8, <1>9
<1>11. Holds(u \o text, g, d \o o)
  BY <1>1, <1>4, HoldsMore
<1> QED
  BY <1>10, <1>11 DEF j, text, OfCode

LEMMA CodedChainEnds ==
  ASSUME NEW n, NEW h, NEW d, chain = OfCode(n, TRUE, h, d), NEW u, IsSeq(u), Holds(u, h, d)
  PROVE  \E r, t : EndChain = Through(<<>>, Coded(u) \o <<Trailer>>, r, t, FALSE)
<1>1. Listens(h) /\ IsSeq(d) /\ d \o h.held = u
  BY DEF Holds
<1>2. EndChain =
        EndItem(EndItem(EndItem(EndItem(Through(<<>>, <<>>, registry, trace, FALSE), Decoder(n, TRUE)), h), Keeping(d)), Encoder)
  <2>1. /\ Len(chain) = 4 /\ chain[1] = Decoder(n, TRUE) /\ chain[2] = h /\ chain[3] = Keeping(d)
        /\ chain[4] = Encoder
    BY CodeItems
  <2> QED
    BY <2>1, ThroughFour
<1>3. EndItem(Through(<<>>, <<>>, registry, trace, FALSE), Decoder(n, TRUE)) = Through(<<>>, <<>>, registry, trace, FALSE)
  BY EndDecoder
<1>4. PICK r, t : EndItem(EndItem(Through(<<>>, <<>>, registry, trace, FALSE), h), Keeping(d)) = Through(<<>>, u, r, t, FALSE)
  <2>1. EndsKeeping(h, d, Through(<<>>, <<>>, registry, trace, FALSE), d \o h.held)
    BY <1>1, EndKeeping
  <2> QED
    BY <1>1, <2>1, Zenon DEF EndsKeeping
<1>5. EndItem(Through(<<>>, u, r, t, FALSE), Encoder) = Through(<<>>, Coded(u) \o <<Trailer>>, r, t, FALSE)
  BY EndEncoder
<1>6. EndChain = Through(<<>>, Coded(u) \o <<Trailer>>, r, t, FALSE)
  BY <1>1, <1>2, <1>3, <1>4, <1>5
<1> QED
  BY <1>6

----------------------------------------------------------------------------
(* What is coded is decoded, in parts as in one.                           *)

Units(data) == [k \in DOMAIN data |-> IF data[k][1] = "zip" THEN <<data[k][2]>> ELSE <<>>]

LEMMA UnitsAreSeqs ==
  ASSUME NEW data, IsSeq(data)
  PROVE  AllSeqs(Units(data)) /\ Len(Units(data)) = Len(data)
<1> DEFINE s == Units(data)
<1>1. DOMAIN data = 1..Len(data) /\ Len(data) \in Nat
  BY IsSeqOfItsOwn DEF IsSeq
<1>2. s = [k \in 1..Len(data) |-> IF data[k][1] = "zip" THEN <<data[k][2]>> ELSE <<>>]
  BY <1>1 DEF Units
<1>3. \A k \in 1..Len(data) : IsSeq(s[k])
  <2> TAKE k \in 1..Len(data)
  <2>1. IsSeq(<<>>) /\ IsSeq(<<data[k][2]>>)
    BY EmptyIsSeq, OneIsSeq
  <2> QED
    BY <1>2, <2>1
<1>4. s = [k \in 1..Len(data) |-> s[k]]
  BY <1>2
<1> HIDE DEF s
<1>5. IsSeq(s) /\ Len(s) = Len(data)
  BY <1>1, <1>4, FunctionIsSeq
<1> QED
  BY <1>3, <1>5 DEF AllSeqs, s

LEMMA DecodedConcat ==
  ASSUME NEW s, IsSeq(s), NEW t, IsSeq(t)
  PROVE  IsSeq(Decoded(s)) /\ IsSeq(Decoded(t)) /\ Decoded(s \o t) = Decoded(s) \o Decoded(t)
<1> DEFINE w == s \o t
           a == Units(s)
           b == Units(t)
           c == Units(w)
<1>1. /\ IsSeq(w) /\ Len(w) = Len(s) + Len(t) /\ \A k \in 1..Len(s) : w[k] = s[k]
      /\ \A k \in 1..Len(t) : w[Len(s) + k] = t[k]
  BY ConcatIsSeq
<1> HIDE DEF w
<1>2. /\ DOMAIN s = 1..Len(s) /\ DOMAIN t = 1..Len(t) /\ DOMAIN w = 1..Len(w)
      /\ Len(s) \in Nat /\ Len(t) \in Nat
  BY <1>1, IsSeqOfItsOwn DEF IsSeq
<1>3. AllSeqs(a) /\ AllSeqs(b) /\ AllSeqs(c) /\ Len(a) = Len(s) /\ Len(b) = Len(t) /\ Len(c) = Len(w)
  BY <1>1, UnitsAreSeqs
<1>4. \A k \in 1..Len(s) : k \in 1..Len(w) /\ c[k] = a[k]
  BY <1>1, <1>2 DEF Units
<1>5. \A k \in 1..Len(t) : Len(s) + k \in 1..Len(w) /\ c[Len(s) + k] = b[k]
  BY <1>1, <1>2 DEF Units
<1>6. Decoded(s) = FlattenSeq(a) /\ Decoded(t) = FlattenSeq(b) /\ Decoded(w) = FlattenSeq(c)
  BY Zenon DEF Decoded, Units
<1> HIDE DEF a, b, c
<1>7. IsSeq(a) /\ IsSeq(b) /\ IsSeq(c)
  BY <1>3 DEF AllSeqs
<1>8. c = a \o b
  <2>1. Len(c) = Len(a) + Len(b)
    BY <1>1, <1>3
  <2>2. (\A k \in 1..Len(a) : c[k] = a[k]) /\ (\A k \in 1..Len(b) : c[Len(a) + k] = b[k])
    BY <1>3, <1>4, <1>5
  <2> QED
    BY <1>7, <2>1, <2>2, ConcatIsIt
<1>9. FlattenSeq(a \o b) = FlattenSeq(a) \o FlattenSeq(b)
  BY <1>3, FlattenConcat
<1>10. IsSeq(FlattenSeq(a)) /\ IsSeq(FlattenSeq(b))
  BY <1>3, FlattenIsSeq DEF AllSeqs
<1> QED
  BY <1>6, <1>8, <1>9, <1>10 DEF w

----------------------------------------------------------------------------
(* A body that no filter is for, on its way through the chain.             *)

LEMMA CodedIs ==
  ASSUME NEW text, IsSeq(text)
  PROVE  /\ IsSeq(Coded(text)) /\ Len(Coded(text)) = Len(text)
         /\ \A k \in 1..Len(text) : Coded(text)[k] = Zipped(text[k])
<1> DEFINE s == Coded(text)
<1>1. DOMAIN text = 1..Len(text) /\ Len(text) \in Nat
  BY IsSeqOfItsOwn DEF IsSeq
<1>2. s = [k \in 1..Len(text) |-> Zipped(text[k])]
  BY <1>1 DEF Coded
<1>3. s = [k \in 1..Len(text) |-> s[k]] /\ \A k \in 1..Len(text) : s[k] = Zipped(text[k])
  BY <1>2
<1> HIDE DEF s
<1>4. IsSeq(s) /\ Len(s) = Len(text)
  BY <1>1, <1>3, FunctionIsSeq
<1> QED
  BY <1>3, <1>4 DEF s

LEMMA IntactIs ==
  ASSUME NEW b, IsSeq(b.input), Intact(b), b.encoding # {}
  PROVE  LET text == Decoded(b.input) IN
         /\ IsSeq(text) /\ Len(b.input) = Len(text) + 1
         /\ \A k \in 1..Len(text) : b.input[k] = Zipped(text[k])
         /\ b.input[Len(b.input)] = Trailer
         /\ b.input = Coded(text) \o <<Trailer>>
<1> DEFINE text == Decoded(b.input)
           s == Coded(text)
           x == <<Trailer>>
<1>1. IsSeq(text)
  BY DecodedConcat
<1>2. b.input = Append(s, Trailer)
  BY DEF Intact
<1> HIDE DEF text
<1>3. IsSeq(s) /\ Len(s) = Len(text) /\ \A k \in 1..Len(text) : s[k] = Zipped(text[k])
  BY <1>1, CodedIs
<1> HIDE DEF s
<1>4. Append(s, Trailer) = s \o x
  BY <1>3, AppendedIsSeq
<1>5. IsSeq(x) /\ Len(x) = 1 /\ x[1] = Trailer
  BY OneIsSeq
<1> HIDE DEF x
<1>6. /\ Len(s \o x) = Len(s) + Len(x)
      /\ \A k \in 1..Len(s) : (s \o x)[k] = s[k]
      /\ \A k \in 1..Len(x) : (s \o x)[Len(s) + k] = x[k]
  <2>1. IsSeq(s) /\ IsSeq(x)
    BY <1>3, <1>5
  <2> QED
    BY <2>1, ConcatIsSeq
<1>7. (s \o x)[Len(s) + 1] = Trailer
  <2>1. 1 \in 1..Len(x)
    BY <1>5
  <2> DEFINE y == s \o x
             l == Len(s)
  <2>2. y[l + 1] = x[1]
    <3> HIDE DEF y, l
    <3>1. \A k \in 1..Len(x) : y[l + k] = x[k]
      BY <1>6 DEF y, l
    <3> QED
      BY <2>1, <3>1
  <2> QED
    BY <1>5, <2>2
<1>8. b.input = s \o x /\ Len(b.input) = Len(text) + 1 /\ b.input[Len(b.input)] = Trailer
  BY <1>2, <1>3, <1>4, <1>5, <1>6, <1>7
<1>9. \A k \in 1..Len(text) : b.input[k] = Zipped(text[k])
  BY <1>3, <1>6, <1>8
<1> QED
  BY <1>1, <1>8, <1>9 DEF text, s, x

LEMMA ChunkIs ==
  ASSUME IsSeq(body.input), taken \in 0..Len(body.input), NEW n \in 1..Len(body.input), taken + n <= Len(body.input)
  PROVE  /\ IsSeq(Chunk(n)) /\ Len(Chunk(n)) = n /\ \A k \in 1..n : Chunk(n)[k] = body.input[taken + k]
         /\ Upto(body.input, taken + n) = Upto(body.input, taken) \o Chunk(n)
         /\ taken + n \in 0..Len(body.input) /\ IsSeq(Upto(body.input, taken))
<1> DEFINE s == body.input
           T == {s[k] : k \in 1..Len(s)}
           u == Chunk(n)
<1>1. s \in Seq(T) /\ Len(s) \in Nat /\ n \in Nat \ {0} /\ taken \in Nat /\ taken + n \in 0..Len(s)
  BY IsSeqOfItsOwn DEF IsSeq
<1>2. u = SubSeq(s, taken + 1, taken + n)
  BY DEF Chunk
<1> HIDE DEF T, u, s
<1>3. u \in Seq(T) /\ Len(u) = n /\ \A k \in 1..n : u[k] = s[taken + k]
  <2> DEFINE a == taken + 1
             z == taken + n
             l == IF a <= z THEN z - a + 1 ELSE 0
  <2>1. a \in 1..Len(s) /\ z \in 1..Len(s) /\ l = n
    BY <1>1
  <2>2. SubSeq(s, a, z) \in Seq(T) /\ Len(SubSeq(s, a, z)) = l /\ \A k \in 1..l : SubSeq(s, a, z)[k] = s[k + a - 1]
    BY <1>1, <2>1
  <2>3. \A k \in 1..n : k + a - 1 = taken + k
    BY <1>1
  <2> HIDE DEF l
  <2>4. \A k \in 1..n : u[k] = s[taken + k]
    BY <1>2, <2>1, <2>2, <2>3
  <2> QED
    BY <1>2, <2>1, <2>2, <2>4
<1>4. IsSeq(u)
  BY <1>3, SeqIsSeq
<1> DEFINE v == Upto(s, taken)
           w == Upto(s, taken + n)
<1>5. /\ IsSeq(v) /\ Len(v) = taken /\ \A k \in 1..taken : v[k] = s[k]
      /\ IsSeq(w) /\ Len(w) = taken + n /\ \A k \in 1..(taken + n) : w[k] = s[k]
  <2>1. IsSeq(s)
    BY DEF s
  <2>2. taken \in 0..Len(s)
    BY DEF s
  <2> QED
    BY <1>1, <2>1, <2>2, UptoIsSeq
<1> HIDE DEF v, w
<1>6. w = v \o u
  <2>1. Len(w) = Len(v) + Len(u)
    BY <1>3, <1>5
  <2>2. \A k \in 1..Len(v) : w[k] = v[k]
    BY <1>1, <1>5
  <2>3. \A k \in 1..Len(u) : w[Len(v) + k] = u[k]
    BY <1>1, <1>3, <1>5
  <2> QED
    BY <1>4, <1>5, <2>1, <2>2, <2>3, ConcatIsIt
<1> QED
  BY <1>1, <1>3, <1>4, <1>5, <1>6 DEF u, v, w, s

LEMMA CodedChunk ==
  ASSUME IsSeq(body.input), taken \in 0..Len(body.input), NEW n \in 1..Len(body.input), taken + n <= Len(body.input),
         Intact(body), body.encoding # {}, NEW e
  PROVE  /\ ~ Refuses(Decoder(e, FALSE), Chunk(n))
         /\ Contains(Chunk(n), Trailer) <=> taken + n = Len(body.input)
         /\ taken # Len(body.input)
<1> DEFINE s == body.input
           text == Decoded(s)
           u == Chunk(n)
           l == Len(text)
<1>1. /\ IsSeq(text) /\ Len(s) = l + 1 /\ \A k \in 1..l : s[k] = Zipped(text[k])
      /\ s[Len(s)] = Trailer
  BY IntactIs
<1>2. IsSeq(u) /\ Len(u) = n /\ \A k \in 1..n : u[k] = s[taken + k]
  BY ChunkIs
<1>3. l \in Nat /\ taken \in Nat /\ n \in Nat \ {0} /\ taken + n <= Len(s)
  BY <1>1 DEF IsSeq
<1> HIDE DEF text, u, s, l
<1>4. DOMAIN u = 1..n
  BY <1>2, IsSeqOfItsOwn
<1>5. \A x : Zipped(x) # Trailer /\ Zipped(x)[1] = "zip"
  BY DEF Zipped, Trailer
<1>6. \A k \in 1..n : taken + k \in 1..l \/ (taken + k = l + 1 /\ k = n)
  BY <1>1, <1>3
<1>7. \A k \in 1..n : u[k][1] = "zip" \/ (u[k] = Trailer /\ k = n)
  <2> TAKE k \in 1..n
  <2>1. CASE taken + k \in 1..l
    BY <1>1, <1>2, <1>5, <2>1
  <2>2. CASE taken + k = l + 1 /\ k = n
    BY <1>1, <1>2, <2>2
  <2> QED
    BY <1>6, <2>1, <2>2
<1>8. ~ Refuses(Decoder(e, FALSE), u)
  <2>1. Decoder(e, FALSE).closed = FALSE
    BY DEF Decoder
  <2> QED
    BY <1>2, <1>4, <1>7, <2>1 DEF Refuses
<1>9. ASSUME taken + n = Len(s) PROVE Contains(u, Trailer)
  <2>1. n \in 1..n /\ u[n] = Trailer
    BY <1>1, <1>2, <1>3, <1>9
  <2> QED
    BY <1>2, <2>1 DEF Contains
<1>10. ASSUME taken + n # Len(s) PROVE ~ Contains(u, Trailer)
  <2>1. \A k \in 1..n : taken + k \in 1..l
    BY <1>1, <1>3, <1>10
  <2>2. \A k \in 1..n : u[k] # Trailer
    BY <1>1, <1>2, <1>5, <2>1
  <2> QED
    BY <1>2, <2>2 DEF Contains
<1>11. taken # Len(s)
  BY <1>1, <1>3
<1> QED
  BY <1>8, <1>9, <1>10, <1>11 DEF u, s

(* A body that no rewriter refuses, in chunks and decoded.                 *)
LEMMA ClearChunk ==
  ASSUME IsSeq(body.input), taken \in 0..Len(body.input), NEW n \in 1..Len(body.input),
         taken + n <= Len(body.input), Clear(body)
  PROVE  Readable(Chunk(n)) /\ Readable(Decoded(Chunk(n)))
<1> DEFINE u == Chunk(n)
           p == Units(u)
<1>1. IsSeq(u) /\ Len(u) = n /\ \A k \in 1..n : u[k] = body.input[taken + k]
  BY ChunkIs
<1>2. \A k \in 1..n : taken + k \in DOMAIN body.input
  <2>1. DOMAIN body.input = 1..Len(body.input) /\ Len(body.input) \in Nat
    BY IsSeqOfItsOwn DEF IsSeq
  <2> QED
    BY <2>1
<1>3. \A k \in 1..n : ~ IsOdd(u[k]) /\ (u[k][1] = "zip" => ~ IsOdd(u[k][2]))
  <2> HIDE DEF u
  <2> QED
    BY <1>1, <1>2, Zenon DEF Clear
<1> HIDE DEF u
<1>4. Readable(u)
  BY <1>1, <1>3 DEF Readable
<1>5. AllSeqs(p) /\ Len(p) = n
  BY <1>1, UnitsAreSeqs
<1>6. Decoded(u) = FlattenSeq(p)
  BY Zenon DEF Decoded, Units
<1>7. \A k \in 1..n : p[k] = IF u[k][1] = "zip" THEN <<u[k][2]>> ELSE <<>>
  <2>1. DOMAIN u = 1..n
    BY <1>1, IsSeqOfItsOwn
  <2> QED
    BY <2>1, Zenon DEF Units
<1> HIDE DEF p
<1>8. ASSUME NEW k \in 1..n, NEW j \in 1..Len(p[k]) PROVE ~ IsOdd(p[k][j])
  <2>1. Len(<<>>) = 0 /\ Len(<<u[k][2]>>) = 1 /\ <<u[k][2]>>[1] = u[k][2]
    OBVIOUS
  <2>2. CASE u[k][1] = "zip"
    <3>1. p[k] = <<u[k][2]>>
      BY <1>7, <2>2
    <3>2. j = 1
      <4>1. j \in 1..1
        BY <1>8, <2>1, <3>1
      <4> QED
        BY <4>1
    <3> QED
      BY <1>3, <2>1, <2>2, <3>1, <3>2
  <2>3. CASE u[k][1] # "zip"
    <3>1. p[k] = <<>>
      BY <1>7, <2>3
    <3>2. j \in 1..0
      BY <1>8, <2>1, <3>1
    <3> QED
      BY <3>2
  <2> QED
    BY <2>2, <2>3
<1>9. Readable(FlattenSeq(p))
  <2> DEFINE f == FlattenSeq(p)
  <2>1. SUFFICES ASSUME NEW i \in 1..Len(f) PROVE ~ IsOdd(f[i])
    BY DEF Readable
  <2>2. PICK k \in 1..Len(p) : \E j \in 1..Len(p[k]) : f[i] = p[k][j]
    BY <1>5, FlattenHas
  <2> HIDE DEF f
  <2> QED
    BY <1>5, <1>8, <2>2
<1> QED
  BY <1>4, <1>6, <1>9 DEF u

LetsAlone ==
  /\ chain = <<>> /\ inError = FALSE /\ out = Upto(body.input, taken) /\ phase # "panicked"

KeepsText ==
  /\ BodyVariables(body.registry) # {} /\ body.encoding = {}
  /\ Clear(body) =>
       /\ inError = FALSE /\ phase # "panicked"
       /\ phase = "body" =>
            out = <<>> /\ \E h, d : chain = OfText(h, d) /\ Holds(Upto(body.input, taken), h, d)
       /\ phase = "end" => out = body.input

KeepsCoded ==
  /\ BodyVariables(body.registry) # {} /\ body.encoding # {}
  /\ Intact(body) /\ Clear(body) =>
       /\ inError = FALSE /\ phase # "panicked"
       /\ phase = "body" =>
            /\ out = <<>>
            /\ \E e, h, d : /\ chain = OfCode(e, taken = Len(body.input), h, d)
                            /\ Holds(Decoded(Upto(body.input, taken)), h, d)
       /\ phase = "end" => out = body.input

Untouched ==
  /\ phase \in {"headers", "body", "end", "panicked"}
  /\ phase = "headers" => taken = 0 /\ out = <<>> /\ inError = FALSE
  /\ phase # "headers" /\ body.filters = <<>> /\ IsSeq(body.input) =>
       /\ taken \in 0..Len(body.input) /\ (phase = "end" => taken = Len(body.input))
       /\ LetsAlone \/ KeepsText \/ KeepsCoded

LEMMA CaptureListens ==
  ASSUME NEW r, NEW u
  PROVE  Listens(Capture(r)) /\ Holds(<<>>, Capture(r), <<>>)
<1> DEFINE h == Capture(r)
<1>1. /\ IsVisitor(h) /\ h.kind = "html" /\ h.selector = {} /\ h.held = <<>> /\ h.open = <<>>
      /\ h.broken = FALSE
  BY DEF Capture, Visitor, IsVisitor
<1> HIDE DEF h
<1>2. IsSeq(<<>>) /\ Len(<<>>) = 0 /\ <<>> \o <<>> = <<>>
  BY EmptyIsSeq, ConcatEmpty
<1>4. Readable(<<>>)
  BY <1>2 DEF Readable
<1>3. Listens(h)
  BY <1>1, <1>2, <1>4 DEF Listens
<1> QED
  BY <1>1, <1>2, <1>3 DEF Holds, h

LEMMA FourJoined ==
  ASSUME NEW w, NEW x, NEW y, NEW z
  PROVE  <<w>> \o <<x, y>> \o <<z>> = <<w, x, y, z>>
<1>1. IsSeq(<<w>>) /\ IsSeq(<<x>>) /\ IsSeq(<<y>>) /\ IsSeq(<<z>>)
  BY OneIsSeq
<1>2. <<x, y>> = <<x>> \o <<y>>
  BY <1>1, AppendsTwo, AppendedIsSeq
<1>3. <<w, x>> = <<w>> \o <<x>> /\ IsSeq(<<w, x>>)
  <2>1. Append(<<w>>, x) = <<w, x>>
    BY AppendsTwo
  <2> QED
    BY <1>1, <2>1, AppendedIsSeq
<1>4. <<w, x, y>> = <<w, x>> \o <<y>> /\ IsSeq(<<w, x, y>>)
  <2>1. Append(<<w, x>>, y) = <<w, x, y>>
    BY AppendsThree
  <2> QED
    BY <1>3, <2>1, AppendedIsSeq
<1>5. <<w, x, y, z>> = <<w, x, y>> \o <<z>>
  <2>1. Append(<<w, x, y>>, z) = <<w, x, y, z>>
    BY AppendsFour
  <2> QED
    BY <1>4, <2>1, AppendedIsSeq
<1>6. <<w>> \o (<<x>> \o <<y>>) = (<<w>> \o <<x>>) \o <<y>>
  <2> DEFINE a == <<w>>
             b == <<x>>
             c == <<y>>
  <2>1. IsSeq(a) /\ IsSeq(b) /\ IsSeq(c)
    BY <1>1
  <2> HIDE DEF a, b, c
  <2>2. a \o (b \o c) = (a \o b) \o c
    BY <2>1, ConcatThree
  <2> QED
    BY <2>2 DEF a, b, c
<1> QED
  BY <1>2, <1>3, <1>4, <1>5, <1>6, Zenon

(* The chain of a body without a filter.                                   *)
LEMMA ChainWithoutFilters ==
  ASSUME NEW b, b.filters = <<>>
  PROVE  \/ NewChain(b) = <<>>
         \/ /\ BodyVariables(b.registry) # {}
            /\ \/ b.encoding = {} /\ NewChain(b) = OfText(Capture(b.registry), <<>>)
               \/ b.encoding # {} /\ NewChain(b) = OfCode(b.encoding, FALSE, Capture(b.registry), <<>>)
<1> DEFINE items == Capturing(b, Items(b))
           c == Capture(b.registry)
<1>1. Items(b) = <<>>
  <2>1. [k \in DOMAIN <<>> |-> SetToSeq(Item(b.filters[k], b.contentType))] = <<>>
    OBVIOUS
  <2> QED
    BY <2>1, FlattenEmpty DEF Items
<1>2. Buffer = Keeping(<<>>)
  BY DEF Buffer, Keeping
<1>3. items = <<>> \/ (BodyVariables(b.registry) # {} /\ items = OfText(c, <<>>))
  <2> DEFINE x == <<c, Keeping(<<>>)>>
  <2> HIDE DEF c
  <2>1. IsSeq(x)
    <3>1. x \in Seq({c, Keeping(<<>>)})
      OBVIOUS
    <3> QED
      BY <3>1, SeqIsSeq
  <2> HIDE DEF x
  <2>2. x \o <<>> = x
    BY <2>1, ConcatEmpty
  <2>3. CASE BodyVariables(b.registry) # {} /\ IsHtml(b.contentType)
    <3>1. Capturing(b, <<>>) = x \o <<>>
      BY <1>2, <2>3, Zenon DEF Capturing, x, c
    <3> QED
      BY <1>1, <2>2, <2>3, <3>1 DEF OfText, x
  <2>4. CASE ~ (BodyVariables(b.registry) # {} /\ IsHtml(b.contentType))
    BY <1>1, <2>4 DEF Capturing
  <2> QED
    BY <2>3, <2>4
<1>4. NewChain(b) = IF items = <<>> \/ b.encoding = {} THEN items
                    ELSE IF b.encoding \cap {"gzip", "br", "deflate"} # {}
                         THEN <<[kind |-> "decode", encoding |-> b.encoding, closed |-> FALSE]>>
                                \o items \o <<[kind |-> "encode"]>>
                         ELSE <<>>
  BY DEF NewChain
<1>5. <<Decoder(b.encoding, FALSE)>> \o OfText(c, <<>>) \o <<Encoder>> = OfCode(b.encoding, FALSE, c, <<>>)
  <2> DEFINE w == Decoder(b.encoding, FALSE)
             y == Keeping(<<>>)
             z == Encoder
  <2> HIDE DEF w, y, z, c
  <2>1. <<w>> \o <<c, y>> \o <<z>> = <<w, c, y, z>>
    BY FourJoined
  <2> QED
    BY <2>1 DEF OfText, OfCode, w, y, z
<1> HIDE DEF items, c
<1>6. CASE items = <<>>
  BY <1>4, <1>6, Zenon
<1>7. CASE items # <<>> /\ b.encoding = {}
  BY <1>3, <1>4, <1>7 DEF c
<1>8. CASE items # <<>> /\ b.encoding # {}
  <2>1. CASE b.encoding \cap {"gzip", "br", "deflate"} # {}
    <3>1. NewChain(b) = <<Decoder(b.encoding, FALSE)>> \o items \o <<Encoder>>
      BY <1>4, <1>8, <2>1, Zenon DEF Decoder, Encoder
    <3> QED
      BY <1>3, <1>5, <1>8, <3>1 DEF c
  <2>2. CASE b.encoding \cap {"gzip", "br", "deflate"} = {}
    BY <1>4, <1>8, <2>2
  <2> QED
    BY <2>1, <2>2
<1> QED
  BY <1>6, <1>7, <1>8

LEMMA UntouchedBegins ==
  ASSUME Untouched, NEW b, Begin(b)
  PROVE  Untouched'
<1>1. /\ phase = "headers" /\ phase' = "body" /\ body' = b /\ chain' = NewChain(b)
      /\ inError' = inError /\ taken' = taken /\ out' = out
  BY Zenon DEF Begin
<1>2. taken = 0 /\ out = <<>> /\ inError = FALSE
  BY <1>1 DEF Untouched
<1> SUFFICES ASSUME b.filters = <<>>, IsSeq(b.input)
             PROVE  (LetsAlone \/ KeepsText \/ KeepsCoded)' /\ 0 \in 0..Len(b.input)
  BY <1>1, <1>2, Zenon DEF Untouched
<1>3. Len(b.input) \in Nat /\ 0 \in 0..Len(b.input)
  BY DEF IsSeq
<1>4. Upto(b.input, 0) = <<>>
  BY UptoNone
<1>5. Holds(<<>>, Capture(b.registry), <<>>)
  BY CaptureListens
<1>6. CASE NewChain(b) = <<>>
  <2>1. LetsAlone'
    BY <1>1, <1>2, <1>4, <1>6 DEF LetsAlone
  <2> QED
    BY <1>3, <2>1
<1>7. CASE /\ BodyVariables(b.registry) # {} /\ b.encoding = {}
           /\ NewChain(b) = OfText(Capture(b.registry), <<>>)
  <2>1. KeepsText'
    BY <1>1, <1>2, <1>4, <1>5, <1>7, Zenon DEF KeepsText
  <2> QED
    BY <1>3, <2>1
<1>8. CASE /\ BodyVariables(b.registry) # {} /\ b.encoding # {}
           /\ NewChain(b) = OfCode(b.encoding, FALSE, Capture(b.registry), <<>>)
  <2>1. ASSUME Intact(b) PROVE (0 = Len(b.input)) = FALSE
    <3>1. Len(b.input) = Len(Decoded(b.input)) + 1 /\ IsSeq(Decoded(b.input))
      BY <1>8, <2>1, IntactIs
    <3>2. Len(Decoded(b.input)) \in Nat
      BY <3>1 DEF IsSeq
    <3> QED
      BY <3>1, <3>2
  <2>2. Decoded(<<>>) = <<>>
    <3>1. Units(<<>>) = <<>>
      BY DEF Units
    <3> QED
      BY <3>1, FlattenEmpty DEF Decoded, Units
  <2>3. KeepsCoded'
    <3>1. phase' # "end" /\ phase' # "panicked" /\ BodyVariables(body'.registry) # {} /\ body'.encoding # {} /\ inError' = FALSE /\ out' = <<>>
      BY <1>1, <1>2, <1>8
    <3>2. ASSUME Intact(b)
          PROVE  /\ chain' = OfCode(b.encoding, taken' = Len(body'.input), Capture(b.registry), <<>>)
                 /\ Holds(Decoded(Upto(body'.input, taken')), Capture(b.registry), <<>>)
      BY <1>1, <1>2, <1>4, <1>5, <1>8, <2>1, <2>2, <3>2
    <3>3. Intact(body') = Intact(b)
      BY <1>1
    <3> QED
      BY <3>1, <3>2, <3>3, Zenon DEF KeepsCoded
  <2> QED
    BY <1>3, <2>3
<1> QED
  BY <1>6, <1>7, <1>8, ChainWithoutFilters

LEMMA UntouchedFilters ==
  ASSUME Untouched, NEW n \in 1..Len(body.input), Filter(n)
  PROVE  Untouched'
<1> DEFINE s == FilterChain(Chunk(n))
           u == Upto(body.input, taken)
<1>1. /\ phase = "body" /\ phase' = "body" /\ taken + n <= Len(body.input) /\ taken' = taken + n
      /\ body' = body
  BY Zenon DEF Filter
<1>2. inError = FALSE => /\ inError' = s.refused /\ chain' = s.chain
                         /\ out' = out \o (IF s.refused THEN Chunk(n) ELSE s.data)
  BY Zenon DEF Filter
<1> SUFFICES ASSUME body.filters = <<>>, IsSeq(body.input)
             PROVE  (LetsAlone \/ KeepsText \/ KeepsCoded)' /\ taken + n \in 0..Len(body.input)
  BY <1>1, Zenon DEF Untouched
<1>3. taken \in 0..Len(body.input) /\ (LetsAlone \/ KeepsText \/ KeepsCoded)
  BY <1>1 DEF Untouched
<1>4. /\ IsSeq(Chunk(n)) /\ Upto(body.input, taken + n) = u \o Chunk(n)
      /\ taken + n \in 0..Len(body.input) /\ IsSeq(u)
  BY <1>1, <1>3, ChunkIs
<1> HIDE DEF s, u
<1>5. CASE LetsAlone
  <2>1. chain = <<>> /\ inError = FALSE /\ out = u
    BY <1>5 DEF LetsAlone, u
  <2>2. s = Through(<<>>, Chunk(n), registry, trace, FALSE)
    BY <2>1, ThroughNone DEF s
  <2>3. inError' = FALSE /\ chain' = <<>> /\ out' = u \o Chunk(n)
    BY <1>2, <2>1, <2>2 DEF Through
  <2>4. LetsAlone'
    BY <1>1, <1>4, <2>3 DEF LetsAlone
  <2> QED
    BY <1>4, <2>4
<1>6. CASE KeepsText
  <2>1. BodyVariables(body.registry) # {} /\ body.encoding = {}
    BY <1>6 DEF KeepsText
  <2>2. ASSUME Clear(body)
        PROVE  /\ inError' = FALSE /\ out' = <<>>
               /\ \E h, d : chain' = OfText(h, d) /\ Holds(Upto(body.input, taken + n), h, d)
    <3>1. /\ inError = FALSE /\ out = <<>>
          /\ \E h, d : chain = OfText(h, d) /\ Holds(u, h, d)
      BY <1>1, <1>6, <2>2 DEF KeepsText, u
    <3>2. PICK h, d : chain = OfText(h, d) /\ Holds(u, h, d)
      BY <3>1
    <3>7. Readable(Chunk(n))
      BY <1>1, <1>3, <2>2, ClearChunk
    <3>3. PICK g, e, r, t : s = Through(OfText(g, e), <<>>, r, t, FALSE) /\ Holds(u \o Chunk(n), g, e)
      BY <1>4, <3>2, <3>7, PlainChain DEF s
    <3>4. inError' = FALSE /\ chain' = OfText(g, e) /\ out' = <<>> \o <<>>
      BY <1>2, <3>1, <3>3 DEF Through
    <3>5. <<>> \o <<>> = <<>>
      BY EmptyIsSeq, ConcatEmpty
    <3>6. Holds(Upto(body.input, taken + n), g, e)
      BY <1>4, <3>3
    <3> QED
      BY <3>4, <3>5, <3>6, Zenon
  <2>7. KeepsText'
    BY <1>1, <2>1, <2>2, Zenon DEF KeepsText
  <2> QED
    BY <1>4, <2>7
<1>7. CASE KeepsCoded
  <2> DEFINE b == taken + n = Len(body.input)
  <2>1. BodyVariables(body.registry) # {} /\ body.encoding # {}
    BY <1>7 DEF KeepsCoded
  <2>2. ASSUME Intact(body), Clear(body)
        PROVE  /\ inError' = FALSE /\ out' = <<>>
               /\ \E e, h, d : /\ chain' = OfCode(e, b, h, d)
                               /\ Holds(Decoded(Upto(body.input, taken + n)), h, d)
    <3>1. /\ inError = FALSE /\ out = <<>>
          /\ \E e, h, d : chain = OfCode(e, taken = Len(body.input), h, d) /\ Holds(Decoded(u), h, d)
      BY <1>1, <1>7, <2>2 DEF KeepsCoded, u
    <3>2. PICK e, h, d : chain = OfCode(e, taken = Len(body.input), h, d) /\ Holds(Decoded(u), h, d)
      BY <3>1
    <3>3. /\ ~ Refuses(Decoder(e, FALSE), Chunk(n)) /\ (Contains(Chunk(n), Trailer) <=> b)
          /\ taken # Len(body.input)
      BY <1>1, <1>3, <2>1, <2>2, CodedChunk
    <3>4. chain = OfCode(e, FALSE, h, d)
      <4>1. (taken = Len(body.input)) = FALSE
        BY <3>3
      <4> QED
        BY <3>2, <4>1
    <3>5. /\ IsSeq(Decoded(u)) /\ IsSeq(Decoded(Chunk(n)))
          /\ Decoded(u \o Chunk(n)) = Decoded(u) \o Decoded(Chunk(n))
      BY <1>4, DecodedConcat
    <3>11. Readable(Decoded(Chunk(n)))
      BY <1>1, <1>3, <2>2, ClearChunk
    <3>6. b \in BOOLEAN /\ (b <=> Contains(Chunk(n), Trailer))
      BY <3>3
    <3> HIDE DEF b
    <3>7. PICK g, f, r, t : /\ s = Through(OfCode(e, b, g, f), <<>>, r, t, FALSE)
                            /\ Holds(Decoded(u) \o Decoded(Chunk(n)), g, f)
      BY <3>2, <3>3, <3>4, <3>5, <3>6, <3>11, CodedChainFilters DEF s
    <3>8. inError' = FALSE /\ chain' = OfCode(e, b, g, f) /\ out' = <<>> \o <<>>
      BY <1>2, <3>1, <3>7 DEF Through
    <3>9. <<>> \o <<>> = <<>>
      BY EmptyIsSeq, ConcatEmpty
    <3>10. Holds(Decoded(Upto(body.input, taken + n)), g, f)
      BY <1>4, <3>5, <3>7
    <3> QED
      BY <3>8, <3>9, <3>10, Zenon
  <2>3. KeepsCoded'
    BY <1>1, <2>1, <2>2, Zenon DEF KeepsCoded
  <2> QED
    BY <1>4, <2>3
<1> QED
  BY <1>3, <1>5, <1>6, <1>7

LEMMA UntouchedEnds ==
  ASSUME Untouched, End
  PROVE  Untouched'
<1> DEFINE s == EndChain
<1>1. /\ phase = "body" /\ phase' = "end" /\ taken = Len(body.input) /\ taken' = taken
      /\ body' = body /\ chain' = chain /\ inError' = inError
  BY Zenon DEF End
<1>2. ~ inError /\ ~ s.refused => out' = out \o s.data
  BY Zenon DEF End
<1> SUFFICES ASSUME body.filters = <<>>, IsSeq(body.input)
             PROVE  (LetsAlone \/ KeepsText \/ KeepsCoded)' /\ taken \in 0..Len(body.input)
  BY <1>1, Zenon DEF Untouched
<1>3. taken \in 0..Len(body.input) /\ (LetsAlone \/ KeepsText \/ KeepsCoded)
  BY <1>1 DEF Untouched
<1>4. Upto(body.input, taken) = body.input /\ <<>> \o body.input = body.input
  BY <1>1, UptoAll, ConcatEmpty
<1> HIDE DEF s
<1>5. CASE LetsAlone
  <2>1. chain = <<>> /\ inError = FALSE /\ out = body.input
    BY <1>4, <1>5 DEF LetsAlone
  <2>2. s = Through(<<>>, <<>>, registry, trace, FALSE)
    BY <2>1, ThroughNone DEF s
  <2>3. out' = body.input \o <<>>
    BY <1>2, <2>1, <2>2 DEF Through
  <2>4. out' = body.input
    BY <2>3, ConcatEmpty
  <2>5. LetsAlone'
    BY <1>1, <1>4, <2>1, <2>4 DEF LetsAlone
  <2> QED
    BY <1>3, <2>5
<1>6. CASE KeepsText
  <2>1. BodyVariables(body.registry) # {} /\ body.encoding = {}
    BY <1>6 DEF KeepsText
  <2>2. ASSUME Clear(body) PROVE inError = FALSE /\ out' = body.input
    <3>1. /\ inError = FALSE /\ out = <<>>
          /\ \E h, d : chain = OfText(h, d) /\ Holds(body.input, h, d)
      BY <1>1, <1>4, <1>6, <2>2 DEF KeepsText
    <3>2. PICK h, d : chain = OfText(h, d) /\ Holds(body.input, h, d)
      BY <3>1
    <3>3. PICK r, t : s = Through(<<>>, body.input, r, t, FALSE)
      BY <3>2, PlainChain DEF s
    <3> QED
      BY <1>2, <1>4, <3>1, <3>3 DEF Through
  <2>5. KeepsText'
    BY <1>1, <2>1, <2>2, Zenon DEF KeepsText
  <2> QED
    BY <1>3, <2>5
<1>7. CASE KeepsCoded
  <2>1. BodyVariables(body.registry) # {} /\ body.encoding # {}
    BY <1>7 DEF KeepsCoded
  <2>2. ASSUME Intact(body), Clear(body) PROVE inError = FALSE /\ out' = body.input
    <3> DEFINE text == Decoded(body.input)
    <3>1. /\ inError = FALSE /\ out = <<>>
          /\ \E e, h, d : chain = OfCode(e, taken = Len(body.input), h, d) /\ Holds(text, h, d)
      BY <1>1, <1>4, <1>7, <2>2 DEF KeepsCoded
    <3>2. PICK e, h, d : chain = OfCode(e, taken = Len(body.input), h, d) /\ Holds(text, h, d)
      BY <3>1
    <3>3. chain = OfCode(e, TRUE, h, d)
      <4>1. (taken = Len(body.input)) = TRUE
        BY <1>1
      <4> QED
        BY <3>2, <4>1
    <3>4. IsSeq(text) /\ body.input = Coded(text) \o <<Trailer>>
      BY <2>1, <2>2, IntactIs
    <3> HIDE DEF text
    <3>5. PICK r, t : s = Through(<<>>, Coded(text) \o <<Trailer>>, r, t, FALSE)
      BY <3>2, <3>3, <3>4, CodedChainEnds DEF s
    <3>6. s = Through(<<>>, body.input, r, t, FALSE)
      BY <3>4, <3>5
    <3>7. s.refused = FALSE /\ s.data = body.input
      BY <3>6 DEF Through
    <3> QED
      BY <1>2, <1>4, <3>1, <3>7
  <2>3. KeepsCoded'
    BY <1>1, <2>1, <2>2, Zenon DEF KeepsCoded
  <2> QED
    BY <1>3, <2>3
<1> QED
  BY <1>3, <1>5, <1>6, <1>7

(* What is clear does not come to a broken rewriter.                       *)
LEMMA UntouchedPanics ==
  ASSUME Untouched, Panic
  PROVE  Untouched'
<1>1. /\ phase = "body" /\ phase' = "panicked" /\ taken' = taken /\ body' = body /\ ~ inError
      /\ \/ \E n \in 1..(Len(body.input) - taken) : FilterChain(Chunk(n)).panicked
         \/ taken = Len(body.input) /\ EndChain.panicked
  BY Zenon DEF Panic
<1> SUFFICES ASSUME body.filters = <<>>, IsSeq(body.input)
             PROVE  (LetsAlone \/ KeepsText \/ KeepsCoded)' /\ taken \in 0..Len(body.input)
  BY <1>1, Zenon DEF Untouched
<1>2. taken \in 0..Len(body.input) /\ (LetsAlone \/ KeepsText \/ KeepsCoded)
  BY <1>1 DEF Untouched
<1>3. \A n \in 1..(Len(body.input) - taken) : n \in 1..Len(body.input) /\ taken + n <= Len(body.input)
  <2>1. Len(body.input) \in Nat
    BY DEF IsSeq
  <2> QED
    BY <1>2, <2>1
<1>4. \A c, d, r, t : ~ Through(c, d, r, t, FALSE).panicked
  BY DEF Through
<1>5. CASE LetsAlone
  <2>1. ~ EndChain.panicked /\ \A n : ~ FilterChain(Chunk(n)).panicked
    BY <1>4, <1>5, ThroughNone DEF LetsAlone
  <2> QED
    BY <1>1, <2>1
<1>6. CASE KeepsText
  <2>1. BodyVariables(body.registry) # {} /\ body.encoding = {}
    BY <1>6 DEF KeepsText
  <2>2. ASSUME Clear(body) PROVE FALSE
    <3> DEFINE u == Upto(body.input, taken)
    <3>1. PICK h, d : chain = OfText(h, d) /\ Holds(u, h, d)
      BY <1>1, <1>6, <2>2 DEF KeepsText
    <3>2. IsSeq(u)
      BY <1>2, UptoIsSeq
    <3> HIDE DEF u
    <3>3. ~ EndChain.panicked
      <4>1. PICK r, t : EndChain = Through(<<>>, u, r, t, FALSE)
        BY <3>1, <3>2, PlainChain
      <4> QED
        BY <1>4, <4>1
    <3>4. ASSUME NEW n \in 1..(Len(body.input) - taken) PROVE ~ FilterChain(Chunk(n)).panicked
      <4>1. IsSeq(Chunk(n)) /\ Readable(Chunk(n))
        BY <1>2, <1>3, <2>2, ChunkIs, ClearChunk
      <4> DEFINE data == Chunk(n)
      <4> HIDE DEF data
      <4>2. PICK g, e, r, t : FilterChain(data) = Through(OfText(g, e), <<>>, r, t, FALSE) /\ Holds(u \o data, g, e)
        BY <3>1, <3>2, <4>1, PlainChain DEF data
      <4> QED
        BY <1>4, <4>2 DEF data
    <3> QED
      BY <1>1, <3>3, <3>4
  <2>3. KeepsText'
    BY <1>1, <2>1, <2>2, Zenon DEF KeepsText
  <2> QED
    BY <1>2, <2>3
<1>7. CASE KeepsCoded
  <2>1. BodyVariables(body.registry) # {} /\ body.encoding # {}
    BY <1>7 DEF KeepsCoded
  <2>2. ASSUME Intact(body), Clear(body) PROVE FALSE
    <3> DEFINE u == Upto(body.input, taken)
    <3>1. PICK e, h, d : chain = OfCode(e, taken = Len(body.input), h, d) /\ Holds(Decoded(u), h, d)
      BY <1>1, <1>7, <2>2 DEF KeepsCoded
    <3>2. IsSeq(u) /\ IsSeq(Decoded(u))
      BY <1>2, UptoIsSeq, DecodedConcat
    <3> HIDE DEF u
    <3>3. ASSUME taken = Len(body.input) PROVE ~ EndChain.panicked
      <4>1. (taken = Len(body.input)) = TRUE
        BY <3>3
      <4>2. chain = OfCode(e, TRUE, h, d)
        BY <3>1, <4>1
      <4> QED
        BY <1>4, <3>1, <3>2, <4>2, CodedChainEnds
    <3>4. ASSUME NEW n \in 1..(Len(body.input) - taken) PROVE ~ FilterChain(Chunk(n)).panicked
      <4> DEFINE b == taken + n = Len(body.input)
                 data == Chunk(n)
      <4>1. n \in 1..Len(body.input) /\ taken + n <= Len(body.input)
        BY <1>3
      <4>2. IsSeq(data) /\ Readable(Decoded(data))
        BY <1>2, <2>2, <4>1, ChunkIs, ClearChunk
      <4>3. /\ ~ Refuses(Decoder(e, FALSE), data) /\ (Contains(data, Trailer) <=> b)
            /\ taken # Len(body.input)
        BY <1>2, <2>1, <2>2, <4>1, CodedChunk
      <4>4. IsSeq(Decoded(data))
        BY <4>2, DecodedConcat
      <4>5. (taken = Len(body.input)) = FALSE
        BY <4>3
      <4>6. chain = OfCode(e, FALSE, h, d)
        BY <3>1, <4>5
      <4>7. b \in BOOLEAN
        OBVIOUS
      <4> HIDE DEF b, data
      <4>8. PICK g, f, r, t : /\ FilterChain(data) = Through(OfCode(e, b, g, f), <<>>, r, t, FALSE)
                              /\ Holds(Decoded(u) \o Decoded(data), g, f)
        BY <3>1, <3>2, <4>2, <4>3, <4>4, <4>6, <4>7, CodedChainFilters
      <4> QED
        BY <1>4, <4>8 DEF data
    <3> QED
      BY <1>1, <3>3, <3>4
  <2>3. KeepsCoded'
    BY <1>1, <2>1, <2>2, Zenon DEF KeepsCoded
  <2> QED
    BY <1>2, <2>3
<1> QED
  BY <1>2, <1>5, <1>6, <1>7

Late == stage \in {"headers", "create", "body", "tags", "done"}

QuietInv ==
  /\ Untouched
  /\ stage \in {"tags", "done"} => phase = "end"
  /\ phase = "panicked" => stage = "body"
  /\ Late => IsSeq(backend.body)
  /\ Late /\ ~ NeedProxification =>
       /\ asked = 0 \/ status = 0
       /\ stage # "headers" => headers = backend.headers
       /\ stage \in {"body", "tags", "done"} => body.filters = <<>> /\ body.input = backend.body

LEMMA QuietTells == QuietInv => NoProxyNoChange
<1> SUFFICES ASSUME QuietInv, ~ NeedProxification
             PROVE  /\ stage = "done" =>
                         /\ headers = backend.headers
                         /\ out = backend.body \/ ReadInVain
                         /\ asked = 0 \/ status = 0
                    /\ phase = "panicked" => ReadInVain
  BY Zenon DEF NoProxyNoChange
<1>1. ASSUME stage = "done" \/ phase = "panicked"
      PROVE  /\ asked = 0 \/ status = 0
             /\ headers = backend.headers /\ body.filters = <<>> /\ body.input = backend.body
             /\ IsSeq(body.input) /\ phase # "headers" /\ (stage = "done" => phase = "end")
  BY <1>1 DEF QuietInv, Late
<1>2. ASSUME stage = "done" \/ phase = "panicked"
      PROVE  /\ phase = "end" => taken = Len(body.input)
             /\ LetsAlone \/ KeepsText \/ KeepsCoded
  BY <1>1, <1>2 DEF QuietInv, Untouched
<1>3. ASSUME phase = "end", stage = "done" PROVE out = body.input \/ ReadInVain
  <2>1. CASE LetsAlone
    BY <1>1, <1>2, <1>3, <2>1, UptoAll DEF LetsAlone
  <2>2. CASE KeepsText
    BY <1>3, <2>2 DEF KeepsText, ReadInVain
  <2>3. CASE KeepsCoded
    BY <1>3, <2>3 DEF KeepsCoded, ReadInVain
  <2> QED
    BY <1>2, <1>3, <2>1, <2>2, <2>3
<1>4. ASSUME phase = "panicked" PROVE ReadInVain
  <2>1. CASE LetsAlone
    BY <1>4, <2>1 DEF LetsAlone
  <2>2. CASE KeepsText
    BY <1>4, <2>2 DEF KeepsText, ReadInVain
  <2>3. CASE KeepsCoded
    BY <1>4, <2>3 DEF KeepsCoded, ReadInVain
  <2> QED
    BY <1>2, <1>4, <2>1, <2>2, <2>3
<1> QED
  BY <1>1, <1>3, <1>4

LEMMA QuietInit == ResponseInit => QuietInv
<1> SUFFICES ASSUME ResponseInit PROVE QuietInv
  OBVIOUS
<1>1. stage = "rules" /\ phase = "headers" /\ taken = 0 /\ out = <<>> /\ inError = FALSE
  BY DEF ResponseInit, BodyInit
<1> QED
  BY <1>1 DEF QuietInv, Untouched, Late

LEMMA BodyVarsStay ==
  ASSUME Untouched, body' = body, chain' = chain, inError' = inError, taken' = taken, out' = out, phase' = phase
  PROVE  Untouched'
BY Zenon DEF Untouched, LetsAlone, KeepsText, KeepsCoded

(* An action that does not touch the body.                                 *)
LEMMA UnitsStay ==
  ASSUME Untouched, UNCHANGED unitVars
  PROVE  Untouched' /\ body' = body /\ phase' = phase
<1>1. /\ body' = body /\ chain' = chain /\ inError' = inError /\ taken' = taken /\ out' = out
      /\ phase' = phase
  BY DEF unitVars
<1> QED
  BY <1>1, BodyVarsStay

LEMMA QuietStatus ==
  ASSUME ~ NeedProxification, GetStatusCode(action.update, 0).value = {}, NEW code
  PROVE  GetStatusCode(action.update, code).value = {}
<1>1. \A d \in action.update : d.on.codes = {}
  BY DEF NeedProxification
<1>2. CASE action.update = {}
  BY <1>2 DEF GetStatusCode, Nothing
<1>3. CASE action.update # {}
  <2>1. \E d \in action.update : (0 = 0 /\ d.on.codes = {}) \/ (d.on.exclude <=> 0 \notin d.on.codes)
    BY <1>1, <1>3
  <2>2. GetStatusCode(action.update, 0) = Says(CHOOSE d \in action.update : TRUE)
    BY <1>3, <2>1, Zenon DEF GetStatusCode
  <2>3. FALSE
    BY <2>2 DEF Says
  <2> QED
    BY <2>3
<1> QED
  BY <1>2, <1>3

LEMMA NeedStays ==
  ASSUME action' = action
  PROVE  NeedProxification' = NeedProxification
BY DEF NeedProxification

LEMMA QuietAnswers ==
  ASSUME ResponseInv, QuietInv, AnswerAtOnce \/ AnswerBackend
  PROVE  QuietInv'
<1>1. /\ stage = "status" /\ stage' = "headers" /\ action' = action /\ UNCHANGED unitVars
      /\ rules \in Chosen
  BY Zenon DEF AnswerAtOnce, AnswerBackend, Give, ResponseInv, ActionInv
<1>2. Untouched' /\ phase' = phase
  BY <1>1, UnitsStay DEF QuietInv
<1>3. IsSeq(backend'.body) /\ (~ NeedProxification => asked' = 0 \/ status' = 0)
  <2>1. CASE AnswerAtOnce
    <3>1. backend'.body = <<>> /\ asked' = 0
      BY <2>1 DEF AnswerAtOnce
    <3> QED
      BY <3>1, EmptyIsSeq
  <2>2. CASE AnswerBackend
    <3>1. GetStatusCode(action.update, 0).value = {}
      BY <2>2, Zenon DEF AnswerBackend
    <3>2. PICK b \in Backend(rules) : backend' = b /\ Give(GetStatusCode(action.update, b.code))
      BY <2>2, Zenon DEF AnswerBackend
    <3>3. b.body \in Seq(Range(b.body))
      BY <1>1, BackendAssumption DEF IsText, IsSequence
    <3>4. ASSUME ~ NeedProxification PROVE status' = 0
      <4>1. GetStatusCode(action.update, b.code).value = {}
        BY <3>1, <3>4, QuietStatus
      <4>2. status' = IF GetStatusCode(action.update, b.code).value = {} THEN 0
                      ELSE CHOOSE v \in GetStatusCode(action.update, b.code).value : TRUE
        BY <3>2, Zenon DEF Give
      <4> QED
        BY <4>1, <4>2
    <3> QED
      BY <3>2, <3>3, <3>4, SeqIsSeq
  <2> QED
    BY <2>1, <2>2
<1>4. NeedProxification' = NeedProxification
  BY <1>1, NeedStays
<1> QED
  BY <1>1, <1>2, <1>3, <1>4 DEF QuietInv, Late

LEMMA FilterNone ==
  ASSUME NEW hs, NEW t
  PROVE  FilterAll(<<>>, hs, t).headers = hs
<1> DEFINE first == [headers |-> hs, trace |-> t]
           known == Known(<<>>)
           Steps(f) == f = [n \in 0..Len(known) |-> IF n = 0 THEN first ELSE FilterOne(known[n], f[n - 1])]
           f0 == CHOOSE f : Steps(f)
<1>1. known = <<>>
  <2>1. \A f : [k \in DOMAIN <<>> |-> f[k]] = <<>>
    OBVIOUS
  <2> QED
    BY <2>1, FlattenEmpty DEF Known
<1>2. FilterAll(<<>>, hs, t) = f0[Len(known)]
  BY Zenon DEF FilterAll
<1>3. Len(known) = 0
  BY <1>1
<1>4. Steps([n \in 0..0 |-> first])
  <2> HIDE DEF known, first
  <2>1. \A n \in 0..0 : n = 0
    OBVIOUS
  <2> QED
    BY <1>3, <2>1
<1>5. Steps(f0)
  <2> HIDE DEF Steps
  <2> QED
    BY <1>4, Zenon
<1> HIDE DEF f0, known, first
<1>6. f0[0] = first
  BY <1>3, <1>5
<1> QED
  BY <1>2, <1>3, <1>6 DEF first

LEMMA QuietHeaders == ResponseInv /\ QuietInv /\ FilterHeaders => QuietInv'
<1> SUFFICES ASSUME ResponseInv, QuietInv, FilterHeaders PROVE QuietInv'
  OBVIOUS
<1> DEFINE heard == Heard(action.headerFilters, backend.code)
           now(p) == IF p.variables = <<>> THEN p.filter
                     ELSE [p.filter EXCEPT !.value =
                             Replace(@, ResolveResponseHeaders(p.variables, backend.headers), TRUE)]
           fs == [k \in DOMAIN heard |-> now(heard[k])]
<1>1. /\ stage = "headers" /\ stage' = "create" /\ UNCHANGED unitVars
      /\ backend' = backend /\ asked' = asked /\ status' = status
      /\ headers' = FilterAll(fs, backend.headers, trace).headers
      /\ action' = [action EXCEPT !.tags = [k \in DOMAIN @ |-> TagsResolved(@[k], backend.headers)]]
  BY Zenon DEF FilterHeaders
<1>2. Untouched' /\ phase' = phase
  BY <1>1, UnitsStay DEF QuietInv
<1>3. ASSUME ~ NeedProxification PROVE headers' = backend.headers
  <2>1. action.headerFilters = <<>>
    BY <1>3 DEF NeedProxification
  <2>2. heard = <<>>
    <3>1. Pieces(<<>>, backend.code) = <<>>
      BY DEF Pieces
    <3> QED
      BY <2>1, <3>1, FlattenEmpty DEF Heard, Pieces
  <2> HIDE DEF heard
  <2>3. fs = <<>>
    BY <2>2
  <2> HIDE DEF fs
  <2> QED
    BY <1>1, <2>3, FilterNone
<1>4. NeedProxification' = NeedProxification
  <2>1. IsAction(action)
    BY DEF ResponseInv, ActionInv
  <2>2. /\ action'.update = action.update /\ action'.log = action.log
        /\ action'.headerFilters = action.headerFilters /\ action'.bodyFilters = action.bodyFilters
    BY <1>1, <2>1 DEF IsAction
  <2> QED
    BY <2>2 DEF NeedProxification
<1> HIDE DEF heard, fs
<1> QED
  BY <1>1, <1>2, <1>3, <1>4 DEF QuietInv, Late

LEMMA QuietCreate ==
  ASSUME QuietInv, NEW hs, CreateFilterBody(hs)
  PROVE  QuietInv'
<1> DEFINE heard == Heard(action.bodyFilters, backend.code)
           fs == FlattenSeq([k \in DOMAIN heard |-> Now(heard[k], hs)])
<1>1. /\ stage = "create" /\ stage' = "body" /\ UNCHANGED <<action, asked, status, backend, headers>>
      /\ Begin(BodyOfResponse(fs, hs))
  BY Zenon DEF CreateFilterBody, Now
<1>2. Untouched'
  BY <1>1, UntouchedBegins DEF QuietInv
<1>3. body' = BodyOfResponse(fs, hs)
  BY <1>1, Zenon DEF Begin
<1>4. body'.filters = fs /\ body'.input = backend.body
  <2> HIDE DEF fs
  <2> QED
    BY <1>3 DEF BodyOfResponse
<1>5. ASSUME ~ NeedProxification PROVE fs = <<>>
  <2>1. action.bodyFilters = <<>>
    BY <1>5 DEF NeedProxification
  <2>2. heard = <<>>
    <3>1. Pieces(<<>>, backend.code) = <<>>
      BY DEF Pieces
    <3> QED
      BY <2>1, <3>1, FlattenEmpty DEF Heard, Pieces
  <2> HIDE DEF heard
  <2>3. [k \in DOMAIN heard |-> Now(heard[k], hs)] = <<>>
    BY <2>2
  <2> QED
    BY <2>3, FlattenEmpty
<1>6. NeedProxification' = NeedProxification
  BY <1>1, NeedStays
<1> HIDE DEF fs
<1> QED
  BY <1>1, <1>2, <1>4, <1>5, <1>6 DEF QuietInv, Late

LEMMA QuietBody == QuietInv /\ FilterBody => QuietInv'
<1> SUFFICES ASSUME QuietInv, FilterBody PROVE QuietInv'
  OBVIOUS
<1>1. /\ stage = "body" /\ UNCHANGED responseVars
      /\ (\E n \in 1..Len(body.input) : Filter(n)) \/ End \/ Panic
  BY Zenon DEF FilterBody
<1>2. Untouched'
  <2>1. ASSUME NEW n \in 1..Len(body.input), Filter(n) PROVE Untouched'
    BY <2>1, UntouchedFilters DEF QuietInv
  <2>2. ASSUME End PROVE Untouched'
    BY <2>2, UntouchedEnds DEF QuietInv
  <2>3. ASSUME Panic PROVE Untouched'
    BY <2>3, UntouchedPanics DEF QuietInv
  <2> QED
    BY <1>1, <2>1, <2>2, <2>3, Zenon
<1>3. body' = body
  BY BodyStays
<1>4. /\ stage' = stage /\ action' = action /\ asked' = asked /\ status' = status
      /\ backend' = backend /\ headers' = headers
  BY <1>1 DEF responseVars
<1>5. NeedProxification' = NeedProxification
  BY <1>4, NeedStays
<1> QED
  BY <1>1, <1>2, <1>3, <1>4, <1>5 DEF QuietInv, Late

(* A call after the body, or before the backend is asked.                  *)
LEMMA QuietRest ==
  ASSUME QuietInv, UNCHANGED unitVars, UNCHANGED <<asked, backend, headers, status, action>>,
         stage' \in {"tags", "done"} => phase = "end", phase = "panicked" => stage' = "body",
         Late' = Late, stage = "headers" <=> stage' = "headers",
         stage' \in {"body", "tags", "done"} <=> stage \in {"body", "tags", "done"}
  PROVE  QuietInv'
<1>1. Untouched' /\ body' = body /\ phase' = phase
  BY UnitsStay DEF QuietInv
<1>2. NeedProxification' = NeedProxification
  BY NeedStays
<1> QED
  BY <1>1, <1>2 DEF QuietInv

LEMMA QuietStep == ResponseInv /\ QuietInv /\ [ResponseNext]_<<responseVars, bodyVars>> => QuietInv'
<1> SUFFICES ASSUME ResponseInv, QuietInv, [ResponseNext]_<<responseVars, bodyVars>> PROVE QuietInv'
  OBVIOUS
<1>1. CASE TakeRule
  <2>1. stage = "rules" /\ stage' = "rules" /\ UNCHANGED unitVars
    BY <1>1, Zenon DEF TakeRule
  <2>2. Untouched' /\ phase' = phase
    BY <2>1, UnitsStay DEF QuietInv
  <2> QED
    BY <2>1, <2>2 DEF QuietInv, Late
<1>2. CASE GetPeer
  <2>1. stage = "rules" /\ stage' = "request" /\ UNCHANGED unitVars
    BY <1>2, Zenon DEF GetPeer
  <2>2. Untouched' /\ phase' = phase
    BY <2>1, UnitsStay DEF QuietInv
  <2> QED
    BY <2>1, <2>2 DEF QuietInv, Late
<1>3. CASE FilterRequestHeaders
  <2>1. stage = "request" /\ stage' = "status" /\ UNCHANGED unitVars
    BY <1>3, Zenon DEF FilterRequestHeaders
  <2>2. Untouched' /\ phase' = phase
    BY <2>1, UnitsStay DEF QuietInv
  <2> QED
    BY <2>1, <2>2 DEF QuietInv, Late
<1>4. CASE ShouldLogRequest
  <2>1. /\ stage = "body" /\ phase = "end" /\ stage' = "tags" /\ UNCHANGED unitVars
        /\ UNCHANGED <<asked, backend, headers, status, action>>
    BY <1>4, Zenon DEF ShouldLogRequest
  <2> QED
    BY <2>1, QuietRest DEF Late
<1>5. CASE GetLogTags
  <2>1. /\ stage = "tags" /\ stage' = "done" /\ UNCHANGED unitVars
        /\ UNCHANGED <<asked, backend, headers, status, action>>
    BY <1>5, Zenon DEF GetLogTags
  <2>2. phase = "end"
    BY <2>1 DEF QuietInv
  <2> QED
    BY <2>1, <2>2, QuietRest DEF Late
<1>6. CASE UNCHANGED <<responseVars, bodyVars>>
  <2>1. /\ UNCHANGED unitVars /\ UNCHANGED <<asked, backend, headers, status, action>> /\ stage' = stage
    BY <1>6 DEF responseVars, bodyVars, unitVars
  <2> QED
    BY <2>1, QuietRest DEF Late, QuietInv
<1> QED
  BY <1>1, <1>2, <1>3, <1>4, <1>5, <1>6, QuietAnswers, QuietHeaders, QuietCreate, QuietBody DEF ResponseNext

LEMMA QuietAlways == ResponseSpec => []QuietInv
BY QuietInit, QuietStep, ResponseAlways, PTL DEF ResponseSpec

\* What need_proxification says can be relied on: an action of which it says
\* that the proxy need not look at the response gives no status once the backend
\* has answered, and the filters of such a response change none of its headers
\* and give its body out as it came. Only of a rule with a variable of the body a
\* coded body that is damaged or cut off comes out otherwise, and so does one with
\* markup that the rewriter refuses, which may also end in a panic.
THEOREM NoNeedNoChange == ResponseSpec => []NoProxyNoChange
BY QuietTells, QuietAlways, PTL

----------------------------------------------------------------------------
(* Where the body does not decode, the filters add nothing to it: first,   *)
(* that whatever comes out of the chain is a text.                         *)

LEMMA ReplacedIsGood ==
  ASSUME NEW s, GoodText(s), NEW vs, IsPairs(vs), NEW d \in BOOLEAN
  PROVE  GoodText(Replace(s, vs, d))
<1>1. Fixed(<<>>)
  BY EmptyIsSeq DEF Fixed
<1>2. Around(s, <<>>, Replace(s \o <<>>, vs, d), Replace(s, vs, d))
  BY <1>1, ReplaceAround
<1> QED
  BY <1>2 DEF Around

LEMMA NoneIsGood == GoodText(<<>>)
BY EmptyIsSeq DEF GoodText

LEMMA OneIsGood ==
  ASSUME NEW token, token[1] = "ref" => IsSeq(token[2])
  PROVE  GoodText(<<token>>)
BY OneIsSeq DEF GoodText

LEMMA AppendedIsGood ==
  ASSUME NEW s, GoodText(s), NEW token, token[1] = "ref" => IsSeq(token[2])
  PROVE  GoodText(Append(s, token))
<1>1. GoodText(s \o <<token>>)
  BY OneIsGood, GoodConcat
<1>2. IsSeq(s)
  BY DEF GoodText
<1> QED
  BY <1>1, <1>2, AppendedIsSeq

(* The captured variables.                                                 *)
GoodRegistry(r) == IsFiniteSet(DOMAIN r) /\ \A n \in DOMAIN r : IsSeq(n) /\ GoodValue(r[n])

LEMMA SubstitutedIsGood ==
  ASSUME NEW t, GoodText(t), NEW r, GoodRegistry(r)
  PROVE  GoodText(Substituted(t, r))
<1> DEFINE S == {<<n, r[n]>> : n \in DOMAIN r}
           vs == SetToSeq(S)
<1>1. IsFiniteSet(S)
  <2> DEFINE f == [n \in DOMAIN r |-> <<n, r[n]>>]
  <2>1. f \in Surjection(DOMAIN r, S)
    BY DEF Surjection
  <2> HIDE DEF f, S
  <2> QED
    BY <2>1, FS_Surjection DEF GoodRegistry
<1>2. \A p \in S : IsPair(p)
  BY DEF GoodRegistry, IsPair
<1> HIDE DEF S
<1>3. IsSeq(vs) /\ \A k \in 1..Len(vs) : vs[k] \in S
  BY <1>1, SetToSeqOfFinite
<1>4. IsPairs(vs)
  BY <1>2, <1>3 DEF IsPairs
<1>5. Substituted(t, r) = Replace(t, ByLength(vs), TRUE)
  BY Zenon DEF Substituted, S
<1> HIDE DEF vs
<1> QED
  BY <1>4, <1>5, ByLengthKeepsPairs, ReplacedIsGood

LEMMA StaticIsGood ==
  ASSUME NEW v, NEW t, GoodText(t)
  PROVE  GoodValue(ToStatic(v, t))
<1>1. GoodText(Transformed(v.transformers, t))
  BY TransformedIsGood
<1>2. \A u : GoodText(u) => GoodValue(Value(u))
  BY DEF GoodValue, Value
<1>3. CASE v.kind = "value"
  <2>1. ToStatic(v, t) = Value(t)
    BY <1>3, Zenon DEF ToStatic
  <2> QED
    BY <1>2, <2>1
<1>4. CASE v.kind # "value"
  <2>1. ToStatic(v, t) = Value(Transformed(v.transformers, t))
    BY <1>4, Zenon DEF ToStatic
  <2> QED
    BY <1>1, <1>2, <2>1
<1> QED
  BY <1>3, <1>4

----------------------------------------------------------------------------
(* A visitor, token by token.                                              *)

VisitorKinds == {"after", "before", "prepend", "replace", "remove", "append", "capture"}

GoodElement(e) == GoodText(e.last) /\ GoodText(e.unless) /\ GoodText(e.after)

GoodElements(open) == IsSeq(open) /\ \A k \in 1..Len(open) : GoodElement(open[k])

GoodTexts(t) == \A n \in DOMAIN t : GoodText(t[n])

GoodVisitor(h) ==
  /\ IsVisitor(h) /\ h.kind = "html" /\ h.do \in VisitorKinds /\ GoodText(h.content)
  /\ GoodText(h.held) /\ GoodElements(h.open) /\ GoodTexts(h.text)

SameVisitor(h, g) == DOMAIN g = DOMAIN h /\ g.kind = h.kind /\ g.do = h.do /\ g.content = h.content

LEMMA VisitorStays ==
  ASSUME NEW h, GoodVisitor(h), NEW g, SameVisitor(h, g),
         GoodText(g.held), GoodElements(g.open), GoodTexts(g.text)
  PROVE  GoodVisitor(g)
BY DEF GoodVisitor, SameVisitor, IsVisitor

GoodStep(s) ==
  /\ s = Step(s.item, s.out, s.registry, s.units)
  /\ GoodVisitor(s.item) /\ GoodText(s.out) /\ GoodRegistry(s.registry)

LEMMA StepIsGood ==
  ASSUME NEW h, GoodVisitor(h), NEW o, GoodText(o), NEW r, GoodRegistry(r), NEW u
  PROVE  GoodStep(Step(h, o, r, u))
BY DEF GoodStep, Step

LEMMA EndOfTextIsGood ==
  ASSUME NEW h, GoodVisitor(h), NEW r, GoodRegistry(r)
  PROVE  GoodRegistry(EndOfText(h, r))
<1> DEFINE e == EndOfText(h, r)
<1>1. DOMAIN e = DOMAIN r
  BY DEF EndOfText
<1>2. ASSUME NEW n \in DOMAIN r PROVE GoodValue(e[n])
  <2>1. e[n] = IF h.inText /\ n \in DOMAIN h.text /\ Within(h, n) THEN ToStatic(r[n], h.text[n]) ELSE r[n]
    BY Zenon DEF EndOfText
  <2>2. GoodValue(r[n])
    BY DEF GoodRegistry
  <2>3. n \in DOMAIN h.text => GoodValue(ToStatic(r[n], h.text[n]))
    BY StaticIsGood DEF GoodVisitor, GoodTexts
  <2> HIDE DEF e
  <2> QED
    BY <2>1, <2>2, <2>3, Zenon
<1> HIDE DEF e
<1>3. GoodRegistry(e)
  BY <1>1, <1>2, Zenon DEF GoodRegistry
<1> QED
  BY <1>3 DEF e

GoodAsked(a) == GoodText(a.before) /\ GoodText(a.inside) /\ GoodElement(a)

LEMMA NothingAsked == GoodAsked(AsksNothing)
BY NoneIsGood DEF GoodAsked, AsksNothing, GoodElement

LEMMA HandlerIsGood ==
  ASSUME NEW h, GoodVisitor(h), NEW r, GoodRegistry(r)
  PROVE  GoodAsked(Handler(h, r))
<1>1. GoodText(h.content) /\ GoodText(Substituted(h.content, r)) /\ GoodText(<<>>)
  BY SubstitutedIsGood, NoneIsGood DEF GoodVisitor
<1> DEFINE t == Substituted(h.content, r)
<1> HIDE DEF t
<1>2. CASE h.do = "after"
  <2>1. Handler(h, r) = [AsksNothing EXCEPT !.after = t, !.units = h.unit]
    BY <1>2 DEF Handler, BodyAfter, t
  <2> QED
    BY <1>1, <2>1 DEF GoodAsked, GoodElement, AsksNothing, t
<1>3. CASE h.do = "before"
  <2>1. Handler(h, r) = [AsksNothing EXCEPT !.before = t, !.units = h.unit]
    BY <1>3 DEF Handler, BodyBefore, t
  <2> QED
    BY <1>1, <2>1 DEF GoodAsked, GoodElement, AsksNothing, t
<1>4. CASE h.do = "prepend"
  <2>1. Handler(h, r) = [AsksNothing EXCEPT !.inside = t, !.units = h.unit]
    BY <1>4 DEF Handler, BodyPrepend, t
  <2> QED
    BY <1>1, <2>1 DEF GoodAsked, GoodElement, AsksNothing, t
<1>5. CASE h.do = "replace"
  <2>1. Handler(h, r) = [AsksNothing EXCEPT !.before = t, !.drop = TRUE, !.units = h.unit]
    BY <1>5 DEF Handler, BodyReplace, t
  <2> QED
    BY <1>1, <2>1 DEF GoodAsked, GoodElement, AsksNothing, t
<1>6. CASE h.do = "remove"
  <2>1. Handler(h, r) = [AsksNothing EXCEPT !.drop = TRUE, !.units = h.unit]
    BY <1>6 DEF Handler, BodyRemove
  <2> QED
    BY <1>1, <2>1 DEF GoodAsked, GoodElement, AsksNothing
<1>7. CASE h.do = "append"
  <2>1. \/ Handler(h, r) = [AsksNothing EXCEPT !.last = t, !.units = h.unit]
        \/ Handler(h, r) = [AsksNothing EXCEPT !.unless = h.content]
    BY <1>7 DEF Handler, BodyAppend, t
  <2> QED
    BY <1>1, <2>1 DEF GoodAsked, GoodElement, AsksNothing, t
<1>8. CASE h.do = "capture"
  <2>1. Handler(h, r) = AsksNothing
    BY <1>8 DEF Handler
  <2> QED
    BY <2>1, NothingAsked
<1> QED
  BY <1>2, <1>3, <1>4, <1>5, <1>6, <1>7, <1>8 DEF GoodVisitor, VisitorKinds

LEMMA PushedIsGood ==
  ASSUME NEW open, GoodElements(open), NEW e, GoodElement(e)
  PROVE  GoodElements(Append(open, e))
<1> DEFINE o == open \o <<e>>
<1>1. IsSeq(open)
  BY DEF GoodElements
<1>2. Append(open, e) = o
  BY <1>1, AppendedIsSeq
<1>3. IsSeq(<<e>>) /\ Len(<<e>>) = 1 /\ <<e>>[1] = e
  BY OneIsSeq
<1>4. IsSeq(o) /\ \A k \in 1..Len(o) : (\E i \in 1..Len(open) : o[k] = open[i])
                                    \/ (\E i \in 1..Len(<<e>>) : o[k] = <<e>>[i])
  BY <1>1, <1>3, ConcatIsSeq
<1> HIDE DEF o
<1>5. \A i \in 1..Len(<<e>>) : GoodElement(<<e>>[i])
  BY <1>3
<1> QED
  BY <1>2, <1>4, <1>5 DEF GoodElements

LEMMA OpenedIsGood ==
  ASSUME NEW h, GoodVisitor(h), NEW e, NEW tag, GoodText(tag), NEW r, GoodRegistry(r), NEW a, GoodAsked(a)
  PROVE  GoodStep(Opened(h, e, tag, r, a))
<1> DEFINE element == [element |-> e, drop |-> a.drop, last |-> a.last, unless |-> a.unless, after |-> a.after]
           g == [h EXCEPT !.open = Append(@, element), !.seen = @ \/ Matches(h.ignore, h, e)]
           mid == IF Dropping(h) \/ a.drop THEN <<>> ELSE tag
           o == a.before \o mid \o a.inside
<1>1. Opened(h, e, tag, r, a) = Step(g, o, r, a.units)
  BY DEF Opened
<1>2. GoodElement(element)
  BY DEF GoodAsked, GoodElement
<1> HIDE DEF element
<1>3. SameVisitor(h, g) /\ g.held = h.held /\ g.open = Append(h.open, element) /\ g.text = h.text
  BY DEF SameVisitor, GoodVisitor, IsVisitor
<1> HIDE DEF g
<1>4. GoodVisitor(g)
  BY <1>2, <1>3, PushedIsGood, VisitorStays DEF GoodVisitor
<1>5. GoodText(mid)
  BY NoneIsGood
<1> HIDE DEF mid
<1>6. GoodText(o)
  BY <1>5, GoodConcat DEF GoodAsked
<1> HIDE DEF o
<1> QED
  BY <1>1, <1>4, <1>6, StepIsGood

LEMMA EndTagIsGood ==
  ASSUME NEW h, GoodVisitor(h), h.open # <<>>, NEW tag, GoodText(tag), NEW r, GoodRegistry(r)
  PROVE  GoodStep(EndTag(h, tag, r))
<1> DEFINE open == h.open
           top == Last(open)
           late == IF h.seen THEN <<>> ELSE top.unless
           g == [h EXCEPT !.open = Front(@)]
           o == IF Dropping(h) THEN top.after ELSE top.last \o late \o tag \o top.after
<1>1. EndTag(h, tag, r) = Step(g, o, r, IF late # <<>> THEN h.unit ELSE {})
  BY DEF EndTag
<1>2. SameVisitor(h, g) /\ g.held = h.held /\ g.open = Front(open) /\ g.text = h.text
  BY DEF SameVisitor, GoodVisitor, IsVisitor
<1>3. GoodElements(open) /\ open # <<>>
  BY DEF GoodVisitor
<1> HIDE DEF open, g
<1>4. /\ IsSeq(Front(open)) /\ Len(Front(open)) = Len(open) - 1 /\ Len(open) \in Nat \ {0}
      /\ \A k \in 1..(Len(open) - 1) : Front(open)[k] = open[k]
      /\ top = open[Len(open)]
  BY <1>3, FrontIsSeq DEF GoodElements
<1>5. GoodElements(Front(open))
  BY <1>3, <1>4 DEF GoodElements
<1>6. GoodElement(top)
  BY <1>3, <1>4 DEF GoodElements
<1> HIDE DEF top
<1>7. GoodText(top.last) /\ GoodText(top.after) /\ GoodText(late)
  BY <1>6, NoneIsGood DEF GoodElement
<1> HIDE DEF late
<1>8. GoodText(o)
  BY <1>7, GoodConcat
<1> HIDE DEF o
<1>9. GoodVisitor(g)
  BY <1>2, <1>5, VisitorStays DEF GoodVisitor
<1> QED
  BY <1>1, <1>8, <1>9, StepIsGood

LEMMA NoTextIsGood ==
  ASSUME NEW h, GoodVisitor(h)
  PROVE  GoodVisitor(NoText(h)) /\ NoText(h).held = h.held /\ NoText(h).open = h.open
<1> DEFINE g == NoText(h)
           t == [n \in DOMAIN h.text |-> <<>>]
<1>1. SameVisitor(h, g) /\ g.held = h.held /\ g.open = h.open /\ g.text = t
  BY DEF SameVisitor, GoodVisitor, IsVisitor, NoText
<1>2. GoodTexts(t)
  BY NoneIsGood DEF GoodTexts
<1> HIDE DEF g, t
<1> QED
  BY <1>1, <1>2, VisitorStays DEF GoodVisitor, g

LEMMA HeldIsGood ==
  ASSUME NEW h, GoodVisitor(h), NEW held, GoodText(held)
  PROVE  GoodVisitor([h EXCEPT !.held = held])
<1> DEFINE g == [h EXCEPT !.held = held]
<1>1. SameVisitor(h, g) /\ g.held = held /\ g.open = h.open /\ g.text = h.text
  BY DEF SameVisitor, GoodVisitor, IsVisitor
<1> HIDE DEF g
<1> QED
  BY <1>1, VisitorStays DEF GoodVisitor, g

LEMMA TextTokenIsGood ==
  ASSUME NEW h, GoodVisitor(h), NEW token, token[1] = "ref" => IsSeq(token[2]), NEW r, GoodRegistry(r)
  PROVE  GoodStep(TextToken(h, token, r))
<1> DEFINE t == [n \in DOMAIN h.text |-> IF Within(h, n) THEN Append(h.text[n], token) ELSE h.text[n]]
           g == [h EXCEPT !.inText = TRUE, !.text = t]
           o == IF Dropping(h) THEN <<>> ELSE <<token>>
<1>1. TextToken(h, token, r) = Step(g, o, r, {})
  BY DEF TextToken
<1>2. GoodTexts(t)
  <2>1. ASSUME NEW n \in DOMAIN h.text PROVE GoodText(h.text[n]) /\ GoodText(Append(h.text[n], token))
    BY AppendedIsGood DEF GoodVisitor, GoodTexts
  <2>2. ASSUME NEW n \in DOMAIN h.text PROVE GoodText(IF Within(h, n) THEN Append(h.text[n], token) ELSE h.text[n])
    BY <2>1, Zenon
  <2> QED
    BY <2>2 DEF GoodTexts
<1> HIDE DEF t
<1>3. SameVisitor(h, g) /\ g.held = h.held /\ g.open = h.open /\ g.text = t
  BY DEF SameVisitor, GoodVisitor, IsVisitor
<1> HIDE DEF g
<1>4. GoodVisitor(g)
  BY <1>2, <1>3, VisitorStays DEF GoodVisitor
<1>5. GoodText(o)
  BY NoneIsGood, OneIsGood
<1> HIDE DEF o
<1> QED
  BY <1>1, <1>4, <1>5, StepIsGood

LEMMA TokenIsGood ==
  ASSUME NEW h, GoodVisitor(h), NEW token, token[1] = "ref" => IsSeq(token[2]), NEW r, GoodRegistry(r)
  PROVE  GoodStep(RewriteToken(h, token, r))
<1> DEFINE s == RewriteToken(h, token, r)
<1> SUFFICES GoodStep(s)
  OBVIOUS
<1> HIDE DEF s
<1>1. GoodText(<<token>>) /\ GoodText(<<>>)
  BY OneIsGood, NoneIsGood
<1>2. GoodRegistry(EndOfText(h, r)) /\ GoodVisitor(NoText(h))
  BY EndOfTextIsGood, NoTextIsGood
<1>3. CASE h.held # <<>> /\ token[1] # "gt"
  <2>1. s = Step([h EXCEPT !.held = Append(h.held, token)], <<>>, r, {})
    BY <1>3 DEF RewriteToken, s
  <2>2. GoodText(Append(h.held, token))
    BY AppendedIsGood DEF GoodVisitor
  <2>3. GoodVisitor([h EXCEPT !.held = Append(h.held, token)])
    BY <2>2, HeldIsGood
  <2> QED
    BY <1>1, <2>1, <2>3, StepIsGood
<1>4. CASE h.held = <<>> /\ token[1] = "lt"
  <2>1. s = Step([NoText(h) EXCEPT !.held = <<token>>], <<>>, EndOfText(h, r), {})
    BY <1>4, Zenon DEF RewriteToken, s
  <2>2. GoodVisitor([NoText(h) EXCEPT !.held = <<token>>])
    BY <1>1, <1>2, HeldIsGood
  <2> QED
    BY <1>1, <1>2, <2>1, <2>2, StepIsGood
<1>5. CASE token[1] = "gt"
  <2> DEFINE g == [h EXCEPT !.held = <<>>]
             tag == h.held \o <<token>>
             a == IF Matches(g.selector, g, token[2]) /\ ~ Dropping(g) THEN Handler(g, r) ELSE AsksNothing
  <2>1. GoodVisitor(g)
    BY <1>1, HeldIsGood
  <2>2. s = StartTag(g, token[2], tag, r)
    BY <1>5, Zenon DEF RewriteToken, s
  <2> HIDE DEF g
  <2>3. GoodText(tag)
    BY <1>1, GoodConcat DEF GoodVisitor
  <2> HIDE DEF tag
  <2>4. s = Opened(g, token[2], tag, r, a)
    BY <2>2, Zenon DEF StartTag
  <2>5. GoodAsked(a)
    BY <2>1, HandlerIsGood, NothingAsked
  <2> HIDE DEF a
  <2> QED
    BY <2>1, <2>3, <2>4, <2>5, OpenedIsGood
<1>6. CASE h.held = <<>> /\ token[1] = "close" /\ h.open # <<>>
  <2>1. s = EndTag(NoText(h), <<token>>, EndOfText(h, r))
    BY <1>6, Zenon DEF RewriteToken, s
  <2>2. NoText(h).open # <<>>
    BY <1>6, NoTextIsGood
  <2> QED
    BY <1>1, <1>2, <2>1, <2>2, EndTagIsGood
<1>7. CASE /\ ~ (h.held # <<>> /\ token[1] # "gt") /\ ~ (h.held = <<>> /\ token[1] = "lt")
           /\ ~ token[1] = "gt" /\ ~ (h.held = <<>> /\ token[1] = "close" /\ h.open # <<>>)
  <2>1. s = TextToken(h, token, r)
    BY <1>7, Zenon DEF RewriteToken, s
  <2> QED
    BY <2>1, TextTokenIsGood
<1> QED
  BY <1>3, <1>4, <1>5, <1>6, <1>7

LEMMA BrokenIsGood ==
  ASSUME NEW s, GoodStep(s), NEW token
  PROVE  GoodStep(Broken(s, token))
<1> DEFINE h == s.item
           g == [h EXCEPT !.broken = TRUE]
           o == IF token[2] = "lost" THEN <<>> ELSE s.out
<1>1. GoodVisitor(h) /\ GoodText(o) /\ GoodRegistry(s.registry)
  BY NoneIsGood DEF GoodStep
<1>2. SameVisitor(h, g) /\ g.held = h.held /\ g.open = h.open /\ g.text = h.text
  BY <1>1 DEF SameVisitor, GoodVisitor, IsVisitor
<1>3. s = [item |-> h, out |-> s.out, registry |-> s.registry, units |-> s.units]
  BY DEF GoodStep, Step
<1>4. Broken(s, token) = [s EXCEPT !.item = g, !.out = o]
  BY Zenon DEF Broken
<1> HIDE DEF h, g, o
<1>5. GoodVisitor(g)
  BY <1>1, <1>2, VisitorStays DEF GoodVisitor
<1>6. Broken(s, token) = Step(g, o, s.registry, s.units)
  BY <1>3, <1>4 DEF Step
<1> QED
  BY <1>1, <1>5, <1>6, StepIsGood

LEMMA RewriteIsGood ==
  ASSUME NEW h, GoodVisitor(h), NEW data, GoodText(data), NEW r, GoodRegistry(r)
  PROVE  GoodStep(Rewrite(h, data, r))
<1> DEFINE n == Len(data)
<1>1. n \in Nat
  BY DEF GoodText, IsSeq
<1>2. PICK f : Rewrite(h, data, r) = f[n] /\ Rewriting(h, data, r, n, f)
  BY <1>1, RewriteIs
<1>3. \A k \in 0..n : f[k] = IF k = 0 THEN Step(h, <<>>, r, {}) ELSE RewriteNext(f[k - 1], data[k])
  BY <1>2 DEF Rewriting
<1> DEFINE S == {k \in 0..n : ~ GoodStep(f[k])}
<1>4. S = {}
  <2>1. SUFFICES ASSUME S # {} PROVE FALSE
    OBVIOUS
  <2>2. PICK m \in S : \A k \in S : m <= k
    <3>1. S \subseteq Nat
      OBVIOUS
    <3> HIDE DEF S
    <3> QED
      BY <2>1, <3>1, Least
  <2>3. m \in 0..n /\ ~ GoodStep(f[m])
    BY <2>2
  <2>4. m # 0
    <3>1. GoodStep(Step(h, <<>>, r, {}))
      BY NoneIsGood, StepIsGood
    <3> QED
      BY <1>3, <2>3, <3>1
  <2> DEFINE s == f[m - 1]
             token == data[m]
             next == RewriteToken(s.item, token, s.registry)
             t == f[m]
  <2>5. m - 1 \in 0..n /\ m \in 1..n /\ m - 1 \notin S
    BY <1>1, <2>2, <2>3, <2>4
  <2>6. GoodStep(s)
    BY <2>5
  <2>7. t = RewriteNext(s, token)
    BY <1>3, <2>5
  <2>8. token[1] = "ref" => IsSeq(token[2])
    BY <2>5 DEF GoodText
  <2> HIDE DEF s, token
  <2>9. GoodStep(next)
    BY <2>6, <2>8, TokenIsGood DEF GoodStep
  <2>15. \/ t = s
         \/ t = Broken(s, token)
         \/ t = [next EXCEPT !.out = s.out \o @, !.units = s.units \cup @]
    BY <2>7, Zenon DEF RewriteNext, next
  <2>16. t = Broken(s, token) => GoodStep(t)
    BY <2>6, BrokenIsGood
  <2> HIDE DEF next, t
  <2>17. SUFFICES ASSUME t = [next EXCEPT !.out = s.out \o @, !.units = s.units \cup @]
                  PROVE  FALSE
    BY <2>3, <2>6, <2>15, <2>16 DEF t
  <2>10. next = [item |-> next.item, out |-> next.out, registry |-> next.registry, units |-> next.units]
    BY <2>9 DEF GoodStep, Step
  <2>11. t = Step(next.item, s.out \o next.out, next.registry, s.units \cup next.units)
    BY <2>10, <2>17, ZenonT(20) DEF Step
  <2>12. GoodText(s.out \o next.out)
    BY <2>6, <2>9, GoodConcat DEF GoodStep
  <2>14. GoodVisitor(next.item) /\ GoodRegistry(next.registry)
    BY <2>9 DEF GoodStep
  <2>13. GoodStep(t)
    BY <2>11, <2>12, <2>14, StepIsGood
  <2> QED
    BY <2>3, <2>13 DEF t
<1>5. GoodStep(f[n])
  <2>1. n \in 0..n
    BY <1>1
  <2> QED
    BY <1>4, <2>1
<1> QED
  BY <1>2, <1>5

LEMMA EndRewriteIsGood ==
  ASSUME NEW h, GoodVisitor(h), NEW r, GoodRegistry(r)
  PROVE  GoodStep(EndRewrite(h, r))
<1>1. GoodText(IF Dropping(h) \/ RefusesHeld(h) THEN <<>> ELSE h.held)
  BY NoneIsGood DEF GoodVisitor
<1> QED
  BY <1>1, EndOfTextIsGood, StepIsGood DEF EndRewrite

----------------------------------------------------------------------------
(* An item, of any kind.  A decoder alone looks at what the tokens hold.   *)

GoodBytes(data) ==
  GoodText(data) /\ \A k \in 1..Len(data) : data[k][1] = "zip" => GoodText(<<data[k][2]>>)

TextKinds == {"replace", "append", "prepend"}

GoodItem(i) ==
  \/ GoodVisitor(i)
  \/ i.kind = "text" /\ {"kind", "executed"} \subseteq DOMAIN i /\ i.do \in TextKinds /\ GoodText(i.content)
  \/ i.kind \in {"buffer", "markdown"} /\ {"kind", "data"} \subseteq DOMAIN i /\ GoodText(i.data)
  \/ i.kind = "decode" /\ {"kind", "closed"} \subseteq DOMAIN i
  \/ i.kind = "encode"

GoodWent(w) == GoodItem(w.item) /\ GoodText(w.out) /\ GoodRegistry(w.registry)

LEMMA WentIsGood ==
  ASSUME NEW i, GoodItem(i), NEW o, GoodText(o), NEW r, GoodRegistry(r), NEW t
  PROVE  GoodWent(Went(i, o, r, t)) /\ Went(i, o, r, t).item = i
BY DEF GoodWent, Went

LEMMA MappedIsGood ==
  ASSUME NEW s, IsSeq(s), NEW f, DOMAIN f = DOMAIN s, f = [k \in DOMAIN f |-> f[k]],
         \A k \in 1..Len(s) : f[k][1] # "ref"
  PROVE  GoodText(f)
<1>1. DOMAIN s = 1..Len(s) /\ Len(s) \in Nat
  BY DEF IsSeq
<1>2. IsSeq(f) /\ Len(f) = Len(s)
  BY <1>1, FunctionIsSeq
<1> QED
  BY <1>1, <1>2 DEF GoodText

LEMMA CodedIsGood ==
  ASSUME NEW data, GoodText(data)
  PROVE  GoodText(Coded(data))
<1>1. IsSeq(data) /\ DOMAIN data = 1..Len(data)
  BY DEF GoodText, IsSeq
<1> DEFINE c == Coded(data)
<1>2. DOMAIN c = DOMAIN data /\ c = [k \in DOMAIN c |-> c[k]]
  BY DEF Coded
<1>3. \A k \in 1..Len(data) : c[k][1] # "ref"
  BY <1>1 DEF Coded, Zipped
<1> HIDE DEF c
<1> QED
  BY <1>1, <1>2, <1>3, MappedIsGood DEF c

LEMMA DecodedIsGood ==
  ASSUME NEW data, GoodBytes(data)
  PROVE  GoodText(Decoded(data))
<1> DEFINE u == Units(data)
<1>1. IsSeq(data)
  BY DEF GoodBytes, GoodText
<1>2. DOMAIN data = 1..Len(data) /\ Len(data) \in Nat
  BY <1>1 DEF IsSeq
<1>3. u = [k \in 1..Len(data) |-> u[k]]
  BY <1>2 DEF Units
<1>4. ASSUME NEW k \in 1..Len(data) PROVE GoodText(u[k])
  <2>1. u[k] = IF data[k][1] = "zip" THEN <<data[k][2]>> ELSE <<>>
    BY <1>2, Zenon DEF Units
  <2>2. data[k][1] = "zip" => GoodText(<<data[k][2]>>)
    BY DEF GoodBytes
  <2> HIDE DEF u
  <2> QED
    BY <2>1, <2>2, NoneIsGood, Zenon
<1>5. Decoded(data) = FlattenSeq(u)
  BY Zenon DEF Decoded, Units
<1> HIDE DEF u
<1>6. IsSeq(u) /\ Len(u) = Len(data)
  BY <1>2, <1>3, FunctionIsSeq
<1> QED
  BY <1>4, <1>5, <1>6, FlattenIsGood

LEMMA WordsAreGood ==
  ASSUME NEW t, GoodText(t)
  PROVE  GoodText(Words(t))
<1> DEFINE u == [k \in DOMAIN t |-> IF t[k][1] = "text" THEN <<t[k]>> ELSE <<>>]
<1>1. IsSeq(t)
  BY DEF GoodText
<1>2. DOMAIN t = 1..Len(t) /\ Len(t) \in Nat
  BY <1>1 DEF IsSeq
<1>3. u = [k \in 1..Len(t) |-> u[k]]
  BY <1>2
<1>4. ASSUME NEW k \in 1..Len(t) PROVE GoodText(u[k])
  <2>1. u[k] = IF t[k][1] = "text" THEN <<t[k]>> ELSE <<>>
    BY <1>2
  <2> DEFINE x == t[k]
  <2>2. x[1] = "ref" => IsSeq(x[2])
    BY DEF GoodText
  <2> HIDE DEF u, x
  <2>3. GoodText(<<x>>)
    BY <2>2, OneIsGood
  <2> QED
    BY <2>1, <2>3, NoneIsGood, Zenon DEF x
<1>5. Words(t) = t \/ Words(t) = FlattenSeq(u)
  BY Zenon DEF Words
<1> HIDE DEF u
<1>6. IsSeq(u) /\ Len(u) = Len(t)
  BY <1>2, <1>3, FunctionIsSeq
<1>7. GoodText(FlattenSeq(u))
  BY <1>4, <1>6, FlattenIsGood
<1> QED
  BY <1>5, <1>7

LEMMA TextOutIsGood ==
  ASSUME NEW i, i.do \in TextKinds, GoodText(i.content), NEW data, GoodText(data)
  PROVE  GoodText(TextOut(i, data))
<1>1. GoodText(i.content \o data) /\ GoodText(<<>>)
  BY GoodConcat, NoneIsGood
<1>2. CASE i.do = "replace"
  <2>1. TextOut(i, data) = IF i.executed THEN <<>> ELSE i.content
    BY <1>2 DEF TextOut
  <2> QED
    BY <1>1, <2>1, Zenon
<1>3. CASE i.do = "append"
  <2>1. TextOut(i, data) = data
    BY <1>3 DEF TextOut
  <2> QED
    BY <2>1
<1>4. CASE i.do = "prepend"
  <2>1. TextOut(i, data) = IF i.executed THEN data ELSE i.content \o data
    BY <1>4 DEF TextOut
  <2> QED
    BY <1>1, <2>1, Zenon
<1> QED
  BY <1>2, <1>3, <1>4 DEF TextKinds

Feeds(i, data) == GoodText(data) /\ (i.kind = "decode" => GoodBytes(data))

LEMMA FeedIsGood ==
  ASSUME NEW i, GoodItem(i), NEW data, Feeds(i, data), NEW r, GoodRegistry(r), NEW t
  PROVE  GoodWent(Feed(i, data, r, t)) /\ Feed(i, data, r, t).item.kind = i.kind
<1> DEFINE w == Feed(i, data, r, t)
<1> SUFFICES GoodWent(w) /\ w.item.kind = i.kind
  OBVIOUS
<1> HIDE DEF w
<1>1. GoodText(data)
  BY DEF Feeds
<1>2. CASE GoodVisitor(i)
  <2> DEFINE s == Rewrite(i, data, r)
  <2>1. i.kind = "html"
    BY <1>2 DEF GoodVisitor
  <2>2. w = Went(s.item, s.out, s.registry, Traced(s.units, t))
    BY <2>1 DEF Feed, Rewritten, w
  <2>3. GoodVisitor(s.item) /\ GoodText(s.out) /\ GoodRegistry(s.registry)
    BY <1>1, <1>2, RewriteIsGood DEF GoodStep
  <2> HIDE DEF s
  <2>4. s.item.kind = "html" /\ GoodItem(s.item)
    BY <2>3 DEF GoodVisitor, GoodItem
  <2> QED
    BY <2>1, <2>2, <2>3, <2>4, WentIsGood
<1>3. CASE i.kind = "text" /\ {"kind", "executed"} \subseteq DOMAIN i /\ i.do \in TextKinds /\ GoodText(i.content)
  <2> DEFINE j == [i EXCEPT !.executed = @ \/ i.do # "append"]
  <2>1. w = Went(j, TextOut(i, data), r, TextTrace(i, t))
    BY <1>3 DEF Feed, w
  <2>2. j.kind = i.kind /\ j.do = i.do /\ j.content = i.content /\ DOMAIN j = DOMAIN i
    BY <1>3
  <2> HIDE DEF j
  <2>3. GoodItem(j)
    BY <1>3, <2>2 DEF GoodItem
  <2>4. GoodText(TextOut(i, data))
    BY <1>1, <1>3, TextOutIsGood
  <2> QED
    BY <2>1, <2>2, <2>3, <2>4, WentIsGood
<1>4. CASE i.kind \in {"buffer", "markdown"} /\ {"kind", "data"} \subseteq DOMAIN i /\ GoodText(i.data)
  <2> DEFINE d == i.data \o data
             j == [i EXCEPT !.data = d]
  <2>1. w = Went(j, <<>>, r, t)
    BY <1>4 DEF Feed, w
  <2>2. GoodText(d)
    BY <1>1, <1>4, GoodConcat
  <2> HIDE DEF d
  <2>3. j.kind = i.kind /\ j.data = d /\ DOMAIN j = DOMAIN i
    BY <1>4
  <2> HIDE DEF j
  <2>4. GoodItem(j)
    BY <1>4, <2>2, <2>3 DEF GoodItem
  <2> QED
    BY <2>1, <2>3, <2>4, NoneIsGood, WentIsGood
<1>5. CASE i.kind = "decode" /\ {"kind", "closed"} \subseteq DOMAIN i
  <2> DEFINE j == [i EXCEPT !.closed = @ \/ Contains(data, Trailer)]
  <2>1. w = Went(j, Decoded(data), r, t)
    BY <1>5 DEF Feed, w
  <2>2. j.kind = i.kind /\ DOMAIN j = DOMAIN i
    BY <1>5
  <2> HIDE DEF j
  <2>3. GoodItem(j)
    BY <1>5, <2>2 DEF GoodItem
  <2>4. GoodText(Decoded(data))
    BY <1>5, DecodedIsGood DEF Feeds
  <2> QED
    BY <2>1, <2>2, <2>3, <2>4, WentIsGood
<1>6. CASE i.kind = "encode"
  <2>1. w = Went(i, Coded(data), r, t)
    BY <1>6 DEF Feed, w
  <2> QED
    BY <1>1, <2>1, CodedIsGood, WentIsGood
<1> QED
  BY <1>2, <1>3, <1>4, <1>5, <1>6 DEF GoodItem

LEMMA FlushIsGood ==
  ASSUME NEW i, GoodItem(i), NEW r, GoodRegistry(r), NEW t
  PROVE  GoodText(Flush(i, r, t).out) /\ GoodRegistry(Flush(i, r, t).registry)
<1> DEFINE w == Flush(i, r, t)
<1> SUFFICES GoodText(w.out) /\ GoodRegistry(w.registry)
  OBVIOUS
<1> HIDE DEF w
<1>1. CASE GoodVisitor(i)
  <2> DEFINE s == EndRewrite(i, r)
  <2>1. w = Went(i, s.out, s.registry, t)
    BY <1>1 DEF Flush, w, GoodVisitor
  <2>2. GoodText(s.out) /\ GoodRegistry(s.registry)
    BY <1>1, EndRewriteIsGood DEF GoodStep
  <2> HIDE DEF s
  <2> QED
    BY <2>1, <2>2 DEF Went
<1>2. CASE i.kind = "text" /\ GoodText(i.content)
  <2>1. w = Went(i, IF i.executed THEN <<>> ELSE i.content, r, t)
    BY <1>2 DEF Flush, w
  <2> QED
    BY <1>2, <2>1, NoneIsGood DEF Went
<1>3. CASE i.kind = "buffer" /\ GoodText(i.data)
  <2>1. w = Went(i, i.data, r, t)
    BY <1>3 DEF Flush, w
  <2> QED
    BY <1>3, <2>1 DEF Went
<1>4. CASE i.kind = "markdown" /\ GoodText(i.data)
  <2>1. w = Went(i, Words(i.data), r, OverrideUnit(t, "text", i.unit))
    BY <1>4 DEF Flush, w
  <2> QED
    BY <1>4, <2>1, WordsAreGood DEF Went
<1>5. CASE i.kind = "decode"
  <2>1. w = Went(i, <<>>, r, t)
    BY <1>5 DEF Flush, w
  <2> QED
    BY <2>1, NoneIsGood DEF Went
<1>6. CASE i.kind = "encode"
  <2>1. w = Went(i, <<Trailer>>, r, t)
    BY <1>6 DEF Flush, w
  <2>2. GoodText(<<Trailer>>)
    <3>1. Trailer[1] # "ref"
      BY DEF Trailer
    <3> QED
      BY <3>1, OneIsGood
  <2> QED
    BY <2>1, <2>2 DEF Went
<1> QED
  BY <1>1, <1>2, <1>3, <1>4, <1>5, <1>6 DEF GoodItem

----------------------------------------------------------------------------
(* A chain, of which only the first item can be a decoder.                 *)

GoodChain(c) == IsSeq(c) /\ \A k \in 1..Len(c) : GoodItem(c[k]) /\ (k # 1 => c[k].kind # "decode")

LEMMA ChainGrows ==
  ASSUME NEW c, GoodChain(c), NEW i, GoodItem(i), Len(c) # 0 => i.kind # "decode"
  PROVE  GoodChain(Append(c, i)) /\ Len(Append(c, i)) = Len(c) + 1
<1> DEFINE d == c \o <<i>>
<1>1. IsSeq(c) /\ Len(c) \in Nat
  BY DEF GoodChain, IsSeq
<1>2. Append(c, i) = d
  BY <1>1, AppendedIsSeq
<1>3. IsSeq(<<i>>) /\ Len(<<i>>) = 1 /\ <<i>>[1] = i
  BY OneIsSeq
<1>4. /\ IsSeq(d) /\ Len(d) = Len(c) + 1
      /\ \A k \in 1..Len(c) : d[k] = c[k]
      /\ d[Len(c) + 1] = i
  BY <1>1, <1>3, ConcatIsSeq
<1> HIDE DEF d
<1>5. ASSUME NEW k \in 1..Len(d) PROVE GoodItem(d[k]) /\ (k # 1 => d[k].kind # "decode")
  <2>1. CASE k \in 1..Len(c)
    BY <1>4, <2>1 DEF GoodChain
  <2>2. CASE k = Len(c) + 1
    BY <1>1, <1>4, <2>2
  <2> QED
    BY <1>1, <1>4, <2>1, <2>2
<1> QED
  BY <1>2, <1>4, <1>5 DEF GoodChain

GoodThrough(s, n, data) ==
  /\ s = Gone(s.chain, s.data, s.registry, s.trace, s.refused, s.panicked)
  /\ GoodChain(s.chain) /\ Len(s.chain) = n /\ GoodText(s.data) /\ GoodRegistry(s.registry)
  /\ n = 0 => s.data = data

LEMMA GoneIsGood ==
  ASSUME NEW c, GoodChain(c), NEW d, GoodText(d), NEW r, GoodRegistry(r), NEW t, NEW refused,
         NEW panicked, NEW data, Len(c) = 0 => d = data
  PROVE  GoodThrough(Gone(c, d, r, t, refused, panicked), Len(c), data)
BY DEF GoodThrough, Gone

LEMMA ThroughIsGood ==
  ASSUME NEW c, GoodChain(c), NEW d, GoodText(d), NEW r, GoodRegistry(r), NEW t, NEW refused,
         NEW data, Len(c) = 0 => d = data
  PROVE  GoodThrough(Through(c, d, r, t, refused), Len(c), data)
<1> DEFINE no == FALSE
<1>1. Through(c, d, r, t, refused) = Gone(c, d, r, t, refused, no)
  BY ThroughIsGone, Zenon
<1> HIDE DEF no
<1> QED
  BY <1>1, GoneIsGood

LEMMA FilterItemIsGood ==
  ASSUME NEW n \in Nat, NEW data, GoodBytes(data), NEW s, GoodThrough(s, n, data),
         NEW i, GoodItem(i), n # 0 => i.kind # "decode"
  PROVE  GoodThrough(FilterItem(s, i), n + 1, data)
<1> DEFINE rests == s.panicked \/ s.refused \/ (s.chain # <<>> /\ s.data = <<>>)
<1>1. /\ s = Gone(s.chain, s.data, s.registry, s.trace, s.refused, s.panicked)
      /\ GoodChain(s.chain) /\ Len(s.chain) = n /\ GoodText(s.data) /\ GoodRegistry(s.registry)
      /\ n = 0 => s.data = data
  BY DEF GoodThrough
<1>2. n + 1 # 0
  OBVIOUS
<1>3. ASSUME NEW j, GoodItem(j), j.kind = i.kind, NEW d, GoodText(d), NEW r, GoodRegistry(r), NEW t,
             NEW refused, NEW panicked
      PROVE  /\ GoodThrough(Gone(Append(s.chain, j), d, r, t, refused, panicked), n + 1, data)
             /\ GoodThrough(Through(Append(s.chain, j), d, r, t, refused), n + 1, data)
  <2>1. GoodChain(Append(s.chain, j)) /\ Len(Append(s.chain, j)) = n + 1
    BY <1>1, <1>3, ChainGrows
  <2> QED
    BY <1>2, <1>3, <2>1, GoneIsGood, ThroughIsGood
<1>5. CASE rests
  <2>1. FilterItem(s, i) = [s EXCEPT !.chain = Append(@, i)]
    BY <1>5 DEF FilterItem
  <2>2. FilterItem(s, i) = Gone(Append(s.chain, i), s.data, s.registry, s.trace, s.refused, s.panicked)
    BY <1>1, <2>1 DEF Gone
  <2> QED
    BY <1>1, <1>3, <2>2
<1>6. CASE ~ rests /\ Poisoned(i)
  <2>1. FilterItem(s, i) = [s EXCEPT !.chain = Append(@, i), !.panicked = TRUE]
    BY <1>6 DEF FilterItem
  <2>2. FilterItem(s, i) = Gone(Append(s.chain, i), s.data, s.registry, s.trace, s.refused, TRUE)
    BY <1>1, <2>1 DEF Gone
  <2> QED
    BY <1>1, <1>3, <2>2
<1>7. CASE ~ rests /\ ~ Poisoned(i) /\ Refuses(i, s.data)
  <2>1. FilterItem(s, i) = [s EXCEPT !.chain = Append(@, i), !.refused = TRUE]
    BY <1>7 DEF FilterItem
  <2>2. FilterItem(s, i) = Gone(Append(s.chain, i), s.data, s.registry, s.trace, TRUE, s.panicked)
    BY <1>1, <2>1 DEF Gone
  <2> QED
    BY <1>1, <1>3, <2>2
<1>8. CASE ~ rests /\ ~ Poisoned(i) /\ ~ Refuses(i, s.data)
  <2> DEFINE w == Feed(i, s.data, s.registry, s.trace)
  <2>1. FilterItem(s, i) = Passed(s, w)
    BY <1>8, Zenon DEF FilterItem
  <2>2. Feeds(i, s.data)
    BY <1>1 DEF Feeds
  <2>3. GoodWent(w) /\ w.item.kind = i.kind
    BY <1>1, <2>2, FeedIsGood
  <2> HIDE DEF w
  <2>4. FilterItem(s, i) = Through(Append(s.chain, w.item), w.out, w.registry, w.trace, FALSE)
    BY <2>1 DEF Passed
  <2> QED
    BY <1>3, <2>3, <2>4 DEF GoodWent
<1> QED
  BY <1>5, <1>6, <1>7, <1>8

LEMMA FilterChainIsGood ==
  ASSUME GoodChain(chain), GoodRegistry(registry), NEW data, GoodBytes(data)
  PROVE  /\ GoodChain(FilterChain(data).chain) /\ GoodRegistry(FilterChain(data).registry)
         /\ GoodText(FilterChain(data).data)
<1> DEFINE n == Len(chain)
<1>1. n \in Nat
  BY DEF GoodChain, IsSeq
<1>2. PICK f : FilterChain(data) = f[n] /\ Filtering(data, n, f)
  BY <1>1, FilterChainIs
<1>3. \A k \in 0..n : f[k] = IF k = 0 THEN Through(<<>>, data, registry, trace, FALSE)
                                  ELSE FilterItem(f[k - 1], chain[k])
  BY <1>2 DEF Filtering
<1> DEFINE S == {k \in 0..n : ~ GoodThrough(f[k], k, data)}
<1>4. S = {}
  <2>1. SUFFICES ASSUME S # {} PROVE FALSE
    OBVIOUS
  <2>2. PICK m \in S : \A k \in S : m <= k
    <3>1. S \subseteq Nat
      OBVIOUS
    <3> HIDE DEF S
    <3> QED
      BY <2>1, <3>1, Least
  <2>3. m \in 0..n /\ ~ GoodThrough(f[m], m, data)
    BY <2>2
  <2>4. m # 0
    <3>1. GoodChain(<<>>) /\ Len(<<>>) = 0
      BY EmptyIsSeq DEF GoodChain
    <3>2. GoodThrough(Through(<<>>, data, registry, trace, FALSE), 0, data)
      BY <3>1, ThroughIsGood DEF GoodBytes
    <3> QED
      BY <1>3, <2>3, <3>2
  <2>5. m - 1 \in 0..n /\ m \in 1..n /\ m - 1 \notin S /\ m - 1 \in Nat /\ (m - 1) + 1 = m
    BY <1>1, <2>2, <2>3, <2>4
  <2> DEFINE s == f[m - 1]
             i == chain[m]
  <2>6. GoodThrough(s, m - 1, data) /\ f[m] = FilterItem(s, i)
    BY <1>3, <2>4, <2>5
  <2>7. GoodItem(i) /\ (m - 1 # 0 => i.kind # "decode")
    BY <2>5 DEF GoodChain
  <2> HIDE DEF s, i, S
  <2>8. GoodThrough(FilterItem(s, i), (m - 1) + 1, data)
    BY <2>5, <2>6, <2>7, FilterItemIsGood
  <2> QED
    BY <2>3, <2>5, <2>6, <2>8
<1>5. GoodThrough(f[n], n, data)
  <2>1. n \in 0..n
    BY <1>1
  <2> QED
    BY <1>4, <2>1
<1> QED
  BY <1>2, <1>5 DEF GoodThrough

LEMMA GoneHas ==
  ASSUME NEW c, NEW d, NEW r, NEW t, NEW f, NEW q
  PROVE  /\ Gone(c, d, r, t, f, q).data = d
         /\ Gone(c, d, r, t, f, q).registry = r
         /\ Gone(c, d, r, t, f, q).trace = t
BY DEF Gone

EndsAs(e, o, last) == e.data = o \o last.out /\ e.registry = last.registry /\ e.trace = last.trace

LEMMA EndAfterIs ==
  ASSUME NEW s, NEW i, NEW w
  PROVE  EndsAs(EndAfter(s, i, w), w.out, Flush(w.item, w.registry, w.trace))
<1> DEFINE last == Flush(w.item, w.registry, w.trace)
           x == w.out \o last.out
           f == s.refused \/ RefusesEnd(i)
           p == s.panicked \/ (~ s.refused /\ Poisoned(w.item))
           no == FALSE
           e == Ended(s, i, w.out, last)
<1>1. EndAfter(s, i, w) = [e EXCEPT !.panicked = p]
  BY Zenon DEF EndAfter
<1>2. e = Through(<<>>, x, last.registry, last.trace, f)
  BY Zenon DEF Ended
<1> HIDE DEF p, e, f
<1>3. e = Gone(<<>>, x, last.registry, last.trace, f, no)
  BY <1>2, ThroughIsGone, Zenon
<1> HIDE DEF no, last, x
<1>4. EndAfter(s, i, w) = Gone(<<>>, x, last.registry, last.trace, f, p)
  BY <1>1, <1>3, GoneOn
<1> DEFINE y == Gone(<<>>, x, last.registry, last.trace, f, p)
<1>5. y.data = x /\ y.registry = last.registry /\ y.trace = last.trace
  BY GoneHas
<1> HIDE DEF y
<1>6. EndsAs(EndAfter(s, i, w), w.out, last)
  BY <1>4, <1>5 DEF EndsAs, x, y
<1> QED
  BY <1>6 DEF last

GoodEnd(s, n) == GoodText(s.data) /\ GoodRegistry(s.registry) /\ (n = 0 => s.data = <<>>)

LEMMA EndItemIsGood ==
  ASSUME NEW n \in Nat, NEW s, GoodEnd(s, n), NEW i, GoodItem(i), n # 0 => i.kind # "decode"
  PROVE  GoodEnd(EndItem(s, i), n + 1)
<1> DEFINE w == IF s.data = <<>> THEN Went(i, <<>>, s.registry, s.trace) ELSE Feed(i, s.data, s.registry, s.trace)
           last == Flush(w.item, w.registry, w.trace)
<1>1. GoodText(s.data) /\ GoodRegistry(s.registry) /\ (n = 0 => s.data = <<>>)
  BY DEF GoodEnd
<1>2. GoodWent(w)
  <2>1. CASE s.data = <<>>
    BY <1>1, <2>1, NoneIsGood, WentIsGood
  <2>2. CASE s.data # <<>>
    <3>1. Feeds(i, s.data)
      BY <1>1, <2>2 DEF Feeds
    <3>2. GoodWent(Feed(i, s.data, s.registry, s.trace))
      BY <1>1, <3>1, FeedIsGood
    <3> QED
      BY <2>2, <3>2, Zenon
  <2> QED
    BY <2>1, <2>2
<1>3. EndItem(s, i) = EndAfter(s, i, w)
  BY Zenon DEF EndItem
<1> HIDE DEF w
<1>8. EndsAs(EndAfter(s, i, w), w.out, last)
  BY EndAfterIs, Zenon
<1>5. GoodText(last.out) /\ GoodRegistry(last.registry)
  BY <1>2, FlushIsGood DEF GoodWent
<1> HIDE DEF last
<1>4. EndItem(s, i).data = w.out \o last.out /\ EndItem(s, i).registry = last.registry
  BY <1>3, <1>8 DEF EndsAs
<1>6. GoodText(w.out \o last.out)
  BY <1>2, <1>5, GoodConcat DEF GoodWent
<1>7. n + 1 # 0
  OBVIOUS
<1> QED
  BY <1>4, <1>5, <1>6, <1>7 DEF GoodEnd

LEMMA EndChainIsGood ==
  ASSUME GoodChain(chain), GoodRegistry(registry)
  PROVE  GoodText(EndChain.data)
<1> DEFINE n == Len(chain)
<1>1. n \in Nat
  BY DEF GoodChain, IsSeq
<1>2. PICK f : EndChain = f[n] /\ Ending(n, f)
  BY <1>1, EndChainIs
<1>3. \A k \in 0..n : f[k] = IF k = 0 THEN Through(<<>>, <<>>, registry, trace, FALSE)
                                  ELSE EndItem(f[k - 1], chain[k])
  BY <1>2 DEF Ending
<1> DEFINE S == {k \in 0..n : ~ GoodEnd(f[k], k)}
<1>4. S = {}
  <2>1. SUFFICES ASSUME S # {} PROVE FALSE
    OBVIOUS
  <2>2. PICK m \in S : \A k \in S : m <= k
    <3>1. S \subseteq Nat
      OBVIOUS
    <3> HIDE DEF S
    <3> QED
      BY <2>1, <3>1, Least
  <2>3. m \in 0..n /\ ~ GoodEnd(f[m], m)
    BY <2>2
  <2>4. m # 0
    <3>1. GoodEnd(Through(<<>>, <<>>, registry, trace, FALSE), 0)
      BY NoneIsGood DEF GoodEnd, Through
    <3> QED
      BY <1>3, <2>3, <3>1
  <2>5. m - 1 \in 0..n /\ m \in 1..n /\ m - 1 \notin S /\ m - 1 \in Nat /\ (m - 1) + 1 = m
    BY <1>1, <2>2, <2>3, <2>4
  <2> DEFINE s == f[m - 1]
             i == chain[m]
  <2>6. GoodEnd(s, m - 1) /\ f[m] = EndItem(s, i)
    BY <1>3, <2>4, <2>5
  <2>7. GoodItem(i) /\ (m - 1 # 0 => i.kind # "decode")
    BY <2>5 DEF GoodChain
  <2> HIDE DEF s, i, S
  <2>8. GoodEnd(EndItem(s, i), (m - 1) + 1)
    BY <2>5, <2>6, <2>7, EndItemIsGood
  <2> QED
    BY <2>3, <2>5, <2>6, <2>8
<1>5. GoodEnd(f[n], n)
  <2>1. n \in 0..n
    BY <1>1
  <2> QED
    BY <1>4, <2>1
<1> QED
  BY <1>2, <1>5 DEF GoodEnd

----------------------------------------------------------------------------
(* The headers stay texts through the filters that are set for them.       *)

GoodSetter(f) == "value" \in DOMAIN f /\ GoodText(f.value)

GoodSetters(fs) == IsSeq(fs) /\ \A k \in 1..Len(fs) : GoodSetter(fs[k])

LEMMA FilledIsGood ==
  ASSUME NEW f, GoodSetter(f), NEW vs, IsPairs(vs)
  PROVE  GoodSetter(Filled(f, vs))
<1> DEFINE x == Replace(f.value, vs, TRUE)
<1>1. GoodText(x)
  BY ReplacedIsGood DEF GoodSetter
<1>2. Filled(f, vs) = [f EXCEPT !.value = x]
  BY DEF Filled
<1> HIDE DEF x
<1>3. Filled(f, vs).value = x /\ "value" \in DOMAIN Filled(f, vs)
  BY <1>2 DEF GoodSetter
<1> QED
  BY <1>1, <1>3 DEF GoodSetter

LEMMA WithSkippedIsGood ==
  ASSUME NEW t, GoodText(t)
  PROVE  GoodText(WithSkipped(t))
<1> DEFINE x == OrEmpty(Request.skipped)
           m == <<Word(Mark(t))>>
<1>1. GoodText(x)
  <2>1. \A s \in Request.skipped : GoodText(s)
    BY RequestAssumption, TextIsGood
  <2> QED
    BY <2>1, OptionIsGood
<1>2. GoodText(m)
  BY WordIsGood
<1>3. WithSkipped(t) = IF Request.skipped = {} THEN t ELSE t \o m \o x
  BY Zenon DEF WithSkipped, Mark
<1> HIDE DEF x, m
<1>4. GoodText(t \o m \o x)
  BY <1>1, <1>2, GoodConcat
<1> QED
  BY <1>3, <1>4, Zenon

LEMMA HeaderSetters ==
  ASSUME rules \in Chosen, NEW n \in 1..Len(rules), NEW vs, IsPairs(vs)
  PROVE  GoodSetters(HeaderFiltersOf(rules[n], vs))
<1> DEFINE r == rules[n]
           o == OwnHeaders(r, vs)
           t == TargetFilters(r, vs)
<1>1. IsSeq(r.headers) /\ GoodText(OrEmpty(r.target))
  BY RuleHeadersAre
<1>2. /\ IsSeq(o) /\ Len(o) = Len(r.headers) /\ \A k \in 1..Len(r.headers) : o[k] = Filled(r.headers[k], vs)
      /\ IsSeq(t) /\ HeaderFiltersOf(r, vs) = t \o o
  BY <1>1, OwnHeadersAre
<1>3. ASSUME NEW k \in 1..Len(r.headers) PROVE GoodSetter(o[k])
  <2> DEFINE f == r.headers[k]
  <2>1. OfTexts(r)
    BY RulesAssumption, Zenon
  <2>2. f \in Range(r.headers)
    BY <1>1 DEF Range, IsSeq
  <2>3. "value" \in DOMAIN f /\ IsText(f.value)
    BY <2>1, <2>2, Zenon DEF OfTexts
  <2> HIDE DEF f, o
  <2>4. GoodSetter(f)
    BY <2>3, TextIsGood DEF GoodSetter
  <2>5. o[k] = Filled(f, vs)
    BY <1>2 DEF f
  <2> QED
    BY <2>4, <2>5, FilledIsGood
<1>4. ASSUME NEW k \in 1..Len(t) PROVE GoodSetter(t[k])
  <2> DEFINE x == Replace(OrEmpty(r.target), vs, TRUE)
             l == LocationFilter(x, r.units.redirect)
  <2>1. t = IF OrEmpty(r.target) = <<>> THEN <<>> ELSE <<l>>
    BY Zenon DEF TargetFilters
  <2>2. GoodText(x)
    BY <1>1, ReplacedIsGood
  <2>3. GoodSetter(l)
    <3> HIDE DEF x
    <3>1. GoodText(WithSkipped(x))
      BY <2>2, WithSkippedIsGood
    <3> QED
      BY <3>1 DEF GoodSetter, LocationFilter
  <2> HIDE DEF l, t, x
  <2>4. t # <<>>
    BY EmptyIsSeq
  <2>5. t = <<l>>
    BY <2>1, <2>4, Zenon
  <2>6. t[k] = l
    BY <2>5, OneIsSeq
  <2> QED
    BY <2>3, <2>6
<1> HIDE DEF o, t, r
<1>5. /\ IsSeq(t \o o)
      /\ \A k \in 1..Len(t \o o) : (\E i \in 1..Len(t) : (t \o o)[k] = t[i]) \/ (\E i \in 1..Len(o) : (t \o o)[k] = o[i])
  BY <1>2, ConcatIsSeq
<1>6. GoodSetters(t \o o)
  BY <1>2, <1>3, <1>4, <1>5 DEF GoodSetters
<1> QED
  BY <1>2, <1>6 DEF r

LEMMA ActualAreGood ==
  ASSUME rules \in Chosen, NEW n \in 1..Len(rules), NEW hs, GoodHeaders(hs)
  PROVE  GoodSetters(ActualHeaders(rules[n], hs))
<1> DEFINE r == rules[n]
           fs == HeadersOfRule(r)
           vs == Waiting(r)
           s == OwnParts(fs, On(r), vs)
           a == HeadersNow(s, hs)
<1>1. IsPairs(RuleVars(r)) /\ IsPairs(<<>>)
  BY VariablesArePairs, EmptyIsSeq DEF RuleVars, IsPairs
<1>2. IsPairs(vs)
  BY <1>1 DEF Waiting
<1>3. GoodSetters(fs)
  <2> DEFINE us == IF vs = <<>> THEN RuleVars(r) ELSE <<>>
  <2>1. IsPairs(us)
    BY <1>1
  <2> HIDE DEF us
  <2>2. GoodSetters(HeaderFiltersOf(r, us))
    BY <2>1, HeaderSetters
  <2> QED
    BY <2>2 DEF HeadersOfRule, us
<1>4. IsSeq(fs)
  BY <1>3 DEF GoodSetters
<1>5. ActualHeaders(r, hs) = a
  BY Zenon DEF ActualHeaders
<1> HIDE DEF fs, vs
<1>6. IsSeq(s) /\ Len(s) = Len(fs) /\ \A k \in 1..Len(fs) : s[k].filter = fs[k] /\ s[k].variables = vs
  BY <1>4, OwnPartsAre
<1> HIDE DEF s, r
<1>7. IsSeq(a) /\ Len(a) = Len(s) /\ \A k \in 1..Len(s) : a[k] = HeaderNow(s[k], hs)
  BY <1>6, HeadersNowAre
<1> HIDE DEF a
<1>8. ASSUME NEW k \in 1..Len(a) PROVE GoodSetter(a[k])
  <2> DEFINE ws == ResolveResponseHeaders(vs, hs)
  <2>1. IsPairs(ws)
    BY <1>2, ResolvedArePairs
  <2>2. k \in 1..Len(fs)
    BY <1>6, <1>7
  <2>3. GoodSetter(fs[k])
    BY <1>3, <2>2 DEF GoodSetters
  <2>4. a[k] = IF vs = <<>> THEN fs[k] ELSE Filled(fs[k], ws)
    BY <1>6, <1>7, <2>2, Zenon DEF HeaderNow
  <2> HIDE DEF ws
  <2>5. GoodSetter(Filled(fs[k], ws))
    BY <2>1, <2>3, FilledIsGood
  <2> QED
    BY <2>3, <2>4, <2>5
<1>9. GoodSetters(a)
  BY <1>7, <1>8 DEF GoodSetters
<1> QED
  BY <1>5, <1>9 DEF r

LEMMA PickedAreGood ==
  ASSUME rules \in Chosen, NEW K, NEW code, NEW hs, GoodHeaders(hs)
  PROVE  GoodSetters(Picked(HeardOfRules(rules, code, hs), K))
<1> DEFINE w == HeardOfRules(rules, code, hs)
           p == PickedOf(w, K)
           f == Picked(w, K)
<1>1. /\ AllSeqs(w) /\ Len(w) = Len(rules)
      /\ \A k \in 1..Len(rules) :
           w[k] = IF Accepts(On(rules[k]), code) THEN ActualHeaders(rules[k], hs) ELSE <<>>
  BY HeardOfRulesAre
<1> HIDE DEF w
<1>2. /\ AllSeqs(p) /\ Len(p) = Len(w)
      /\ \A k \in 1..Len(w) : p[k] = IF k \in K THEN w[k] ELSE <<>>
      /\ IsSeq(f)
  BY <1>1, PickedAre
<1>3. f = FlattenSeq(p)
  BY DEF Picked
<1> HIDE DEF p, f
<1>4. GoodSetters(<<>>)
  BY EmptyIsSeq DEF GoodSetters
<1>5. ASSUME NEW k \in 1..Len(p) PROVE GoodSetters(p[k])
  <2>1. k \in 1..Len(rules) /\ k \in 1..Len(w)
    BY <1>1, <1>2
  <2>2. GoodSetters(ActualHeaders(rules[k], hs))
    BY <2>1, ActualAreGood
  <2> QED
    BY <1>1, <1>2, <1>4, <2>1, <2>2, Zenon
<1>6. ASSUME NEW k \in 1..Len(f) PROVE GoodSetter(f[k])
  <2>1. PICK i \in 1..Len(p) : \E j \in 1..Len(p[i]) : f[k] = p[i][j]
    BY <1>2, <1>3, FlattenHas
  <2> QED
    BY <1>5, <2>1 DEF GoodSetters
<1>7. GoodSetters(f)
  BY <1>2, <1>6 DEF GoodSetters
<1> QED
  BY <1>7 DEF f, w

LEMMA SetAppended ==
  ASSUME NEW hs, GoodHeaders(hs), NEW f, GoodSetter(f)
  PROVE  GoodHeaders(Append(hs, Set(f)))
<1> DEFINE x == Set(f)
           u == Append(hs, x)
<1>1. x.value = f.value
  BY DEF Set
<1> HIDE DEF x
<1>2. IsSeq(hs) /\ Len(hs) \in Nat
  BY DEF GoodHeaders, IsSeq
<1>3. IsSeq(u) /\ Len(u) = Len(hs) + 1 /\ (\A k \in 1..Len(hs) : u[k] = hs[k]) /\ u[Len(hs) + 1] = x
  BY <1>2, AppendedIs
<1> HIDE DEF u
<1>4. ASSUME NEW k \in 1..Len(u) PROVE GoodText(u[k].value)
  <2>1. CASE k \in 1..Len(hs)
    BY <1>3, <2>1 DEF GoodHeaders
  <2>2. CASE k = Len(hs) + 1
    BY <1>1, <1>3, <2>2 DEF GoodSetter
  <2> QED
    BY <1>2, <1>3, <2>1, <2>2
<1>5. GoodHeaders(u)
  BY <1>3, <1>4 DEF GoodHeaders
<1> QED
  BY <1>5 DEF u, x

LEMMA SetReplaced ==
  ASSUME NEW hs, GoodHeaders(hs), NEW f, GoodSetter(f)
  PROVE  GoodHeaders(Replaced(f, hs))
<1> DEFINE a == Replaced(f, hs)
<1>1. DOMAIN hs = 1..Len(hs) /\ Len(hs) \in Nat
  BY DEF GoodHeaders, IsSeq
<1>2. /\ a = [k \in 1..Len(hs) |-> a[k]]
      /\ \A k \in 1..Len(hs) : a[k] = IF SameHeader(hs[k].name, f.header) THEN Set(f) ELSE hs[k]
  BY <1>1 DEF Replaced
<1>3. GoodText(Set(f).value)
  BY DEF Set, GoodSetter
<1> HIDE DEF a
<1>4. IsSeq(a) /\ Len(a) = Len(hs)
  BY <1>1, <1>2, FunctionIsSeq
<1>5. \A k \in 1..Len(hs) : GoodText(hs[k].value)
  BY DEF GoodHeaders
<1>6. GoodHeaders(a)
  BY <1>2, <1>3, <1>4, <1>5 DEF GoodHeaders
<1> QED
  BY <1>6 DEF a

LEMMA SomeRemoved ==
  ASSUME NEW hs, GoodHeaders(hs), NEW f
  PROVE  GoodHeaders(FlattenSeq(Others(f, hs)))
<1> DEFINE p == Others(f, hs)
           u == FlattenSeq(p)
<1>1. IsSeq(hs)
  BY DEF GoodHeaders
<1>2. /\ AllSeqs(p) /\ Len(p) = Len(hs)
      /\ \A k \in 1..Len(hs) : p[k] = IF SameHeader(hs[k].name, f.header) THEN <<>> ELSE <<hs[k]>>
  BY <1>1, OthersAre
<1> HIDE DEF p
<1>3. IsSeq(u)
  BY <1>2, FlattenIsSeq DEF AllSeqs
<1>4. ASSUME NEW k \in 1..Len(u) PROVE GoodText(u[k].value)
  <2>1. PICK i \in 1..Len(p) : \E j \in 1..Len(p[i]) : u[k] = p[i][j]
    BY <1>2, FlattenHas
  <2>2. PICK j \in 1..Len(p[i]) : u[k] = p[i][j]
    BY <2>1
  <2> HIDE DEF u
  <2>3. GoodText(hs[i].value)
    BY <1>2 DEF GoodHeaders
  <2>4. p[i] = <<hs[i]>>
    <3>1. p[i] # <<>>
      BY EmptyIsSeq
    <3>2. p[i] = IF SameHeader(hs[i].name, f.header) THEN <<>> ELSE <<hs[i]>>
      BY <1>2
    <3> QED
      BY <3>1, <3>2, Zenon
  <2> DEFINE x == hs[i]
  <2> HIDE DEF x
  <2>5. \A l \in 1..Len(<<x>>) : <<x>>[l] = x
    BY OneIsSeq
  <2>6. u[k] = x
    BY <2>2, <2>4, <2>5 DEF x
  <2> QED
    BY <2>3, <2>6 DEF x
<1> HIDE DEF u
<1>5. GoodHeaders(u)
  BY <1>3, <1>4 DEF GoodHeaders
<1> QED
  BY <1>5 DEF u, p

LEMMA HeadersOfAreGood ==
  ASSUME NEW hs, GoodHeaders(hs), NEW f, GoodSetter(f), f.action \in KnownActions
  PROVE  GoodHeaders(HeadersOf(f, hs))
<1>1. GoodHeaders(Append(hs, Set(f))) /\ GoodHeaders(Replaced(f, hs)) /\ GoodHeaders(FlattenSeq(Others(f, hs)))
  BY SetAppended, SetReplaced, SomeRemoved
<1>2. CASE f.action = "add"
  <2>1. HeadersOf(f, hs) = Append(hs, Set(f))
    BY <1>2, Zenon DEF HeadersOf
  <2> QED
    BY <1>1, <2>1
<1>3. CASE f.action = "default"
  <2>1. HeadersOf(f, hs) = IF Has(hs, f.header) THEN hs ELSE Append(hs, Set(f))
    BY <1>3 DEF HeadersOf
  <2> QED
    BY <1>1, <2>1, Zenon
<1>4. CASE f.action = "override"
  <2>1. HeadersOf(f, hs) = IF Has(hs, f.header) THEN Replaced(f, hs) ELSE Append(hs, Set(f))
    BY <1>4 DEF HeadersOf
  <2> QED
    BY <1>1, <2>1, Zenon
<1>5. CASE f.action = "replace"
  <2>1. HeadersOf(f, hs) = Replaced(f, hs)
    BY <1>5 DEF HeadersOf
  <2> QED
    BY <1>1, <2>1
<1>6. CASE f.action = "remove"
  <2>1. HeadersOf(f, hs) = FlattenSeq(Others(f, hs))
    BY <1>6 DEF HeadersOf
  <2> QED
    BY <1>1, <2>1
<1> QED
  BY <1>2, <1>3, <1>4, <1>5, <1>6 DEF KnownActions

LEMMA FilteredAreGood ==
  ASSUME NEW fs, GoodSetters(fs), NEW hs, GoodHeaders(hs), NEW t
  PROVE  GoodHeaders(FilterAll(fs, hs, t).headers)
<1> DEFINE p == KnownOnes(fs)
           known == Known(fs)
           n == Len(known)
<1>1. /\ AllSeqs(p) /\ Len(p) = Len(fs) /\ known = FlattenSeq(p)
      /\ \A k \in 1..Len(fs) : p[k] = IF fs[k].action \in KnownActions THEN <<fs[k]>> ELSE <<>>
  BY KnownAre DEF GoodSetters
<1> HIDE DEF p, known
<1>2. IsSeq(known) /\ n \in Nat
  BY <1>1, FlattenIsSeq DEF AllSeqs, IsSeq
<1>3. ASSUME NEW k \in 1..n PROVE known[k].action \in KnownActions /\ GoodSetter(known[k])
  <2>1. PICK i \in 1..Len(p) : \E j \in 1..Len(p[i]) : known[k] = p[i][j]
    BY <1>1, FlattenHas
  <2>2. PICK j \in 1..Len(p[i]) : known[k] = p[i][j]
    BY <2>1
  <2> DEFINE x == fs[i]
  <2>3. GoodSetter(x)
    BY <1>1 DEF GoodSetters
  <2>4. p[i] = <<x>> /\ x.action \in KnownActions
    <3>1. p[i] # <<>>
      BY EmptyIsSeq
    <3>2. p[i] = IF x.action \in KnownActions THEN <<x>> ELSE <<>>
      BY <1>1
    <3> QED
      BY <3>1, <3>2, Zenon
  <2> HIDE DEF x
  <2>5. \A l \in 1..Len(<<x>>) : <<x>>[l] = x
    BY OneIsSeq
  <2>6. known[k] = x
    BY <2>2, <2>4, <2>5
  <2> QED
    BY <2>3, <2>4, <2>6
<1>4. PICK f : /\ FilterAll(fs, hs, t).headers = f[n].headers
               /\ f[0].headers = hs
               /\ \A k \in 1..n : f[k].headers = HeadersOf(known[k], f[k - 1].headers)
  <2>1. Len(Known(fs)) \in Nat /\ \A k \in 1..Len(Known(fs)) : Known(fs)[k].action \in KnownActions
    BY <1>2, <1>3 DEF known
  <2> QED
    BY <2>1, FilterAllIs DEF known
<1> DEFINE S == {k \in 0..n : ~ GoodHeaders(f[k].headers)}
<1>5. S = {}
  <2>1. SUFFICES ASSUME S # {} PROVE FALSE
    OBVIOUS
  <2>2. PICK m \in S : \A k \in S : m <= k
    <3>1. S \subseteq Nat
      OBVIOUS
    <3> HIDE DEF S
    <3> QED
      BY <2>1, <3>1, Least
  <2>3. m \in 0..n /\ ~ GoodHeaders(f[m].headers)
    BY <2>2
  <2>4. m # 0
    BY <1>4, <2>3
  <2>5. m - 1 \in 0..n /\ m \in 1..n /\ m - 1 \notin S
    BY <1>2, <2>2, <2>3, <2>4
  <2>6. GoodHeaders(f[m - 1].headers)
    BY <2>5
  <2>7. f[m].headers = HeadersOf(known[m], f[m - 1].headers)
    BY <1>4, <2>5
  <2>8. GoodHeaders(HeadersOf(known[m], f[m - 1].headers))
    BY <1>3, <2>5, <2>6, HeadersOfAreGood
  <2> QED
    BY <2>3, <2>7, <2>8
<1>6. GoodHeaders(f[n].headers)
  <2>1. n \in 0..n
    BY <1>2
  <2> QED
    BY <1>5, <2>1
<1> QED
  BY <1>4, <1>6

----------------------------------------------------------------------------
(* The filters of the body, and the chain that is made of them.            *)

GoodFilter(f) ==
  /\ f.type \in KnownTypes
  /\ f.type \in {"text", "html"} => {"type", "do", "content"} \subseteq DOMAIN f /\ GoodText(f.content)
  /\ f.type = "text" => f.do \in TextKinds
  /\ f.type = "html" => f.do \in VisitorKinds

GoodFilters(fs) == IsSeq(fs) /\ \A k \in 1..Len(fs) : GoodFilter(fs[k])

LEMMA ContentReplaced ==
  ASSUME NEW f, GoodFilter(f), f.type \in {"text", "html"}, NEW x, GoodText(x)
  PROVE  GoodFilter([f EXCEPT !.content = x])
<1> DEFINE g == [f EXCEPT !.content = x]
<1>1. DOMAIN g = DOMAIN f /\ g.type = f.type /\ g.do = f.do /\ g.content = x
  BY DEF GoodFilter
<1> HIDE DEF g
<1>2. GoodFilter(g)
  BY <1>1 DEF GoodFilter
<1> QED
  BY <1>2 DEF g

LEMMA ReplacedAreGood ==
  ASSUME NEW f, GoodFilter(f), NEW vs, IsPairs(vs)
  PROVE  \A g \in BodyReplaced(f, vs) : GoodFilter(g)
<1> DEFINE x == Replace(f.content, vs, TRUE)
           y == Replace(f.content, vs, FALSE)
<1>1. CASE f.type = "text"
  <2>1. GoodText(x)
    BY <1>1, ReplacedIsGood DEF GoodFilter
  <2>2. BodyReplaced(f, vs) = {[f EXCEPT !.content = x]}
    BY <1>1 DEF BodyReplaced
  <2> HIDE DEF x
  <2> QED
    BY <1>1, <2>1, <2>2, ContentReplaced
<1>2. CASE f.type = "html"
  <2>1. GoodText(y)
    BY <1>2, ReplacedIsGood DEF GoodFilter
  <2>2. BodyReplaced(f, vs) = {[f EXCEPT !.content = y]}
    BY <1>2 DEF BodyReplaced
  <2> HIDE DEF y
  <2> QED
    BY <1>2, <2>1, <2>2, ContentReplaced
<1>3. CASE f.type = "markdown"
  BY <1>3 DEF BodyReplaced
<1>4. CASE f.type = "other"
  BY <1>4 DEF BodyReplaced
<1> QED
  BY <1>1, <1>2, <1>3, <1>4 DEF GoodFilter, KnownTypes

(* A sequence of what an option has.                                       *)
LEMMA OptionAsSeq ==
  ASSUME NEW S, S = {} \/ \E x : S = {x}
  PROVE  IsSeq(SetToSeq(S)) /\ \A k \in 1..Len(SetToSeq(S)) : SetToSeq(S)[k] \in S
<1>1. IsFiniteSet(S)
  BY FS_EmptySet, FS_Singleton
<1> QED
  BY <1>1, SetToSeqOfFinite

LEMMA BodiesAreGood ==
  ASSUME NEW fs, GoodFilters(fs), NEW vs, IsPairs(vs)
  PROVE  GoodFilters(BodiesReplaced(fs, vs))
<1> DEFINE p == [k \in DOMAIN fs |-> SetToSeq(BodyReplaced(fs[k], vs))]
           u == BodiesReplaced(fs, vs)
<1>1. DOMAIN fs = 1..Len(fs) /\ Len(fs) \in Nat
  BY DEF GoodFilters, IsSeq
<1>2. u = FlattenSeq(p)
  BY DEF BodiesReplaced
<1>3. p = [k \in 1..Len(fs) |-> p[k]] /\ \A k \in 1..Len(fs) : p[k] = SetToSeq(BodyReplaced(fs[k], vs))
  BY <1>1
<1> HIDE DEF p, u
<1>4. ASSUME NEW k \in 1..Len(fs) PROVE GoodFilters(p[k])
  <2> DEFINE S == BodyReplaced(fs[k], vs)
  <2>1. GoodFilter(fs[k])
    BY DEF GoodFilters
  <2>2. \A g \in S : GoodFilter(g)
    BY <2>1, ReplacedAreGood
  <2>3. S = {} \/ \E x : S = {x}
    BY <2>1, BodyReplacedIs DEF GoodFilter
  <2>4. p[k] = SetToSeq(S)
    BY <1>3
  <2> HIDE DEF S
  <2> QED
    BY <2>2, <2>3, <2>4, OptionAsSeq DEF GoodFilters
<1>5. IsSeq(p) /\ Len(p) = Len(fs)
  BY <1>1, <1>3, FunctionIsSeq
<1>6. AllSeqs(p)
  BY <1>4, <1>5 DEF AllSeqs, GoodFilters
<1>7. IsSeq(u)
  BY <1>2, <1>6, FlattenIsSeq DEF AllSeqs
<1>8. ASSUME NEW k \in 1..Len(u) PROVE GoodFilter(u[k])
  <2>1. PICK i \in 1..Len(p) : \E j \in 1..Len(p[i]) : u[k] = p[i][j]
    BY <1>2, <1>6, FlattenHas
  <2> QED
    BY <1>4, <1>5, <2>1 DEF GoodFilters
<1>9. GoodFilters(u)
  BY <1>7, <1>8 DEF GoodFilters
<1> QED
  BY <1>9 DEF u

LEMMA RuleFilters ==
  ASSUME rules \in Chosen, NEW n \in 1..Len(rules)
  PROVE  GoodFilters(rules[n].bodies)
<1> DEFINE fs == rules[n].bodies
<1>1. IsSeq(fs)
  BY RuleBodiesAre
<1>2. ASSUME NEW k \in 1..Len(fs) PROVE GoodFilter(fs[k])
  <2> DEFINE f == fs[k]
  <2>1. OfTexts(rules[n])
    BY RulesAssumption, Zenon
  <2>2. f \in Range(fs)
    BY <1>1 DEF Range, IsSeq
  <2>3. OfBody(f)
    BY <2>1, <2>2, Zenon DEF OfTexts
  <2> HIDE DEF f
  <2>4. GoodFilter(f)
    BY <2>3, TextIsGood DEF OfBody, GoodFilter, KnownTypes, TextKinds, VisitorKinds
  <2> QED
    BY <2>4 DEF f
<1> HIDE DEF fs
<1>3. GoodFilters(fs)
  BY <1>1, <1>2 DEF GoodFilters
<1> QED
  BY <1>3 DEF fs

LEMMA SaidAreGood ==
  ASSUME rules \in Chosen, NEW K, NEW code, NEW hs, GoodHeaders(hs)
  PROVE  GoodFilters(BodiesSaid(rules, K, code, hs))
<1> DEFINE w == EachSaid(rules, K, code, hs)
           u == BodiesSaid(rules, K, code, hs)
<1>1. /\ AllSeqs(w) /\ Len(w) = Len(rules) /\ u = FlattenSeq(w)
      /\ \A k \in 1..Len(rules) : w[k] = IF k \in K THEN BodySaid(rules, k, code, hs) ELSE <<>>
  BY SaidAre
<1> HIDE DEF w, u
<1>2. GoodFilters(<<>>)
  BY EmptyIsSeq DEF GoodFilters
<1>3. ASSUME NEW k \in 1..Len(w) PROVE GoodFilters(w[k])
  <2> DEFINE vs == VariablesIn(rules, k, hs)
  <2>1. k \in 1..Len(rules)
    BY <1>1
  <2>2. IsPairs(vs)
    <3>1. IsPairs(RuleVariables(rules[k], rules[k].captured, Request))
      BY <2>1, VariablesArePairs
    <3> QED
      BY <3>1, ResolvedArePairs DEF VariablesIn
  <2> HIDE DEF vs
  <2>3. GoodFilters(BodiesReplaced(rules[k].bodies, vs))
    BY <2>1, <2>2, RuleFilters, BodiesAreGood
  <2>4. BodySaid(rules, k, code, hs) = IF Accepts(On(rules[k]), code) THEN BodiesReplaced(rules[k].bodies, vs) ELSE <<>>
    BY Zenon DEF BodySaid, vs
  <2> QED
    BY <1>1, <1>2, <2>1, <2>3, <2>4, Zenon
<1>4. IsSeq(u)
  BY <1>1, FlattenIsSeq DEF AllSeqs
<1>5. ASSUME NEW k \in 1..Len(u) PROVE GoodFilter(u[k])
  <2>1. PICK i \in 1..Len(w) : \E j \in 1..Len(w[i]) : u[k] = w[i][j]
    BY <1>1, FlattenHas
  <2> QED
    BY <1>3, <2>1 DEF GoodFilters
<1>6. GoodFilters(u)
  BY <1>4, <1>5 DEF GoodFilters
<1> QED
  BY <1>6 DEF u

LEMMA VisitorIsGood ==
  ASSUME NEW do \in VisitorKinds, NEW s, NEW i, NEW c, GoodText(c), NEW u
  PROVE  GoodVisitor(Visitor(do, s, i, c, u))
<1> DEFINE h == Visitor(do, s, i, c, u)
<1>1. /\ IsVisitor(h) /\ h.kind = "html" /\ h.do = do /\ h.content = c
      /\ h.held = <<>> /\ h.open = <<>> /\ h.text = <<>>
  BY DEF Visitor, IsVisitor
<1> HIDE DEF h
<1>2. GoodText(<<>>) /\ GoodElements(<<>>) /\ GoodTexts(<<>>)
  BY NoneIsGood, EmptyIsSeq DEF GoodElements, GoodTexts
<1> QED
  BY <1>1, <1>2 DEF GoodVisitor, h

LEMMA CaptureIsGood ==
  ASSUME NEW r
  PROVE  GoodVisitor(Capture(r))
<1> DEFINE h == Capture(r)
<1>1. /\ IsVisitor(h) /\ h.kind = "html" /\ h.do = "capture" /\ h.content = <<>>
      /\ h.held = <<>> /\ h.open = <<>> /\ h.text = [n \in BodyVariables(r) |-> <<>>]
  BY DEF Capture, Visitor, IsVisitor
<1> HIDE DEF h
<1>2. GoodText(<<>>) /\ GoodElements(<<>>)
  BY NoneIsGood, EmptyIsSeq DEF GoodElements
<1>3. GoodTexts(h.text)
  BY <1>1, <1>2 DEF GoodTexts
<1> QED
  BY <1>1, <1>2, <1>3 DEF GoodVisitor, VisitorKinds, h

LEMMA ItemIsGood ==
  ASSUME NEW f, GoodFilter(f), NEW contentType
  PROVE  /\ Item(f, contentType) = {} \/ \E x : Item(f, contentType) = {x}
         /\ \A i \in Item(f, contentType) : GoodItem(i) /\ i.kind # "decode"
<1>1. CASE f.type = "text"
  <2> DEFINE x == [kind |-> "text", do |-> f.do, content |-> f.content, unit |-> f.unit, executed |-> FALSE]
  <2>1. Item(f, contentType) = IF f.do # "replace" /\ contentType \cap Binary # {} THEN {} ELSE {x}
    BY <1>1 DEF Item
  <2>2. x.kind = "text" /\ {"kind", "executed"} \subseteq DOMAIN x /\ x.do = f.do /\ x.content = f.content
    OBVIOUS
  <2> HIDE DEF x
  <2>3. GoodItem(x) /\ x.kind # "decode"
    BY <1>1, <2>2 DEF GoodFilter, GoodItem
  <2> QED
    BY <2>1, <2>3
<1>2. CASE f.type = "html"
  <2> DEFINE x == FilterVisitor(f)
  <2>1. Item(f, contentType) = IF IsHtml(contentType) /\ ~ NoSelector(f) THEN {x} ELSE {}
    BY <1>2 DEF Item
  <2>2. GoodVisitor(x)
    <3>1. \A s, i : GoodVisitor(Visitor(f.do, s, i, f.content, f.unit))
      BY <1>2, VisitorIsGood DEF GoodFilter
    <3> QED
      BY <3>1, Zenon DEF FilterVisitor
  <2> HIDE DEF x
  <2>3. GoodItem(x) /\ x.kind # "decode"
    BY <2>2 DEF GoodItem, GoodVisitor
  <2> QED
    BY <2>1, <2>3
<1>3. CASE f.type = "markdown"
  <2> DEFINE x == [kind |-> "markdown", unit |-> f.unit, data |-> <<>>]
  <2>1. Item(f, contentType) = IF IsHtml(contentType) THEN {x} ELSE {}
    BY <1>3 DEF Item
  <2>2. x.kind = "markdown" /\ {"kind", "data"} \subseteq DOMAIN x /\ x.data = <<>>
    OBVIOUS
  <2> HIDE DEF x
  <2>3. GoodItem(x) /\ x.kind # "decode"
    BY <2>2, NoneIsGood DEF GoodItem
  <2> QED
    BY <2>1, <2>3
<1>4. CASE f.type = "other"
  BY <1>4 DEF Item
<1> QED
  BY <1>1, <1>2, <1>3, <1>4 DEF GoodFilter, KnownTypes

(* Items of which none is a decoder.                                       *)
GoodItems(s) == IsSeq(s) /\ \A k \in 1..Len(s) : GoodItem(s[k]) /\ s[k].kind # "decode"

LEMMA ItemsAreGood ==
  ASSUME NEW b, GoodFilters(b.filters)
  PROVE  GoodItems(Items(b))
<1> DEFINE fs == b.filters
           p == [k \in DOMAIN fs |-> SetToSeq(Item(fs[k], b.contentType))]
           u == Items(b)
<1>1. DOMAIN fs = 1..Len(fs) /\ Len(fs) \in Nat
  BY DEF GoodFilters, IsSeq
<1>2. u = FlattenSeq(p)
  BY DEF Items
<1>3. p = [k \in 1..Len(fs) |-> p[k]] /\ \A k \in 1..Len(fs) : p[k] = SetToSeq(Item(fs[k], b.contentType))
  BY <1>1
<1> HIDE DEF p, u
<1>4. ASSUME NEW k \in 1..Len(fs) PROVE GoodItems(p[k])
  <2> DEFINE S == Item(fs[k], b.contentType)
  <2>1. GoodFilter(fs[k])
    BY DEF GoodFilters
  <2>2. (S = {} \/ \E x : S = {x}) /\ \A i \in S : GoodItem(i) /\ i.kind # "decode"
    BY <2>1, ItemIsGood
  <2>3. p[k] = SetToSeq(S)
    BY <1>3
  <2> HIDE DEF S
  <2> QED
    BY <2>2, <2>3, OptionAsSeq DEF GoodItems
<1>5. IsSeq(p) /\ Len(p) = Len(fs)
  BY <1>1, <1>3, FunctionIsSeq
<1>6. AllSeqs(p)
  BY <1>4, <1>5 DEF AllSeqs, GoodItems
<1>7. IsSeq(u)
  BY <1>2, <1>6, FlattenIsSeq DEF AllSeqs
<1>8. ASSUME NEW k \in 1..Len(u) PROVE GoodItem(u[k]) /\ u[k].kind # "decode"
  <2>1. PICK i \in 1..Len(p) : \E j \in 1..Len(p[i]) : u[k] = p[i][j]
    BY <1>2, <1>6, FlattenHas
  <2> QED
    BY <1>4, <1>5, <2>1 DEF GoodItems
<1>9. GoodItems(u)
  BY <1>7, <1>8 DEF GoodItems
<1> QED
  BY <1>9 DEF u

LEMMA ItemsJoined ==
  ASSUME NEW s, GoodItems(s), NEW t, GoodItems(t)
  PROVE  GoodItems(s \o t)
<1> DEFINE u == s \o t
<1>1. IsSeq(s) /\ IsSeq(t)
  BY DEF GoodItems
<1>2. /\ IsSeq(u)
      /\ \A k \in 1..Len(u) : (\E i \in 1..Len(s) : u[k] = s[i]) \/ (\E i \in 1..Len(t) : u[k] = t[i])
  BY <1>1, ConcatIsSeq
<1> HIDE DEF u
<1>3. GoodItems(u)
  BY <1>2 DEF GoodItems
<1> QED
  BY <1>3 DEF u

LEMMA OneItem ==
  ASSUME NEW i, GoodItem(i), i.kind # "decode"
  PROVE  GoodItems(<<i>>)
BY OneIsSeq DEF GoodItems

LEMMA CapturingIsGood ==
  ASSUME NEW b, NEW items, GoodItems(items)
  PROVE  GoodItems(Capturing(b, items))
<1> DEFINE c == Capture(b.registry)
           y == Buffer
<1>1. GoodItem(c) /\ c.kind # "decode"
  <2>1. GoodVisitor(c)
    BY CaptureIsGood
  <2> HIDE DEF c
  <2> QED
    BY <2>1 DEF GoodItem, GoodVisitor
<1>2. GoodItem(y) /\ y.kind # "decode"
  <2>1. y.kind = "buffer" /\ {"kind", "data"} \subseteq DOMAIN y /\ y.data = <<>>
    BY DEF Buffer
  <2> HIDE DEF y
  <2> QED
    BY <2>1, NoneIsGood DEF GoodItem
<1>3. Capturing(b, items) = IF BodyVariables(b.registry) # {} /\ IsHtml(b.contentType) THEN <<c, y>> \o items ELSE items
  BY DEF Capturing
<1> HIDE DEF c, y
<1>4. GoodItems(<<c, y>>)
  <2>1. GoodItems(<<c>>) /\ GoodItems(<<y>>)
    BY <1>1, <1>2, OneItem
  <2>2. <<c, y>> = <<c>> \o <<y>>
    <3>1. Append(<<c>>, y) = <<c, y>>
      BY Appends
    <3>2. Append(<<c>>, y) = <<c>> \o <<y>>
      BY <2>1, AppendedIsSeq DEF GoodItems
    <3> QED
      BY <3>1, <3>2
  <2> QED
    BY <2>1, <2>2, ItemsJoined
<1>5. GoodItems(<<c, y>> \o items)
  BY <1>4, ItemsJoined
<1> QED
  BY <1>3, <1>5, Zenon

LEMMA ItemsAreAChain ==
  ASSUME NEW s, GoodItems(s)
  PROVE  GoodChain(s)
BY DEF GoodItems, GoodChain

LEMMA NewChainIsGood ==
  ASSUME NEW b, GoodFilters(b.filters)
  PROVE  GoodChain(NewChain(b))
<1> DEFINE items == Capturing(b, Items(b))
           d == [kind |-> "decode", encoding |-> b.encoding, closed |-> FALSE]
           e == [kind |-> "encode"]
<1>1. GoodItems(items)
  BY ItemsAreGood, CapturingIsGood
<1>2. GoodItem(d) /\ d.kind = "decode"
  <2>1. d.kind = "decode" /\ {"kind", "closed"} \subseteq DOMAIN d
    OBVIOUS
  <2> HIDE DEF d
  <2> QED
    BY <2>1 DEF GoodItem
<1>3. GoodItem(e) /\ e.kind # "decode"
  <2>1. e.kind = "encode"
    OBVIOUS
  <2> HIDE DEF e
  <2> QED
    BY <2>1 DEF GoodItem
<1>4. NewChain(b) = IF items = <<>> \/ b.encoding = {} THEN items
                    ELSE IF b.encoding \cap {"gzip", "br", "deflate"} # {}
                         THEN <<d>> \o items \o <<e>> ELSE <<>>
  BY DEF NewChain
<1> HIDE DEF items, d, e
<1>5. GoodChain(<<d>> \o items \o <<e>>)
  <2> DEFINE x == <<d>>
             z == items \o <<e>>
             u == x \o z
  <2>1. GoodItems(z)
    BY <1>1, <1>3, OneItem, ItemsJoined
  <2>2. IsSeq(x) /\ Len(x) = 1 /\ x[1] = d
    BY OneIsSeq
  <2>3. IsSeq(items) /\ IsSeq(<<e>>)
    BY <1>1, OneIsSeq DEF GoodItems
  <2>4. <<d>> \o items \o <<e>> = u
    <3> DEFINE y == <<e>>
    <3>1. IsSeq(x) /\ IsSeq(y)
      BY <2>2, <2>3
    <3> HIDE DEF x, y
    <3>2. x \o (items \o y) = (x \o items) \o y
      BY <2>3, <3>1, ConcatThree
    <3> QED
      BY <3>2, Zenon DEF x, y
  <2> HIDE DEF x, z
  <2>5. IsSeq(z)
    BY <2>1 DEF GoodItems
  <2>6. /\ IsSeq(u) /\ Len(u) = Len(x) + Len(z)
        /\ \A k \in 1..Len(x) : u[k] = x[k]
        /\ \A k \in 1..Len(z) : u[Len(x) + k] = z[k]
    <3>1. IsSeq(x)
      BY <2>2
    <3> QED
      BY <2>5, <3>1, ConcatIsSeq
  <2> HIDE DEF u
  <2>7. Len(z) \in Nat
    BY <2>5 DEF IsSeq
  <2>8. u[1] = d
    BY <2>2, <2>6
  <2>9. ASSUME NEW k \in 1..Len(u), k # 1 PROVE GoodItem(u[k]) /\ u[k].kind # "decode"
    <3>1. k - 1 \in 1..Len(z) /\ 1 + (k - 1) = k
      BY <2>2, <2>6, <2>7, <2>9
    <3>2. u[k] = z[k - 1]
      BY <2>2, <2>6, <3>1
    <3> QED
      BY <2>1, <3>1, <3>2 DEF GoodItems
  <2>10. GoodChain(u)
    BY <1>2, <2>6, <2>8, <2>9 DEF GoodChain
  <2> QED
    BY <2>4, <2>10
<1>6. GoodChain(<<>>)
  BY EmptyIsSeq DEF GoodChain
<1> QED
  BY <1>1, <1>4, <1>5, <1>6, ItemsAreAChain, Zenon

----------------------------------------------------------------------------
(* A part of a sequence, and two that follow one another.                  *)

LEMMA PartIs ==
  ASSUME NEW s, IsSeq(s), NEW m \in 0..Len(s), NEW n \in m..Len(s)
  PROVE  /\ IsSeq(SubSeq(s, m + 1, n)) /\ Len(SubSeq(s, m + 1, n)) = n - m
         /\ \A k \in 1..(n - m) : SubSeq(s, m + 1, n)[k] = s[m + k]
<1> DEFINE T == {s[k] : k \in 1..Len(s)}
           a == m + 1
           l == IF a <= n THEN n - a + 1 ELSE 0
           u == SubSeq(s, a, n)
<1>1. s \in Seq(T) /\ Len(s) \in Nat /\ m \in Nat /\ n \in Nat
  BY IsSeqOfItsOwn DEF IsSeq
<1> HIDE DEF T
<1>2. a \in Nat \ {0} /\ l = n - m /\ a <= Len(s) + 1 /\ n <= Len(s)
  BY <1>1
<1>3. u \in Seq(T)
  BY <1>1, <1>2
<1>4. Len(u) = l
  BY <1>1, <1>2
<1>5. \A k \in 1..l : u[k] = s[k + a - 1]
  BY <1>1, <1>2
<1>6. IsSeq(u)
  BY <1>3, SeqIsSeq
<1>7. \A k \in 1..(n - m) : k + a - 1 = m + k
  BY <1>1
<1> HIDE DEF l, u
<1> QED
  BY <1>2, <1>4, <1>5, <1>6, <1>7 DEF u

LEMMA PartsJoined ==
  ASSUME NEW s, IsSeq(s), NEW l \in 0..Len(s), NEW m \in l..Len(s), NEW n \in m..Len(s)
  PROVE  SubSeq(s, l + 1, n) = SubSeq(s, l + 1, m) \o SubSeq(s, m + 1, n)
<1> DEFINE u == SubSeq(s, l + 1, n)
           v == SubSeq(s, l + 1, m)
           w == SubSeq(s, m + 1, n)
<1>1. Len(s) \in Nat /\ l \in Nat /\ m \in Nat /\ n \in Nat /\ m \in 0..Len(s) /\ n \in l..Len(s)
  BY DEF IsSeq
<1>2. IsSeq(u) /\ Len(u) = n - l /\ \A k \in 1..(n - l) : u[k] = s[l + k]
  BY <1>1, PartIs
<1>3. IsSeq(v) /\ Len(v) = m - l /\ \A k \in 1..(m - l) : v[k] = s[l + k]
  BY <1>1, PartIs
<1>4. IsSeq(w) /\ Len(w) = n - m /\ \A k \in 1..(n - m) : w[k] = s[m + k]
  BY <1>1, PartIs
<1> HIDE DEF u, v, w
<1>5. Len(u) = Len(v) + Len(w)
  BY <1>1, <1>2, <1>3, <1>4
<1>6. \A k \in 1..Len(v) : u[k] = v[k]
  BY <1>1, <1>2, <1>3
<1>7. ASSUME NEW k \in 1..Len(w) PROVE u[Len(v) + k] = w[k]
  <2>1. Len(v) + k \in 1..(n - l) /\ l + (Len(v) + k) = m + k
    BY <1>1, <1>3, <1>4
  <2> QED
    BY <1>2, <1>4, <2>1
<1>8. IsSeq(u) /\ IsSeq(v) /\ IsSeq(w)
  BY <1>2, <1>3, <1>4
<1>9. u = v \o w
  BY <1>5, <1>6, <1>7, <1>8, ConcatIsIt
<1> QED
  BY <1>9 DEF u, v, w

LEMMA NoPart ==
  ASSUME NEW s, IsSeq(s), NEW m \in 0..Len(s)
  PROVE  SubSeq(s, m + 1, m) = <<>>
<1> DEFINE u == SubSeq(s, m + 1, m)
<1>1. m \in m..Len(s) /\ m - m = 0
  BY DEF IsSeq
<1>2. IsSeq(u) /\ Len(u) = m - m
  BY <1>1, PartIs
<1> HIDE DEF u
<1>3. u = <<>>
  BY <1>1, <1>2, EmptyIsIt
<1> QED
  BY <1>3 DEF u

LEMMA PartIsGood ==
  ASSUME NEW s, GoodBytes(s), NEW m \in 0..Len(s), NEW n \in m..Len(s)
  PROVE  GoodBytes(SubSeq(s, m + 1, n))
<1> DEFINE u == SubSeq(s, m + 1, n)
<1>1. IsSeq(s) /\ Len(s) \in Nat
  BY DEF GoodBytes, GoodText, IsSeq
<1>2. IsSeq(u) /\ Len(u) = n - m /\ \A k \in 1..(n - m) : u[k] = s[m + k]
  BY <1>1, PartIs
<1> HIDE DEF u
<1>3. ASSUME NEW k \in 1..Len(u)
      PROVE  (u[k][1] = "ref" => IsSeq(u[k][2])) /\ (u[k][1] = "zip" => GoodText(<<u[k][2]>>))
  <2>1. m + k \in 1..Len(s) /\ u[k] = s[m + k]
    BY <1>1, <1>2
  <2> QED
    BY <2>1 DEF GoodBytes, GoodText
<1>4. GoodBytes(u)
  BY <1>2, <1>3 DEF GoodBytes, GoodText
<1> QED
  BY <1>4 DEF u

----------------------------------------------------------------------------
(* The invariant: as long as the body decodes, whatever is in the chain is *)
(* made of texts; once it does not, it flows.                              *)

FlowsOn(f) ==
  /\ IsSeq(f[2]) /\ f[1] \in 0..taken
  /\ out = f[2] \o SubSeq(body.input, f[1] + 1, taken)

Flowing ==
  /\ phase = "headers" => taken = 0 /\ out = <<>> /\ inError = FALSE /\ failed = {}
  /\ phase # "headers" =>
       /\ GoodBytes(body.input) /\ taken \in 0..Len(body.input) /\ IsSeq(out)
       /\ \A f \in failed : FlowsOn(f)
       /\ phase = "body" /\ ~ inError => failed = {} /\ GoodChain(chain) /\ GoodRegistry(registry)

LEMMA FlowingBegins ==
  ASSUME Flowing, NEW b, Begin(b), GoodBytes(b.input), GoodFilters(b.filters), GoodRegistry(b.registry)
  PROVE  Flowing'
<1>1. /\ phase = "headers" /\ phase' = "body" /\ body' = b /\ registry' = b.registry /\ chain' = NewChain(b)
      /\ inError' = inError /\ taken' = taken /\ out' = out /\ failed' = failed
  BY Zenon DEF Begin
<1>2. taken = 0 /\ out = <<>> /\ failed = {}
  BY <1>1 DEF Flowing
<1>3. GoodChain(NewChain(b))
  BY NewChainIsGood
<1>4. IsSeq(<<>>) /\ 0 \in 0..Len(b.input)
  BY EmptyIsSeq DEF GoodBytes, GoodText, IsSeq
<1>5. phase' # "headers" /\ taken' = 0 /\ out' = <<>> /\ failed' = {}
  BY <1>1, <1>2
<1>6. /\ GoodBytes(body.input)' /\ (taken \in 0..Len(body.input))' /\ IsSeq(out)' /\ GoodChain(chain)'
      /\ GoodRegistry(registry)'
  BY <1>1, <1>3, <1>4, <1>5 DEF GoodBytes
<1> QED
  BY <1>5, <1>6 DEF Flowing

LEMMA FlowingFilters ==
  ASSUME Flowing, NEW n \in 1..Len(body.input), Filter(n)
  PROVE  Flowing'
<1> DEFINE s == FilterChain(Chunk(n))
           c == Chunk(n)
           i == body.input
<1>1. /\ phase = "body" /\ phase' = "body" /\ taken + n <= Len(i) /\ taken' = taken + n /\ body' = body
  BY Zenon DEF Filter
<1>2. inError => out' = out \o c /\ inError' = inError /\ failed' = failed
  BY Zenon DEF Filter
<1>3. ~ inError => /\ inError' = s.refused /\ chain' = s.chain /\ registry' = s.registry
                   /\ out' = out \o (IF s.refused THEN c ELSE s.data)
                   /\ failed' = IF s.refused THEN {<<taken, out>>} ELSE {}
  BY Zenon DEF Filter
<1>4. /\ GoodBytes(i) /\ taken \in 0..Len(i) /\ IsSeq(out) /\ \A f \in failed : FlowsOn(f)
      /\ ~ inError => failed = {} /\ GoodChain(chain) /\ GoodRegistry(registry)
  BY <1>1 DEF Flowing
<1>5. IsSeq(i) /\ Len(i) \in Nat
  BY <1>4 DEF GoodBytes, GoodText, IsSeq
<1>6. taken + n \in taken..Len(i) /\ taken + n \in 0..Len(i) /\ taken \in 0..taken + n
  BY <1>1, <1>4, <1>5
<1>7. c = SubSeq(i, taken + 1, taken + n)
  BY DEF Chunk
<1>8. GoodBytes(c) /\ IsSeq(c)
  <2>1. GoodBytes(c)
    BY <1>4, <1>6, <1>7, PartIsGood
  <2> QED
    BY <2>1 DEF GoodBytes, GoodText
<1>9. ~ inError => GoodChain(s.chain) /\ GoodRegistry(s.registry) /\ IsSeq(s.data)
  BY <1>4, <1>8, FilterChainIsGood DEF GoodText
<1> HIDE DEF s, c, i
<1>10. ASSUME NEW m \in 0..Len(i), m <= taken, NEW u, IsSeq(u), NEW o, o = u \o SubSeq(i, m + 1, taken)
       PROVE  o \o c = u \o SubSeq(i, m + 1, taken + n)
  <2> DEFINE v == SubSeq(i, m + 1, taken)
  <2>1. taken \in m..Len(i)
    BY <1>4, <1>5, <1>10
  <2>2. IsSeq(v)
    BY <1>5, <2>1, PartIs
  <2>3. SubSeq(i, m + 1, taken + n) = v \o c
    BY <1>5, <1>6, <1>7, <2>1, PartsJoined
  <2> HIDE DEF v
  <2>4. IsSeq(u) /\ IsSeq(v) /\ IsSeq(c)
    BY <1>8, <1>10, <2>2
  <2>5. u \o (v \o c) = (u \o v) \o c
    BY <2>4, ConcatThree
  <2>6. o = u \o v
    BY <1>10 DEF v
  <2> QED
    BY <2>3, <2>5, <2>6, Zenon
<1>11. IsSeq(out') /\ \A f \in failed' : /\ IsSeq(f[2]) /\ f[1] \in 0..(taken + n)
                                         /\ out' = f[2] \o SubSeq(i, f[1] + 1, taken + n)
  <2>1. CASE inError
    <3>1. IsSeq(out \o c)
      BY <1>4, <1>8, ConcatIsSeq
    <3>2. ASSUME NEW f \in failed
          PROVE  IsSeq(f[2]) /\ f[1] \in 0..(taken + n) /\ out \o c = f[2] \o SubSeq(i, f[1] + 1, taken + n)
      <4>1. IsSeq(f[2]) /\ f[1] \in 0..taken /\ out = f[2] \o SubSeq(i, f[1] + 1, taken)
        BY <1>4 DEF FlowsOn, i
      <4>2. f[1] \in 0..Len(i) /\ f[1] <= taken /\ f[1] \in 0..(taken + n)
        BY <1>4, <1>5, <4>1
      <4> QED
        BY <1>10, <4>1, <4>2
    <3> QED
      BY <1>2, <2>1, <3>1, <3>2
  <2>2. CASE ~ inError /\ s.refused
    <3>1. out' = out \o c /\ failed' = {<<taken, out>>}
      BY <1>3, <2>2
    <3>2. IsSeq(out \o c)
      BY <1>4, <1>8, ConcatIsSeq
    <3>3. out \o c = out \o SubSeq(i, taken + 1, taken + n)
      BY <1>7
    <3>4. <<taken, out>>[1] = taken /\ <<taken, out>>[2] = out
      OBVIOUS
    <3> QED
      BY <1>4, <1>6, <3>1, <3>2, <3>3, <3>4
  <2>3. CASE ~ inError /\ ~ s.refused
    <3>1. out' = out \o s.data /\ failed' = {}
      BY <1>3, <2>3
    <3>2. IsSeq(out \o s.data)
      BY <1>4, <1>9, <2>3, ConcatIsSeq
    <3> QED
      BY <3>1, <3>2
  <2> QED
    BY <2>1, <2>2, <2>3
<1>12. ~ inError' => failed' = {} /\ GoodChain(chain') /\ GoodRegistry(registry')
  <2>1. CASE inError
    BY <1>2, <2>1
  <2>2. CASE ~ inError
    BY <1>3, <1>9, <2>2
  <2> QED
    BY <2>1, <2>2
<1>13. \A f \in failed' : FlowsOn(f)'
  BY <1>1, <1>11 DEF FlowsOn, i
<1>14. /\ GoodBytes(body.input)' /\ (taken \in 0..Len(body.input))' /\ IsSeq(out)'
       /\ ~ inError' => GoodChain(chain)' /\ GoodRegistry(registry)'
  BY <1>1, <1>4, <1>6, <1>11, <1>12 DEF GoodBytes, i
<1> QED
  BY <1>1, <1>12, <1>13, <1>14 DEF Flowing

LEMMA FlowingEnds ==
  ASSUME Flowing, End
  PROVE  Flowing'
<1> DEFINE s == EndChain
           i == body.input
<1>1. phase = "body" /\ phase' = "end" /\ taken = Len(i) /\ taken' = taken /\ body' = body
  BY Zenon DEF End
<1>2. inError => out' = out /\ failed' = failed
  BY Zenon DEF End
<1>3. ~ inError => IF s.refused THEN out' = out /\ failed' = {<<taken, out>>}
                   ELSE out' = out \o s.data /\ failed' = failed
  BY Zenon DEF End
<1>4. /\ GoodBytes(i) /\ taken \in 0..Len(i) /\ IsSeq(out) /\ \A f \in failed : FlowsOn(f)
      /\ ~ inError => failed = {} /\ GoodChain(chain) /\ GoodRegistry(registry)
  BY <1>1 DEF Flowing
<1>5. IsSeq(i)
  BY <1>4 DEF GoodBytes, GoodText
<1>6. ~ inError => IsSeq(s.data)
  BY <1>4, EndChainIsGood DEF GoodText
<1>7. SubSeq(i, taken + 1, taken) = <<>> /\ out \o <<>> = out
  BY <1>4, <1>5, NoPart, ConcatEmpty
<1> HIDE DEF s, i
<1>8. IsSeq(out') /\ \A f \in failed' : /\ IsSeq(f[2]) /\ f[1] \in 0..taken
                                        /\ out' = f[2] \o SubSeq(i, f[1] + 1, taken)
  <2>1. CASE inError
    BY <1>2, <1>4, <2>1 DEF FlowsOn, i
  <2>2. CASE ~ inError /\ s.refused
    <3>1. <<taken, out>>[1] = taken /\ <<taken, out>>[2] = out /\ taken \in 0..taken
      BY <1>4
    <3>2. out' = out /\ failed' = {<<taken, out>>}
      BY <1>3, <2>2
    <3> QED
      BY <1>4, <1>7, <3>1, <3>2
  <2>3. CASE ~ inError /\ ~ s.refused
    <3>1. out' = out \o s.data /\ failed' = {}
      BY <1>3, <1>4, <2>3
    <3>2. IsSeq(out \o s.data)
      BY <1>4, <1>6, <2>3, ConcatIsSeq
    <3> QED
      BY <3>1, <3>2
  <2> QED
    BY <2>1, <2>2, <2>3
<1>9. \A f \in failed' : FlowsOn(f)'
  BY <1>1, <1>8 DEF FlowsOn, i
<1>10. GoodBytes(body.input)' /\ (taken \in 0..Len(body.input))' /\ IsSeq(out)'
  BY <1>1, <1>4, <1>8 DEF GoodBytes, i
<1> QED
  BY <1>1, <1>9, <1>10 DEF Flowing

LEMMA FlowingPanics ==
  ASSUME Flowing, Panic
  PROVE  Flowing'
<1>1. /\ phase = "body" /\ phase' = "panicked"
      /\ body' = body /\ taken' = taken /\ out' = out /\ failed' = failed
  BY Zenon DEF Panic
<1>2. /\ GoodBytes(body.input) /\ taken \in 0..Len(body.input) /\ IsSeq(out)
      /\ \A f \in failed : FlowsOn(f)
  BY <1>1 DEF Flowing
<1>3. ASSUME NEW f \in failed' PROVE FlowsOn(f)'
  BY <1>1, <1>2 DEF FlowsOn
<1> QED
  BY <1>1, <1>2, <1>3 DEF Flowing

LEMMA FlowStays ==
  ASSUME Flowing, UNCHANGED unitVars
  PROVE  Flowing' /\ phase' = phase
<1>1. /\ body' = body /\ chain' = chain /\ inError' = inError /\ registry' = registry /\ taken' = taken
      /\ out' = out /\ failed' = failed /\ phase' = phase
  BY DEF unitVars
<1>2. \A f : FlowsOn(f)' <=> FlowsOn(f)
  BY <1>1 DEF FlowsOn
<1> QED
  BY <1>1, <1>2 DEF Flowing, GoodBytes

LEMMA FlowingTells == Flowing => FailsOpen
BY DEF Flowing, FlowsOn, FailsOpen

----------------------------------------------------------------------------
(* What the action has for it.                                             *)

LEMMA RegistryIsGood ==
  ASSUME NEW vs, IsPairs(vs)
  PROVE  GoodRegistry(RegistryOf(vs))
<1> DEFINE N == {vs[k][1] : k \in DOMAIN vs}
           last(n) == CHOOSE k \in DOMAIN vs : vs[k][1] = n /\ \A j \in DOMAIN vs : vs[j][1] = n => j <= k
           r == RegistryOf(vs)
<1>1. DOMAIN vs = 1..Len(vs) /\ Len(vs) \in Nat
  BY DEF IsPairs, IsSeq
<1>2. IsFiniteSet(N)
  <2> DEFINE f == [k \in 1..Len(vs) |-> vs[k][1]]
  <2>1. f \in Surjection(1..Len(vs), N)
    BY <1>1 DEF Surjection
  <2>2. IsFiniteSet(1..Len(vs))
    BY <1>1, FS_Interval
  <2> HIDE DEF f, N
  <2> QED
    BY <2>1, <2>2, FS_Surjection
<1>3. DOMAIN r = N /\ \A n \in N : r[n] = vs[last(n)][2]
  BY DEF RegistryOf
<1>4. ASSUME NEW n \in N PROVE last(n) \in 1..Len(vs) /\ IsSeq(n)
  <2> DEFINE S == {k \in 1..Len(vs) : vs[k][1] = n}
  <2>1. S # {} /\ S \subseteq 0..Len(vs)
    BY <1>1
  <2>2. PICK m \in S : \A k \in S : k <= m
    <3> HIDE DEF S
    <3> QED
      BY <1>1, <2>1, Greatest
  <2>3. m \in DOMAIN vs /\ vs[m][1] = n /\ \A j \in DOMAIN vs : vs[j][1] = n => j <= m
    BY <1>1, <2>2
  <2>4. last(n) \in DOMAIN vs
    <3> HIDE DEF S
    <3> QED
      BY <2>3, Zenon
  <2>5. IsSeq(n)
    BY <1>1, <2>3 DEF IsPairs, IsPair
  <2> QED
    BY <1>1, <2>4, <2>5
<1> HIDE DEF N, last, r
<1>5. \A n \in DOMAIN r : IsSeq(n) /\ GoodValue(r[n])
  BY <1>3, <1>4 DEF IsPairs, IsPair
<1>6. GoodRegistry(r)
  BY <1>2, <1>3, <1>5 DEF GoodRegistry
<1> QED
  BY <1>6 DEF r

LEMMA PairsJoined ==
  ASSUME NEW s, IsPairs(s), NEW t, IsPairs(t)
  PROVE  IsPairs(s \o t)
<1> DEFINE u == s \o t
<1>1. IsSeq(s) /\ IsSeq(t)
  BY DEF IsPairs
<1>2. /\ IsSeq(u)
      /\ \A k \in 1..Len(u) : (\E i \in 1..Len(s) : u[k] = s[i]) \/ (\E i \in 1..Len(t) : u[k] = t[i])
  BY <1>1, ConcatIsSeq
<1> HIDE DEF u
<1>3. IsPairs(u)
  BY <1>2 DEF IsPairs
<1> QED
  BY <1>3 DEF u

LEMMA WithoutHeadersArePairs ==
  ASSUME NEW vs, IsPairs(vs)
  PROVE  IsPairs(WithoutHeaders(vs))
<1> DEFINE p == [k \in DOMAIN vs |-> IF vs[k][2].kind = "header" THEN <<>> ELSE <<vs[k]>>]
           u == WithoutHeaders(vs)
<1>1. DOMAIN vs = 1..Len(vs) /\ Len(vs) \in Nat
  BY DEF IsPairs, IsSeq
<1>2. u = FlattenSeq(p)
  BY DEF WithoutHeaders
<1>3. /\ p = [k \in 1..Len(vs) |-> p[k]]
      /\ \A k \in 1..Len(vs) : p[k] = IF vs[k][2].kind = "header" THEN <<>> ELSE <<vs[k]>>
  BY <1>1
<1> HIDE DEF p, u
<1>4. ASSUME NEW k \in 1..Len(vs) PROVE IsPairs(p[k])
  <2> DEFINE x == vs[k]
  <2>1. IsPair(x)
    BY DEF IsPairs
  <2>2. p[k] = IF x[2].kind = "header" THEN <<>> ELSE <<x>>
    BY <1>3
  <2> HIDE DEF x
  <2>3. IsPairs(<<x>>) /\ IsPairs(<<>>)
    BY <2>1, OneIsSeq, EmptyIsSeq DEF IsPairs
  <2> QED
    BY <2>2, <2>3
<1>5. IsSeq(p) /\ Len(p) = Len(vs)
  BY <1>1, <1>3, FunctionIsSeq
<1>6. AllSeqs(p)
  BY <1>4, <1>5 DEF AllSeqs, IsPairs
<1>7. IsSeq(u)
  BY <1>2, <1>6, FlattenIsSeq DEF AllSeqs
<1>8. ASSUME NEW k \in 1..Len(u) PROVE IsPair(u[k])
  <2>1. PICK i \in 1..Len(p) : \E j \in 1..Len(p[i]) : u[k] = p[i][j]
    BY <1>2, <1>6, FlattenHas
  <2> QED
    BY <1>4, <1>5, <2>1 DEF IsPairs
<1>9. IsPairs(u)
  BY <1>7, <1>8 DEF IsPairs
<1> QED
  BY <1>9 DEF u

----------------------------------------------------------------------------
(* An answer's body goes out in one piece or the other at every step.      *)

FlowInv ==
  /\ IsPairs(action.variables)
  /\ stage \in {"headers", "create"} => GoodBytes(backend.body)
  /\ stage = "create" => GoodHeaders(headers)
  /\ stage \notin {"body", "tags", "done"} => phase = "headers"
  /\ Flowing

LEMMA NoBodyIsGood == GoodBytes(<<>>) /\ GoodHeaders(<<>>) /\ IsPairs(<<>>)
BY EmptyIsSeq DEF GoodBytes, GoodText, GoodHeaders, IsPairs

LEMMA BackendsBodyIsGood ==
  ASSUME rules \in Chosen, NEW b \in Backend(rules)
  PROVE  GoodBytes(b.body)
<1>1. IsText(b.body) /\ \A t \in Range(b.body) : t[1] = "zip" => IsText(<<t[2]>>)
  BY BackendAssumption
<1>2. GoodText(b.body) /\ \A t \in Range(b.body) : t[1] = "zip" => GoodText(<<t[2]>>)
  BY <1>1, TextIsGood
<1>3. \A k \in 1..Len(b.body) : b.body[k] \in Range(b.body)
  BY <1>2 DEF GoodText, IsSeq, Range
<1> QED
  BY <1>2, <1>3 DEF GoodBytes

LEMMA FlowInvInit == ResponseInit => FlowInv
<1> SUFFICES ASSUME ResponseInit PROVE FlowInv
  OBVIOUS
<1>1. action = NoAction /\ stage = "rules"
  BY DEF ResponseInit
<1>2. phase = "headers" /\ taken = 0 /\ out = <<>> /\ inError = FALSE /\ failed = {}
  BY DEF ResponseInit, BodyInit
<1>3. action.variables = <<>>
  BY <1>1 DEF NoAction
<1>4. Flowing
  BY <1>2 DEF Flowing
<1> QED
  BY <1>1, <1>2, <1>3, <1>4, NoBodyIsGood DEF FlowInv

LEMMA FlowTaken == ResponseInv /\ FlowInv /\ TakeRule => FlowInv'
<1> SUFFICES ASSUME ResponseInv, FlowInv, TakeRule PROVE FlowInv'
  OBVIOUS
<1> DEFINE r == rules[at]
           a == FromRouteRule(r)
<1>1. rules \in Chosen /\ at \in 1..Len(rules)
  BY RulesAssumption DEF ResponseInv, ActionInv, TakeRule
<1>2. /\ action' = IF r.reset THEN a ELSE Merge(action, a)
      /\ stage = "rules" /\ stage' = "rules" /\ UNCHANGED unitVars
  BY Zenon DEF TakeRule
<1>3. a.variables = WithoutHeaders(RuleVars(r))
  BY DEF FromRouteRule, RuleVars
<1>4. IsPairs(RuleVars(r))
  BY <1>1, VariablesArePairs DEF RuleVars
<1>5. IsPairs(a.variables)
  BY <1>3, <1>4, WithoutHeadersArePairs
<1> HIDE DEF a
<1>6. Merge(action, a).variables = action.variables \o a.variables
  BY DEF Merge
<1>7. IsPairs(action.variables \o a.variables)
  BY <1>5, PairsJoined DEF FlowInv
<1>8. IsPairs(action'.variables)
  BY <1>2, <1>5, <1>6, <1>7
<1>9. Flowing' /\ phase' = phase
  BY <1>2, FlowStays DEF FlowInv
<1> QED
  BY <1>2, <1>8, <1>9 DEF FlowInv

(* A call that tells the body nothing.                                     *)
LEMMA FlowRests ==
  ASSUME FlowInv, UNCHANGED unitVars, IsPairs(action'.variables),
         stage' \in {"headers", "create"} => GoodBytes(backend'.body),
         stage' = "create" => GoodHeaders(headers'),
         stage' \notin {"body", "tags", "done"} => stage \notin {"body", "tags", "done"}
  PROVE  FlowInv'
<1>1. Flowing' /\ phase' = phase
  BY FlowStays DEF FlowInv
<1>2. (stage \notin {"body", "tags", "done"} => phase = "headers")'
  BY <1>1 DEF FlowInv
<1>3. GoodBytes(backend.body)' <=> GoodBytes(backend'.body)
  BY DEF GoodBytes
<1>4. GoodHeaders(headers)' <=> GoodHeaders(headers')
  BY DEF GoodHeaders
<1> QED
  BY <1>1, <1>2, <1>3, <1>4 DEF FlowInv, IsPairs

LEMMA FlowAnswers == ResponseInv /\ FlowInv /\ (AnswerAtOnce \/ AnswerBackend) => FlowInv'
<1> SUFFICES ASSUME ResponseInv, FlowInv, AnswerAtOnce \/ AnswerBackend PROVE FlowInv'
  OBVIOUS
<1>1. /\ stage = "status" /\ stage' = "headers" /\ action' = action /\ UNCHANGED unitVars
      /\ backend'.body = <<>> \/ backend' \in Backend(rules)
  <2>1. CASE AnswerAtOnce
    BY <2>1 DEF AnswerAtOnce, Give
  <2>2. CASE AnswerBackend
    BY <2>2 DEF AnswerBackend, Give
  <2> QED
    BY <2>1, <2>2
<1>2. rules \in Chosen
  BY DEF ResponseInv, ActionInv
<1>3. GoodBytes(backend'.body)
  BY <1>1, <1>2, NoBodyIsGood, BackendsBodyIsGood
<1> QED
  BY <1>1, <1>3, FlowRests DEF FlowInv

LEMMA FlowHeaders == ResponseInv /\ HeadersInv /\ FlowInv /\ FilterHeaders => FlowInv'
<1> SUFFICES ASSUME ResponseInv, HeadersInv, FlowInv, FilterHeaders PROVE FlowInv'
  OBVIOUS
<1> DEFINE heard == Heard(action.headerFilters, backend.code)
           fs == HeadersNow(heard, backend.headers)
<1>1. /\ stage = "headers" /\ stage' = "create" /\ backend' = backend /\ UNCHANGED unitVars
      /\ action' = [action EXCEPT !.tags = [k \in DOMAIN @ |-> TagsResolved(@[k], backend.headers)]]
  BY Zenon DEF FilterHeaders
<1>2. headers' = FilterAll(fs, backend.headers, trace).headers
  BY Zenon DEF FilterHeaders, HeadersNow, HeaderNow, Filled
<1>3. rules \in Chosen /\ at = Len(rules) + 1
  BY <1>1, RulesAssumption DEF ResponseInv, ActionInv
<1>4. KeptUpto(rules, at) = Kept
  BY <1>3, KeptAtEnd
<1>5. fs = Picked(HeardOfRules(rules, backend.code, backend.headers), Kept)
  BY <1>1, <1>4, Zenon DEF HeadersInv, HeadersMergedOf
<1>6. GoodHeaders(backend.headers)
  BY <1>1 DEF HeadersInv
<1> HIDE DEF fs
<1>7. GoodSetters(fs)
  BY <1>3, <1>5, <1>6, PickedAreGood
<1>8. GoodHeaders(headers')
  BY <1>2, <1>6, <1>7, FilteredAreGood
<1>9. action'.variables = action.variables
  BY <1>1 DEF ResponseInv, ActionInv, IsAction
<1>10. GoodBytes(backend'.body) /\ IsPairs(action'.variables)
  BY <1>1, <1>9 DEF FlowInv
<1> QED
  BY <1>1, <1>8, <1>10, FlowRests

LEMMA FlowCreate ==
  ASSUME ResponseInv, TextsInv, FlowInv, NEW hs \in {<<>>, headers}, CreateFilterBody(hs)
  PROVE  FlowInv'
<1> DEFINE heard == Heard(action.bodyFilters, backend.code)
           fs == FlattenSeq([k \in DOMAIN heard |-> Now(heard[k], hs)])
           b == BodyOfResponse(fs, hs)
<1>1. stage = "create" /\ stage' = "body" /\ action' = action
  BY Zenon DEF CreateFilterBody
<1>2. Begin(b)
  BY Zenon DEF CreateFilterBody, Now
<1>3. fs = BodiesOf(heard, hs)
  BY Zenon DEF BodiesOf
<1> HIDE DEF heard, fs
<1>4. rules \in Chosen /\ at = Len(rules) + 1
  BY <1>1, RulesAssumption DEF ResponseInv, ActionInv
<1>5. KeptUpto(rules, at) = Kept
  BY <1>4, KeptAtEnd
<1>6. fs = BodiesSaid(rules, Kept, backend.code, hs)
  BY <1>3, <1>5 DEF TextsInv, BodyMergedOf, heard
<1>7. GoodHeaders(hs)
  BY <1>1, NoBodyIsGood DEF FlowInv
<1>8. GoodFilters(fs)
  BY <1>4, <1>6, <1>7, SaidAreGood
<1>9. GoodRegistry(RegistryOf(action.variables))
  BY RegistryIsGood DEF FlowInv
<1>10. b.filters = fs /\ b.input = backend.body /\ b.registry = RegistryOf(action.variables)
  BY DEF BodyOfResponse
<1> HIDE DEF b
<1>11. GoodBytes(b.input) /\ GoodFilters(b.filters) /\ GoodRegistry(b.registry)
  BY <1>1, <1>8, <1>9, <1>10 DEF FlowInv
<1>12. Flowing'
  BY <1>2, <1>11, FlowingBegins DEF FlowInv
<1> QED
  BY <1>1, <1>12 DEF FlowInv, IsPairs

LEMMA FlowBody == FlowInv /\ FilterBody => FlowInv'
<1> SUFFICES ASSUME FlowInv, FilterBody PROVE FlowInv'
  OBVIOUS
<1>1. /\ stage = "body" /\ UNCHANGED responseVars
      /\ (\E n \in 1..Len(body.input) : Filter(n)) \/ End \/ Panic
  BY Zenon DEF FilterBody
<1>2. Flowing'
  <2>1. ASSUME NEW n \in 1..Len(body.input), Filter(n) PROVE Flowing'
    BY <2>1, FlowingFilters DEF FlowInv
  <2>2. ASSUME End PROVE Flowing'
    BY <2>2, FlowingEnds DEF FlowInv
  <2>3. ASSUME Panic PROVE Flowing'
    BY <2>3, FlowingPanics DEF FlowInv
  <2> QED
    BY <1>1, <2>1, <2>2, <2>3, Zenon
<1>3. stage' = stage /\ action' = action
  BY <1>1 DEF responseVars
<1> QED
  BY <1>1, <1>2, <1>3 DEF FlowInv, IsPairs

LEMMA FlowStep ==
  ResponseInv /\ TextsInv /\ HeadersInv /\ FlowInv /\ [ResponseNext]_<<responseVars, bodyVars>> => FlowInv'
<1> SUFFICES ASSUME ResponseInv, TextsInv, HeadersInv, FlowInv, [ResponseNext]_<<responseVars, bodyVars>>
             PROVE  FlowInv'
  OBVIOUS
<1>1. IsPairs(action.variables)
  BY DEF FlowInv
<1>2. CASE GetPeer
  <2>1. stage = "rules" /\ stage' = "request" /\ action' = action /\ UNCHANGED unitVars
    BY <1>2, Zenon DEF GetPeer
  <2> QED
    BY <1>1, <2>1, FlowRests
<1>3. CASE FilterRequestHeaders
  <2>1. stage = "request" /\ stage' = "status" /\ action' = action /\ UNCHANGED unitVars
    BY <1>3, Zenon DEF FilterRequestHeaders
  <2> QED
    BY <1>1, <2>1, FlowRests
<1>4. CASE \E hs \in {<<>>, headers} : CreateFilterBody(hs)
  <2>1. PICK hs \in {<<>>, headers} : CreateFilterBody(hs)
    BY <1>4, Zenon
  <2> QED
    BY <2>1, FlowCreate
<1>5. CASE ShouldLogRequest
  <2>1. stage' = "tags" /\ action' = action /\ UNCHANGED unitVars
    BY <1>5, Zenon DEF ShouldLogRequest
  <2> QED
    BY <1>1, <2>1, FlowRests
<1>6. CASE GetLogTags
  <2>1. stage' = "done" /\ action' = action /\ UNCHANGED unitVars
    BY <1>6, Zenon DEF GetLogTags
  <2> QED
    BY <1>1, <2>1, FlowRests
<1>7. CASE UNCHANGED <<responseVars, bodyVars>>
  <2>1. /\ UNCHANGED unitVars /\ stage' = stage /\ action' = action /\ backend' = backend
        /\ headers' = headers
    BY <1>7 DEF responseVars, bodyVars, unitVars
  <2> QED
    BY <1>1, <2>1, FlowRests DEF FlowInv
<1> QED
  BY <1>2, <1>3, <1>4, <1>5, <1>6, <1>7, FlowTaken, FlowAnswers, FlowHeaders, FlowBody DEF ResponseNext

LEMMA FlowAlways == ResponseSpec => []FlowInv
BY FlowInvInit, FlowStep, ResponseAlways, TextsAlways, HeadersAlways, PTL DEF ResponseSpec

\* A body that cannot be decoded goes through as it is, from the chunk on at
\* which this is noticed: what had come out stays as it was, and after it nothing
\* is lost and nothing added, in whatever chunks the rest comes. It is so for
\* whatever the rules' filters hold, variables of the body among it.
THEOREM BodyFailsOpen == ResponseSpec => []FailsOpen
<1>1. FlowInv => FailsOpen
  BY FlowingTells DEF FlowInv
<1> QED
  BY <1>1, FlowAlways, PTL

----------------------------------------------------------------------------
(* The trace tells of the headers where the units are labels: a text has   *)
(* nothing of a unit u when each of its tokens is neither the word nor a   *)
(* name that has u among its letters.                                      *)

Mute(token, u) ==
  /\ token # Word(u)
  /\ token[1] = "ref" => \A i \in DOMAIN token[2] : token[2][i] # u

Free(t, u) == GoodText(t) /\ \A k \in 1..Len(t) : Mute(t[k], u)

Spelled(t, u) == GoodText(t) /\ Spells(t, u)

LEMMA FreeIs ==
  ASSUME NEW t, GoodText(t), NEW u
  PROVE  Free(t, u) <=> Without(t, u)
<1>1. DOMAIN t = 1..Len(t)
  BY DEF GoodText, IsSeq
<1> QED
  BY <1>1, Zenon DEF Free, Mute, Without, Spells, Contains

LEMMA FreeNone ==
  ASSUME NEW u
  PROVE  Free(<<>>, u)
BY NoneIsGood DEF Free

LEMMA WordsDiffer ==
  ASSUME NEW w, NEW u, w # u
  PROVE  Mute(Word(w), u)
BY DEF Mute, Word

LEMMA FreeOne ==
  ASSUME NEW x, NEW u, Mute(x, u), x[1] = "ref" => IsSeq(x[2])
  PROVE  Free(<<x>>, u)
<1>1. IsSeq(<<x>>) /\ Len(<<x>>) = 1 /\ <<x>>[1] = x
  BY OneIsSeq
<1> QED
  BY <1>1 DEF Free, GoodText

LEMMA FreeConcat ==
  ASSUME NEW u, NEW s, Free(s, u), NEW t, Free(t, u)
  PROVE  Free(s \o t, u)
<1> DEFINE v == s \o t
<1>1. GoodText(v) /\ IsSeq(s) /\ IsSeq(t)
  BY GoodConcat DEF Free, GoodText
<1>2. \A k \in 1..Len(v) : (\E i \in 1..Len(s) : v[k] = s[i]) \/ (\E i \in 1..Len(t) : v[k] = t[i])
  BY <1>1, ConcatIsSeq
<1> HIDE DEF v
<1>3. \A k \in 1..Len(v) : Mute(v[k], u)
  BY <1>2 DEF Free
<1> QED
  BY <1>1, <1>3 DEF Free, v

LEMMA FreeWord ==
  ASSUME NEW w, NEW u, w # u, NEW t, Free(t, u)
  PROVE  Free(<<Word(w)>> \o t, u)
<1>1. Mute(Word(w), u) /\ Word(w)[1] # "ref"
  BY WordsDiffer, WordIsGood
<1>2. Free(<<Word(w)>>, u)
  BY <1>1, FreeOne, Zenon
<1> QED
  BY <1>2, FreeConcat

LEMMA FreeOption ==
  ASSUME NEW option, NEW u, \A t \in option : Free(t, u)
  PROVE  Free(OrEmpty(option), u)
<1>1. CASE option = {}
  <2>1. OrEmpty(option) = <<>>
    BY <1>1 DEF OrEmpty
  <2> QED
    BY <2>1, FreeNone
<1>2. CASE option # {}
  <2>1. OrEmpty(option) \in option
    BY <1>2, Zenon DEF OrEmpty
  <2> QED
    BY <2>1
<1> QED
  BY <1>1, <1>2

LEMMA FreeTransformed ==
  ASSUME NEW u, u # "T", NEW t, Free(t, u), NEW transformers
  PROVE  Free(Transformed(transformers, t), u)
<1>1. Free(<<Word("T")>> \o t, u)
  BY FreeWord
<1> QED
  BY <1>1, Zenon DEF Transformed

LEMMA FreeFlatten ==
  ASSUME NEW u, NEW p, IsSeq(p), \A k \in 1..Len(p) : Free(p[k], u)
  PROVE  Free(FlattenSeq(p), u)
<1> DEFINE f == FlattenSeq(p)
<1>1. GoodText(f) /\ AllSeqs(p)
  BY FlattenIsGood DEF Free, AllSeqs, GoodText
<1>2. ASSUME NEW i \in 1..Len(f) PROVE Mute(f[i], u)
  <2>1. PICK k \in 1..Len(p) : \E j \in 1..Len(p[k]) : f[i] = p[k][j]
    BY <1>1, FlattenHas
  <2> HIDE DEF f
  <2> QED
    BY <2>1 DEF Free
<1> HIDE DEF f
<1>3. Free(f, u)
  BY <1>1, <1>2 DEF Free
<1> QED
  BY <1>3 DEF f

FreeHeaders(hs, u) == IsSeq(hs) /\ \A k \in 1..Len(hs) : Free(hs[k].value, u)

LEMMA FreeJoined ==
  ASSUME NEW u, u # ",", NEW hs, FreeHeaders(hs, u), NEW name
  PROVE  Free(Joined(hs, name), u)
<1> DEFINE comma(k) == <<Word(",")>> \o hs[k].value
           p == [k \in DOMAIN hs |->
                   IF ~ SameHeader(hs[k].name, name) THEN <<>>
                   ELSE IF \A j \in 1..(k - 1) : ~ SameHeader(hs[j].name, name) THEN hs[k].value
                   ELSE comma(k)]
<1>1. DOMAIN hs = 1..Len(hs) /\ Len(hs) \in Nat
  BY DEF FreeHeaders, IsSeq
<1>2. ASSUME NEW k \in 1..Len(hs) PROVE Free(p[k], u)
  <2>1. Free(hs[k].value, u)
    BY DEF FreeHeaders
  <2>2. Free(comma(k), u)
    BY <2>1, FreeWord
  <2> HIDE DEF comma
  <2>3. p[k] \in {<<>>, hs[k].value, comma(k)}
    BY <1>1, Zenon
  <2> QED
    BY <2>1, <2>2, <2>3, FreeNone
<1>3. p = [k \in 1..Len(hs) |-> p[k]] /\ Joined(hs, name) = FlattenSeq(p)
  BY <1>1, Zenon DEF Joined
<1> HIDE DEF p
<1>4. IsSeq(p) /\ Len(p) = Len(hs)
  BY <1>1, <1>3, FunctionIsSeq
<1>5. Free(FlattenSeq(p), u)
  BY <1>2, <1>4, FreeFlatten
<1> QED
  BY <1>3, <1>5

(* The sort by length brings nothing in.                                   *)
LEMMA InsertKeepsEach ==
  ASSUME NEW S, NEW vs \in Seq(S), NEW v \in S
  PROVE  InsertByLength(vs, v) \in Seq(S)
<1> DEFINE L == {k \in DOMAIN vs : Len(vs[k][1]) >= Len(v[1])}
           n == Len(vs)
           i == Cardinality(L) + 1
           s == SubSeq(vs, 1, i - 1)
           t == SubSeq(vs, i, n)
<1>1. DOMAIN vs = 1..n /\ n \in Nat
  OBVIOUS
<1>2. i \in 1..(n + 1)
  <2>1. L \subseteq 1..n
    BY <1>1
  <2>2. IsFiniteSet(1..n) /\ Cardinality(1..n) = n
    <3> HIDE DEF n
    <3>1. n \in Nat /\ n \in Int /\ 1 \in Int
      BY <1>1
    <3>2. IsFiniteSet(1..n) /\ Cardinality(1..n) = IF 1 > n THEN 0 ELSE n - 1 + 1
      BY <3>1, FS_Interval
    <3> QED
      BY <3>1, <3>2
  <2> HIDE DEF L
  <2>3. Cardinality(L) \in Nat /\ Cardinality(L) <= n
    BY <2>1, <2>2, FS_Subset, FS_CardinalityType
  <2> QED
    BY <1>1, <2>3
<1>3. InsertByLength(vs, v) = s \o <<v>> \o t
  BY Zenon DEF InsertByLength, InsertAt
<1> HIDE DEF L, i
<1>4. s \in Seq(S) /\ t \in Seq(S) /\ <<v>> \in Seq(S)
  BY <1>1, <1>2
<1> HIDE DEF s, t
<1> QED
  BY <1>3, <1>4

LEMMA ByLengthKeepsEach ==
  ASSUME NEW S, NEW vs \in Seq(S)
  PROVE  ByLength(vs) \in Seq(S)
<1> DEFINE n == Len(vs)
           f == CHOOSE h : Sorting(vs, n, h)
<1>1. n \in Nat /\ \A k \in 1..n : vs[k] \in S
  OBVIOUS
<1>2. ByLength(vs) = f[n]
  BY Zenon DEF ByLength, Sorting
<1>3. Sorting(vs, n, f)
  BY <1>1, SortingExists
<1> HIDE DEF f
<1>4. \A k \in 0..n : f[k] = IF k = 0 THEN <<>> ELSE InsertByLength(f[k - 1], vs[k])
  BY <1>3 DEF Sorting
<1> DEFINE D == {k \in 0..n : f[k] \notin Seq(S)}
<1>5. D = {}
  <2>1. SUFFICES ASSUME D # {} PROVE FALSE
    OBVIOUS
  <2>2. PICK m \in D : \A k \in D : m <= k
    <3>1. D \subseteq Nat
      BY <1>1
    <3> HIDE DEF D
    <3> QED
      BY <2>1, <3>1, Least
  <2>3. m # 0
    <3>1. 0 \in 0..n /\ <<>> \in Seq(S)
      BY <1>1
    <3>2. f[0] \in Seq(S)
      BY <1>4, <3>1, Zenon
    <3> QED
      BY <2>2, <3>2
  <2>4. m \in 1..n /\ m - 1 \in 0..n /\ m - 1 \notin D
    BY <1>1, <2>2, <2>3
  <2>5. f[m - 1] \in Seq(S) /\ vs[m] \in S
    BY <1>1, <2>4
  <2>6. InsertByLength(f[m - 1], vs[m]) \in Seq(S)
    BY <2>5, InsertKeepsEach
  <2> QED
    BY <1>4, <2>2, <2>3, <2>6
<1> QED
  BY <1>1, <1>2, <1>5

FreeValue(v, u) ==
  \/ v.kind = "value" /\ Free(v.text, u)
  \/ v.kind \in {"html", "header"} /\ \A t \in v.default : Free(t, u)

FreePairs(vs, u) == IsPairs(vs) /\ \A k \in 1..Len(vs) : FreeValue(vs[k][2], u)

(* What of the values of a rule has nothing of a unit.                     *)
FreeTexts(r, u) ==
  /\ \A m \in DOMAIN r.captured : Free(r.captured[m], u)
  /\ \A v \in Range(r.variables) :
       /\ \A t \in v.default : Free(t, u)
       /\ v.kind = "request" => \A t \in Request[v.from] : Free(t, u)

LEMMA FreeVariable ==
  ASSUME NEW u, u # "T", NEW r, OfTexts(r), FreeTexts(r, u), NEW v \in Range(r.variables)
  PROVE  FreeValue(GetValue(v, r.captured, Request), u)
<1> DEFINE c == r.captured
<1>1. /\ v.kind \in {"html", "header", "marker", "request"} /\ \A t \in v.default : Free(t, u)
      /\ v.kind = "request" => \A t \in Request[v.from] : Free(t, u)
      /\ \A m \in DOMAIN c : Free(c[m], u)
  BY DEF OfTexts, FreeTexts
<1> HIDE DEF c
<1>2. CASE v.kind \in {"html", "header"}
  <2>1. GetValue(v, c, Request) = Deferred(v.kind, v.from, v.default, v.transformers)
    BY <1>2, Zenon DEF GetValue
  <2> QED
    BY <1>1, <1>2, <2>1 DEF FreeValue, Deferred, c
<1>3. ASSUME NEW t, Free(t, u) PROVE FreeValue(Value(Transformed(v.transformers, t)), u)
  <2>1. Free(Transformed(v.transformers, t), u)
    BY <1>3, FreeTransformed
  <2> QED
    BY <2>1 DEF FreeValue, Value
<1>4. CASE v.kind = "marker"
  <2> DEFINE t == IF v.from \in DOMAIN c THEN c[v.from] ELSE <<>>
  <2>1. GetValue(v, c, Request) = Value(Transformed(v.transformers, t))
    BY <1>4 DEF GetValue
  <2>2. Free(t, u)
    BY <1>1, FreeNone
  <2> HIDE DEF t
  <2> QED
    BY <1>3, <2>1, <2>2 DEF c
<1>5. CASE v.kind = "request"
  <2> DEFINE option == IF Request[v.from] = {} THEN v.default ELSE Request[v.from]
  <2>1. GetValue(v, c, Request) = Value(Transformed(v.transformers, OrEmpty(option)))
    BY <1>5 DEF GetValue
  <2>2. \A t \in option : Free(t, u)
    BY <1>1, <1>5
  <2> HIDE DEF option
  <2>3. Free(OrEmpty(option), u)
    BY <2>2, FreeOption
  <2> QED
    BY <1>3, <2>1, <2>3 DEF c
<1> QED
  BY <1>1, <1>2, <1>4, <1>5 DEF c

LEMMA FreeSorted ==
  ASSUME NEW u, NEW vs, FreePairs(vs, u)
  PROVE  FreePairs(ByLength(vs), u)
<1> DEFINE S == {vs[k] : k \in 1..Len(vs)}
           w == ByLength(vs)
<1>1. IsSeq(vs) /\ IsPairs(w)
  BY ByLengthKeepsPairs DEF FreePairs, IsPairs
<1>2. vs \in Seq(S)
  BY <1>1, IsSeqOfItsOwn
<1>3. \A x \in S : FreeValue(x[2], u)
  BY DEF FreePairs
<1> HIDE DEF S
<1>4. w \in Seq(S)
  BY <1>2, ByLengthKeepsEach
<1> HIDE DEF w
<1>5. \A k \in 1..Len(w) : FreeValue(w[k][2], u)
  BY <1>3, <1>4
<1> QED
  BY <1>1, <1>5 DEF FreePairs, w

LEMMA FreeVariables ==
  ASSUME rules \in Chosen, NEW n \in 1..Len(rules), NEW u, u # "T", FreeTexts(rules[n], u)
  PROVE  FreePairs(RuleVars(rules[n]), u)
<1> DEFINE r == rules[n]
           c == r.captured
           S == {<<m, Value(c[m])>> : m \in DOMAIN c}
           given_ == [k \in DOMAIN r.variables |->
                        <<r.variables[k].name, GetValue(r.variables[k], c, Request)>>]
<1>1. IsFiniteSet(DOMAIN c) /\ OfTexts(r) /\ r.variables \in Seq(Range(r.variables))
  BY RulesAssumption, Zenon
<1>2. IsSeq(r.variables)
  BY <1>1, SeqIsSeq
<1>3. FreePairs(SetToSeq(S), u)
  <2>1. IsFiniteSet(S)
    <3> DEFINE f == [m \in DOMAIN c |-> <<m, Value(c[m])>>]
    <3>1. f \in Surjection(DOMAIN c, S)
      BY DEF Surjection
    <3> HIDE DEF f, S
    <3> QED
      BY <1>1, <3>1, FS_Surjection
  <2>2. \A x \in S : IsPair(x) /\ FreeValue(x[2], u)
    <3>1. ASSUME NEW m \in DOMAIN c PROVE IsPair(<<m, Value(c[m])>>) /\ FreeValue(Value(c[m]), u)
      <4>1. IsSeq(m) /\ Free(c[m], u) /\ GoodText(c[m])
        BY <1>1, SequenceIsSeq, TextIsGood DEF OfTexts, FreeTexts
      <4> QED
        BY <4>1 DEF IsPair, GoodValue, Value, FreeValue
    <3> QED
      BY <3>1
  <2> HIDE DEF S
  <2> QED
    BY <2>1, <2>2, SetToSeqOfFinite DEF FreePairs, IsPairs
<1>4. FreePairs(given_, u)
  <2>1. DOMAIN r.variables = 1..Len(r.variables) /\ Len(r.variables) \in Nat
    BY <1>2 DEF IsSeq
  <2>2. given_ = [k \in 1..Len(r.variables) |-> given_[k]]
    BY <2>1
  <2>3. ASSUME NEW k \in 1..Len(r.variables) PROVE IsPair(given_[k]) /\ FreeValue(given_[k][2], u)
    <3> DEFINE v == r.variables[k]
    <3>1. given_[k] = <<v.name, GetValue(v, c, Request)>>
      BY <2>1
    <3>2. v \in Range(r.variables)
      BY <2>1 DEF Range
    <3>3. IsSeq(v.name) /\ GoodValue(GetValue(v, c, Request)) /\ FreeValue(GetValue(v, c, Request), u)
      BY <1>1, <3>2, VariableIsGood, FreeVariable, SequenceIsSeq DEF OfTexts
    <3> HIDE DEF v, given_
    <3> QED
      BY <3>1, <3>3 DEF IsPair
  <2> HIDE DEF given_
  <2> QED
    BY <2>1, <2>2, <2>3, FunctionIsSeq DEF FreePairs, IsPairs
<1>5. RuleVars(r) = ByLength(IF r.variables = <<>> THEN SetToSeq(S) ELSE given_)
  BY Zenon DEF RuleVars, RuleVariables
<1> HIDE DEF S, given_
<1> QED
  BY <1>3, <1>4, <1>5, FreeSorted

LEMMA FreeResolved ==
  ASSUME NEW u, u \notin {"T", ","}, NEW vs, FreePairs(vs, u), NEW hs, FreeHeaders(hs, u)
  PROVE  FreePairs(ResolveResponseHeaders(vs, hs), u)
<1> DEFINE w == ResolveResponseHeaders(vs, hs)
           v(k) == vs[k][2]
           t(k) == IF \E j \in DOMAIN hs : SameHeader(hs[j].name, v(k).from)
                   THEN Joined(hs, v(k).from) ELSE OrEmpty(v(k).default)
<1>1. GoodHeaders(hs) /\ IsPairs(vs) /\ DOMAIN vs = 1..Len(vs) /\ Len(vs) \in Nat
  BY DEF FreeHeaders, GoodHeaders, Free, FreePairs, IsPairs, IsSeq
<1>2. IsPairs(w)
  BY <1>1, ResolvedArePairs
<1>3. Len(w) = Len(vs)
  <2>1. w = [k \in 1..Len(vs) |-> w[k]]
    BY <1>1 DEF ResolveResponseHeaders
  <2> HIDE DEF w
  <2> QED
    BY <1>1, <2>1, FunctionIsSeq
<1>4. ASSUME NEW k \in 1..Len(vs) PROVE FreeValue(w[k][2], u)
  <2>1. w[k][2] = IF v(k).kind # "header" THEN v(k) ELSE ToStatic(v(k), t(k))
    BY <1>1, <1>4 DEF ResolveResponseHeaders
  <2>2. FreeValue(v(k), u)
    BY <1>4 DEF FreePairs
  <2>3. ASSUME v(k).kind = "header" PROVE FreeValue(ToStatic(v(k), t(k)), u)
    <3>1. Free(OrEmpty(v(k).default), u)
      BY <2>2, <2>3, FreeOption DEF FreeValue
    <3>2. Free(Joined(hs, v(k).from), u)
      BY FreeJoined
    <3>3. Free(t(k), u)
      BY <3>1, <3>2, Zenon
    <3> HIDE DEF t
    <3> DEFINE x == Transformed(v(k).transformers, t(k))
    <3>4. Free(x, u)
      BY <3>3, FreeTransformed
    <3>5. ToStatic(v(k), t(k)) = Value(x)
      BY <2>3 DEF ToStatic
    <3> HIDE DEF x, v, t
    <3>6. FreeValue(Value(x), u)
      BY <3>4 DEF FreeValue, Value
    <3> QED
      BY <3>5, <3>6, Zenon
  <2> HIDE DEF w, v, t
  <2> QED
    BY <2>1, <2>2, <2>3, Zenon
<1> HIDE DEF w
<1>5. FreePairs(w, u)
  BY <1>2, <1>3, <1>4 DEF FreePairs
<1> QED
  BY <1>5 DEF w

(* What is replaced neither brings a unit in nor takes it away.            *)
LEMMA ReplacedInFree ==
  ASSUME NEW u, NEW token, token[1] = "ref", IsSeq(token[2]), \A i \in DOMAIN token[2] : token[2][i] # u,
         NEW name, IsSeq(name), NEW by, Free(by, u)
  PROVE  Free(ReplacedIn(token, name, by), u)
<1> DEFINE n == Len(token[2]) - Len(name)
           rest == [k \in 1..n |-> Word(token[2][Len(name) + k])]
<1>1. CASE IsPrefix(name, token[2])
  <2>1. n \in Nat /\ Len(name) \in Nat /\ DOMAIN token[2] = 1..Len(token[2]) /\ Len(token[2]) \in Nat
    BY <1>1 DEF IsPrefix, IsSeq
  <2>2. ASSUME NEW k \in 1..n PROVE Mute(rest[k], u) /\ rest[k][1] # "ref"
    <3>1. rest[k] = Word(token[2][Len(name) + k]) /\ Len(name) + k \in DOMAIN token[2]
      BY <2>1
    <3>2. token[2][Len(name) + k] # u
      BY <3>1
    <3> HIDE DEF rest
    <3> QED
      BY <3>1, <3>2, WordsDiffer, WordIsGood
  <2>3. rest = [k \in 1..n |-> rest[k]]
    OBVIOUS
  <2>4. ReplacedIn(token, name, by) = by \o rest
    BY <1>1, Zenon DEF ReplacedIn
  <2> HIDE DEF rest, n
  <2>5. IsSeq(rest) /\ Len(rest) = n
    BY <2>1, <2>3, FunctionIsSeq
  <2>6. Free(rest, u)
    BY <2>2, <2>5 DEF Free, GoodText
  <2> QED
    BY <2>4, <2>6, FreeConcat
<1>2. CASE ~ IsPrefix(name, token[2])
  <2>1. ReplacedIn(token, name, by) = <<token>>
    BY <1>2, Zenon DEF ReplacedIn
  <2>2. Mute(token, u)
    BY DEF Mute, Word
  <2> QED
    BY <2>1, <2>2, FreeOne
<1> QED
  BY <1>1, <1>2

(* The label of f is that of t.                                            *)
KeepsLabel(f, t, u) == Spelled(f, u) /\ (Contains(f, Word(u)) <=> Contains(t, Word(u)))

LEMMA ReplaceOneLabel ==
  ASSUME NEW u, NEW t, Spelled(t, u), NEW name, IsSeq(name), NEW by, Free(by, u)
  PROVE  KeepsLabel(ReplaceOne(t, name, by), t, u)
<1> DEFINE p == Replacing(t, name, by)
           f == ReplaceOne(t, name, by)
           w == Word(u)
<1>1. /\ GoodText(t) /\ GoodText(by) /\ DOMAIN t = 1..Len(t)
      /\ \A k \in 1..Len(t) : t[k][1] = "ref" =>
           IsSeq(t[k][2]) /\ \A i \in DOMAIN t[k][2] : t[k][2][i] # u
  BY DEF Spelled, Spells, Free, GoodText, IsSeq
<1>2. /\ AllSeqs(p) /\ Len(p) = Len(t) /\ f = FlattenSeq(p) /\ GoodText(f)
      /\ \A k \in 1..Len(t) : p[k] = ReplacedIn(t[k], name, by) /\ (t[k][1] # "ref" => p[k] = <<t[k]>>)
  BY <1>1, ReplacingIs
<1> HIDE DEF p
<1>3. ASSUME NEW i \in 1..Len(f) PROVE Mute(f[i], u) \/ \E k \in 1..Len(t) : f[i] = t[k] /\ t[k][1] # "ref"
  <2>1. PICK k \in 1..Len(p) : \E j \in 1..Len(p[k]) : f[i] = p[k][j]
    BY <1>2, FlattenHas
  <2>2. CASE t[k][1] = "ref"
    <3>1. Free(p[k], u)
      BY <1>1, <1>2, <2>1, <2>2, ReplacedInFree
    <3> QED
      BY <2>1, <3>1 DEF Free
  <2>3. CASE t[k][1] # "ref"
    <3>1. p[k] = <<t[k]>>
      BY <1>2, <2>1, <2>3
    <3>2. f[i] = t[k]
      BY <2>1, <3>1
    <3> QED
      BY <1>2, <2>1, <2>3, <3>2
  <2> QED
    BY <2>2, <2>3
<1>4. Contains(t, w) => Contains(f, w)
  <2>1. Fixed(<<>>)
    BY EmptyIsSeq DEF Fixed
  <2>2. w[1] # "ref"
    BY WordIsGood
  <2> HIDE DEF w, f
  <2> QED
    BY <1>1, <2>1, <2>2, ReplaceOneAround DEF f
<1> HIDE DEF f
<1>5. Contains(f, w) => Contains(t, w)
  BY <1>3 DEF Contains, Mute
<1>6. Spelled(f, u)
  <2>1. \A i \in 1..Len(f) : f[i][1] = "ref" => Mute(f[i], u)
    BY <1>3
  <2> QED
    BY <1>2, <2>1 DEF Spelled, Spells, Mute, GoodText, IsSeq
<1> QED
  BY <1>4, <1>5, <1>6 DEF KeepsLabel, f

LEMMA ReplaceVariableLabel ==
  ASSUME NEW u, NEW t, NEW f, KeepsLabel(f, t, u), NEW v, IsPair(v), FreeValue(v[2], u), NEW d \in BOOLEAN
  PROVE  KeepsLabel(ReplaceVariable(f, v, d), t, u)
<1> DEFINE by == Replacement(v[2], d)
           w == OrEmpty(by)
           name == v[1]
<1>1. CASE by = {}
  BY <1>1, Zenon DEF ReplaceVariable
<1>2. CASE by # {}
  <2>1. \A x \in by : Free(x, u)
    BY DEF Replacement, FreeValue
  <2>2. IsSeq(name)
    BY DEF IsPair
  <2>3. ReplaceVariable(f, v, d) = ReplaceOne(f, name, w)
    BY <1>2, Zenon DEF ReplaceVariable
  <2> HIDE DEF by
  <2>4. Free(w, u)
    BY <2>1, FreeOption
  <2> HIDE DEF w, name
  <2>5. KeepsLabel(ReplaceOne(f, name, w), f, u)
    BY <2>2, <2>4, ReplaceOneLabel DEF KeepsLabel
  <2> QED
    BY <2>3, <2>5, Zenon DEF KeepsLabel
<1> QED
  BY <1>1, <1>2

LEMMA ReplaceLabel ==
  ASSUME NEW u, NEW t, Spelled(t, u), NEW vs, FreePairs(vs, u), NEW d \in BOOLEAN
  PROVE  KeepsLabel(Replace(t, vs, d), t, u)
<1> DEFINE n == Len(vs)
<1>1. n \in Nat
  BY DEF FreePairs, IsPairs, IsSeq
<1>6. PICK f : Replaces(t, vs, d, f)
  BY <1>1, ReplaceIs
<1>2. /\ Replace(t, vs, d) = f[n] /\ f[0] = t
      /\ \A k \in 1..n : f[k] = ReplaceVariable(f[k - 1], vs[k], d)
  BY <1>6 DEF Replaces
<1> DEFINE S == {m \in 0..n : ~ KeepsLabel(f[m], t, u)}
<1>4. S = {}
  <2>1. SUFFICES ASSUME S # {} PROVE FALSE
    OBVIOUS
  <2>2. PICK m \in S : \A k \in S : m <= k
    <3>1. S \subseteq Nat
      BY <1>1
    <3> HIDE DEF S
    <3> QED
      BY <2>1, <3>1, Least
  <2>3. m # 0
    <3>1. KeepsLabel(t, t, u)
      BY DEF KeepsLabel
    <3> QED
      BY <1>2, <2>2, <3>1
  <2>4. m \in 1..n /\ m - 1 \in 0..n /\ m - 1 \notin S
    BY <1>1, <2>2, <2>3
  <2>5. KeepsLabel(f[m - 1], t, u) /\ IsPair(vs[m]) /\ FreeValue(vs[m][2], u)
    BY <2>4 DEF FreePairs, IsPairs
  <2>6. KeepsLabel(ReplaceVariable(f[m - 1], vs[m], d), t, u)
    BY <2>5, ReplaceVariableLabel
  <2> QED
    BY <1>2, <2>2, <2>4, <2>6
<1>5. KeepsLabel(f[n], t, u)
  BY <1>1, <1>4
<1> QED
  BY <1>2, <1>5

LEMMA ReplaceFree ==
  ASSUME NEW u, NEW t, Free(t, u), NEW vs, FreePairs(vs, u), NEW d \in BOOLEAN
  PROVE  Free(Replace(t, vs, d), u)
<1> DEFINE f == Replace(t, vs, d)
<1>1. Spelled(t, u) /\ ~ Contains(t, Word(u))
  BY FreeIs DEF Free, Without, Spelled
<1>2. KeepsLabel(f, t, u)
  BY <1>1, ReplaceLabel
<1> HIDE DEF f
<1>3. Free(f, u)
  BY <1>1, <1>2, FreeIs DEF KeepsLabel, Without, Spelled
<1> QED
  BY <1>3 DEF f

(* The skipped parameters have nothing of it either.                       *)
LEMMA SkippedFree ==
  ASSUME NEW u, u \notin {"?", "&"}, \A t \in Request.skipped : Free(t, u), NEW t, Free(t, u)
  PROVE  Free(WithSkipped(t), u)
<1> DEFINE x == OrEmpty(Request.skipped)
           m == Mark(t)
<1>1. Free(x, u)
  BY FreeOption
<1>2. m # u
  BY DEF Mark
<1>3. WithSkipped(t) = IF Request.skipped = {} THEN t ELSE t \o <<Word(m)>> \o x
  BY Zenon DEF WithSkipped, Mark
<1> HIDE DEF m, x
<1>4. Free(<<Word(m)>>, u)
  <2>1. Mute(Word(m), u) /\ Word(m)[1] # "ref"
    BY <1>2, WordsDiffer, WordIsGood
  <2> QED
    BY <2>1, FreeOne, Zenon
<1>5. Free(t \o <<Word(m)>>, u)
  BY <1>4, FreeConcat
<1>6. Free((t \o <<Word(m)>>) \o x, u)
  BY <1>1, <1>5, FreeConcat
<1> QED
  BY <1>3, <1>6, Zenon

----------------------------------------------------------------------------
(* What the trace tells of a unit, and what each filter of headers makes   *)
(* of it and of the headers whose value has the label.                     *)

IsTrace(t) == t = [applied |-> t.applied, seen |-> t.seen]

Told(t, u) == {p \in t.applied : p[2] = u}

Own(target, unit, u) == IF unit = u THEN {<<target, u>>} ELSE {}

LEMMA ToldAdded ==
  ASSUME NEW t, NEW target, NEW unit, NEW u
  PROVE  /\ IsTrace(AddUnit(t, target, unit))
         /\ Told(AddUnit(t, target, unit), u) = Told(t, u) \cup Own(target, unit, u)
<1> DEFINE s == AddUnit(t, target, unit)
<1>1. s.applied = t.applied \cup {<<target, unit>>} /\ IsTrace(s)
  BY DEF AddUnit, IsTrace
<1> HIDE DEF s
<1>2. <<target, unit>>[2] = unit
  OBVIOUS
<1>3. Told(s, u) = Told(t, u) \cup Own(target, unit, u)
  BY <1>1, <1>2 DEF Told, Own
<1> QED
  BY <1>1, <1>3 DEF s

LEMMA ToldOverridden ==
  ASSUME NEW t, IsTrace(t), NEW target, NEW unit, NEW u
  PROVE  /\ IsTrace(OverrideUnit(t, target, unit))
         /\ Told(OverrideUnit(t, target, unit), u)
              = {p \in Told(t, u) : p[1] # target} \cup Own(target, unit, u)
<1> DEFINE s == [t EXCEPT !.applied = {p \in @ : p[1] # target}]
<1>1. OverrideUnit(t, target, unit) = AddUnit(s, target, unit)
  BY DEF OverrideUnit
<1>2. s.applied = {p \in t.applied : p[1] # target}
  BY DEF IsTrace
<1> HIDE DEF s
<1>3. Told(s, u) = {p \in Told(t, u) : p[1] # target}
  BY <1>2 DEF Told
<1> QED
  BY <1>1, <1>3, ToldAdded

Labelled(h, g) == Contains(h.value, Word(g.unit))

(* The trace tells of the headers what the property says, for one filter.  *)
Tells(g, hs, t) ==
  /\ IsSeq(hs) /\ IsTrace(t)
  /\ \A k \in 1..Len(hs) : Labelled(hs[k], g) => SameHeader(hs[k].name, g.header)
  /\ Told(t, g.unit) \subseteq {<<g.target, g.unit>>}
  /\ (\E k \in 1..Len(hs) : Labelled(hs[k], g)) <=> Told(t, g.unit) # {}

(* What a filter f is to the filter g.                                     *)
Fit(f, g) ==
  /\ f.target = g.target <=> SameHeader(f.header, g.header)
  /\ f.unit = g.unit => f.action # "remove" /\ SameHeader(f.header, g.header)
  /\ f.action # "remove" => (Labelled(f, g) <=> f.unit = g.unit)

LEMMA SetIs ==
  ASSUME NEW f, NEW g
  PROVE  /\ Labelled(Set(f), g) <=> Labelled(f, g)
         /\ \A name : SameHeader(Set(f).name, name) <=> SameHeader(f.header, name)
BY DEF Set, Labelled

LEMMA AddTells ==
  ASSUME NEW g, NEW hs, NEW t, Tells(g, hs, t), NEW f, Fit(f, g), f.action # "remove"
  PROVE  Tells(g, Append(hs, Set(f)), AddUnit(t, f.target, f.unit))
<1> DEFINE h == Append(hs, Set(f))
           s == AddUnit(t, f.target, f.unit)
           n == Len(hs)
<1>1. n \in Nat
  BY DEF Tells, IsSeq
<1>2. IsSeq(h) /\ Len(h) = n + 1 /\ (\A k \in 1..n : h[k] = hs[k]) /\ h[n + 1] = Set(f)
  BY AppendedIs DEF Tells
<1>3. IsTrace(s) /\ Told(s, g.unit) = Told(t, g.unit) \cup Own(f.target, f.unit, g.unit)
  BY ToldAdded
<1> HIDE DEF h, s
<1>4. \A k \in 1..(n + 1) : k \in 1..n \/ k = n + 1
  BY <1>1
<1>5. \A k \in 1..n : k \in 1..(n + 1)
  BY <1>1
<1>6. n + 1 \in 1..(n + 1)
  BY <1>1
<1> HIDE DEF n
<1>7. Labelled(h[n + 1], g) <=> f.unit = g.unit
  BY <1>2, SetIs DEF Fit
<1>8. \A k \in 1..(n + 1) : Labelled(h[k], g) => SameHeader(h[k].name, g.header)
  <2>1. Labelled(h[n + 1], g) => SameHeader(h[n + 1].name, g.header)
    BY <1>2, <1>7, SetIs DEF Fit
  <2> QED
    BY <1>2, <1>4, <2>1 DEF Tells, n
<1>9. Told(s, g.unit) \subseteq {<<g.target, g.unit>>}
  BY <1>3 DEF Tells, Fit, Own
<1>10. (\E k \in 1..(n + 1) : Labelled(h[k], g)) <=> (\E k \in 1..n : Labelled(hs[k], g)) \/ f.unit = g.unit
  BY <1>2, <1>4, <1>5, <1>6, <1>7
<1>11. (\E k \in 1..(n + 1) : Labelled(h[k], g)) <=> Told(s, g.unit) # {}
  BY <1>3, <1>10 DEF Tells, Own, n
<1> QED
  BY <1>2, <1>3, <1>8, <1>9, <1>11 DEF Tells, h, s

(* A unit that overrides those of a target to which nothing is told.       *)
LEMMA NoneOverridden ==
  ASSUME NEW g, NEW hs, NEW t, Tells(g, hs, t), NEW f, Fit(f, g), ~ Has(hs, f.header)
  PROVE  Told(OverrideUnit(t, f.target, f.unit), g.unit) = Told(AddUnit(t, f.target, f.unit), g.unit)
<1>1. DOMAIN hs = 1..Len(hs)
  BY DEF Tells, IsSeq
<1>2. ASSUME NEW p \in Told(t, g.unit) PROVE p[1] # f.target
  <2>1. PICK k \in 1..Len(hs) : Labelled(hs[k], g)
    BY DEF Tells
  <2>2. SameHeader(hs[k].name, g.header)
    BY <2>1 DEF Tells
  <2>3. ~ SameHeader(f.header, g.header)
    BY <1>1, <2>1, <2>2 DEF Has, SameHeader
  <2>4. p = <<g.target, g.unit>>
    BY DEF Tells
  <2> QED
    BY <2>3, <2>4 DEF Fit
<1>3. {p \in Told(t, g.unit) : p[1] # f.target} = Told(t, g.unit)
  BY <1>2
<1>4. IsTrace(t)
  BY DEF Tells
<1>5. ASSUME NEW target, NEW unit, NEW u
      PROVE  /\ Told(AddUnit(t, target, unit), u) = Told(t, u) \cup Own(target, unit, u)
             /\ Told(OverrideUnit(t, target, unit), u)
                  = {p \in Told(t, u) : p[1] # target} \cup Own(target, unit, u)
  BY <1>4, ToldAdded, ToldOverridden
<1> DEFINE target == f.target
           unit == f.unit
           u == g.unit
<1> HIDE DEF target, unit, u
<1>6. /\ Told(AddUnit(t, target, unit), u) = Told(t, u) \cup Own(target, unit, u)
      /\ Told(OverrideUnit(t, target, unit), u)
           = {p \in Told(t, u) : p[1] # target} \cup Own(target, unit, u)
  BY <1>5
<1>7. {p \in Told(t, u) : p[1] # target} = Told(t, u)
  BY <1>3 DEF target, u
<1>8. Told(OverrideUnit(t, target, unit), u) = Told(AddUnit(t, target, unit), u)
  BY <1>6, <1>7
<1> QED
  BY <1>8 DEF target, unit, u

LEMMA SetTells ==
  ASSUME NEW g, NEW hs, NEW t, Tells(g, hs, t), NEW f, Fit(f, g), f.action # "remove", ~ Has(hs, f.header)
  PROVE  Tells(g, Append(hs, Set(f)), OverrideUnit(t, f.target, f.unit))
<1> DEFINE h == Append(hs, Set(f))
           s == AddUnit(t, f.target, f.unit)
           o == OverrideUnit(t, f.target, f.unit)
<1>1. Tells(g, h, s)
  BY AddTells
<1>2. Told(o, g.unit) = Told(s, g.unit) /\ IsTrace(o)
  <2>1. IsTrace(t)
    BY DEF Tells
  <2>2. IsTrace(o)
    BY <2>1, ToldOverridden, Zenon
  <2>3. Told(o, g.unit) = Told(s, g.unit)
    BY NoneOverridden, Zenon
  <2> QED
    BY <2>2, <2>3
<1> HIDE DEF h, s, o
<1>3. Tells(g, h, o)
  BY <1>1, <1>2 DEF Tells
<1> QED
  BY <1>3 DEF h, o

LEMMA ReplaceTells ==
  ASSUME NEW g, NEW hs, NEW t, Tells(g, hs, t), NEW f, Fit(f, g), f.action # "remove", Has(hs, f.header)
  PROVE  Tells(g, Replaced(f, hs), OverrideUnit(t, f.target, f.unit))
<1> DEFINE h == Replaced(f, hs)
           s == OverrideUnit(t, f.target, f.unit)
           n == Len(hs)
           same == SameHeader(f.header, g.header)
<1>1. n \in Nat /\ DOMAIN hs = 1..n
  BY DEF Tells, IsSeq
<1>2. h = [k \in 1..n |-> h[k]] /\ \A k \in 1..n : h[k] = IF SameHeader(hs[k].name, f.header) THEN Set(f) ELSE hs[k]
  BY <1>1 DEF Replaced
<1>3. IsTrace(s) /\ Told(s, g.unit) =
        {p \in Told(t, g.unit) : p[1] # f.target} \cup Own(f.target, f.unit, g.unit)
  BY ToldOverridden DEF Tells
<1>4. PICK i \in 1..n : SameHeader(hs[i].name, f.header)
  BY <1>1 DEF Has
<1> HIDE DEF h, s
<1>5. IsSeq(h) /\ Len(h) = n
  BY <1>1, <1>2, FunctionIsSeq
<1> HIDE DEF n
<1>6. \A k \in 1..n : Labelled(h[k], g) => SameHeader(h[k].name, g.header)
  <2>1. ASSUME NEW k \in 1..n, SameHeader(hs[k].name, f.header), Labelled(h[k], g)
        PROVE  SameHeader(h[k].name, g.header)
    <3>1. h[k] = Set(f)
      BY <1>2, <2>1
    <3>2. f.unit = g.unit
      BY <2>1, <3>1, SetIs DEF Fit
    <3> QED
      BY <3>1, <3>2, SetIs DEF Fit
  <2>2. ASSUME NEW k \in 1..n, ~ SameHeader(hs[k].name, f.header), Labelled(h[k], g)
        PROVE  SameHeader(h[k].name, g.header)
    <3>1. h[k] = hs[k]
      BY <1>2, <2>2
    <3> QED
      BY <2>2, <3>1 DEF Tells, n
  <2> QED
    BY <2>1, <2>2
<1>7. Told(s, g.unit) \subseteq {<<g.target, g.unit>>}
  BY <1>3 DEF Tells, Fit, Own
<1>8. CASE same
  <2>1. f.target = g.target
    BY <1>8 DEF Fit
  <2>2. Told(s, g.unit) # {} <=> f.unit = g.unit
    <3>1. \A p \in Told(t, g.unit) : p[1] = f.target
      BY <2>1 DEF Tells
    <3> QED
      BY <1>3, <3>1 DEF Own
  <2>3. (\E k \in 1..n : Labelled(h[k], g)) <=> f.unit = g.unit
    <3>1. ASSUME NEW k \in 1..n PROVE Labelled(h[k], g) => f.unit = g.unit
      <4>1. CASE SameHeader(hs[k].name, f.header)
        <5>1. h[k] = Set(f)
          BY <1>2, <4>1
        <5> QED
          BY <5>1, SetIs DEF Fit
      <4>2. CASE ~ SameHeader(hs[k].name, f.header)
        <5>1. h[k] = hs[k]
          BY <1>2, <4>2
        <5>2. ~ SameHeader(hs[k].name, g.header)
          BY <1>8, <4>2 DEF SameHeader
        <5> QED
          BY <5>1, <5>2 DEF Tells, n
      <4> QED
        BY <4>1, <4>2
    <3>2. f.unit = g.unit => Labelled(h[i], g)
      <4>1. h[i] = Set(f)
        BY <1>2, <1>4
      <4> QED
        BY <4>1, SetIs DEF Fit
    <3> QED
      BY <3>1, <3>2
  <2> QED
    BY <1>3, <1>5, <1>6, <1>7, <2>2, <2>3 DEF Tells, h, s
<1>9. CASE ~ same
  <2>1. f.target # g.target /\ f.unit # g.unit
    BY <1>9 DEF Fit
  <2>2. Told(s, g.unit) = Told(t, g.unit)
    <3>1. \A p \in Told(t, g.unit) : p[1] # f.target
      BY <2>1 DEF Tells
    <3> QED
      BY <1>3, <2>1, <3>1 DEF Own
  <2>3. ASSUME NEW k \in 1..n PROVE Labelled(h[k], g) <=> Labelled(hs[k], g)
    <3>1. CASE SameHeader(hs[k].name, f.header)
      <4>1. h[k] = Set(f)
        BY <1>2, <3>1
      <4>2. ~ Labelled(h[k], g)
        BY <2>1, <4>1, SetIs DEF Fit
      <4>3. ~ SameHeader(hs[k].name, g.header)
        BY <1>9, <3>1 DEF SameHeader
      <4> QED
        BY <4>2, <4>3 DEF Tells, n
    <3>2. CASE ~ SameHeader(hs[k].name, f.header)
      BY <1>2, <3>2
    <3> QED
      BY <3>1, <3>2
  <2> QED
    BY <1>3, <1>5, <1>6, <1>7, <2>2, <2>3 DEF Tells, h, s, n
<1> QED
  BY <1>8, <1>9

LEMMA RemoveTells ==
  ASSUME NEW g, NEW hs, NEW t, Tells(g, hs, t), NEW f, Fit(f, g), f.action = "remove"
  PROVE  Tells(g, FlattenSeq(Others(f, hs)), OverrideUnit(t, f.target, f.unit))
<1> DEFINE p == Others(f, hs)
           h == FlattenSeq(p)
           s == OverrideUnit(t, f.target, f.unit)
           same == SameHeader(f.header, g.header)
<1>1. /\ AllSeqs(p) /\ Len(p) = Len(hs)
      /\ \A k \in 1..Len(hs) : p[k] = IF SameHeader(hs[k].name, f.header) THEN <<>> ELSE <<hs[k]>>
  BY OthersAre DEF Tells
<1>2. f.unit # g.unit
  BY DEF Fit
<1>3. IsTrace(s) /\ Told(s, g.unit) = {q \in Told(t, g.unit) : q[1] # f.target}
  <2>1. IsTrace(t)
    BY DEF Tells
  <2>2. ASSUME NEW target, NEW unit, NEW u, unit # u
        PROVE  /\ IsTrace(OverrideUnit(t, target, unit))
               /\ Told(OverrideUnit(t, target, unit), u) = {q \in Told(t, u) : q[1] # target}
    <3>1. Own(target, unit, u) = {}
      BY <2>2, Zenon DEF Own
    <3>2. /\ IsTrace(OverrideUnit(t, target, unit))
          /\ Told(OverrideUnit(t, target, unit), u)
               = {q \in Told(t, u) : q[1] # target} \cup Own(target, unit, u)
      BY <2>1, ToldOverridden
    <3> QED
      BY <3>1, <3>2
  <2> QED
    BY <1>2, <2>2, Zenon
<1> HIDE DEF p, s
<1>4. IsSeq(h)
  BY <1>1, FlattenIsSeq DEF AllSeqs
<1>5. ASSUME NEW i \in 1..Len(h)
      PROVE  \E k \in 1..Len(hs) : h[i] = hs[k] /\ ~ SameHeader(hs[k].name, f.header)
  <2>1. PICK k \in 1..Len(p) : \E j \in 1..Len(p[k]) : h[i] = p[k][j]
    BY <1>1, FlattenHas
  <2>4. k \in 1..Len(hs) /\ p[k] # <<>>
    BY <1>1, <2>1
  <2>2. ~ SameHeader(hs[k].name, f.header) /\ p[k] = <<hs[k]>>
    BY <1>1, <2>4, Zenon
  <2>3. h[i] = hs[k]
    BY <2>1, <2>2
  <2> QED
    BY <1>1, <2>1, <2>2, <2>3
<1>6. ASSUME NEW k \in 1..Len(hs), ~ SameHeader(hs[k].name, f.header)
      PROVE  \E i \in 1..Len(h) : h[i] = hs[k]
  <2>1. p[k] = <<hs[k]>> /\ k \in 1..Len(p)
    BY <1>1, <1>6
  <2>2. 1 \in 1..Len(p[k]) /\ p[k][1] = hs[k]
    BY <2>1
  <2>4. AllSeqs(p)
    BY <1>1
  <2>3. \E i \in 1..Len(h) : h[i] = p[k][1]
    BY <2>1, <2>2, <2>4, FlattenKeeps
  <2> QED
    BY <2>2, <2>3
<1> HIDE DEF h
<1>7. \A i \in 1..Len(h) : Labelled(h[i], g) => SameHeader(h[i].name, g.header)
  BY <1>5 DEF Tells
<1>8. CASE same
  <2>1. Told(s, g.unit) = {}
    <3>1. f.target = g.target
      BY <1>8 DEF Fit
    <3> QED
      BY <1>3, <3>1 DEF Tells
  <2>2. \A i \in 1..Len(h) : ~ Labelled(h[i], g)
    BY <1>5, <1>7, <1>8 DEF SameHeader
  <2> QED
    BY <1>3, <1>4, <1>7, <2>1, <2>2 DEF Tells, h, s, p
<1>9. CASE ~ same
  <2>1. Told(s, g.unit) = Told(t, g.unit)
    <3>1. f.target # g.target
      BY <1>9 DEF Fit
    <3> QED
      BY <1>3, <3>1 DEF Tells
  <2>2. (\E i \in 1..Len(h) : Labelled(h[i], g)) <=> (\E k \in 1..Len(hs) : Labelled(hs[k], g))
    <3>1. ASSUME NEW k \in 1..Len(hs), Labelled(hs[k], g) PROVE \E i \in 1..Len(h) : Labelled(h[i], g)
      <4>1. ~ SameHeader(hs[k].name, f.header)
        BY <1>9, <3>1 DEF Tells, SameHeader
      <4> QED
        BY <1>6, <3>1, <4>1
    <3> QED
      BY <1>5, <3>1
  <2> QED
    BY <1>3, <1>4, <1>7, <2>1, <2>2 DEF Tells, h, s, p
<1> QED
  BY <1>8, <1>9

(* All filters of headers, one after the other.                            *)
LEMMA FilterTells ==
  ASSUME NEW g, NEW s, Tells(g, s.headers, s.trace), NEW f, Fit(f, g), f.action \in KnownActions
  PROVE  Tells(g, FilterOne(f, s).headers, FilterOne(f, s).trace)
<1>1. CASE f.action = "add"
  <2>1. FilterOne(f, s) = HeaderAdd(f, s)
    BY <1>1 DEF FilterOne
  <2>2. Tells(g, Append(s.headers, Set(f)), AddUnit(s.trace, f.target, f.unit))
    BY <1>1, AddTells
  <2> QED
    BY <2>1, <2>2 DEF HeaderAdd
<1>2. CASE f.action = "default"
  <2>1. FilterOne(f, s) = IF Has(s.headers, f.header) THEN s ELSE HeaderAdd(f, s)
    BY <1>2 DEF FilterOne, HeaderDefault
  <2>2. Tells(g, Append(s.headers, Set(f)), AddUnit(s.trace, f.target, f.unit))
    BY <1>2, AddTells
  <2>3. Tells(g, HeaderAdd(f, s).headers, HeaderAdd(f, s).trace)
    BY <2>2 DEF HeaderAdd
  <2> QED
    BY <2>1, <2>3, Zenon
<1>3. CASE f.action = "override"
  <2>1. FilterOne(f, s) = HeaderOverride(f, s)
    BY <1>3 DEF FilterOne
  <2>2. CASE Has(s.headers, f.header)
    <3>1. Tells(g, Replaced(f, s.headers), OverrideUnit(s.trace, f.target, f.unit))
      BY <1>3, <2>2, ReplaceTells
    <3> QED
      BY <2>1, <2>2, <3>1 DEF HeaderOverride
  <2>3. CASE ~ Has(s.headers, f.header)
    <3>1. Tells(g, Append(s.headers, Set(f)), OverrideUnit(s.trace, f.target, f.unit))
      BY <1>3, <2>3, SetTells
    <3> QED
      BY <2>1, <2>3, <3>1 DEF HeaderOverride
  <2> QED
    BY <2>2, <2>3
<1>4. CASE f.action = "replace"
  <2>1. FilterOne(f, s) = HeaderReplace(f, s)
    BY <1>4 DEF FilterOne
  <2>2. CASE Has(s.headers, f.header)
    <3>1. Tells(g, Replaced(f, s.headers), OverrideUnit(s.trace, f.target, f.unit))
      BY <1>4, <2>2, ReplaceTells
    <3> QED
      BY <2>1, <2>2, <3>1 DEF HeaderReplace
  <2>3. CASE ~ Has(s.headers, f.header)
    <3>1. Replaced(f, s.headers) = s.headers
      <4>1. IsSeq(s.headers)
        BY DEF Tells
      <4>2. s.headers = [k \in DOMAIN s.headers |-> s.headers[k]]
        BY <4>1 DEF IsSeq
      <4>3. \A k \in DOMAIN s.headers : ~ SameHeader(s.headers[k].name, f.header)
        BY <2>3 DEF Has
      <4> QED
        BY <4>2, <4>3 DEF Replaced
    <3> QED
      BY <2>1, <2>3, <3>1 DEF HeaderReplace
  <2> QED
    BY <2>2, <2>3
<1>5. CASE f.action = "remove"
  <2>1. FilterOne(f, s) = HeaderRemove(f, s)
    BY <1>5 DEF FilterOne
  <2>2. Tells(g, FlattenSeq(Others(f, s.headers)), OverrideUnit(s.trace, f.target, f.unit))
    BY <1>5, RemoveTells
  <2> QED
    BY <2>1, <2>2 DEF HeaderRemove, Others
<1> QED
  BY <1>1, <1>2, <1>3, <1>4, <1>5 DEF KnownActions

(* A trace that tells nothing of a unit.                                   *)
Silent(t, u) == IsTrace(t) /\ Told(t, u) = {}

LEMMA SilentAdded ==
  ASSUME NEW t, NEW u, Silent(t, u), NEW target, NEW unit, unit # u
  PROVE  Silent(AddUnit(t, target, unit), u) /\ Silent(OverrideUnit(t, target, unit), u)
<1>1. Own(target, unit, u) = {} /\ IsTrace(t) /\ Told(t, u) = {}
  BY Zenon DEF Own, Silent
<1>2. /\ IsTrace(AddUnit(t, target, unit))
      /\ Told(AddUnit(t, target, unit), u) = Told(t, u) \cup Own(target, unit, u)
  BY ToldAdded
<1>3. /\ IsTrace(OverrideUnit(t, target, unit))
      /\ Told(OverrideUnit(t, target, unit), u)
           = {p \in Told(t, u) : p[1] # target} \cup Own(target, unit, u)
  BY <1>1, ToldOverridden
<1>4. Told(OverrideUnit(t, target, unit), u) = {}
  BY <1>1, <1>3
<1> QED
  BY <1>1, <1>2, <1>3, <1>4 DEF Silent

LEMMA FilterSilent ==
  ASSUME NEW u, NEW s, Silent(s.trace, u), NEW f, f.unit # u, f.action \in KnownActions
  PROVE  Silent(FilterOne(f, s).trace, u)
<1>1. Silent(AddUnit(s.trace, f.target, f.unit), u) /\ Silent(OverrideUnit(s.trace, f.target, f.unit), u)
  BY SilentAdded
<1>2. CASE f.action = "add"
  BY <1>1, <1>2 DEF FilterOne, HeaderAdd
<1>3. CASE f.action = "default"
  <2>1. FilterOne(f, s) = IF Has(s.headers, f.header) THEN s ELSE HeaderAdd(f, s)
    BY <1>3 DEF FilterOne, HeaderDefault
  <2>2. Silent(HeaderAdd(f, s).trace, u)
    BY <1>1 DEF HeaderAdd
  <2> QED
    BY <2>1, <2>2, Zenon
<1>4. CASE f.action = "override"
  BY <1>1, <1>4 DEF FilterOne, HeaderOverride
<1>5. CASE f.action = "replace"
  BY <1>1, <1>5 DEF FilterOne, HeaderReplace
<1>6. CASE f.action = "remove"
  BY <1>1, <1>6 DEF FilterOne, HeaderRemove
<1> QED
  BY <1>2, <1>3, <1>4, <1>5, <1>6 DEF KnownActions

(* Filters f in a run of n of them, of which s are the results.            *)
Runs(fs, f, s, n) ==
  \A k \in 1..n : /\ s[k] = FilterOne(f[k], s[k - 1]) /\ f[k].action \in KnownActions
                  /\ \E i \in 1..Len(fs) : f[k] = fs[i]

LEMMA FilterAllRuns ==
  ASSUME NEW fs, IsSeq(fs), NEW hs, NEW t
  PROVE  \E n, f, s : /\ n \in Nat /\ FilterAll(fs, hs, t) = s[n]
                      /\ s[0] = [headers |-> hs, trace |-> t] /\ Runs(fs, f, s, n)
<1> DEFINE known == Known(fs)
           n == Len(known)
           first == [headers |-> hs, trace |-> t]
           s == CHOOSE g : StepsOf(known, first, n, g)
           p == KnownOnes(fs)
<1>1. FilterAll(fs, hs, t) = s[n]
  BY Zenon DEF FilterAll, StepsOf
<1>2. /\ AllSeqs(p) /\ Len(p) = Len(fs) /\ known = FlattenSeq(p)
      /\ \A k \in 1..Len(fs) : p[k] = IF fs[k].action \in KnownActions THEN <<fs[k]>> ELSE <<>>
  BY KnownAre
<1> HIDE DEF p
<1>3. n \in Nat
  BY <1>2, FlattenIsSeq DEF AllSeqs, IsSeq
<1>4. StepsOf(known, first, n, s)
  <2> HIDE DEF known, first, n
  <2> QED
    BY <1>3, StepsExist
<1> HIDE DEF s, known, first
<1>5. ASSUME NEW k \in 1..n
      PROVE  known[k].action \in KnownActions /\ \E i \in 1..Len(fs) : known[k] = fs[i]
  <2>1. PICK i \in 1..Len(p) : \E j \in 1..Len(p[i]) : known[k] = p[i][j]
    BY <1>2, FlattenHas
  <2>2. PICK j \in 1..Len(p[i]) : known[k] = p[i][j]
    BY <2>1
  <2>3. p[i] = <<fs[i]>> /\ fs[i].action \in KnownActions
    <3>1. p[i] # <<>>
      BY EmptyIsSeq
    <3>2. p[i] = IF fs[i].action \in KnownActions THEN <<fs[i]>> ELSE <<>>
      BY <1>2
    <3> QED
      BY <3>1, <3>2, Zenon
  <2>4. known[k] = fs[i]
    BY <2>2, <2>3
  <2> QED
    BY <1>2, <2>3, <2>4
<1>6. s[0] = first /\ \A k \in 1..n : s[k] = FilterOne(known[k], s[k - 1])
  BY <1>3, <1>4 DEF StepsOf
<1>7. Runs(fs, known, s, n)
  BY <1>5, <1>6 DEF Runs
<1> QED
  BY <1>1, <1>3, <1>6, <1>7 DEF first

LEMMA FilterAllTells ==
  ASSUME NEW g, NEW hs, NEW t, Tells(g, hs, t), NEW fs, IsSeq(fs), \A k \in 1..Len(fs) : Fit(fs[k], g)
  PROVE  Tells(g, FilterAll(fs, hs, t).headers, FilterAll(fs, hs, t).trace)
<1>1. PICK n, f, s : /\ n \in Nat /\ FilterAll(fs, hs, t) = s[n]
                     /\ s[0] = [headers |-> hs, trace |-> t] /\ Runs(fs, f, s, n)
  BY FilterAllRuns
<1> DEFINE S == {k \in 0..n : ~ Tells(g, s[k].headers, s[k].trace)}
<1>2. S = {}
  <2>1. SUFFICES ASSUME S # {} PROVE FALSE
    OBVIOUS
  <2>2. PICK m \in S : \A k \in S : m <= k
    <3>1. S \subseteq Nat
      OBVIOUS
    <3> HIDE DEF S
    <3> QED
      BY <2>1, <3>1, Least
  <2>3. m \in 0..n /\ ~ Tells(g, s[m].headers, s[m].trace)
    BY <2>2
  <2>4. m # 0
    BY <1>1, <2>3
  <2>5. m - 1 \in 0..n /\ m \in 1..n /\ m - 1 \notin S
    BY <1>1, <2>2, <2>3, <2>4
  <2>6. Tells(g, s[m - 1].headers, s[m - 1].trace)
    BY <2>5
  <2>7. s[m] = FilterOne(f[m], s[m - 1]) /\ f[m].action \in KnownActions /\ Fit(f[m], g)
    BY <1>1, <2>5 DEF Runs
  <2> QED
    BY <2>3, <2>6, <2>7, FilterTells
<1>3. n \in 0..n
  BY <1>1
<1> QED
  BY <1>1, <1>2, <1>3

LEMMA FilterAllSilent ==
  ASSUME NEW u, NEW t, Silent(t, u), NEW fs, IsSeq(fs), \A k \in 1..Len(fs) : fs[k].unit # u, NEW hs
  PROVE  Silent(FilterAll(fs, hs, t).trace, u)
<1>1. PICK n, f, s : /\ n \in Nat /\ FilterAll(fs, hs, t) = s[n]
                     /\ s[0] = [headers |-> hs, trace |-> t] /\ Runs(fs, f, s, n)
  BY FilterAllRuns
<1> DEFINE S == {k \in 0..n : ~ Silent(s[k].trace, u)}
<1>2. S = {}
  <2>1. SUFFICES ASSUME S # {} PROVE FALSE
    OBVIOUS
  <2>2. PICK m \in S : \A k \in S : m <= k
    <3>1. S \subseteq Nat
      OBVIOUS
    <3> HIDE DEF S
    <3> QED
      BY <2>1, <3>1, Least
  <2>3. m \in 0..n /\ ~ Silent(s[m].trace, u)
    BY <2>2
  <2>4. m # 0
    BY <1>1, <2>3
  <2>5. m - 1 \in 0..n /\ m \in 1..n /\ m - 1 \notin S
    BY <1>1, <2>2, <2>3, <2>4
  <2>6. Silent(s[m - 1].trace, u)
    BY <2>5
  <2>7. s[m] = FilterOne(f[m], s[m - 1]) /\ f[m].action \in KnownActions /\ f[m].unit # u
    BY <1>1, <2>5 DEF Runs
  <2> QED
    BY <2>3, <2>6, <2>7, FilterSilent
<1>3. n \in 0..n
  BY <1>1
<1> QED
  BY <1>1, <1>2, <1>3

----------------------------------------------------------------------------
(* Where the units of the rules are labels: what g is, a filter that sets  *)
(* a header, and what a rule leaves of its unit.                           *)

IsLabel(g) == UnitsAreLabels(rules) /\ g \in Setters(rules)

LEMMA LabelIs ==
  ASSUME rules \in Chosen, NEW g, IsLabel(g)
  PROVE  /\ g.unit \notin {"T", ",", "?", "&"} /\ g.target # "text" /\ g.action # "remove"
         /\ g.target = "location" <=> SameHeader(Location, g.header)
         /\ Spelled(g.value, g.unit) /\ Contains(g.value, Word(g.unit))
         /\ \A t \in Request.skipped : Free(t, g.unit)
<1>1. IsLabelled(g)
  BY DEF IsLabel, UnitsAreLabels
<1>2. PICK k \in DOMAIN rules : g \in Range(rules[k].headers)
  BY Zenon DEF IsLabel, Setters
<1>3. g.action # "remove"
  BY Zenon DEF IsLabel, Setters
<1>4. k \in 1..Len(rules)
  BY RulesAssumption, <1>2
<1>5. GoodText(g.value)
  <2>1. OfTexts(rules[k])
    BY <1>4, RulesAssumption, Zenon
  <2> QED
    BY <1>2, <2>1, TextIsGood DEF OfTexts
<1>6. \A t \in Request.skipped : GoodText(t)
  BY RequestAssumption, TextIsGood
<1>7. \A t \in Request.skipped : Free(t, g.unit)
  BY <1>1, <1>6, FreeIs DEF IsLabelled
<1> QED
  BY <1>1, <1>3, <1>5, <1>7 DEF IsLabelled, Spelled

LEMMA LeavesIs ==
  ASSUME rules \in Chosen, NEW g, IsLabel(g), NEW n \in 1..Len(rules)
  PROVE  LeavesLabel(rules[n], g) /\ OfTexts(rules[n])
<1>1. n \in DOMAIN rules
  BY RulesAssumption
<1> QED
  BY <1>1, RulesAssumption, Zenon DEF IsLabel, UnitsAreLabels

LEMMA RuleTexts ==
  ASSUME rules \in Chosen, NEW g, IsLabel(g), NEW n \in 1..Len(rules)
  PROVE  /\ FreePairs(RuleVars(rules[n]), g.unit) /\ FreePairs(Waiting(rules[n]), g.unit)
         /\ Free(OrEmpty(rules[n].target), g.unit)
<1> DEFINE r == rules[n]
           u == g.unit
<1>1. LeavesLabel(r, g) /\ OfTexts(r)
  BY LeavesIs
<1>2. u # "T"
  BY LabelIs
<1> HIDE DEF r
<1>3. \A t \in r.target : Free(t, u)
  BY <1>1, TextIsGood, FreeIs DEF LeavesLabel, OfTexts
<1>4. \A m \in DOMAIN r.captured : Free(r.captured[m], u)
  BY <1>1, TextIsGood, FreeIs DEF LeavesLabel, OfTexts
<1>5. ASSUME NEW v \in Range(r.variables)
      PROVE  /\ \A t \in v.default : Free(t, u)
             /\ v.kind = "request" => \A t \in Request[v.from] : Free(t, u)
  <2>1. /\ \A t \in v.default : IsText(t) /\ Without(t, u)
        /\ v.kind = "request" => \A t \in Request[v.from] : IsText(t) /\ Without(t, u)
    BY <1>1, Zenon DEF LeavesLabel, OfTexts
  <2> QED
    BY <2>1, TextIsGood, FreeIs
<1>6. FreeTexts(r, u)
  BY <1>4, <1>5 DEF FreeTexts
<1>7. FreePairs(RuleVars(r), u)
  BY <1>2, <1>6, FreeVariables DEF r
<1>8. FreePairs(<<>>, u)
  BY EmptyIsSeq DEF FreePairs, IsPairs
<1>9. FreePairs(Waiting(r), u)
  BY <1>7, <1>8, Zenon DEF Waiting
<1> QED
  BY <1>3, <1>7, <1>9, FreeOption DEF r

(* A filter before its variables are in place.                             *)
Fits(f, g) == Fit(f, g) /\ Spelled(f.value, g.unit) /\ {"action", "header", "value", "target", "unit"} \subseteq DOMAIN f

LEMMA FilledFits ==
  ASSUME NEW f, NEW g, Fits(f, g), NEW vs, FreePairs(vs, g.unit)
  PROVE  Fits(Filled(f, vs), g)
<1> DEFINE x == Replace(f.value, vs, TRUE)
           h == Filled(f, vs)
<1>1. KeepsLabel(x, f.value, g.unit)
  BY ReplaceLabel DEF Fits
<1>2. h = [f EXCEPT !.value = x]
  BY DEF Filled
<1> HIDE DEF x, h
<1>3. /\ h.action = f.action /\ h.header = f.header /\ h.target = f.target /\ h.unit = f.unit
      /\ h.value = x /\ DOMAIN h = DOMAIN f
  BY <1>2 DEF Fits
<1>4. Labelled(h, g) <=> Labelled(f, g)
  BY <1>1, <1>3 DEF Labelled, KeepsLabel
<1>5. Fit(h, g)
  BY <1>3, <1>4 DEF Fits, Fit
<1>6. Spelled(h.value, g.unit)
  BY <1>1, <1>3 DEF KeepsLabel
<1>7. Fits(h, g)
  BY <1>3, <1>5, <1>6 DEF Fits
<1> QED
  BY <1>7 DEF h

LEMMA OwnFits ==
  ASSUME rules \in Chosen, NEW g, IsLabel(g), NEW n \in 1..Len(rules), NEW f \in Range(rules[n].headers)
  PROVE  Fits(f, g)
<1> DEFINE r == rules[n]
           u == g.unit
<1>1. LeavesLabel(r, g) /\ OfTexts(r)
  BY LeavesIs
<1>2. GoodText(f.value) /\ "value" \in DOMAIN f
  BY <1>1, TextIsGood DEF OfTexts
<1>3. {"action", "header", "target", "unit"} \subseteq DOMAIN f
  BY FiltersAssumption, Zenon
<1>4. /\ f.target = g.target <=> SameHeader(f.header, g.header)
      /\ f = g \/ (f.unit # u /\ Without(f.value, u))
  BY <1>1 DEF LeavesLabel
<1>5. /\ Spelled(g.value, u) /\ Contains(g.value, Word(u)) /\ g.action # "remove"
  BY LabelIs
<1>6. CASE f = g
  <2>1. Fit(f, g)
    BY <1>4, <1>5, <1>6 DEF Fit, Labelled, SameHeader
  <2> QED
    BY <1>2, <1>3, <1>5, <1>6, <2>1 DEF Fits
<1>7. CASE f.unit # u /\ Without(f.value, u)
  <2>1. ~ Contains(f.value, Word(u)) /\ Spelled(f.value, u)
    BY <1>2, <1>7 DEF Without, Spelled
  <2>2. Fit(f, g)
    BY <1>4, <1>7, <2>1 DEF Fit, Labelled
  <2> QED
    BY <1>2, <1>3, <2>1, <2>2 DEF Fits
<1> QED
  BY <1>4, <1>6, <1>7

LEMMA LocationFits ==
  ASSUME rules \in Chosen, NEW g, IsLabel(g), NEW n \in 1..Len(rules), NEW t, Free(t, g.unit)
  PROVE  Fits(LocationFilter(t, rules[n].units.redirect), g)
<1> DEFINE x == WithSkipped(t)
           unit == rules[n].units.redirect
           f == LocationFilter(t, unit)
<1>1. Free(x, g.unit)
  BY LabelIs, SkippedFree
<1>2. unit # g.unit
  BY LeavesIs DEF LeavesLabel
<1>3. g.target = "location" <=> SameHeader(Location, g.header)
  BY LabelIs
<1>4. f = [action |-> "override", header |-> Location, value |-> x, target |-> "location", unit |-> unit]
  BY DEF LocationFilter
<1> HIDE DEF x, unit, f
<1>5. GoodText(x) /\ ~ Contains(x, Word(g.unit)) /\ Spelled(x, g.unit)
  BY <1>1, FreeIs DEF Free, Without, Spelled
<1>6. Fit(f, g)
  BY <1>2, <1>3, <1>4, <1>5 DEF Fit, Labelled
<1>7. Fits(f, g)
  BY <1>4, <1>5, <1>6 DEF Fits
<1> QED
  BY <1>7 DEF f, unit

LEMMA HeaderFiltersFit ==
  ASSUME rules \in Chosen, NEW g, IsLabel(g), NEW n \in 1..Len(rules), NEW vs, FreePairs(vs, g.unit)
  PROVE  LET fs == HeaderFiltersOf(rules[n], vs)
         IN IsSeq(fs) /\ \A k \in 1..Len(fs) : Fits(fs[k], g)
<1> DEFINE r == rules[n]
           o == OwnHeaders(r, vs)
           t == TargetFilters(r, vs)
<1>1. IsSeq(r.headers)
  BY RuleHeadersAre
<1>2. /\ IsSeq(o) /\ Len(o) = Len(r.headers) /\ \A k \in 1..Len(r.headers) : o[k] = Filled(r.headers[k], vs)
      /\ IsSeq(t) /\ HeaderFiltersOf(r, vs) = t \o o
  BY <1>1, OwnHeadersAre
<1>3. ASSUME NEW k \in 1..Len(r.headers) PROVE Fits(o[k], g)
  <2> DEFINE f == r.headers[k]
  <2>1. f \in Range(r.headers)
    BY <1>1 DEF Range, IsSeq
  <2>2. Fits(f, g)
    BY <2>1, OwnFits
  <2> HIDE DEF f, o
  <2>3. o[k] = Filled(f, vs)
    BY <1>2 DEF f
  <2> QED
    BY <2>2, <2>3, FilledFits
<1>4. ASSUME NEW k \in 1..Len(t) PROVE Fits(t[k], g)
  <2> DEFINE x == Replace(OrEmpty(r.target), vs, TRUE)
             l == LocationFilter(x, r.units.redirect)
  <2>1. t = IF OrEmpty(r.target) = <<>> THEN <<>> ELSE <<l>>
    BY Zenon DEF TargetFilters
  <2>2. Free(x, g.unit)
    BY RuleTexts, ReplaceFree
  <2>3. Fits(l, g)
    <3> HIDE DEF x
    <3> QED
      BY <2>2, LocationFits
  <2> HIDE DEF l, t, x
  <2>4. t # <<>>
    BY EmptyIsSeq
  <2>5. t = <<l>>
    BY <2>1, <2>4, Zenon
  <2>6. t[k] = l
    BY <2>5, OneIsSeq
  <2> QED
    BY <2>3, <2>6
<1> HIDE DEF o, t, r
<1>5. /\ IsSeq(t \o o)
      /\ \A k \in 1..Len(t \o o) : (\E i \in 1..Len(t) : (t \o o)[k] = t[i]) \/ (\E i \in 1..Len(o) : (t \o o)[k] = o[i])
  BY <1>2, ConcatIsSeq
<1>6. \A k \in 1..Len(t \o o) : Fits((t \o o)[k], g)
  BY <1>2, <1>3, <1>4, <1>5
<1> QED
  BY <1>2, <1>5, <1>6 DEF r

LEMMA ActualFit ==
  ASSUME rules \in Chosen, NEW g, IsLabel(g), NEW n \in 1..Len(rules), NEW hs, FreeHeaders(hs, g.unit)
  PROVE  LET fs == ActualHeaders(rules[n], hs) IN IsSeq(fs) /\ \A k \in 1..Len(fs) : Fits(fs[k], g)
<1> DEFINE r == rules[n]
           fs == HeadersOfRule(r)
           vs == Waiting(r)
           s == OwnParts(fs, On(r), vs)
           a == HeadersNow(s, hs)
<1>1. FreePairs(RuleVars(r), g.unit) /\ FreePairs(vs, g.unit) /\ FreePairs(<<>>, g.unit)
  <2>1. FreePairs(<<>>, g.unit)
    BY EmptyIsSeq DEF FreePairs, IsPairs
  <2> QED
    BY <2>1, RuleTexts
<1>2. IsSeq(fs) /\ \A k \in 1..Len(fs) : Fits(fs[k], g)
  <2> DEFINE us == IF vs = <<>> THEN RuleVars(r) ELSE <<>>
             gs == HeaderFiltersOf(r, us)
  <2>1. FreePairs(us, g.unit)
    BY <1>1
  <2>2. fs = gs
    BY DEF HeadersOfRule
  <2> HIDE DEF us
  <2>3. IsSeq(gs) /\ \A k \in 1..Len(gs) : Fits(gs[k], g)
    BY <2>1, HeaderFiltersFit
  <2> HIDE DEF gs, fs
  <2> QED
    BY <2>2, <2>3
<1>3. ActualHeaders(r, hs) = a
  BY Zenon DEF ActualHeaders
<1> HIDE DEF fs, vs
<1>4. IsSeq(s) /\ Len(s) = Len(fs) /\ \A k \in 1..Len(fs) : s[k].filter = fs[k] /\ s[k].variables = vs
  BY <1>2, OwnPartsAre
<1> HIDE DEF s, r
<1>5. IsSeq(a) /\ Len(a) = Len(s) /\ \A k \in 1..Len(s) : a[k] = HeaderNow(s[k], hs)
  BY <1>4, HeadersNowAre
<1> HIDE DEF a
<1>6. ASSUME NEW k \in 1..Len(a) PROVE Fits(a[k], g)
  <2> DEFINE ws == ResolveResponseHeaders(vs, hs)
  <2>1. FreePairs(ws, g.unit)
    BY <1>1, LabelIs, FreeResolved
  <2>2. k \in 1..Len(fs)
    BY <1>4, <1>5
  <2>3. Fits(fs[k], g)
    BY <1>2, <2>2
  <2>4. a[k] = IF vs = <<>> THEN fs[k] ELSE Filled(fs[k], ws)
    BY <1>4, <1>5, <2>2, Zenon DEF HeaderNow
  <2> HIDE DEF ws
  <2>5. Fits(Filled(fs[k], ws), g)
    BY <2>1, <2>3, FilledFits
  <2> QED
    BY <2>3, <2>4, <2>5
<1> QED
  BY <1>3, <1>5, <1>6 DEF r

LEMMA PickedFit ==
  ASSUME rules \in Chosen, NEW g, IsLabel(g), NEW K, NEW code, NEW hs, FreeHeaders(hs, g.unit)
  PROVE  LET fs == Picked(HeardOfRules(rules, code, hs), K) IN IsSeq(fs) /\ \A k \in 1..Len(fs) : Fit(fs[k], g)
<1> DEFINE w == HeardOfRules(rules, code, hs)
           p == PickedOf(w, K)
           f == Picked(w, K)
<1>1. /\ AllSeqs(w) /\ Len(w) = Len(rules)
      /\ \A k \in 1..Len(rules) :
           w[k] = IF Accepts(On(rules[k]), code) THEN ActualHeaders(rules[k], hs) ELSE <<>>
  BY HeardOfRulesAre
<1> HIDE DEF w
<1>2. /\ AllSeqs(p) /\ Len(p) = Len(w)
      /\ \A k \in 1..Len(w) : p[k] = IF k \in K THEN w[k] ELSE <<>>
      /\ IsSeq(f)
  BY <1>1, PickedAre
<1>3. f = FlattenSeq(p)
  BY DEF Picked
<1> HIDE DEF p, f
<1>4. ASSUME NEW k \in 1..Len(p) PROVE \A j \in 1..Len(p[k]) : Fit(p[k][j], g)
  <2> DEFINE a == ActualHeaders(rules[k], hs)
  <2>1. k \in 1..Len(rules) /\ k \in 1..Len(w)
    BY <1>1, <1>2
  <2>2. \A j \in 1..Len(a) : Fits(a[j], g)
    BY <2>1, ActualFit
  <2>3. p[k] = a \/ p[k] = <<>>
    BY <1>1, <1>2, <2>1, Zenon
  <2> HIDE DEF a
  <2> QED
    BY <2>2, <2>3, EmptyIsSeq DEF Fits
<1>5. ASSUME NEW k \in 1..Len(f) PROVE Fit(f[k], g)
  <2>1. PICK i \in 1..Len(p) : \E j \in 1..Len(p[i]) : f[k] = p[i][j]
    BY <1>2, <1>3, FlattenHas
  <2> QED
    BY <1>4, <2>1
<1> QED
  BY <1>2, <1>5 DEF f, w

(* What a rule says of the request and has of other units.                 *)
LEMMA RequestUnits ==
  ASSUME rules \in Chosen, NEW g, IsLabel(g), NEW n \in 1..Len(rules), NEW vs
  PROVE  \A k \in 1..Len(RequestFiltersOf(rules[n], vs)) : RequestFiltersOf(rules[n], vs)[k].unit # g.unit
<1> DEFINE r == rules[n]
           now == ResolveResponseHeaders(vs, <<>>)
           p == [k \in DOMAIN r.requestHeaders |->
                   LET f == r.requestHeaders[k]
                   IN IF f.header[1] \in Protected THEN <<>>
                      ELSE <<[f EXCEPT !.value = Replace(@, now, TRUE)]>>]
           m == Len(r.requestHeaders)
<1>1. DOMAIN r.requestHeaders = 1..m /\ m \in Nat
  BY RuleHeadersAre DEF IsSeq
<1>2. RequestFiltersOf(r, vs) = IF r.codes # {} THEN <<>> ELSE FlattenSeq(p)
  BY Zenon DEF RequestFiltersOf
<1>3. ASSUME NEW k \in 1..m PROVE p[k] = <<>> \/ \E e : p[k] = <<e>> /\ e.unit # g.unit
  <2> DEFINE f == r.requestHeaders[k]
             x == Replace(f.value, now, TRUE)
             e == [f EXCEPT !.value = x]
  <2>1. p[k] = IF f.header[1] \in Protected THEN <<>> ELSE <<e>>
    BY <1>1, Zenon
  <2>2. f \in Range(r.requestHeaders)
    BY <1>1 DEF Range
  <2>3. "unit" \in DOMAIN f
    BY <2>2, FiltersAssumption, Zenon
  <2>4. f.unit # g.unit
    BY <2>2, LeavesIs DEF LeavesLabel
  <2> HIDE DEF x, f, p
  <2>5. e.unit = f.unit
    BY <2>3
  <2> HIDE DEF e
  <2> QED
    BY <2>1, <2>4, <2>5, Zenon
<1>4. p = [k \in 1..m |-> p[k]]
  BY <1>1
<1> HIDE DEF p
<1>5. IsSeq(p) /\ Len(p) = m
  BY <1>1, <1>4, FunctionIsSeq
<1>6. AllSeqs(p)
  <2>1. \A k \in 1..m : p[k] = <<>> \/ \E e : p[k] = <<e>>
    BY <1>3
  <2>2. \A k \in 1..m : IsSeq(p[k])
    BY <2>1, EmptyIsSeq, OneIsSeq
  <2> QED
    BY <1>5, <2>2 DEF AllSeqs
<1> DEFINE h == FlattenSeq(p)
<1>7. ASSUME NEW k \in 1..Len(h) PROVE h[k].unit # g.unit
  <2>1. PICK i \in 1..Len(p) : \E j \in 1..Len(p[i]) : h[k] = p[i][j]
    BY <1>6, FlattenHas
  <2> HIDE DEF h
  <2>2. PICK j \in 1..Len(p[i]) : h[k] = p[i][j]
    BY <2>1
  <2>3. p[i] # <<>>
    BY EmptyIsSeq
  <2>4. PICK e : p[i] = <<e>> /\ e.unit # g.unit
    BY <1>3, <1>5, <2>3
  <2>5. h[k] = e
    BY <2>2, <2>4
  <2> QED
    BY <2>4, <2>5
<1> HIDE DEF h
<1>8. CASE r.codes # {}
  BY <1>2, <1>8, EmptyIsSeq
<1>9. CASE r.codes = {}
  <2>1. RequestFiltersOf(r, vs) = h
    BY <1>2, <1>9 DEF h
  <2> QED
    BY <1>7, <2>1, Zenon
<1> QED
  BY <1>8, <1>9

LEMMA PickedUnits ==
  ASSUME rules \in Chosen, NEW g, IsLabel(g), NEW K, NEW fs, fs = Picked(RequestOfRules(rules), K)
  PROVE  IsSeq(fs) /\ \A k \in 1..Len(fs) : fs[k].unit # g.unit
<1> DEFINE w == RequestOfRules(rules)
           p == PickedOf(w, K)
<1>1. /\ AllSeqs(w) /\ Len(w) = Len(rules)
      /\ \A k \in 1..Len(rules) : w[k] = RequestFiltersOf(rules[k], RuleVars(rules[k]))
  BY RequestOfRulesAre
<1>2. fs = Picked(w, K)
  OBVIOUS
<1> HIDE DEF w
<1>3. /\ AllSeqs(p) /\ Len(p) = Len(w) /\ IsSeq(fs) /\ fs = FlattenSeq(p)
      /\ \A k \in 1..Len(w) : p[k] = IF k \in K THEN w[k] ELSE <<>>
  BY <1>1, <1>2, PickedAre DEF Picked
<1> HIDE DEF p
<1>4. ASSUME NEW k \in 1..Len(p) PROVE \A j \in 1..Len(p[k]) : p[k][j].unit # g.unit
  <2> DEFINE a == RequestFiltersOf(rules[k], RuleVars(rules[k]))
  <2>1. k \in 1..Len(rules) /\ k \in 1..Len(w)
    BY <1>1, <1>3
  <2>2. \A j \in 1..Len(a) : a[j].unit # g.unit
    BY <2>1, RequestUnits
  <2>3. p[k] = a \/ p[k] = <<>>
    BY <1>1, <1>3, <2>1, Zenon
  <2> HIDE DEF a
  <2> QED
    BY <2>2, <2>3, EmptyIsSeq
<1>5. ASSUME NEW i \in 1..Len(fs) PROVE fs[i].unit # g.unit
  <2>1. AllSeqs(p) /\ fs = FlattenSeq(p) /\ i \in 1..Len(FlattenSeq(p))
    BY <1>3
  <2>2. \E k \in 1..Len(p) : \E j \in 1..Len(p[k]) : FlattenSeq(p)[i] = p[k][j]
    BY <2>1, FlattenHas
  <2>3. PICK k \in 1..Len(p) : \E j \in 1..Len(p[k]) : fs[i] = p[k][j]
    BY <2>1, <2>2
  <2> QED
    BY <1>4, <2>3
<1> QED
  BY <1>3, <1>5

(* The other parts of an action that have a unit.                          *)
OtherUnits(a, u) ==
  /\ \A d \in a.update : d.unit # u
  /\ \A d \in a.log : d.unit # u
  /\ \A p \in a.peer : p.unit # u

LEMMA OtherUnitsOfNone ==
  ASSUME NEW u
  PROVE  OtherUnits(NoAction, u)
BY DEF OtherUnits, NoAction

LEMMA OtherUnitsOfRule ==
  ASSUME rules \in Chosen, NEW g, IsLabel(g), NEW n \in 1..Len(rules)
  PROVE  OtherUnits(FromRouteRule(rules[n]), g.unit)
<1> DEFINE r == rules[n]
           a == FromRouteRule(r)
<1>1. g.unit \notin {r.units.redirect, r.units.log, r.units.peer}
  BY LeavesIs DEF LeavesLabel
<1>2. /\ a.update = IF r.status = 0 THEN {} ELSE {Decided(r.status, On(r), r.units.redirect)}
      /\ a.log = {Decided(l, On(r), r.units.log) : l \in r.log}
      /\ a.peer = IF r.codes = {} THEN {[peer |-> p, id |-> r.id, unit |-> r.units.peer] : p \in r.peer} ELSE {}
  BY DEF FromRouteRule
<1> HIDE DEF a
<1>3. OtherUnits(a, g.unit)
  BY <1>1, <1>2 DEF OtherUnits, Decided
<1> QED
  BY <1>3 DEF a

LEMMA OverUnits ==
  ASSUME NEW old, NEW new, NEW u, \A d \in old : d.unit # u, \A d \in new : d.unit # u, NEW which
  PROVE  \A d \in Over(old, new, which) : d.unit # u
<1>1. ASSUME NEW n \in new, KeptBy(n, old) # {} PROVE (CHOOSE o \in old : TRUE) \in old
  <2>1. old # {}
    BY <1>1 DEF KeptBy
  <2> QED
    BY <2>1
<1> QED
  BY <1>1 DEF Over

LEMMA OtherUnitsOfBoth ==
  ASSUME NEW a, NEW b, NEW u, OtherUnits(a, u), OtherUnits(b, u)
  PROVE  OtherUnits(Merge(a, b), u)
<1>1. /\ Merge(a, b).update = Over(a.update, b.update, "new")
      /\ Merge(a, b).log = Over(a.log, b.log, "old")
      /\ Merge(a, b).peer = IF b.peer # {} THEN b.peer ELSE a.peer
  BY DEF Merge
<1>2. \A d \in Merge(a, b).update : d.unit # u
  <2>1. \A d \in a.update : d.unit # u
    BY DEF OtherUnits
  <2>2. \A d \in b.update : d.unit # u
    BY DEF OtherUnits
  <2>3. \A d \in Over(a.update, b.update, "new") : d.unit # u
    BY <2>1, <2>2, OverUnits
  <2> QED
    BY <1>1, <2>3, Zenon
<1>3. \A d \in Merge(a, b).log : d.unit # u
  <2>1. \A d \in a.log : d.unit # u
    BY DEF OtherUnits
  <2>2. \A d \in b.log : d.unit # u
    BY DEF OtherUnits
  <2>3. \A d \in Over(a.log, b.log, "old") : d.unit # u
    BY <2>1, <2>2, OverUnits
  <2> QED
    BY <1>1, <2>3, Zenon
<1>4. \A p \in Merge(a, b).peer : p.unit # u
  BY <1>1 DEF OtherUnits
<1> QED
  BY <1>2, <1>3, <1>4 DEF OtherUnits

(* What is told of other units.                                            *)
LEMMA TracedTold ==
  ASSUME NEW t, NEW target, NEW units, NEW u, u \notin units
  PROVE  IsTrace(TracedFor(target, units, t)) /\ Told(TracedFor(target, units, t), u) = Told(t, u)
<1> DEFINE s == TracedFor(target, units, t)
<1>1. s.applied = t.applied \cup {<<target, w>> : w \in units} /\ IsTrace(s)
  BY DEF TracedFor, IsTrace
<1> HIDE DEF s
<1>2. \A p \in {<<target, w>> : w \in units} : p[2] # u
  OBVIOUS
<1>3. Told(s, u) = Told(t, u)
  BY <1>1, <1>2 DEF Told
<1> QED
  BY <1>1, <1>3 DEF s

LEMMA StatusUnits ==
  ASSUME NEW update, NEW u, \A d \in update : d.unit # u, NEW code
  PROVE  u \notin GetStatusCode(update, code).units
<1>1. CASE update = {}
  BY <1>1 DEF GetStatusCode, Nothing
<1>2. CASE update # {}
  <2> DEFINE d == CHOOSE x \in update : TRUE
  <2>1. d.unit # u
    BY <1>2
  <2> HIDE DEF d
  <2>2. u \notin Says(d).units /\ u \notin SaysFallback(d).units /\ u \notin Nothing.units
    BY <2>1 DEF Says, SaysFallback, Nothing
  <2>3. GetStatusCode(update, code) \in {Says(d), SaysFallback(d), Nothing}
    BY <1>2, Zenon DEF GetStatusCode, d
  <2> QED
    BY <2>2, <2>3
<1> QED
  BY <1>1, <1>2

LEMMA LogUnits ==
  ASSUME NEW log, NEW u, \A d \in log : d.unit # u, NEW code
  PROVE  u \notin GetLogOverride(log, code).units
<1>1. CASE log = {}
  BY <1>1 DEF GetLogOverride, Nothing
<1>2. CASE log # {}
  <2> DEFINE d == CHOOSE x \in log : TRUE
             none == [SaysFallback(d) EXCEPT !.units = {}]
  <2>1. d.unit # u
    BY <1>2
  <2> HIDE DEF d
  <2>2. u \notin Says(d).units /\ u \notin none.units
    BY <2>1 DEF Says, SaysFallback
  <2> HIDE DEF none
  <2>3. GetLogOverride(log, code) \in {Says(d), none}
    BY <1>2, Zenon DEF GetLogOverride, d, none
  <2> QED
    BY <2>2, <2>3
<1> QED
  BY <1>1, <1>2

LEMMA TellsSame ==
  ASSUME NEW g, NEW hs, NEW t, Tells(g, hs, t), NEW s, IsTrace(s), Told(s, g.unit) = Told(t, g.unit)
  PROVE  Tells(g, hs, s)
BY DEF Tells

(* The headers that the backend gave have nothing of the unit.             *)
LEMMA SilentTells ==
  ASSUME NEW g, NEW hs, FreeHeaders(hs, g.unit), NEW t, Silent(t, g.unit)
  PROVE  Tells(g, hs, t)
<1>1. \A k \in 1..Len(hs) : ~ Labelled(hs[k], g)
  BY FreeIs DEF FreeHeaders, Free, Labelled, Without
<1> QED
  BY <1>1 DEF Tells, FreeHeaders, Silent

LEMMA BackendIsFree ==
  ASSUME rules \in Chosen, NEW g, IsLabel(g), NEW b \in Backend(rules)
  PROVE  FreeHeaders(b.headers, g.unit)
<1>1. IsSeq(b.headers) /\ \A k \in 1..Len(b.headers) : GoodText(b.headers[k].value)
  BY BackendIsGood DEF GoodHeaders
<1>2. DOMAIN b.headers = 1..Len(b.headers)
  BY <1>1 DEF IsSeq
<1>3. \A k \in 1..Len(b.headers) : Without(b.headers[k].value, g.unit)
  BY <1>2, Zenon DEF IsLabel, UnitsAreLabels
<1> QED
  BY <1>1, <1>3, FreeIs DEF FreeHeaders

----------------------------------------------------------------------------
(* The body tells nothing of a unit that none of its filters has.          *)

(* A visitor that can be asked of its unit.                                *)
Speaker(h) ==
  /\ {"kind", "do", "unit", "held", "open", "seen", "text", "inText"} \subseteq DOMAIN h
  /\ h.kind = "html" /\ h.do \in VisitorKinds

KeepsUnit(h, g) == DOMAIN g = DOMAIN h /\ g.kind = h.kind /\ g.do = h.do /\ g.unit = h.unit

LEMMA SpeakerStays ==
  ASSUME NEW h, Speaker(h), NEW g, KeepsUnit(h, g)
  PROVE  Speaker(g) /\ g.unit = h.unit
BY DEF Speaker, KeepsUnit

OfUnit(units, s) ==
  /\ s = Step(s.item, s.out, s.registry, s.units)
  /\ Speaker(s.item) /\ s.item.unit = units /\ s.units \subseteq units

LEMMA StepOfUnit ==
  ASSUME NEW h, Speaker(h), NEW o, NEW r, NEW units \in SUBSET h.unit
  PROVE  OfUnit(h.unit, Step(h, o, r, units))
BY DEF OfUnit, Step

LEMMA HandlerUnits ==
  ASSUME NEW h, Speaker(h), NEW r
  PROVE  Handler(h, r).units \subseteq h.unit
<1> DEFINE t == Substituted(h.content, r)
           a == Handler(h, r)
<1> SUFFICES a.units \subseteq h.unit
  OBVIOUS
<1> HIDE DEF t, a
<1>1. CASE h.do = "after"
  <2>1. a = [AsksNothing EXCEPT !.after = t, !.units = h.unit]
    BY <1>1 DEF Handler, BodyAfter, t, a
  <2> QED
    BY <2>1 DEF AsksNothing
<1>2. CASE h.do = "before"
  <2>1. a = [AsksNothing EXCEPT !.before = t, !.units = h.unit]
    BY <1>2 DEF Handler, BodyBefore, t, a
  <2> QED
    BY <2>1 DEF AsksNothing
<1>3. CASE h.do = "prepend"
  <2>1. a = [AsksNothing EXCEPT !.inside = t, !.units = h.unit]
    BY <1>3 DEF Handler, BodyPrepend, t, a
  <2> QED
    BY <2>1 DEF AsksNothing
<1>4. CASE h.do = "replace"
  <2>1. a = [AsksNothing EXCEPT !.before = t, !.drop = TRUE, !.units = h.unit]
    BY <1>4 DEF Handler, BodyReplace, t, a
  <2> QED
    BY <2>1 DEF AsksNothing
<1>5. CASE h.do = "remove"
  <2>1. a = [AsksNothing EXCEPT !.drop = TRUE, !.units = h.unit]
    BY <1>5 DEF Handler, BodyRemove, a
  <2> QED
    BY <2>1 DEF AsksNothing
<1>6. CASE h.do = "append"
  <2>1. \/ a = [AsksNothing EXCEPT !.last = t, !.units = h.unit]
        \/ a = [AsksNothing EXCEPT !.unless = h.content]
    BY <1>6 DEF Handler, BodyAppend, t, a
  <2> QED
    BY <2>1 DEF AsksNothing
<1>7. CASE h.do = "capture"
  <2>1. a = AsksNothing
    BY <1>7 DEF Handler, a
  <2> QED
    BY <2>1 DEF AsksNothing
<1> QED
  BY <1>1, <1>2, <1>3, <1>4, <1>5, <1>6, <1>7 DEF Speaker, VisitorKinds

LEMMA TokenOfUnit ==
  ASSUME NEW h, Speaker(h), NEW token, NEW r
  PROVE  OfUnit(h.unit, RewriteToken(h, token, r))
<1> DEFINE s == RewriteToken(h, token, r)
<1> SUFFICES OfUnit(h.unit, s)
  OBVIOUS
<1> HIDE DEF s
<1>1. ASSUME NEW g, KeepsUnit(h, g), NEW o, NEW q, NEW units \in SUBSET h.unit
      PROVE  OfUnit(h.unit, Step(g, o, q, units))
  <2>1. Speaker(g) /\ g.unit = h.unit
    BY <1>1, SpeakerStays
  <2> QED
    BY <1>1, <2>1, StepOfUnit
<1>2. KeepsUnit(h, NoText(h)) /\ {} \in SUBSET h.unit
  BY DEF NoText, KeepsUnit, Speaker
<1>3. CASE h.held # <<>> /\ token[1] # "gt"
  <2> DEFINE g == [h EXCEPT !.held = Append(h.held, token)]
  <2>1. s = Step(g, <<>>, r, {})
    BY <1>3 DEF RewriteToken, s
  <2>2. KeepsUnit(h, g)
    BY DEF KeepsUnit, Speaker
  <2> HIDE DEF g
  <2> QED
    BY <1>1, <1>2, <2>1, <2>2
<1>4. CASE h.held = <<>> /\ token[1] = "lt"
  <2> DEFINE g == [NoText(h) EXCEPT !.held = <<token>>]
  <2>1. s = Step(g, <<>>, EndOfText(h, r), {})
    BY <1>4, Zenon DEF RewriteToken, s
  <2>2. KeepsUnit(h, g)
    BY <1>2 DEF KeepsUnit, Speaker
  <2> HIDE DEF g
  <2> QED
    BY <1>1, <1>2, <2>1, <2>2
<1>5. CASE token[1] = "gt"
  <2> DEFINE h0 == [h EXCEPT !.held = <<>>]
             tag == h.held \o <<token>>
             a == IF Matches(h0.selector, h0, token[2]) /\ ~ Dropping(h0) THEN Handler(h0, r) ELSE AsksNothing
             element == [element |-> token[2], drop |-> a.drop, last |-> a.last,
                         unless |-> a.unless, after |-> a.after]
             g == [h0 EXCEPT !.open = Append(@, element), !.seen = @ \/ Matches(h0.ignore, h0, token[2])]
             o == a.before \o (IF Dropping(h0) \/ a.drop THEN <<>> ELSE tag) \o a.inside
  <2>1. KeepsUnit(h, h0)
    BY DEF KeepsUnit, Speaker
  <2>2. s = StartTag(h0, token[2], tag, r)
    BY <1>5, Zenon DEF RewriteToken, s
  <2> HIDE DEF h0, tag
  <2>3. s = Opened(h0, token[2], tag, r, a)
    BY <2>2, Zenon DEF StartTag
  <2>4. Speaker(h0) /\ h0.unit = h.unit
    BY <2>1, SpeakerStays
  <2>5. a.units \subseteq h.unit
    <3>1. Handler(h0, r).units \subseteq h.unit
      BY <2>4, HandlerUnits
    <3>2. AsksNothing.units \subseteq h.unit
      BY DEF AsksNothing
    <3> QED
      BY <3>1, <3>2
  <2> HIDE DEF a
  <2>6. s = Step(g, o, r, a.units)
    BY <2>3 DEF Opened
  <2> HIDE DEF element, o
  <2>7. KeepsUnit(h, g)
    BY <2>1 DEF KeepsUnit, Speaker
  <2> HIDE DEF g
  <2> QED
    BY <1>1, <2>5, <2>6, <2>7
<1>6. CASE h.held = <<>> /\ token[1] = "close" /\ h.open # <<>>
  <2> DEFINE h0 == NoText(h)
             tag == <<token>>
             top == Last(h0.open)
             late == IF h0.seen THEN <<>> ELSE top.unless
             g == [h0 EXCEPT !.open = Front(@)]
             o == IF Dropping(h0) THEN top.after ELSE top.last \o late \o tag \o top.after
             units == IF late # <<>> THEN h0.unit ELSE {}
  <2>1. s = EndTag(h0, tag, EndOfText(h, r))
    BY <1>6, Zenon DEF RewriteToken, s
  <2>2. KeepsUnit(h, h0)
    BY <1>2
  <2> HIDE DEF h0, tag
  <2>3. s = Step(g, o, EndOfText(h, r), units)
    BY <2>1 DEF EndTag
  <2>4. KeepsUnit(h, g)
    BY <2>2 DEF KeepsUnit, Speaker
  <2>5. units \in SUBSET h.unit
    BY <2>2 DEF KeepsUnit
  <2> HIDE DEF g, o, units
  <2> QED
    BY <1>1, <2>3, <2>4, <2>5
<1>7. CASE /\ ~ (h.held # <<>> /\ token[1] # "gt") /\ ~ (h.held = <<>> /\ token[1] = "lt")
           /\ ~ token[1] = "gt" /\ ~ (h.held = <<>> /\ token[1] = "close" /\ h.open # <<>>)
  <2> DEFINE g == [h EXCEPT !.inText = TRUE,
                     !.text = [n \in DOMAIN @ |-> IF Within(h, n) THEN Append(@[n], token) ELSE @[n]]]
             o == IF Dropping(h) THEN <<>> ELSE <<token>>
  <2>1. s = TextToken(h, token, r)
    BY <1>7, Zenon DEF RewriteToken, s
  <2>2. s = Step(g, o, r, {})
    BY <2>1 DEF TextToken
  <2>3. KeepsUnit(h, g)
    BY DEF KeepsUnit, Speaker
  <2> HIDE DEF g, o
  <2> QED
    BY <1>1, <1>2, <2>2, <2>3
<1> QED
  BY <1>3, <1>4, <1>5, <1>6, <1>7

LEMMA BrokenOfUnit ==
  ASSUME NEW u, NEW s, OfUnit(u, s), NEW token
  PROVE  OfUnit(u, Broken(s, token))
<1> DEFINE h == s.item
           g == [h EXCEPT !.broken = TRUE]
           o == IF token[2] = "lost" THEN <<>> ELSE s.out
<1>1. Speaker(h) /\ h.unit = u /\ s.units \in SUBSET u
  BY DEF OfUnit
<1>2. KeepsUnit(h, g)
  BY <1>1 DEF KeepsUnit, Speaker
<1>3. s = [item |-> h, out |-> s.out, registry |-> s.registry, units |-> s.units]
  BY DEF OfUnit, Step
<1>4. Broken(s, token) = [s EXCEPT !.item = g, !.out = o]
  BY Zenon DEF Broken
<1> HIDE DEF h, g, o
<1>5. Speaker(g) /\ g.unit = u
  BY <1>1, <1>2, SpeakerStays
<1>6. Broken(s, token) = Step(g, o, s.registry, s.units)
  BY <1>3, <1>4 DEF Step
<1> QED
  BY <1>1, <1>5, <1>6, StepOfUnit

LEMMA RewriteOfUnit ==
  ASSUME NEW h, Speaker(h), NEW data, IsSeq(data), NEW r
  PROVE  OfUnit(h.unit, Rewrite(h, data, r))
<1> DEFINE n == Len(data)
           u == h.unit
<1>1. n \in Nat
  BY DEF IsSeq
<1>2. PICK f : Rewrite(h, data, r) = f[n] /\ Rewriting(h, data, r, n, f)
  BY <1>1, RewriteIs
<1>3. \A k \in 0..n : f[k] = IF k = 0 THEN Step(h, <<>>, r, {}) ELSE RewriteNext(f[k - 1], data[k])
  BY <1>2 DEF Rewriting
<1> DEFINE S == {k \in 0..n : ~ OfUnit(u, f[k])}
<1>4. S = {}
  <2>1. SUFFICES ASSUME S # {} PROVE FALSE
    OBVIOUS
  <2>2. PICK m \in S : \A k \in S : m <= k
    <3>1. S \subseteq Nat
      OBVIOUS
    <3> HIDE DEF S
    <3> QED
      BY <2>1, <3>1, Least
  <2>3. m \in 0..n /\ ~ OfUnit(u, f[m])
    BY <2>2
  <2>4. m # 0
    <3>1. OfUnit(u, Step(h, <<>>, r, {}))
      BY StepOfUnit
    <3> QED
      BY <1>3, <2>3, <3>1
  <2> DEFINE s == f[m - 1]
             token == data[m]
             next == RewriteToken(s.item, token, s.registry)
             t == f[m]
  <2>5. m - 1 \in 0..n /\ m \in 1..n /\ m - 1 \notin S
    BY <1>1, <2>2, <2>3, <2>4
  <2>6. OfUnit(u, s)
    BY <2>5
  <2>7. t = RewriteNext(s, token)
    BY <1>3, <2>5
  <2> HIDE DEF s, token
  <2>8. OfUnit(u, next)
    BY <2>6, TokenOfUnit DEF OfUnit
  <2>14. \/ t = s
         \/ t = Broken(s, token)
         \/ t = [next EXCEPT !.out = s.out \o @, !.units = s.units \cup @]
    BY <2>7, Zenon DEF RewriteNext, next
  <2>15. t = Broken(s, token) => OfUnit(u, t)
    BY <2>6, BrokenOfUnit
  <2> HIDE DEF next, t, u
  <2>9. SUFFICES ASSUME t = [next EXCEPT !.out = s.out \o @, !.units = s.units \cup @]
                 PROVE  FALSE
    BY <2>3, <2>6, <2>14, <2>15 DEF t
  <2>10. next = [item |-> next.item, out |-> next.out, registry |-> next.registry, units |-> next.units]
    BY <2>8 DEF OfUnit, Step
  <2>11. t = Step(next.item, s.out \o next.out, next.registry, s.units \cup next.units)
    BY <2>9, <2>10, ZenonT(20) DEF Step
  <2>12. next.item.unit = u /\ s.units \cup next.units \in SUBSET u /\ Speaker(next.item)
    BY <2>6, <2>8 DEF OfUnit
  <2>13. OfUnit(u, t)
    BY <2>11, <2>12, StepOfUnit
  <2> QED
    BY <2>3, <2>13 DEF t
<1>5. OfUnit(u, f[n])
  <2>1. n \in 0..n
    BY <1>1
  <2> QED
    BY <1>4, <2>1
<1> QED
  BY <1>2, <1>5

(* An item that is not of the unit u.                                      *)
MuteItem(i, u) ==
  /\ "kind" \in DOMAIN i
  /\ \/ Speaker(i) /\ u \notin i.unit
     \/ i.kind \in {"text", "markdown"} /\ "unit" \in DOMAIN i /\ i.unit # u
     \/ i.kind \in {"buffer", "decode", "encode"}

(* What is told of u, none of it on the target of the body.                *)
StillTold(t, u, T) == IsTrace(t) /\ Told(t, u) = T /\ \A p \in T : p[1] # "text"

LEMMA TextTold ==
  ASSUME NEW t, NEW u, NEW T, StillTold(t, u, T), NEW unit, unit # u
  PROVE  StillTold(AddUnit(t, "text", unit), u, T) /\ StillTold(OverrideUnit(t, "text", unit), u, T)
<1>1. Own("text", unit, u) = {} /\ IsTrace(t) /\ Told(t, u) = T /\ \A p \in T : p[1] # "text"
  BY Zenon DEF Own, StillTold
<1>2. /\ IsTrace(AddUnit(t, "text", unit))
      /\ Told(AddUnit(t, "text", unit), u) = Told(t, u) \cup Own("text", unit, u)
  BY ToldAdded
<1>3. /\ IsTrace(OverrideUnit(t, "text", unit))
      /\ Told(OverrideUnit(t, "text", unit), u) = {p \in Told(t, u) : p[1] # "text"} \cup Own("text", unit, u)
  BY <1>1, ToldOverridden
<1>4. {p \in T : p[1] # "text"} = T
  BY <1>1
<1> QED
  BY <1>1, <1>2, <1>3, <1>4 DEF StillTold

LEMMA TracedStill ==
  ASSUME NEW t, NEW u, NEW T, StillTold(t, u, T), NEW units, u \notin units
  PROVE  StillTold(Traced(units, t), u, T)
<1> DEFINE s == Traced(units, t)
<1>1. s.applied = t.applied \cup {<<w, w>> : w \in units} /\ IsTrace(s)
  BY DEF Traced, IsTrace
<1> HIDE DEF s
<1>2. \A p \in {<<w, w>> : w \in units} : p[2] # u
  OBVIOUS
<1>3. Told(s, u) = Told(t, u)
  BY <1>1, <1>2 DEF Told
<1> QED
  BY <1>1, <1>3 DEF StillTold, s

MuteWent(w, u, T) == MuteItem(w.item, u) /\ StillTold(w.trace, u, T)

LEMMA WentIsMute ==
  ASSUME NEW i, NEW u, MuteItem(i, u), NEW t, NEW T, StillTold(t, u, T), NEW o, NEW r
  PROVE  MuteWent(Went(i, o, r, t), u, T)
BY DEF MuteWent, Went

LEMMA FeedIsMute ==
  ASSUME NEW i, NEW u, MuteItem(i, u), NEW data, IsSeq(data), NEW r, NEW t, NEW T, StillTold(t, u, T)
  PROVE  MuteWent(Feed(i, data, r, t), u, T)
<1> DEFINE w == Feed(i, data, r, t)
<1> SUFFICES MuteWent(w, u, T)
  OBVIOUS
<1> HIDE DEF w
<1>1. CASE Speaker(i) /\ u \notin i.unit
  <2> DEFINE s == Rewrite(i, data, r)
             e == Traced(s.units, t)
  <2>1. i.kind = "html"
    BY <1>1 DEF Speaker
  <2>2. w = Went(s.item, s.out, s.registry, e)
    BY <2>1 DEF Feed, Rewritten, w
  <2>3. Speaker(s.item) /\ s.item.unit = i.unit /\ s.units \subseteq i.unit
    BY <1>1, RewriteOfUnit DEF OfUnit
  <2> HIDE DEF s
  <2>4. MuteItem(s.item, u)
    BY <1>1, <2>3 DEF MuteItem, Speaker
  <2>5. StillTold(e, u, T)
    BY <1>1, <2>3, TracedStill
  <2> HIDE DEF e
  <2> QED
    BY <2>2, <2>4, <2>5, WentIsMute
<1>2. CASE i.kind = "text" /\ {"kind", "unit"} \subseteq DOMAIN i /\ i.unit # u
  <2> DEFINE j == [i EXCEPT !.executed = @ \/ i.do # "append"]
             e == TextTrace(i, t)
  <2>1. w = Went(j, TextOut(i, data), r, e)
    BY <1>2 DEF Feed, w
  <2>2. MuteItem(j, u)
    <3>1. j.kind = i.kind /\ j.unit = i.unit /\ DOMAIN j = DOMAIN i
      BY <1>2
    <3> HIDE DEF j
    <3> QED
      BY <1>2, <3>1 DEF MuteItem
  <2>3. StillTold(e, u, T)
    <3>1. StillTold(AddUnit(t, "text", i.unit), u, T) /\ StillTold(OverrideUnit(t, "text", i.unit), u, T)
      BY <1>2, TextTold
    <3> QED
      BY <3>1, Zenon DEF TextTrace
  <2> HIDE DEF j, e
  <2> QED
    BY <2>1, <2>2, <2>3, WentIsMute
<1>3. CASE i.kind \in {"buffer", "markdown"}
  <2> DEFINE j == [i EXCEPT !.data = @ \o data]
  <2>1. w = Went(j, <<>>, r, t)
    BY <1>3 DEF Feed, w
  <2>2. j.kind = i.kind /\ DOMAIN j = DOMAIN i /\ ("unit" \in DOMAIN i => j.unit = i.unit)
    BY DEF MuteItem
  <2> HIDE DEF j
  <2>3. MuteItem(j, u)
    BY <1>3, <2>2 DEF MuteItem, Speaker
  <2> QED
    BY <2>1, <2>3, WentIsMute
<1>4. CASE i.kind = "decode"
  <2> DEFINE j == [i EXCEPT !.closed = @ \/ Contains(data, Trailer)]
  <2>1. w = Went(j, Decoded(data), r, t)
    BY <1>4 DEF Feed, w
  <2>2. j.kind = i.kind /\ DOMAIN j = DOMAIN i
    BY DEF MuteItem
  <2> HIDE DEF j
  <2>3. MuteItem(j, u)
    BY <1>4, <2>2 DEF MuteItem, Speaker
  <2> QED
    BY <2>1, <2>3, WentIsMute
<1>5. CASE i.kind = "encode"
  <2>1. w = Went(i, Coded(data), r, t)
    BY <1>5 DEF Feed, w
  <2> QED
    BY <2>1, WentIsMute
<1> QED
  BY <1>1, <1>2, <1>3, <1>4, <1>5 DEF MuteItem

LEMMA FlushIsMute ==
  ASSUME NEW i, NEW u, MuteItem(i, u), NEW r, NEW t, NEW T, StillTold(t, u, T)
  PROVE  StillTold(Flush(i, r, t).trace, u, T)
<1> DEFINE w == Flush(i, r, t)
<1> SUFFICES StillTold(w.trace, u, T)
  OBVIOUS
<1> HIDE DEF w
<1>1. CASE i.kind = "html"
  <2> DEFINE s == EndRewrite(i, r)
  <2>1. w = Went(i, s.out, s.registry, t)
    BY <1>1 DEF Flush, w
  <2> HIDE DEF s
  <2> QED
    BY <2>1 DEF Went
<1>2. CASE i.kind = "text"
  <2>1. w = Went(i, IF i.executed THEN <<>> ELSE i.content, r, t)
    BY <1>2 DEF Flush, w
  <2> QED
    BY <2>1 DEF Went
<1>3. CASE i.kind = "buffer"
  <2>1. w = Went(i, i.data, r, t)
    BY <1>3 DEF Flush, w
  <2> QED
    BY <2>1 DEF Went
<1>4. CASE i.kind = "markdown"
  <2> DEFINE e == OverrideUnit(t, "text", i.unit)
  <2>1. w = Went(i, Words(i.data), r, e)
    BY <1>4 DEF Flush, w
  <2>2. i.unit # u
    BY <1>4 DEF MuteItem, Speaker
  <2>3. StillTold(e, u, T)
    BY <2>2, TextTold
  <2> HIDE DEF e
  <2> QED
    BY <2>1, <2>3 DEF Went
<1>5. CASE i.kind = "decode"
  <2>1. w = Went(i, <<>>, r, t)
    BY <1>5 DEF Flush, w
  <2> QED
    BY <2>1 DEF Went
<1>6. CASE i.kind = "encode"
  <2>1. w = Went(i, <<Trailer>>, r, t)
    BY <1>6 DEF Flush, w
  <2> QED
    BY <2>1 DEF Went
<1> QED
  BY <1>1, <1>2, <1>3, <1>4, <1>5, <1>6 DEF MuteItem, Speaker

MuteChain(c, u) == IsSeq(c) /\ \A k \in 1..Len(c) : MuteItem(c[k], u)

LEMMA MuteChainGrows ==
  ASSUME NEW u, NEW c, MuteChain(c, u), NEW i, MuteItem(i, u)
  PROVE  MuteChain(Append(c, i), u)
<1> DEFINE d == c \o <<i>>
<1>1. IsSeq(c) /\ Append(c, i) = d
  BY AppendedIsSeq DEF MuteChain
<1>2. IsSeq(<<i>>) /\ Len(<<i>>) = 1 /\ <<i>>[1] = i
  BY OneIsSeq
<1>3. IsSeq(d) /\ \A k \in 1..Len(d) : (\E j \in 1..Len(c) : d[k] = c[j]) \/ (\E j \in 1..Len(<<i>>) : d[k] = <<i>>[j])
  BY <1>1, <1>2, ConcatIsSeq
<1> HIDE DEF d
<1>4. \A j \in 1..Len(<<i>>) : MuteItem(<<i>>[j], u)
  BY <1>2
<1> QED
  BY <1>1, <1>3, <1>4 DEF MuteChain

MuteThrough(s, u, T) == MuteChain(s.chain, u) /\ StillTold(s.trace, u, T)

LEMMA FilterItemIsMute ==
  ASSUME NEW u, NEW T, NEW n \in Nat, NEW data, NEW s, GoodThrough(s, n, data), MuteThrough(s, u, T),
         NEW i, MuteItem(i, u)
  PROVE  MuteThrough(FilterItem(s, i), u, T)
<1> DEFINE rests == s.panicked \/ s.refused \/ (s.chain # <<>> /\ s.data = <<>>)
<1>1. /\ s = Gone(s.chain, s.data, s.registry, s.trace, s.refused, s.panicked)
      /\ IsSeq(s.data) /\ MuteChain(s.chain, u) /\ StillTold(s.trace, u, T)
  BY DEF GoodThrough, GoodText, MuteThrough
<1>2. ASSUME NEW j, MuteItem(j, u), NEW d, NEW r, NEW t, StillTold(t, u, T), NEW refused, NEW panicked
      PROVE  /\ MuteThrough(Gone(Append(s.chain, j), d, r, t, refused, panicked), u, T)
             /\ MuteThrough(Through(Append(s.chain, j), d, r, t, refused), u, T)
  <2>1. MuteChain(Append(s.chain, j), u)
    BY <1>1, <1>2, MuteChainGrows
  <2> QED
    BY <1>2, <2>1 DEF MuteThrough, Through, Gone
<1>3. CASE rests
  <2>1. FilterItem(s, i) = [s EXCEPT !.chain = Append(@, i)]
    BY <1>3 DEF FilterItem
  <2>2. FilterItem(s, i) = Gone(Append(s.chain, i), s.data, s.registry, s.trace, s.refused, s.panicked)
    BY <1>1, <2>1 DEF Gone
  <2> QED
    BY <1>1, <1>2, <2>2
<1>4. CASE ~ rests /\ Poisoned(i)
  <2>1. FilterItem(s, i) = [s EXCEPT !.chain = Append(@, i), !.panicked = TRUE]
    BY <1>4 DEF FilterItem
  <2>2. FilterItem(s, i) = Gone(Append(s.chain, i), s.data, s.registry, s.trace, s.refused, TRUE)
    BY <1>1, <2>1 DEF Gone
  <2> QED
    BY <1>1, <1>2, <2>2
<1>5. CASE ~ rests /\ ~ Poisoned(i) /\ Refuses(i, s.data)
  <2>1. FilterItem(s, i) = [s EXCEPT !.chain = Append(@, i), !.refused = TRUE]
    BY <1>5 DEF FilterItem
  <2>2. FilterItem(s, i) = Gone(Append(s.chain, i), s.data, s.registry, s.trace, TRUE, s.panicked)
    BY <1>1, <2>1 DEF Gone
  <2> QED
    BY <1>1, <1>2, <2>2
<1>6. CASE ~ rests /\ ~ Poisoned(i) /\ ~ Refuses(i, s.data)
  <2> DEFINE w == Feed(i, s.data, s.registry, s.trace)
  <2>1. FilterItem(s, i) = Passed(s, w)
    BY <1>6, Zenon DEF FilterItem
  <2>2. MuteWent(w, u, T)
    BY <1>1, FeedIsMute
  <2> HIDE DEF w
  <2>3. FilterItem(s, i) = Through(Append(s.chain, w.item), w.out, w.registry, w.trace, FALSE)
    BY <2>1 DEF Passed
  <2> QED
    BY <1>2, <2>2, <2>3 DEF MuteWent
<1> QED
  BY <1>3, <1>4, <1>5, <1>6

LEMMA NoneIsMute ==
  ASSUME NEW u
  PROVE  MuteChain(<<>>, u)
BY EmptyIsSeq DEF MuteChain

LEMMA FilterChainIsMute ==
  ASSUME GoodChain(chain), GoodRegistry(registry), NEW data, GoodBytes(data),
         NEW u, NEW T, MuteChain(chain, u), StillTold(trace, u, T)
  PROVE  MuteThrough(FilterChain(data), u, T)
<1> DEFINE n == Len(chain)
<1>1. n \in Nat
  BY DEF GoodChain, IsSeq
<1>2. PICK f : FilterChain(data) = f[n] /\ Filtering(data, n, f)
  BY <1>1, FilterChainIs
<1>3. \A k \in 0..n : f[k] = IF k = 0 THEN Through(<<>>, data, registry, trace, FALSE)
                                  ELSE FilterItem(f[k - 1], chain[k])
  BY <1>2 DEF Filtering
<1> DEFINE S == {k \in 0..n : ~ (GoodThrough(f[k], k, data) /\ MuteThrough(f[k], u, T))}
<1>4. S = {}
  <2>1. SUFFICES ASSUME S # {} PROVE FALSE
    OBVIOUS
  <2>2. PICK m \in S : \A k \in S : m <= k
    <3>1. S \subseteq Nat
      OBVIOUS
    <3> HIDE DEF S
    <3> QED
      BY <2>1, <3>1, Least
  <2>3. m \in 0..n /\ ~ (GoodThrough(f[m], m, data) /\ MuteThrough(f[m], u, T))
    BY <2>2
  <2>4. m # 0
    <3> DEFINE z == Through(<<>>, data, registry, trace, FALSE)
    <3>1. GoodChain(<<>>) /\ Len(<<>>) = 0
      BY EmptyIsSeq DEF GoodChain
    <3>2. GoodThrough(z, 0, data)
      BY <3>1, ThroughIsGood DEF GoodBytes
    <3>3. MuteThrough(z, u, T)
      BY NoneIsMute DEF MuteThrough, Through
    <3> HIDE DEF z
    <3>4. m = 0 => f[m] = z
      BY <1>3, <2>3 DEF z
    <3> QED
      BY <2>3, <3>2, <3>3, <3>4
  <2>5. m - 1 \in 0..n /\ m \in 1..n /\ m - 1 \notin S /\ m - 1 \in Nat /\ (m - 1) + 1 = m
    BY <1>1, <2>2, <2>3, <2>4
  <2> DEFINE s == f[m - 1]
             i == chain[m]
  <2>6. GoodThrough(s, m - 1, data) /\ MuteThrough(s, u, T) /\ f[m] = FilterItem(s, i)
    BY <1>3, <2>4, <2>5
  <2>7. GoodItem(i) /\ (m - 1 # 0 => i.kind # "decode") /\ MuteItem(i, u)
    BY <2>5 DEF GoodChain, MuteChain
  <2> HIDE DEF s, i, S
  <2>8. GoodThrough(FilterItem(s, i), (m - 1) + 1, data)
    BY <2>5, <2>6, <2>7, FilterItemIsGood
  <2>9. MuteThrough(FilterItem(s, i), u, T)
    BY <2>5, <2>6, <2>7, FilterItemIsMute
  <2> QED
    BY <2>3, <2>5, <2>6, <2>8, <2>9
<1>5. MuteThrough(f[n], u, T)
  <2>1. n \in 0..n
    BY <1>1
  <2> QED
    BY <1>4, <2>1
<1> QED
  BY <1>2, <1>5

LEMMA EndItemIsMute ==
  ASSUME NEW u, NEW T, NEW n, NEW s, GoodEnd(s, n), StillTold(s.trace, u, T), NEW i, MuteItem(i, u)
  PROVE  StillTold(EndItem(s, i).trace, u, T)
<1> DEFINE w == IF s.data = <<>> THEN Went(i, <<>>, s.registry, s.trace) ELSE Feed(i, s.data, s.registry, s.trace)
           last == Flush(w.item, w.registry, w.trace)
<1>1. MuteWent(w, u, T)
  <2>1. IsSeq(s.data)
    BY DEF GoodEnd, GoodText
  <2>2. MuteWent(Went(i, <<>>, s.registry, s.trace), u, T)
    BY WentIsMute
  <2>3. MuteWent(Feed(i, s.data, s.registry, s.trace), u, T)
    BY <2>1, FeedIsMute
  <2> QED
    BY <2>2, <2>3, Zenon
<1>2. EndItem(s, i) = EndAfter(s, i, w)
  BY Zenon DEF EndItem
<1> HIDE DEF w
<1>5. EndsAs(EndAfter(s, i, w), w.out, last)
  BY EndAfterIs, Zenon
<1> HIDE DEF last
<1>3. EndItem(s, i).trace = last.trace
  BY <1>2, <1>5 DEF EndsAs
<1>4. StillTold(last.trace, u, T)
  BY <1>1, FlushIsMute DEF MuteWent, last
<1> QED
  BY <1>3, <1>4

LEMMA EndChainIsMute ==
  ASSUME GoodChain(chain), GoodRegistry(registry), NEW u, NEW T, MuteChain(chain, u), StillTold(trace, u, T)
  PROVE  StillTold(EndChain.trace, u, T)
<1> DEFINE n == Len(chain)
<1>1. n \in Nat
  BY DEF GoodChain, IsSeq
<1>2. PICK f : EndChain = f[n] /\ Ending(n, f)
  BY <1>1, EndChainIs
<1>3. \A k \in 0..n : f[k] = IF k = 0 THEN Through(<<>>, <<>>, registry, trace, FALSE)
                                  ELSE EndItem(f[k - 1], chain[k])
  BY <1>2 DEF Ending
<1> DEFINE S == {k \in 0..n : ~ (GoodEnd(f[k], k) /\ StillTold(f[k].trace, u, T))}
<1>4. S = {}
  <2>1. SUFFICES ASSUME S # {} PROVE FALSE
    OBVIOUS
  <2>2. PICK m \in S : \A k \in S : m <= k
    <3>1. S \subseteq Nat
      OBVIOUS
    <3> HIDE DEF S
    <3> QED
      BY <2>1, <3>1, Least
  <2>3. m \in 0..n /\ ~ (GoodEnd(f[m], m) /\ StillTold(f[m].trace, u, T))
    BY <2>2
  <2>4. m # 0
    <3> DEFINE z == Through(<<>>, <<>>, registry, trace, FALSE)
    <3>1. GoodEnd(z, 0) /\ z.trace = trace
      BY NoneIsGood DEF GoodEnd, Through
    <3> HIDE DEF z
    <3>2. m = 0 => f[m] = z
      BY <1>3, <2>3 DEF z
    <3> QED
      BY <2>3, <3>1, <3>2
  <2>5. m - 1 \in 0..n /\ m \in 1..n /\ m - 1 \notin S /\ m - 1 \in Nat /\ (m - 1) + 1 = m
    BY <1>1, <2>2, <2>3, <2>4
  <2> DEFINE s == f[m - 1]
             i == chain[m]
  <2>6. GoodEnd(s, m - 1) /\ StillTold(s.trace, u, T) /\ f[m] = EndItem(s, i)
    BY <1>3, <2>4, <2>5
  <2>7. GoodItem(i) /\ (m - 1 # 0 => i.kind # "decode") /\ MuteItem(i, u)
    BY <2>5 DEF GoodChain, MuteChain
  <2> HIDE DEF s, i, S
  <2>8. GoodEnd(EndItem(s, i), (m - 1) + 1)
    BY <2>5, <2>6, <2>7, EndItemIsGood
  <2>9. StillTold(EndItem(s, i).trace, u, T)
    BY <2>6, <2>7, EndItemIsMute
  <2> QED
    BY <2>3, <2>5, <2>6, <2>8, <2>9
<1>5. StillTold(f[n].trace, u, T)
  <2>1. n \in 0..n
    BY <1>1
  <2> QED
    BY <1>4, <2>1
<1> QED
  BY <1>2, <1>5

----------------------------------------------------------------------------
(* The chain that is made of the filters of other units.                   *)

MuteFilter(f, u) ==
  /\ f.type \in {"text", "html", "markdown"} => "unit" \in DOMAIN f
  /\ f.type \in {"text", "markdown"} => f.unit # u
  /\ f.type = "html" => u \notin f.unit

MuteFilters(fs, u) == IsSeq(fs) /\ \A k \in 1..Len(fs) : MuteFilter(fs[k], u)

LEMMA RuleBodiesAreMute ==
  ASSUME rules \in Chosen, NEW g, IsLabel(g), NEW n \in 1..Len(rules)
  PROVE  MuteFilters(rules[n].bodies, g.unit)
<1> DEFINE fs == rules[n].bodies
<1>1. IsSeq(fs)
  BY RuleBodiesAre
<1>2. ASSUME NEW k \in 1..Len(fs) PROVE MuteFilter(fs[k], g.unit)
  <2> DEFINE f == fs[k]
  <2>1. f \in Range(fs)
    BY <1>1 DEF Range, IsSeq
  <2>2. f.type # "other" => "unit" \in DOMAIN f
    BY <2>1, FiltersAssumption, Zenon
  <2>3. f.type \in {"text", "markdown"} => f.unit # g.unit
    BY <2>1, LeavesIs DEF LeavesLabel
  <2>4. f.type = "html" => g.unit \notin f.unit
    BY <2>1, LeavesIs DEF LeavesLabel
  <2> HIDE DEF f
  <2>5. MuteFilter(f, g.unit)
    BY <2>2, <2>3, <2>4 DEF MuteFilter
  <2> QED
    BY <2>5 DEF f
<1> HIDE DEF fs
<1>3. MuteFilters(fs, g.unit)
  BY <1>1, <1>2 DEF MuteFilters
<1> QED
  BY <1>3 DEF fs

LEMMA ReplacedAreMute ==
  ASSUME NEW f, GoodFilter(f), NEW u, MuteFilter(f, u), NEW vs
  PROVE  \A g \in BodyReplaced(f, vs) : MuteFilter(g, u)
<1>1. ASSUME f.type \in {"text", "html"}, NEW x PROVE MuteFilter([f EXCEPT !.content = x], u)
  <2> DEFINE g == [f EXCEPT !.content = x]
  <2>1. DOMAIN g = DOMAIN f /\ g.type = f.type /\ g.unit = f.unit
    BY <1>1 DEF GoodFilter, MuteFilter
  <2> HIDE DEF g
  <2>2. MuteFilter(g, u)
    BY <2>1 DEF MuteFilter
  <2> QED
    BY <2>2 DEF g
<1>2. CASE f.type = "text"
  <2> DEFINE x == Replace(f.content, vs, TRUE)
  <2>1. BodyReplaced(f, vs) = {[f EXCEPT !.content = x]}
    BY <1>2 DEF BodyReplaced
  <2> HIDE DEF x
  <2> QED
    BY <1>1, <1>2, <2>1
<1>3. CASE f.type = "html"
  <2> DEFINE x == Replace(f.content, vs, FALSE)
  <2>1. BodyReplaced(f, vs) = {[f EXCEPT !.content = x]}
    BY <1>3 DEF BodyReplaced
  <2> HIDE DEF x
  <2> QED
    BY <1>1, <1>3, <2>1
<1>4. CASE f.type = "markdown"
  BY <1>4 DEF BodyReplaced
<1>5. CASE f.type = "other"
  BY <1>5 DEF BodyReplaced
<1> QED
  BY <1>2, <1>3, <1>4, <1>5 DEF GoodFilter, KnownTypes

LEMMA BodiesAreMute ==
  ASSUME NEW fs, GoodFilters(fs), NEW u, MuteFilters(fs, u), NEW vs
  PROVE  MuteFilters(BodiesReplaced(fs, vs), u)
<1> DEFINE p == [k \in DOMAIN fs |-> SetToSeq(BodyReplaced(fs[k], vs))]
           b == BodiesReplaced(fs, vs)
<1>1. DOMAIN fs = 1..Len(fs) /\ Len(fs) \in Nat
  BY DEF GoodFilters, IsSeq
<1>2. b = FlattenSeq(p)
  BY DEF BodiesReplaced
<1>3. p = [k \in 1..Len(fs) |-> p[k]] /\ \A k \in 1..Len(fs) : p[k] = SetToSeq(BodyReplaced(fs[k], vs))
  BY <1>1
<1> HIDE DEF p, b
<1>4. ASSUME NEW k \in 1..Len(fs) PROVE MuteFilters(p[k], u)
  <2> DEFINE S == BodyReplaced(fs[k], vs)
  <2>1. GoodFilter(fs[k]) /\ MuteFilter(fs[k], u)
    BY DEF GoodFilters, MuteFilters
  <2>2. \A g \in S : MuteFilter(g, u)
    BY <2>1, ReplacedAreMute
  <2>3. S = {} \/ \E x : S = {x}
    BY <2>1, BodyReplacedIs DEF GoodFilter
  <2>4. p[k] = SetToSeq(S)
    BY <1>3
  <2> HIDE DEF S
  <2> QED
    BY <2>2, <2>3, <2>4, OptionAsSeq DEF MuteFilters
<1>5. IsSeq(p) /\ Len(p) = Len(fs)
  BY <1>1, <1>3, FunctionIsSeq
<1>6. AllSeqs(p)
  BY <1>4, <1>5 DEF AllSeqs, MuteFilters
<1>7. IsSeq(b)
  BY <1>2, <1>6, FlattenIsSeq DEF AllSeqs
<1>8. ASSUME NEW k \in 1..Len(b) PROVE MuteFilter(b[k], u)
  <2>1. PICK i \in 1..Len(p) : \E j \in 1..Len(p[i]) : b[k] = p[i][j]
    BY <1>2, <1>6, FlattenHas
  <2> QED
    BY <1>4, <1>5, <2>1 DEF MuteFilters
<1>9. MuteFilters(b, u)
  BY <1>7, <1>8 DEF MuteFilters
<1> QED
  BY <1>9 DEF b

LEMMA SaidAreMute ==
  ASSUME rules \in Chosen, NEW g, IsLabel(g), NEW K, NEW code, NEW hs
  PROVE  MuteFilters(BodiesSaid(rules, K, code, hs), g.unit)
<1> DEFINE w == EachSaid(rules, K, code, hs)
           b == BodiesSaid(rules, K, code, hs)
           u == g.unit
<1>1. /\ AllSeqs(w) /\ Len(w) = Len(rules) /\ b = FlattenSeq(w)
      /\ \A k \in 1..Len(rules) : w[k] = IF k \in K THEN BodySaid(rules, k, code, hs) ELSE <<>>
  BY SaidAre
<1> HIDE DEF w, b
<1>2. MuteFilters(<<>>, u)
  BY EmptyIsSeq DEF MuteFilters
<1>3. ASSUME NEW k \in 1..Len(w) PROVE MuteFilters(w[k], u)
  <2> DEFINE vs == VariablesIn(rules, k, hs)
  <2>1. k \in 1..Len(rules)
    BY <1>1
  <2>2. MuteFilters(rules[k].bodies, u) /\ GoodFilters(rules[k].bodies)
    BY <2>1, RuleFilters, RuleBodiesAreMute
  <2> HIDE DEF vs
  <2>3. MuteFilters(BodiesReplaced(rules[k].bodies, vs), u)
    BY <2>2, BodiesAreMute
  <2>4. BodySaid(rules, k, code, hs) = IF Accepts(On(rules[k]), code) THEN BodiesReplaced(rules[k].bodies, vs) ELSE <<>>
    BY Zenon DEF BodySaid, vs
  <2> QED
    BY <1>1, <1>2, <2>1, <2>3, <2>4, Zenon
<1>4. IsSeq(b)
  BY <1>1, FlattenIsSeq DEF AllSeqs
<1>5. ASSUME NEW k \in 1..Len(b) PROVE MuteFilter(b[k], u)
  <2>1. PICK i \in 1..Len(w) : \E j \in 1..Len(w[i]) : b[k] = w[i][j]
    BY <1>1, FlattenHas
  <2> QED
    BY <1>3, <2>1 DEF MuteFilters
<1>6. MuteFilters(b, u)
  BY <1>4, <1>5 DEF MuteFilters
<1> QED
  BY <1>6 DEF b, u

LEMMA VisitorSpeaks ==
  ASSUME NEW do \in VisitorKinds, NEW s, NEW i, NEW c, NEW units, NEW u, u \notin units
  PROVE  MuteItem(Visitor(do, s, i, c, units), u)
<1> DEFINE h == Visitor(do, s, i, c, units)
<1>1. Speaker(h) /\ h.unit = units
  BY DEF Visitor, Speaker
<1> HIDE DEF h
<1>2. MuteItem(h, u)
  BY <1>1 DEF MuteItem, Speaker
<1> QED
  BY <1>2 DEF h

LEMMA ItemIsMute ==
  ASSUME NEW f, GoodFilter(f), NEW u, MuteFilter(f, u), NEW contentType
  PROVE  \A i \in Item(f, contentType) : MuteItem(i, u)
<1>1. CASE f.type = "text"
  <2> DEFINE x == [kind |-> "text", do |-> f.do, content |-> f.content, unit |-> f.unit, executed |-> FALSE]
  <2>1. Item(f, contentType) = IF f.do # "replace" /\ contentType \cap Binary # {} THEN {} ELSE {x}
    BY <1>1 DEF Item
  <2>2. x.kind = "text" /\ {"kind", "unit"} \subseteq DOMAIN x /\ x.unit = f.unit
    OBVIOUS
  <2> HIDE DEF x
  <2>3. MuteItem(x, u)
    BY <1>1, <2>2 DEF MuteFilter, MuteItem
  <2> QED
    BY <2>1, <2>3
<1>2. CASE f.type = "html"
  <2> DEFINE x == FilterVisitor(f)
  <2>1. Item(f, contentType) = IF IsHtml(contentType) /\ ~ NoSelector(f) THEN {x} ELSE {}
    BY <1>2 DEF Item
  <2>2. MuteItem(x, u)
    <3>1. \A s, i : MuteItem(Visitor(f.do, s, i, f.content, f.unit), u)
      BY <1>2, VisitorSpeaks DEF GoodFilter, MuteFilter
    <3> QED
      BY <3>1, Zenon DEF FilterVisitor
  <2> HIDE DEF x
  <2> QED
    BY <2>1, <2>2
<1>3. CASE f.type = "markdown"
  <2> DEFINE x == [kind |-> "markdown", unit |-> f.unit, data |-> <<>>]
  <2>1. Item(f, contentType) = IF IsHtml(contentType) THEN {x} ELSE {}
    BY <1>3 DEF Item
  <2>2. x.kind = "markdown" /\ {"kind", "unit"} \subseteq DOMAIN x /\ x.unit = f.unit
    OBVIOUS
  <2> HIDE DEF x
  <2>3. MuteItem(x, u)
    BY <1>3, <2>2 DEF MuteFilter, MuteItem
  <2> QED
    BY <2>1, <2>3
<1>4. CASE f.type = "other"
  BY <1>4 DEF Item
<1> QED
  BY <1>1, <1>2, <1>3, <1>4 DEF GoodFilter, KnownTypes

LEMMA ItemsAreMute ==
  ASSUME NEW b, GoodFilters(b.filters), NEW u, MuteFilters(b.filters, u)
  PROVE  MuteChain(Items(b), u)
<1> DEFINE fs == b.filters
           p == [k \in DOMAIN fs |-> SetToSeq(Item(fs[k], b.contentType))]
           c == Items(b)
<1>1. DOMAIN fs = 1..Len(fs) /\ Len(fs) \in Nat
  BY DEF GoodFilters, IsSeq
<1>2. c = FlattenSeq(p)
  BY DEF Items
<1>3. p = [k \in 1..Len(fs) |-> p[k]] /\ \A k \in 1..Len(fs) : p[k] = SetToSeq(Item(fs[k], b.contentType))
  BY <1>1
<1> HIDE DEF p, c
<1>4. ASSUME NEW k \in 1..Len(fs) PROVE MuteChain(p[k], u)
  <2> DEFINE S == Item(fs[k], b.contentType)
  <2>1. GoodFilter(fs[k]) /\ MuteFilter(fs[k], u)
    BY DEF GoodFilters, MuteFilters
  <2>2. (S = {} \/ \E x : S = {x}) /\ \A i \in S : MuteItem(i, u)
    BY <2>1, ItemIsGood, ItemIsMute
  <2>3. p[k] = SetToSeq(S)
    BY <1>3
  <2> HIDE DEF S
  <2> QED
    BY <2>2, <2>3, OptionAsSeq DEF MuteChain
<1>5. IsSeq(p) /\ Len(p) = Len(fs)
  BY <1>1, <1>3, FunctionIsSeq
<1>6. AllSeqs(p)
  BY <1>4, <1>5 DEF AllSeqs, MuteChain
<1>7. IsSeq(c)
  BY <1>2, <1>6, FlattenIsSeq DEF AllSeqs
<1>8. ASSUME NEW k \in 1..Len(c) PROVE MuteItem(c[k], u)
  <2>1. PICK i \in 1..Len(p) : \E j \in 1..Len(p[i]) : c[k] = p[i][j]
    BY <1>2, <1>6, FlattenHas
  <2> QED
    BY <1>4, <1>5, <2>1 DEF MuteChain
<1>9. MuteChain(c, u)
  BY <1>7, <1>8 DEF MuteChain
<1> QED
  BY <1>9 DEF c

LEMMA MuteJoined ==
  ASSUME NEW u, NEW s, MuteChain(s, u), NEW t, MuteChain(t, u)
  PROVE  MuteChain(s \o t, u)
<1> DEFINE c == s \o t
<1>1. IsSeq(s) /\ IsSeq(t)
  BY DEF MuteChain
<1>2. /\ IsSeq(c)
      /\ \A k \in 1..Len(c) : (\E i \in 1..Len(s) : c[k] = s[i]) \/ (\E i \in 1..Len(t) : c[k] = t[i])
  BY <1>1, ConcatIsSeq
<1> HIDE DEF c
<1>3. MuteChain(c, u)
  BY <1>2 DEF MuteChain
<1> QED
  BY <1>3 DEF c

LEMMA OneIsMute ==
  ASSUME NEW u, NEW i, MuteItem(i, u)
  PROVE  MuteChain(<<i>>, u)
BY OneIsSeq DEF MuteChain

LEMMA NewChainIsMute ==
  ASSUME NEW b, GoodFilters(b.filters), NEW u, MuteFilters(b.filters, u)
  PROVE  MuteChain(NewChain(b), u)
<1> DEFINE c == Capture(b.registry)
           y == Buffer
           d == [kind |-> "decode", encoding |-> b.encoding, closed |-> FALSE]
           e == [kind |-> "encode"]
           own == Items(b)
           items == Capturing(b, own)
<1>1. MuteItem(c, u)
  <2>1. Speaker(c) /\ c.unit = {}
    BY DEF Capture, Visitor, Speaker, VisitorKinds
  <2> HIDE DEF c
  <2> QED
    BY <2>1 DEF MuteItem, Speaker
<1>2. MuteItem(y, u) /\ MuteItem(d, u) /\ MuteItem(e, u)
  BY DEF MuteItem, Buffer
<1>3. MuteChain(own, u)
  BY ItemsAreMute
<1>4. items = IF BodyVariables(b.registry) # {} /\ IsHtml(b.contentType) THEN <<c, y>> \o own ELSE own
  BY DEF Capturing
<1>5. NewChain(b) = IF items = <<>> \/ b.encoding = {} THEN items
                    ELSE IF b.encoding \cap {"gzip", "br", "deflate"} # {}
                         THEN <<d>> \o items \o <<e>> ELSE <<>>
  BY DEF NewChain
<1> HIDE DEF c, y, d, e, own, items
<1>6. MuteChain(<<c>>, u) /\ MuteChain(<<d>>, u) /\ MuteChain(<<e>>, u) /\ MuteChain(<<>>, u)
  BY <1>1, <1>2, OneIsMute, NoneIsMute
<1>7. MuteChain(<<c, y>>, u)
  <2>1. Append(<<c>>, y) = <<c, y>>
    BY Appends
  <2> QED
    BY <1>2, <1>6, <2>1, MuteChainGrows
<1>8. MuteChain(items, u)
  <2>1. MuteChain(<<c, y>> \o own, u)
    BY <1>3, <1>7, MuteJoined
  <2> QED
    BY <1>3, <1>4, <2>1, Zenon
<1>9. MuteChain(<<d>> \o items \o <<e>>, u)
  <2>1. MuteChain(<<d>> \o items, u)
    BY <1>6, <1>8, MuteJoined
  <2> QED
    BY <1>6, <2>1, MuteJoined
<1> QED
  BY <1>5, <1>6, <1>8, <1>9, Zenon

----------------------------------------------------------------------------
(* Through a whole answer: up to the headers nothing is told of g, then    *)
(* what is so of the headers, and the calls after them leave both.         *)

Telling(g) ==
  /\ OtherUnits(action, g.unit)
  /\ stage \in {"rules", "request", "status", "headers"} => Silent(trace, g.unit)
  /\ stage = "headers" => FreeHeaders(backend.headers, g.unit)
  /\ stage \in {"create", "body", "tags", "done"} => Tells(g, headers, trace)
  /\ stage = "body" /\ phase = "body" /\ ~ inError => MuteChain(chain, g.unit)

LabelInv == \A g \in Setters(rules) : UnitsAreLabels(rules) => Telling(g)

LEMMA LabelInvInit == ResponseInit => LabelInv
<1> SUFFICES ASSUME ResponseInit, NEW g \in Setters(rules), UnitsAreLabels(rules) PROVE Telling(g)
  BY DEF LabelInv
<1>1. action = NoAction /\ stage = "rules" /\ trace = NoTrace
  BY DEF ResponseInit, BodyInit
<1>2. Silent(NoTrace, g.unit)
  BY DEF Silent, NoTrace, IsTrace, Told
<1> QED
  BY <1>1, <1>2, OtherUnitsOfNone DEF Telling

LEMMA TellingTaken ==
  ASSUME ResponseInv, NEW g, IsLabel(g), Telling(g), TakeRule
  PROVE  Telling(g)'
<1> DEFINE r == rules[at]
           a == FromRouteRule(r)
           u == g.unit
           c == r.units.configuration
           reset == IF r.reset THEN AddUnit(trace, "configuration::reset", c) ELSE trace
<1>1. rules \in Chosen /\ at \in 1..Len(rules)
  BY RulesAssumption DEF ResponseInv, ActionInv, TakeRule
<1>2. /\ action' = IF r.reset THEN a ELSE Merge(action, a)
      /\ trace' = IF r.stop THEN AddUnit(reset, "configuration::stop", c) ELSE reset
      /\ stage = "rules" /\ stage' = "rules"
  BY Zenon DEF TakeRule
<1>3. OtherUnits(a, u) /\ OtherUnits(action, u) /\ Silent(trace, u)
  BY <1>1, <1>2, OtherUnitsOfRule DEF Telling
<1>4. c # u
  BY <1>1, LeavesIs DEF LeavesLabel
<1> HIDE DEF a, c
<1>5. OtherUnits(action', u)
  BY <1>2, <1>3, OtherUnitsOfBoth
<1>6. Silent(reset, u)
  <2>1. Silent(AddUnit(trace, "configuration::reset", c), u)
    BY <1>3, <1>4, SilentAdded
  <2> QED
    BY <1>3, <2>1, Zenon
<1> HIDE DEF reset
<1>7. Silent(trace', u)
  <2>1. Silent(AddUnit(reset, "configuration::stop", c), u)
    BY <1>4, <1>6, SilentAdded
  <2> QED
    BY <1>2, <1>6, <2>1, Zenon
<1> QED
  BY <1>2, <1>5, <1>7 DEF Telling

LEMMA SilentTraced ==
  ASSUME NEW t, NEW u, Silent(t, u), NEW target, NEW units, u \notin units
  PROVE  Silent(TracedFor(target, units, t), u)
BY TracedTold DEF Silent

LEMMA TellingPeer ==
  ASSUME NEW g, Telling(g), GetPeer
  PROVE  Telling(g)'
<1> DEFINE units == {p.unit : p \in action.peer}
<1>1. /\ stage = "rules" /\ stage' = "request" /\ action' = action
      /\ trace' = TracedFor("peer_override", units, trace)
  BY Zenon DEF GetPeer
<1>2. g.unit \notin units /\ Silent(trace, g.unit)
  BY <1>1 DEF Telling, OtherUnits
<1> HIDE DEF units
<1>3. Silent(trace', g.unit)
  BY <1>1, <1>2, SilentTraced
<1> QED
  BY <1>1, <1>3 DEF Telling

LEMMA TellingRequest ==
  ASSUME ResponseInv, HeadersInv, NEW g, IsLabel(g), Telling(g), FilterRequestHeaders
  PROVE  Telling(g)'
<1> DEFINE fs == FiltersOf(action.requestFilters)
<1>1. stage = "request" /\ stage' = "status" /\ action' = action
  BY Zenon DEF FilterRequestHeaders
<1>2. trace' = FilterAll(fs, forwarded, trace).trace
  BY Zenon DEF FilterRequestHeaders, FiltersOf
<1>3. rules \in Chosen /\ at = Len(rules) + 1
  BY <1>1, RulesAssumption DEF ResponseInv, ActionInv
<1>4. KeptUpto(rules, at) = Kept
  BY <1>3, KeptAtEnd
<1>5. fs = Picked(RequestOfRules(rules), Kept)
  BY <1>1, <1>4 DEF HeadersInv, RequestMergedOf
<1> HIDE DEF fs
<1>6. IsSeq(fs) /\ \A k \in 1..Len(fs) : fs[k].unit # g.unit
  BY <1>3, <1>5, PickedUnits
<1>7. Silent(trace', g.unit)
  BY <1>1, <1>2, <1>6, FilterAllSilent DEF Telling
<1> QED
  BY <1>1, <1>7 DEF Telling

LEMMA TellingAnswers ==
  ASSUME ResponseInv, NEW g, IsLabel(g), Telling(g), AnswerAtOnce \/ AnswerBackend
  PROVE  Telling(g)'
<1>1. /\ stage = "status" /\ stage' = "headers" /\ action' = action
      /\ backend'.headers = <<>> \/ backend' \in Backend(rules)
      /\ \E code : trace' = TracedFor("status_code", GetStatusCode(action.update, code).units, trace)
  <2>1. CASE AnswerAtOnce
    BY <2>1, Zenon DEF AnswerAtOnce, Give
  <2>2. CASE AnswerBackend
    BY <2>2, Zenon DEF AnswerBackend, Give
  <2> QED
    BY <2>1, <2>2
<1>2. PICK code : trace' = TracedFor("status_code", GetStatusCode(action.update, code).units, trace)
  BY <1>1
<1>3. g.unit \notin GetStatusCode(action.update, code).units
  BY StatusUnits DEF Telling, OtherUnits
<1>4. Silent(trace', g.unit)
  BY <1>1, <1>2, <1>3, SilentTraced DEF Telling
<1>5. FreeHeaders(backend'.headers, g.unit)
  <2>1. rules \in Chosen
    BY DEF ResponseInv, ActionInv
  <2>2. FreeHeaders(<<>>, g.unit)
    BY EmptyIsSeq DEF FreeHeaders
  <2> QED
    BY <1>1, <2>1, <2>2, BackendIsFree
<1> QED
  BY <1>1, <1>4, <1>5 DEF Telling

LEMMA TellingHeaders ==
  ASSUME ResponseInv, HeadersInv, NEW g, IsLabel(g), Telling(g), FilterHeaders
  PROVE  Telling(g)'
<1> DEFINE heard == Heard(action.headerFilters, backend.code)
           fs == HeadersNow(heard, backend.headers)
<1>1. /\ stage = "headers" /\ stage' = "create"
      /\ action' = [action EXCEPT !.tags = [k \in DOMAIN @ |-> TagsResolved(@[k], backend.headers)]]
  BY Zenon DEF FilterHeaders
<1>2. /\ headers' = FilterAll(fs, backend.headers, trace).headers
      /\ trace' = FilterAll(fs, backend.headers, trace).trace
  BY Zenon DEF FilterHeaders, HeadersNow, HeaderNow, Filled
<1>3. rules \in Chosen /\ at = Len(rules) + 1
  BY <1>1, RulesAssumption DEF ResponseInv, ActionInv
<1>4. KeptUpto(rules, at) = Kept
  BY <1>3, KeptAtEnd
<1>5. fs = Picked(HeardOfRules(rules, backend.code, backend.headers), Kept)
  BY <1>1, <1>4, Zenon DEF HeadersInv, HeadersMergedOf
<1> HIDE DEF fs
<1>6. FreeHeaders(backend.headers, g.unit) /\ Silent(trace, g.unit)
  BY <1>1 DEF Telling
<1>7. IsSeq(fs) /\ \A k \in 1..Len(fs) : Fit(fs[k], g)
  BY <1>3, <1>5, <1>6, PickedFit
<1>8. Tells(g, backend.headers, trace)
  BY <1>6, SilentTells
<1>9. Tells(g, headers', trace')
  BY <1>2, <1>7, <1>8, FilterAllTells
<1>10. action'.update = action.update /\ action'.log = action.log /\ action'.peer = action.peer
  BY <1>1 DEF ResponseInv, ActionInv, IsAction
<1>11. OtherUnits(action', g.unit)
  BY <1>10 DEF Telling, OtherUnits
<1> QED
  BY <1>1, <1>9, <1>11 DEF Telling

LEMMA TellingCreate ==
  ASSUME ResponseInv, TextsInv, FlowInv, NEW g, IsLabel(g), Telling(g),
         NEW hs \in {<<>>, headers}, CreateFilterBody(hs)
  PROVE  Telling(g)'
<1> DEFINE heard == Heard(action.bodyFilters, backend.code)
           fs == FlattenSeq([k \in DOMAIN heard |-> Now(heard[k], hs)])
           b == BodyOfResponse(fs, hs)
<1>1. stage = "create" /\ stage' = "body" /\ action' = action /\ headers' = headers
  BY Zenon DEF CreateFilterBody
<1>2. Begin(b)
  BY Zenon DEF CreateFilterBody, Now
<1>3. chain' = NewChain(b) /\ trace' = trace
  BY <1>2 DEF Begin
<1>4. fs = BodiesOf(heard, hs)
  BY Zenon DEF BodiesOf
<1> HIDE DEF heard, fs
<1>5. rules \in Chosen /\ at = Len(rules) + 1
  BY <1>1, RulesAssumption DEF ResponseInv, ActionInv
<1>6. KeptUpto(rules, at) = Kept
  BY <1>5, KeptAtEnd
<1>7. fs = BodiesSaid(rules, Kept, backend.code, hs)
  BY <1>4, <1>6 DEF TextsInv, BodyMergedOf, heard
<1>8. GoodHeaders(hs)
  BY <1>1, NoBodyIsGood DEF FlowInv
<1>9. GoodFilters(fs)
  BY <1>5, <1>7, <1>8, SaidAreGood
<1>10. MuteFilters(fs, g.unit)
  BY <1>5, <1>7, SaidAreMute
<1>11. b.filters = fs
  BY DEF BodyOfResponse
<1> HIDE DEF b
<1>12. MuteChain(chain', g.unit)
  BY <1>3, <1>9, <1>10, <1>11, NewChainIsMute
<1> QED
  BY <1>1, <1>3, <1>12 DEF Telling

LEMMA TellsStill ==
  ASSUME NEW g, g.target # "text", NEW hs, NEW t, Tells(g, hs, t), NEW s, StillTold(s, g.unit, Told(t, g.unit))
  PROVE  Tells(g, hs, s)
BY TellsSame DEF StillTold

LEMMA ToldStill ==
  ASSUME NEW g, g.target # "text", NEW hs, NEW t, Tells(g, hs, t)
  PROVE  StillTold(t, g.unit, Told(t, g.unit))
<1>1. IsTrace(t) /\ Told(t, g.unit) \subseteq {<<g.target, g.unit>>}
  BY DEF Tells
<1>2. \A p \in Told(t, g.unit) : p[1] # "text"
  BY <1>1
<1> QED
  BY <1>1, <1>2 DEF StillTold

LEMMA TellingBody ==
  ASSUME ResponseInv, FlowInv, NEW g, IsLabel(g), Telling(g), FilterBody
  PROVE  Telling(g)'
<1> DEFINE u == g.unit
           T == Told(trace, u)
<1>1. /\ stage = "body" /\ stage' = stage /\ action' = action /\ headers' = headers
      /\ (\E n \in 1..Len(body.input) : Filter(n)) \/ End \/ Panic
  BY Zenon DEF FilterBody, responseVars
<1>2. Tells(g, headers, trace) /\ g.target # "text"
  BY <1>1, LabelIs DEF Telling, ResponseInv, ActionInv
<1>3. StillTold(trace, u, T)
  BY <1>2, ToldStill
<1>4. SUFFICES StillTold(trace', u, T) /\ (phase' = "body" /\ ~ inError' => MuteChain(chain', u))
  <2>1. ASSUME StillTold(trace', u, T) PROVE Tells(g, headers', trace')
    BY <1>1, <1>2, <2>1, TellsStill
  <2> QED
    BY <1>1, <2>1 DEF Telling
<1>5. phase = "body" /\ ~ inError => MuteChain(chain, u) /\ GoodChain(chain) /\ GoodRegistry(registry)
  BY <1>1 DEF Telling, FlowInv, Flowing
<1> HIDE DEF T
<1>6. ASSUME NEW n \in 1..Len(body.input), Filter(n)
      PROVE  StillTold(trace', u, T) /\ (phase' = "body" /\ ~ inError' => MuteChain(chain', u))
  <2> DEFINE s == FilterChain(Chunk(n))
  <2>1. phase = "body" /\ taken + n <= Len(body.input)
    BY <1>6, Zenon DEF Filter
  <2>2. IF inError THEN UNCHANGED <<chain, trace, inError>>
                   ELSE inError' = s.refused /\ chain' = s.chain /\ trace' = s.trace
    BY <1>6, Zenon DEF Filter
  <2> HIDE DEF s
  <2>3. CASE inError
    BY <1>3, <2>2, <2>3
  <2>4. CASE ~ inError
    <3>1. GoodBytes(body.input) /\ taken \in 0..Len(body.input)
      BY <2>1 DEF FlowInv, Flowing
    <3>2. Len(body.input) \in Nat
      BY <3>1 DEF GoodBytes, GoodText, IsSeq
    <3>3. taken + n \in taken..Len(body.input)
      BY <2>1, <3>1, <3>2
    <3>4. GoodBytes(Chunk(n))
      BY <3>1, <3>3, PartIsGood DEF Chunk
    <3>5. MuteThrough(s, u, T)
      BY <1>3, <1>5, <2>1, <2>4, <3>4, FilterChainIsMute DEF s
    <3> QED
      BY <2>2, <2>4, <3>5 DEF MuteThrough
  <2> QED
    BY <2>3, <2>4
<1>7. ASSUME End
      PROVE  StillTold(trace', u, T) /\ (phase' = "body" /\ ~ inError' => MuteChain(chain', u))
  <2> DEFINE s == EndChain
  <2>1. phase = "body" /\ phase' = "end"
    BY <1>7, Zenon DEF End
  <2>2. IF inError \/ s.refused THEN trace' = trace ELSE trace' = s.trace
    BY <1>7, Zenon DEF End
  <2>3. ~ inError => StillTold(s.trace, u, T)
    BY <1>3, <1>5, <2>1, EndChainIsMute
  <2> HIDE DEF s
  <2>4. StillTold(trace', u, T)
    BY <1>3, <2>2, <2>3
  <2> QED
    BY <2>1, <2>4
<1>8. ASSUME Panic
      PROVE  StillTold(trace', u, T) /\ (phase' = "body" /\ ~ inError' => MuteChain(chain', u))
  <2>1. phase' = "panicked" /\ trace' = trace
    BY <1>8, Zenon DEF Panic
  <2> QED
    BY <1>3, <2>1
<1> QED
  BY <1>1, <1>6, <1>7, <1>8

LEMMA TellsTraced ==
  ASSUME NEW g, NEW hs, NEW t, Tells(g, hs, t), NEW target, NEW units, g.unit \notin units
  PROVE  Tells(g, hs, TracedFor(target, units, t))
<1>1. IsTrace(TracedFor(target, units, t)) /\ Told(TracedFor(target, units, t), g.unit) = Told(t, g.unit)
  BY TracedTold
<1> QED
  BY <1>1, TellsSame

LEMMA TellingLog ==
  ASSUME NEW g, Telling(g), ShouldLogRequest
  PROVE  Telling(g)'
<1> DEFINE units == GetLogOverride(action.log, status).units
<1>1. /\ stage = "body" /\ stage' = "tags" /\ action' = action /\ headers' = headers
      /\ trace' = TracedFor("configuration::log", units, trace)
  BY Zenon DEF ShouldLogRequest
<1>2. g.unit \notin units
  BY LogUnits DEF Telling, OtherUnits
<1> HIDE DEF units
<1>3. Tells(g, headers', trace')
  BY <1>1, <1>2, TellsTraced DEF Telling
<1> QED
  BY <1>1, <1>3 DEF Telling

LEMMA TellingTags ==
  ASSUME ResponseInv, TextsInv, NEW g, IsLabel(g), Telling(g), GetLogTags
  PROVE  Telling(g)'
<1> DEFINE units == {t.unit : t \in {x \in Range(action.tags) : Accepts(x.on, ResponseCode)}}
<1>1. /\ stage = "tags" /\ stage' = "done" /\ action' = action /\ headers' = headers
      /\ trace' = TracedFor("log_tags", units, trace)
  BY Zenon DEF GetLogTags
<1>2. rules \in Chosen
  BY DEF ResponseInv, ActionInv
<1>3. Kept \subseteq 1..Len(rules)
  BY <1>2, KeptAreNumbers
<1>4. TagsResolvedOf(rules, action, backend.headers, Kept)
  BY <1>1 DEF TextsInv
<1>5. ASSUME NEW t \in Range(action.tags) PROVE t.unit # g.unit
  <2>1. PICK i \in 1..Len(action.tags) : t = action.tags[i]
    BY <1>4 DEF TagsResolvedOf, IsSeq, Range
  <2>2. PICK k \in Tagging(rules, Kept) : t = TagsResolved(TagPart(rules[k]), backend.headers)
    BY <1>4, <2>1 DEF TagsResolvedOf
  <2>3. k \in 1..Len(rules)
    BY <1>3 DEF Tagging
  <2>4. rules[k].units.tags # g.unit
    BY <1>2, <2>3, LeavesIs DEF LeavesLabel
  <2> DEFINE part == TagPart(rules[k])
  <2>5. part.unit = rules[k].units.tags /\ "unit" \in DOMAIN part
    BY DEF TagPart
  <2> HIDE DEF part
  <2>6. TagsResolved(part, backend.headers).unit = part.unit
    BY <2>5 DEF TagsResolved
  <2> QED
    BY <2>2, <2>4, <2>5, <2>6 DEF part
<1>6. g.unit \notin units
  BY <1>5
<1> HIDE DEF units
<1>7. Tells(g, headers', trace')
  BY <1>1, <1>6, TellsTraced DEF Telling
<1> QED
  BY <1>1, <1>7 DEF Telling

LEMMA LabelStep ==
  ResponseInv /\ TextsInv /\ HeadersInv /\ FlowInv /\ LabelInv /\ [ResponseNext]_<<responseVars, bodyVars>>
    => LabelInv'
<1> SUFFICES ASSUME ResponseInv, TextsInv, HeadersInv, FlowInv, LabelInv,
                    [ResponseNext]_<<responseVars, bodyVars>>
             PROVE  LabelInv'
  OBVIOUS
<1>1. rules' = rules
  BY Zenon DEF ResponseNext, TakeRule, GetPeer, FilterRequestHeaders, AnswerAtOnce, AnswerBackend, Give,
               FilterHeaders, CreateFilterBody, FilterBody, ShouldLogRequest, GetLogTags, responseVars
<1>2. SUFFICES ASSUME NEW g \in Setters(rules), UnitsAreLabels(rules) PROVE Telling(g)'
  BY <1>1 DEF LabelInv
<1>3. IsLabel(g) /\ Telling(g)
  BY <1>2 DEF LabelInv, IsLabel
<1>4. CASE \E hs \in {<<>>, headers} : CreateFilterBody(hs)
  <2>1. PICK hs \in {<<>>, headers} : CreateFilterBody(hs)
    BY <1>4, Zenon
  <2> QED
    BY <1>3, <2>1, TellingCreate
<1>5. CASE UNCHANGED <<responseVars, bodyVars>>
  BY <1>3, <1>5 DEF Telling, responseVars, bodyVars
<1> QED
  BY <1>3, <1>4, <1>5, TellingTaken, TellingPeer, TellingRequest, TellingAnswers, TellingHeaders,
     TellingBody, TellingLog, TellingTags DEF ResponseNext

LEMMA LabelAlways == ResponseSpec => []LabelInv
BY LabelInvInit, LabelStep, ResponseAlways, TextsAlways, HeadersAlways, FlowAlways, PTL DEF ResponseSpec

\* Where each filter that sets a header has the filter's unit in its value, and
\* nothing else of the rules, the request or the backend has it, the trace tells of
\* the headers: a value that a filter has set stands at the end if, and only if, the
\* unit is there as applied. An override and a removal take off the trace what they
\* take off the headers, whatever rules are merged, and no later call tells of it.
THEOREM TraceTellsHeaders == ResponseSpec => [](UnitsAreLabels(rules) => TraceTellsTheHeaders)
<1>1. ResponseInv /\ LabelInv => (UnitsAreLabels(rules) => TraceTellsTheHeaders)
  <2> SUFFICES ASSUME ResponseInv, LabelInv, UnitsAreLabels(rules), stage = "done",
                      NEW k \in Kept, NEW f \in Range(rules[k].headers), f.action # "remove"
               PROVE  f.unit \in UnitsApplied(trace)
                        <=> \E i \in DOMAIN headers : Contains(headers[i].value, Word(f.unit))
    BY DEF TraceTellsTheHeaders
  <2>1. k \in DOMAIN rules
    BY RulesAssumption, KeptAreNumbers DEF ResponseInv, ActionInv
  <2>2. f \in Setters(rules)
    BY <2>1 DEF Setters
  <2>3. Tells(f, headers, trace)
    BY <2>2 DEF LabelInv, Telling
  <2>4. DOMAIN headers = 1..Len(headers)
    BY <2>3 DEF Tells, IsSeq
  <2>5. f.unit \in UnitsApplied(trace) <=> Told(trace, f.unit) # {}
    BY DEF UnitsApplied, Told
  <2> QED
    BY <2>3, <2>4, <2>5 DEF Tells, Labelled
<1> QED
  BY <1>1, LabelAlways, ResponseAlways, PTL
=============================================================================
