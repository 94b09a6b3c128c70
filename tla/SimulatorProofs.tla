--------------------------- MODULE SimulatorProofs ---------------------------
(***************************************************************************)
(* What the simulator's answers are, for every configuration and date: its *)
(* cycles and metrics count single ticks, and its charts show them.        *)
(***************************************************************************)
EXTENDS CalculationProofs

-----------------------------------------------------------------------------
(***************************************************************************)
(* Finite sets in order.                                                   *)
(***************************************************************************)

\* s lists the elements of S in the order R.
Lists(s, S, R) ==
  /\ s \in Seq(S) /\ Len(s) = Cardinality(S)
  /\ \A x \in S : \E k \in 1 .. Len(s) : s[k] = x
  /\ \A k, l \in 1 .. Len(s) : k < l => <<s[k], s[l]>> \in R
  /\ \A k, l \in 1 .. Len(s) : s[k] = s[l] => k = l

LEMMA OrderLists ==
  ASSUME NEW S, IsFiniteSet(S), NEW R, InLine(S, R)
  PROVE  Lists(InOrder(S, R), S, R)
<1> DEFINE n == Cardinality(S)
           s == InOrder(S, R)
<1>1. /\ n \in Nat
      /\ \A x \in S : Place(S, R, x) \in 0 .. n - 1
      /\ \A x, y \in S : Place(S, R, x) = Place(S, R, y) => x = y
      /\ \A k \in 0 .. n - 1 : \E x \in S : Place(S, R, x) = k
  BY PlacesTaken
<1>2. s = [k \in 1 .. n |-> CHOOSE x \in S : Place(S, R, x) = k - 1]
  BY DEF InOrder, Place
<1> HIDE DEF n, s
<1>3. ASSUME NEW k \in 1 .. n PROVE s[k] \in S /\ Place(S, R, s[k]) = k - 1
  <2>1. k - 1 \in 0 .. n - 1
    BY <1>1
  <2>2. \E x \in S : Place(S, R, x) = k - 1
    BY <1>1, <2>1
  <2>3. s[k] = CHOOSE x \in S : Place(S, R, x) = k - 1
    BY <1>2
  <2> QED
    BY <2>2, <2>3
<1>4. s \in Seq(S) /\ Len(s) = n
  <2>1. DOMAIN s = 1 .. n /\ s = [k \in 1 .. n |-> s[k]]
    BY <1>2
  <2> QED
    BY <1>1, <1>3, <2>1
<1>5. ASSUME NEW x \in S PROVE \E k \in 1 .. n : s[k] = x
  <2>1. Place(S, R, x) \in 0 .. n - 1
    BY <1>1
  <2> DEFINE k == Place(S, R, x) + 1
  <2>2. k \in 1 .. n /\ k - 1 = Place(S, R, x)
    BY <1>1, <2>1
  <2> HIDE DEF k
  <2>3. s[k] = x
    BY <1>1, <1>3, <2>2
  <2> QED
    BY <2>2, <2>3
<1>6. ASSUME NEW k \in 1 .. n, NEW l \in 1 .. n, k < l PROVE <<s[k], s[l]>> \in R
  <2>1. /\ s[k] \in S /\ s[l] \in S /\ Place(S, R, s[k]) = k - 1 /\ Place(S, R, s[l]) = l - 1
    BY <1>3
  <2>2. s[k] # s[l]
    BY <1>1, <1>6, <2>1
  <2>3. ASSUME <<s[l], s[k]>> \in R PROVE FALSE
    <3>1. Place(S, R, s[l]) < Place(S, R, s[k])
      BY <2>1, <2>3, LaterPlace
    <3> QED
      BY <1>1, <1>6, <2>1, <3>1
  <2> QED
    BY <2>1, <2>2, <2>3 DEF InLine
<1>7. ASSUME NEW k \in 1 .. n, NEW l \in 1 .. n, s[k] = s[l] PROVE k = l
  BY <1>1, <1>3, <1>7
<1> QED
  BY <1>4, <1>5, <1>6, <1>7 DEF Lists, n, s

\* The first and the last of a pair.
LEMMA PairBounds ==
  ASSUME NEW x \in Int, NEW y \in Int
  PROVE  /\ Max({x, y}) = IF x < y THEN y ELSE x
         /\ Min({x, y}) = IF x < y THEN x ELSE y
<1>1. Max({x, y}) \in {x, y} /\ \A z \in {x, y} : Max({x, y}) >= z
  <2>1. \E m \in {x, y} : \A z \in {x, y} : m >= z
    OBVIOUS
  <2> QED
    BY <2>1 DEF Max
<1>2. Min({x, y}) \in {x, y} /\ \A z \in {x, y} : Min({x, y}) <= z
  <2>1. \E m \in {x, y} : \A z \in {x, y} : m <= z
    OBVIOUS
  <2> QED
    BY <2>1 DEF Min
<1> QED
  BY <1>1, <1>2

-----------------------------------------------------------------------------
(***************************************************************************)
(* Merged intervals.                                                       *)
(***************************************************************************)

\* The instants in any of a set of intervals.
Inside(is) == {t \in Nat : \E i \in is : i.start <= t /\ t < i.end}

LEMMA SpansFinite ==
  ASSUME NEW S \in SUBSET Span, NEW n \in Nat, \A i \in S : i.start <= n /\ i.end <= n
  PROVE  IsFiniteSet(S)
<1> DEFINE T == (0 .. n) \X (0 .. n)
           f == [i \in S |-> <<i.start, i.end>>]
<1>1. IsFiniteSet(0 .. n)
  BY FS_Interval
<1>2. IsFiniteSet(T)
  BY <1>1, FS_Product
<1>3. \A i \in S : i.start \in 0 .. n /\ i.end \in 0 .. n /\ i = [start |-> i.start, end |-> i.end]
  BY DEF Span
<1>4. f \in Injection(S, T)
  BY <1>3 DEF Injection, IsInjective
<1> QED
  BY <1>2, <1>4, FS_Injection

LEMMA SoonerInLine ==
  ASSUME NEW S \in SUBSET Span
  PROVE  InLine(S, Sooner(S))
<1>1. \A i \in S : i.start \in Nat /\ i.end \in Nat /\ i = [start |-> i.start, end |-> i.end]
  BY DEF Span
<1>2. \A i, j \in S : <<i, j>> \in Sooner(S)
        <=> i.start < j.start \/ (i.start = j.start /\ i.end < j.end)
  BY DEF Sooner
<1>3. \A i, j \in S : i = j \/ <<i, j>> \in Sooner(S) \/ <<j, i>> \in Sooner(S)
  <2> SUFFICES ASSUME NEW i \in S, NEW j \in S, ~(<<i, j>> \in Sooner(S)), ~(<<j, i>> \in Sooner(S))
               PROVE  i = j
    OBVIOUS
  <2>1. i.start = j.start /\ i.end = j.end
    BY <1>1, <1>2
  <2> QED
    BY <1>1, <2>1
<1>4. \A i \in S : <<i, i>> \notin Sooner(S)
  BY <1>1, <1>2
<1>5. \A i, j, k \in S : <<i, j>> \in Sooner(S) /\ <<j, k>> \in Sooner(S) => <<i, k>> \in Sooner(S)
  <2> SUFFICES ASSUME NEW i \in S, NEW j \in S, NEW k \in S,
                      <<i, j>> \in Sooner(S), <<j, k>> \in Sooner(S)
               PROVE  <<i, k>> \in Sooner(S)
    OBVIOUS
  <2> QED
    BY <1>1, <1>2
<1> QED
  BY <1>3, <1>4, <1>5 DEF InLine

LEMMA JoinType ==
  ASSUME NEW m \in Seq(Span), NEW i \in Span
  PROVE  Join(m, i) \in Seq(Span)
<1> DEFINE n == Len(m)
<1>1. CASE m = <<>> \/ i.start > Last(m).end
  BY <1>1 DEF Join
<1>2. CASE ~(m = <<>> \/ i.start > Last(m).end)
  <2>1. n \in Nat \ {0} /\ m[n] \in Span
    BY <1>2
  <2>2. Join(m, i) = [m EXCEPT ![n].end = Max({@, i.end})]
    BY <1>2 DEF Join
  <2> DEFINE e == Max({m[n].end, i.end})
             p == [m[n] EXCEPT !.end = e]
  <2>3. e \in Nat
    <3>1. m[n].end \in Nat /\ i.end \in Nat
      BY <2>1 DEF Span
    <3> QED
      BY <3>1, PairBounds
  <2>4. Join(m, i) = [m EXCEPT ![n] = p]
    BY <2>2
  <2>5. p \in Span
    <3> HIDE DEF e
    <3> QED
      BY <2>1, <2>3 DEF Span
  <2> HIDE DEF p
  <2> QED
    BY <2>1, <2>4, <2>5
<1> QED
  BY <1>1, <1>2

LEMMA JoinedSteps ==
  ASSUME NEW s \in Seq(Span)
  PROVE  /\ Joined(s) \in [0 .. Len(s) -> Seq(Span)]
         /\ Joined(s)[0] = <<>>
         /\ \A k \in 1 .. Len(s) : Joined(s)[k] = Join(Joined(s)[k - 1], s[k])
<1> DEFINE n == Len(s)
           M == Seq(Span)
           step == [k \in 1 .. n |-> [m \in M |-> Join(m, s[k])]]
           Merges(f) == f = [k \in 0 .. n |-> IF k = 0 THEN <<>> ELSE Join(f[k - 1], s[k])]
<1>1. n \in Nat /\ DOMAIN s = 1 .. n /\ <<>> \in M
  OBVIOUS
<1>2. \A k \in 1 .. n : s[k] \in Span
  OBVIOUS
<1>3. step \in [1 .. n -> [M -> M]]
  BY <1>2, JoinType
<1>4. PICK f \in [0 .. n -> M] : f[0] = <<>> /\ \A k \in 1 .. n : f[k] = step[k][f[k - 1]]
  <2> HIDE DEF step, n, M
  <2>1. HasRecursion(n, M, <<>>, step)
    BY <1>1, <1>3, RecursiveFunction
  <2> QED
    BY <2>1 DEF HasRecursion
<1> HIDE DEF M
<1>5. \A k \in 1 .. n : f[k] = Join(f[k - 1], s[k])
  <2> SUFFICES ASSUME NEW k \in 1 .. n PROVE f[k] = Join(f[k - 1], s[k])
    OBVIOUS
  <2>1. f[k - 1] \in M
    BY <1>1, <1>4
  <2> QED
    BY <1>4, <2>1
<1> HIDE DEF step
<1>6. Merges(f)
  <2>1. \A k \in 0 .. n : f[k] = IF k = 0 THEN <<>> ELSE Join(f[k - 1], s[k])
    <3> SUFFICES ASSUME NEW k \in 0 .. n, k # 0 PROVE f[k] = Join(f[k - 1], s[k])
      BY <1>4
    <3>1. k \in 1 .. n
      BY <1>1
    <3> QED
      BY <1>5, <3>1
  <2>2. f = [k \in 0 .. n |-> f[k]]
    BY <1>4
  <2> HIDE DEF n
  <2> QED
    BY <2>1, <2>2
<1>7. Joined(s) = CHOOSE g : Merges(g)
  BY DEF Joined
<1>8. Merges(Joined(s))
  <2> HIDE DEF Merges
  <2> QED
    BY <1>6, <1>7
<1> DEFINE g == Joined(s)
<1>9. DOMAIN g = 0 .. n /\ g[0] = <<>> /\ \A k \in 1 .. n : g[k] = Join(g[k - 1], s[k])
  <2> HIDE DEF g
  <2> QED
    BY <1>1, <1>8 DEF g
<1>10. \A k \in 0 .. n : g[k] \in M
  <2> DEFINE T == {k \in 0 .. n : g[k] \in M}
  <2> HIDE DEF g
  <2>1. 0 \in T
    BY <1>1, <1>9
  <2>2. \A k \in 0 .. n - 1 : k \in T => k + 1 \in T
    <3> SUFFICES ASSUME NEW k \in 0 .. n - 1, k \in T PROVE k + 1 \in T
      OBVIOUS
    <3>1. k + 1 \in 1 .. n /\ (k + 1) - 1 = k
      BY <1>1
    <3>2. g[k + 1] = Join(g[k], s[k + 1]) /\ s[k + 1] \in Span
      BY <1>2, <1>9, <3>1
    <3>3. g[k] \in Seq(Span)
      BY DEF M
    <3>4. g[k + 1] \in M
      BY <3>2, <3>3, JoinType DEF M
    <3> HIDE DEF M
    <3> QED
      BY <1>1, <3>1, <3>4
  <2> HIDE DEF T
  <2>3. 0 .. n \subseteq T
    BY <1>1, <2>1, <2>2, RangeInduction
  <2> QED
    BY <2>3 DEF T
<1>11. g \in [0 .. n -> M]
  <2>1. g = [k \in 0 .. n |-> g[k]]
    BY <1>8
  <2> HIDE DEF g, n
  <2> QED
    BY <1>10, <2>1
<1> QED
  BY <1>9, <1>11 DEF M

\* The instants in an interval.
Of(i) == {t \in Nat : i.start <= t /\ t < i.end}

\* Periods that are apart, their last one prolonged.
LEMMA ApartProlonged ==
  ASSUME NEW is, Apart(is), is # <<>>, NEW p \in Span, p.start = Last(is).start, p.end >= Last(is).end
  PROVE  /\ Apart([is EXCEPT ![Len(is)] = p])
         /\ Len([is EXCEPT ![Len(is)] = p]) = Len(is)
         /\ [is EXCEPT ![Len(is)] = p][Len(is)] = p
         /\ \A k \in 1 .. Len(is) - 1 : [is EXCEPT ![Len(is)] = p][k] = is[k]
         /\ Held([is EXCEPT ![Len(is)] = p]) = Held(is) \cup Of(p)
<1> DEFINE n == Len(is)
           js == [is EXCEPT ![n] = p]
<1>1. is \in Seq(Span) /\ n \in Nat \ {0} /\ Last(is) = is[n]
  BY DEF Apart, Last
<1>2. /\ js \in Seq(Span) /\ Len(js) = n /\ js[n] = p
      /\ \A k \in 1 .. n - 1 : js[k] = is[k]
  BY <1>1
<1>3. \A k \in 1 .. n : is[k].start \in Nat /\ is[k].end \in Nat
  BY <1>1, ApartNumbers
<1>4. /\ \A k \in 1 .. n : is[k].start < is[k].end
      /\ \A k, l \in 1 .. n : k < l => is[k].end <= is[l].start
  BY DEF Apart
<1>5. p.start \in Nat /\ p.end \in Nat /\ p.start = is[n].start /\ is[n].end <= p.end
  BY <1>1, <1>3 DEF Span
<1> HIDE DEF n, js
<1>6. \A k : k \in 1 .. n <=> k = n \/ k \in 1 .. n - 1
  BY <1>1
<1>7. \A k \in 1 .. n : js[k].start < js[k].end
  <2> SUFFICES ASSUME NEW k \in 1 .. n PROVE js[k].start < js[k].end
    OBVIOUS
  <2>1. CASE k = n
    BY <1>1, <1>2, <1>3, <1>4, <1>5, <2>1
  <2>2. CASE k \in 1 .. n - 1
    BY <1>2, <1>4, <2>2
  <2> QED
    BY <1>6, <2>1, <2>2
<1>8. \A k, l \in 1 .. n : k < l => js[k].end <= js[l].start
  <2> SUFFICES ASSUME NEW k \in 1 .. n, NEW l \in 1 .. n, k < l PROVE js[k].end <= js[l].start
    OBVIOUS
  <2>1. k \in 1 .. n - 1
    BY <1>1
  <2>2. js[k] = is[k] /\ js[l].start = is[l].start
    BY <1>2, <1>5, <1>6, <2>1
  <2> QED
    BY <1>4, <2>2
<1>9. Held(js) = Held(is) \cup Of(p)
  <2>1. \A t \in Nat : p.start <= t /\ t < is[n].end => t < p.end
    BY <1>1, <1>3, <1>5
  <2>2. \A t \in Nat : (\E k \in 1 .. n : js[k].start <= t /\ t < js[k].end)
          <=> (p.start <= t /\ t < p.end) \/ (\E k \in 1 .. n : is[k].start <= t /\ t < is[k].end)
    <3> SUFFICES ASSUME NEW t \in Nat
                 PROVE  (\E k \in 1 .. n : js[k].start <= t /\ t < js[k].end)
                          <=> (p.start <= t /\ t < p.end) \/ (\E k \in 1 .. n : is[k].start <= t /\ t < is[k].end)
      OBVIOUS
    <3>1. (\E k \in 1 .. n : js[k].start <= t /\ t < js[k].end)
            <=> (p.start <= t /\ t < p.end) \/ (\E k \in 1 .. n - 1 : is[k].start <= t /\ t < is[k].end)
      BY <1>2, <1>6
    <3>2. (\E k \in 1 .. n : is[k].start <= t /\ t < is[k].end)
            <=> (p.start <= t /\ t < is[n].end) \/ (\E k \in 1 .. n - 1 : is[k].start <= t /\ t < is[k].end)
      BY <1>5, <1>6
    <3> QED
      BY <2>1, <3>1, <3>2
  <2> QED
    BY <1>2, <2>2 DEF Held, Of, n
<1> QED
  BY <1>2, <1>7, <1>8, <1>9 DEF Apart, n, js

LEMMA JoinMerges ==
  ASSUME NEW m, Apart(m), NEW i \in Span, i.start < i.end, m # <<>> => Last(m).start <= i.start
  PROVE  /\ Apart(Join(m, i)) /\ Join(m, i) # <<>>
         /\ Last(Join(m, i)).start <= i.start
         /\ Held(Join(m, i)) = Held(m) \cup Of(i)
<1> DEFINE n == Len(m)
<1>1. /\ m \in Seq(Span) /\ n \in Nat /\ (m # <<>> => n \in 1 .. n)
      /\ Last(m) = m[n] /\ i.start \in Nat /\ i.end \in Nat
      /\ \A k \in 1 .. n : m[k].start \in Nat /\ m[k].end \in Nat /\ m[k].start < m[k].end
      /\ \A k, l \in 1 .. n : k < l => m[k].end <= m[l].start
  BY ApartNumbers DEF Apart, Last, Span
<1>2. CASE m = <<>> \/ i.start > m[n].end
  <2>1. Join(m, i) = Append(m, i)
    BY <1>1, <1>2 DEF Join
  <2>2. \A k \in 1 .. n : m[k].end <= i.start
    <3> SUFFICES ASSUME NEW k \in 1 .. n PROVE m[k].end <= i.start
      OBVIOUS
    <3>1. n \in 1 .. n /\ m[n].end < i.start /\ (k = n \/ k < n)
      BY <1>1, <1>2
    <3>2. k < n => m[k].end <= m[n].start
      BY <1>1, <3>1
    <3> QED
      BY <1>1, <3>1, <3>2
  <2>3. /\ Apart(Append(m, i)) /\ Len(Append(m, i)) = n + 1 /\ Append(m, i)[n + 1] = i
        /\ Held(Append(m, i)) = Held(m) \cup Of(i)
    BY <2>2, ApartAppended DEF Of
  <2>4. Append(m, i) # <<>> /\ Last(Append(m, i)) = i
    <3> DEFINE js == Append(m, i)
    <3>1. js \in Seq(Span) /\ Len(js) = n + 1 /\ js[n + 1] = i
      BY <2>3 DEF Apart
    <3> HIDE DEF js
    <3>2. js # <<>> /\ Last(js) = i
      BY <1>1, <3>1 DEF Last
    <3> QED
      BY <3>2 DEF js
  <2> QED
    BY <1>1, <2>1, <2>3, <2>4
<1>3. CASE ~(m = <<>> \/ i.start > m[n].end)
  <2> DEFINE e == Max({m[n].end, i.end})
             p == [m[n] EXCEPT !.end = e]
  <2>1. n \in 1 .. n /\ m[n] \in Span /\ m[n].start <= i.start /\ i.start <= m[n].end
    BY <1>1, <1>3
  <2>2. e = IF m[n].end < i.end THEN i.end ELSE m[n].end
    BY <1>1, <2>1, PairBounds
  <2>3. Join(m, i) = [m EXCEPT ![n].end = e]
    BY <1>1, <1>3 DEF Join
  <2>4. Join(m, i) = [m EXCEPT ![n] = p]
    BY <2>3
  <2> HIDE DEF e
  <2>5. p \in Span /\ p.start = m[n].start /\ p.end = e /\ e \in Nat
    BY <1>1, <2>1, <2>2 DEF Span
  <2> HIDE DEF p
  <2>6. p.end >= m[n].end
    BY <1>1, <2>1, <2>2, <2>5
  <2> DEFINE js == [m EXCEPT ![n] = p]
  <2>7. Apart(js) /\ Len(js) = n /\ js[n] = p /\ Held(js) = Held(m) \cup Of(p)
    <3>1. m # <<>> /\ p \in Span /\ p.start = Last(m).start /\ p.end >= Last(m).end
      BY <1>1, <1>3, <2>5, <2>6
    <3> QED
      BY <3>1, ApartProlonged
  <2> HIDE DEF js
  <2>8. js # <<>> /\ Last(js) = p
    BY <2>1, <2>7 DEF Last
  <2>9. Held(m) \cup Of(p) = Held(m) \cup Of(i)
    <3>1. \A t \in Nat : m[n].start <= t /\ t < m[n].end => t \in Held(m)
      BY <2>1 DEF Held
    <3>2. ASSUME NEW t \in Of(p), t \notin Held(m) PROVE t \in Of(i)
      <4>1. t \in Nat /\ m[n].start <= t /\ t < e
        BY <2>5 DEF Of
      <4>2. ~(t < m[n].end)
        BY <3>1, <3>2, <4>1
      <4>3. i.start <= t /\ t < i.end
        BY <1>1, <2>1, <2>2, <4>1, <4>2
      <4> QED
        BY <4>1, <4>3 DEF Of
    <3>3. ASSUME NEW t \in Of(i) PROVE t \in Of(p)
      <4>1. t \in Nat /\ i.start <= t /\ t < i.end
        BY DEF Of
      <4>2. m[n].start <= t /\ t < e
        BY <1>1, <2>1, <2>2, <4>1
      <4> QED
        BY <2>5, <4>1, <4>2 DEF Of
    <3> QED
      BY <3>2, <3>3
  <2> QED
    BY <2>1, <2>4, <2>5, <2>7, <2>8, <2>9 DEF js
<1> QED
  BY <1>2, <1>3

\* The instants in the first k intervals.
InFirst(s, k) == {t \in Nat : \E j \in 1 .. k : s[j].start <= t /\ t < s[j].end}

MergedSo(s, k, m) ==
  /\ Apart(m) /\ Held(m) = InFirst(s, k)
  /\ m # <<>> => \E j \in 1 .. k : Last(m).start <= s[j].start

\* Sorted intervals, merged, hold what they held.
LEMMA JoinedMerges ==
  ASSUME NEW s \in Seq(Span),
         \A k \in 1 .. Len(s) : s[k].start < s[k].end,
         \A k, l \in 1 .. Len(s) : k < l => s[k].start <= s[l].start
  PROVE  Apart(Joined(s)[Len(s)]) /\ Held(Joined(s)[Len(s)]) = InFirst(s, Len(s))
<1> DEFINE n == Len(s)
           m == Joined(s)
           T == {k \in 0 .. n : MergedSo(s, k, m[k])}
<1>1. n \in Nat /\ m[0] = <<>> /\ \A k \in 1 .. n : m[k] = Join(m[k - 1], s[k])
  BY JoinedSteps
<1>2. /\ \A k \in 1 .. n : s[k] \in Span /\ s[k].start \in Nat /\ s[k].end \in Nat
      /\ \A k \in 1 .. n : s[k].start < s[k].end
      /\ \A k, l \in 1 .. n : k < l => s[k].start <= s[l].start
  BY ApartNumbers
<1> HIDE DEF n, m
<1>3. 0 \in T
  <2>1. Apart(<<>>) /\ Held(<<>>) = {} /\ InFirst(s, 0) = {}
    BY DEF Apart, Held, InFirst
  <2>2. MergedSo(s, 0, <<>>)
    BY <2>1 DEF MergedSo
  <2>3. 0 \in 0 .. n
    BY <1>1
  <2> QED
    BY <1>1, <2>2, <2>3
<1>4. \A k \in 0 .. n - 1 : k \in T => k + 1 \in T
  <2> SUFFICES ASSUME NEW k \in 0 .. n - 1, k \in T PROVE k + 1 \in T
    OBVIOUS
  <2> DEFINE i == s[k + 1]
  <2>1. k + 1 \in 1 .. n /\ (k + 1) - 1 = k
    BY <1>1
  <2>2. m[k + 1] = Join(m[k], i) /\ i \in Span /\ i.start < i.end /\ i.start \in Nat
    BY <1>1, <1>2, <2>1
  <2>3. Apart(m[k]) /\ Held(m[k]) = InFirst(s, k)
    BY DEF MergedSo
  <2>4. m[k] # <<>> => Last(m[k]).start <= i.start
    <3> SUFFICES ASSUME m[k] # <<>> PROVE Last(m[k]).start <= i.start
      OBVIOUS
    <3>1. PICK j \in 1 .. k : Last(m[k]).start <= s[j].start
      BY DEF MergedSo
    <3>2. s[j].start <= i.start /\ s[j].start \in Nat
      <4>1. j \in 1 .. n /\ j < k + 1
        BY <1>1
      <4> QED
        BY <1>2, <2>1, <4>1
    <3>3. Last(m[k]).start \in Nat
      <4>1. m[k] \in Seq(Span) /\ Len(m[k]) \in 1 .. Len(m[k])
        BY <2>3 DEF Apart
      <4> QED
        BY <4>1, ApartNumbers DEF Last
    <3> QED
      BY <2>2, <3>1, <3>2, <3>3
  <2> HIDE DEF i
  <2>5. /\ Apart(m[k + 1]) /\ Last(m[k + 1]).start <= i.start
        /\ Held(m[k + 1]) = InFirst(s, k) \cup Of(i)
    BY <2>2, <2>3, <2>4, JoinMerges
  <2>6. InFirst(s, k + 1) = InFirst(s, k) \cup Of(i)
    <3>1. \A j : j \in 1 .. k + 1 <=> j = k + 1 \/ j \in 1 .. k
      BY <1>1
    <3> QED
      BY <3>1 DEF InFirst, Of, i
  <2>7. k + 1 \in 1 .. k + 1 /\ k + 1 \in 0 .. n
    BY <1>1
  <2> QED
    BY <2>5, <2>6, <2>7 DEF MergedSo, i
<1>5. 0 .. n \subseteq T
  <2> HIDE DEF T
  <2> QED
    BY <1>1, <1>3, <1>4, RangeInduction
<1>6. n \in T
  BY <1>1, <1>5
<1> QED
  BY <1>6 DEF MergedSo, n, m

\* mergeIntervals leaves periods that are apart, and in them the same instants.
LEMMA MergeHolds ==
  ASSUME NEW S \in SUBSET Span, IsFiniteSet(S)
  PROVE  Apart(MergeIntervals(S)) /\ Held(MergeIntervals(S)) = Inside(S)
<1> DEFINE f == {i \in S : NotEmpty(i)}
           s == InOrder(f, Sooner(f))
<1>1. f \in SUBSET Span /\ f \in SUBSET S
  OBVIOUS
<1>2. IsFiniteSet(f)
  BY <1>1, FS_Subset
<1>3. Lists(s, f, Sooner(f))
  <2> HIDE DEF f
  <2> QED
    BY <1>1, <1>2, SoonerInLine, OrderLists
<1>4. MergeIntervals(S) = Joined(s)[Len(s)]
  BY DEF MergeIntervals
<1>5. \A i \in S : i.start \in Nat /\ i.end \in Nat
  BY DEF Span
<1>6. \A i \in f : i.start < i.end
  BY <1>5 DEF NotEmpty
<1> HIDE DEF s
<1>7. /\ s \in Seq(f) /\ Len(s) \in Nat
      /\ \A i \in f : \E k \in 1 .. Len(s) : s[k] = i
      /\ \A k, l \in 1 .. Len(s) : k < l => <<s[k], s[l]>> \in Sooner(f)
  BY <1>3 DEF Lists
<1>8. s \in Seq(Span) /\ \A k \in 1 .. Len(s) : s[k] \in f
  BY <1>1, <1>7
<1>9. \A k \in 1 .. Len(s) : s[k].start < s[k].end
  BY <1>6, <1>8
<1>10. \A k, l \in 1 .. Len(s) : k < l => s[k].start <= s[l].start
  <2> SUFFICES ASSUME NEW k \in 1 .. Len(s), NEW l \in 1 .. Len(s), k < l
               PROVE  s[k].start <= s[l].start
    OBVIOUS
  <2>1. <<s[k], s[l]>> \in Sooner(f)
    BY <1>7
  <2>2. s[k].start < s[l].start \/ s[k].start = s[l].start
    BY <2>1 DEF Sooner
  <2> QED
    BY <1>5, <1>8, <2>2
<1>11. Apart(Joined(s)[Len(s)]) /\ Held(Joined(s)[Len(s)]) = InFirst(s, Len(s))
  BY <1>8, <1>9, <1>10, JoinedMerges
<1>12. InFirst(s, Len(s)) = Inside(S)
  <2>1. ASSUME NEW t \in InFirst(s, Len(s)) PROVE t \in Inside(S)
    <3>1. PICK k \in 1 .. Len(s) : s[k].start <= t /\ t < s[k].end
      BY DEF InFirst
    <3>2. s[k] \in S /\ t \in Nat
      BY <1>1, <1>8 DEF InFirst
    <3> QED
      BY <3>1, <3>2 DEF Inside
  <2>2. ASSUME NEW t \in Inside(S) PROVE t \in InFirst(s, Len(s))
    <3>1. PICK i \in S : t \in Nat /\ i.start <= t /\ t < i.end
      BY DEF Inside
    <3>2. NotEmpty(i)
      BY <1>5, <3>1 DEF NotEmpty
    <3>3. PICK k \in 1 .. Len(s) : s[k] = i
      BY <1>7, <3>2
    <3> QED
      BY <3>1, <3>3 DEF InFirst
  <2> QED
    BY <2>1, <2>2
<1> QED
  BY <1>4, <1>11, <1>12

LEMMA ApartEnds ==
  ASSUME NEW is, Apart(is), is # <<>>
  PROVE  /\ Head(is).start \in Held(is) /\ Last(is).end - 1 \in Held(is)
         /\ Head(is).start \in Nat /\ Last(is).end \in Nat /\ Head(is).start < Last(is).end
         /\ \A t \in Held(is) : Head(is).start <= t /\ t < Last(is).end
<1> DEFINE n == Len(is)
<1>1. /\ is \in Seq(Span) /\ n \in Nat \ {0} /\ 1 \in 1 .. n /\ n \in 1 .. n
      /\ Head(is) = is[1] /\ Last(is) = is[n]
  BY DEF Apart, Last
<1>2. /\ \A k \in 1 .. n : is[k].start \in Nat /\ is[k].end \in Nat
      /\ \A k \in 1 .. n : is[k].start < is[k].end
      /\ \A k, l \in 1 .. n : k < l => is[k].end <= is[l].start
  BY <1>1, ApartNumbers DEF Apart
<1> HIDE DEF n
<1>3. ASSUME NEW k \in 1 .. n
      PROVE  is[1].start <= is[k].start /\ is[k].end <= is[n].end
  <2>1. (k = 1 \/ 1 < k) /\ (k = n \/ k < n)
    BY <1>1
  <2>2. 1 < k => is[1].end <= is[k].start
    BY <1>1, <1>2
  <2>3. k < n => is[k].end <= is[n].start
    BY <1>1, <1>2
  <2>4. 1 \in 1 .. n /\ n \in 1 .. n
    BY <1>1
  <2>5. is[1].start <= is[k].start
    <3>1. CASE k = 1
      BY <1>2, <3>1
    <3>2. CASE 1 < k
      BY <1>2, <2>2, <2>4, <3>2
    <3> QED
      BY <2>1, <3>1, <3>2
  <2>6. is[k].end <= is[n].end
    <3>1. CASE k = n
      BY <1>2, <3>1
    <3>2. CASE k < n
      BY <1>2, <2>3, <2>4, <3>2
    <3> QED
      BY <2>1, <3>1, <3>2
  <2> QED
    BY <2>5, <2>6
<1>4. is[1].start \in Held(is) /\ is[n].end - 1 \in Held(is)
  <2>1. /\ is[1].start <= is[1].start /\ is[1].start < is[1].end
        /\ is[n].start <= is[n].end - 1 /\ is[n].end - 1 < is[n].end /\ is[n].end - 1 \in Nat
    BY <1>1, <1>2
  <2> QED
    BY <1>1, <1>2, <2>1 DEF Held, n
<1>5. ASSUME NEW t \in Held(is) PROVE is[1].start <= t /\ t < is[n].end
  <2>1. PICK k \in 1 .. n : t \in Nat /\ is[k].start <= t /\ t < is[k].end
    BY DEF Held, n
  <2> QED
    BY <1>1, <1>2, <1>3, <2>1
<1>6. is[1].start < is[n].end
  BY <1>4, <1>5
<1> QED
  BY <1>1, <1>2, <1>4, <1>5, <1>6

LEMMA HeldFinite ==
  ASSUME NEW is, Apart(is)
  PROVE  /\ IsFiniteSet(Held(is)) /\ Cardinality(Held(is)) = Duration(is)
         /\ Held(is) \in SUBSET Nat /\ (is = <<>> <=> Held(is) = {})
<1>1. Held(is) \in SUBSET Nat
  BY DEF Held
<1>2. is = <<>> => Held(is) = {}
  BY DEF Held
<1>3. is # <<>> => Held(is) # {}
  BY ApartEnds
<1>4. IsFiniteSet(Held(is))
  <2>1. CASE is = <<>>
    BY <1>2, <2>1, FS_EmptySet
  <2>2. CASE is # <<>>
    <3> DEFINE e == Last(is).end
    <3>1. e \in Nat /\ \A t \in Held(is) : t < e
      BY <2>2, ApartEnds
    <3> HIDE DEF e
    <3>2. \A t \in Held(is) : t <= e
      BY <1>1, <3>1
    <3> QED
      BY <1>1, <3>1, <3>2, FS_BoundedSetOfNaturals
  <2> QED
    BY <2>1, <2>2
<1>5. Cardinality(Held(is)) = Duration(is)
  <2> DEFINE d == Duration(is)
  <2>1. d \in Nat
    BY DurationCounts
  <2>2. Held(is) = Stretch(is, 0, d)
    BY HeldStretch
  <2>3. Cardinality(Stretch(is, 0, d)) = d - 0
    BY <2>1, StretchCounted
  <2> HIDE DEF d
  <2> QED
    BY <2>1, <2>2, <2>3 DEF d
<1> QED
  BY <1>1, <1>2, <1>3, <1>4, <1>5

LEMMA ClipHolds ==
  ASSUME NEW i \in Span, NEW lower \in Int, NEW upper \in Nat
  PROVE  /\ Clip(i, lower, upper) \in Span
         /\ Clip(i, lower, upper).start = IF i.start < lower THEN lower ELSE i.start
         /\ Clip(i, lower, upper).end = IF i.end < upper THEN i.end ELSE upper
         /\ \A t \in Nat : t \in Of(Clip(i, lower, upper)) <=> t \in Of(i) /\ lower <= t /\ t < upper
<1>1. i.start \in Nat /\ i.end \in Nat
  BY DEF Span
<1> DEFINE c == Clip(i, lower, upper)
<1>2. c = [start |-> Max({i.start, lower}), end |-> Min({i.end, upper})]
  BY DEF Clip
<1>3. /\ Max({i.start, lower}) = IF i.start < lower THEN lower ELSE i.start
      /\ Min({i.end, upper}) = IF i.end < upper THEN i.end ELSE upper
  <2> DEFINE x == i.start
             y == i.end
  <2>1. x \in Int /\ y \in Int /\ lower \in Int /\ upper \in Int
    BY <1>1
  <2> HIDE DEF x, y
  <2>2. Max({x, lower}) = IF x < lower THEN lower ELSE x
    BY <2>1, PairBounds
  <2>3. Min({y, upper}) = IF y < upper THEN y ELSE upper
    BY <2>1, PairBounds
  <2> QED
    BY <2>2, <2>3 DEF x, y
<1>4. /\ c.start = IF i.start < lower THEN lower ELSE i.start
      /\ c.end = IF i.end < upper THEN i.end ELSE upper
      /\ c = [start |-> c.start, end |-> c.end]
  BY <1>2, <1>3
<1> HIDE DEF c
<1>5. c.start \in Nat /\ c.end \in Nat
  BY <1>1, <1>4
<1>6. c \in Span
  BY <1>4, <1>5 DEF Span
<1>7. \A t \in Nat : t \in Of(c) <=> t \in Of(i) /\ lower <= t /\ t < upper
  BY <1>1, <1>4 DEF Of
<1> QED
  BY <1>4, <1>6, <1>7 DEF c

\* The instants of a date.
TicksOf(day) == 0 .. Grain * Len(day) - 1

LEMMA TickNumbers ==
  ASSUME NEW day, IsDate(day)
  PROVE  /\ Grain * Len(day) \in Nat
         /\ \A t : t \in TicksOf(day) <=> t \in Nat /\ t < Grain * Len(day)
<1>1. Grain \in Nat /\ Len(day) \in Nat
  BY DateNumbers
<1>2. Grain * Len(day) \in Nat
  BY <1>1
<1> DEFINE n == Grain * Len(day)
<1>3. \A t : t \in 0 .. n - 1 <=> t \in Nat /\ t < n
  <2> HIDE DEF n
  <2> QED
    BY <1>2 DEF n
<1> QED
  BY <1>2, <1>3 DEF TicksOf

\* The instants of a chart.
TicksAt(chart) == chart.start .. chart.end - 1

LEMMA ChartNumbers ==
  ASSUME NEW chart, IsChart(chart)
  PROVE  /\ chart.start \in Int /\ chart.end \in Nat /\ chart.start < chart.end
         /\ \A t : t \in TicksAt(chart) <=> t \in Int /\ chart.start <= t /\ t < chart.end
<1>1. chart.start \in Int /\ chart.end \in Nat /\ chart.start < chart.end
  BY DEF IsChart
<1> DEFINE a == chart.start
           n == chart.end
<1>2. \A t : t \in a .. n - 1 <=> t \in Int /\ a <= t /\ t < n
  <2> HIDE DEF a, n
  <2> QED
    BY <1>1 DEF a, n
<1> QED
  BY <1>1, <1>2 DEF TicksAt

\* On a date that shows no minute twice, what it makes of a period holds every
\* instant that shows a minute of it.
LEMMA TickResolved ==
  ASSUME NEW day, IsDate(day), Once(day), NEW wall \in Span, NEW p, Resolves(day, wall, p),
         NEW t \in TicksOf(day),
         wall.start <= day[1 + (t \div Grain)], day[1 + (t \div Grain)] < wall.end
  PROVE  p.start <= t /\ t < p.end
<1>1. PICK s \in Shown(day), e \in Shown(day) :
        /\ wall.start <= s /\ s < wall.end /\ wall.end <= e
        /\ \A m \in Shown(day) : wall.start <= m => s <= m
        /\ p = [start |-> ResolveMinute(day, s), end |-> ResolveMinute(day, e)]
  BY DEF Resolves
<1> DEFINE d == t \div Grain
           i == 1 + d
           a == Onset(day, s)
           b == Onset(day, e)
           n == Len(day)
<1>2. /\ n \in Nat /\ Grain \in Nat \ {0} /\ DOMAIN day = 1 .. n
      /\ \A j \in 1 .. n : day[j] \in Nat /\ day[j] \in Shown(day)
      /\ s \in Nat /\ e \in Nat /\ wall.start \in Nat /\ wall.end \in Nat
  BY DateNumbers DEF Span, Shown, Range
<1>3. /\ a \in 1 .. n /\ b \in 1 .. n /\ day[a] = s /\ day[b] = e
      /\ ResolveMinute(day, s) = Grain * (a - 1) /\ ResolveMinute(day, e) = Grain * (b - 1)
  BY OnsetShows
<1>4. t \in Nat /\ t < Grain * n
  BY TickNumbers
<1>5. d \in Nat /\ d < n /\ Grain * d <= t /\ t < Grain * (d + 1)
  <2> HIDE DEF n
  <2>1. d \in Nat /\ Grain * d <= t /\ t < Grain * d + Grain
    BY <1>2, <1>4
  <2>2. 0 \in Nat /\ Grain * 0 <= t
    BY <1>2, <1>4
  <2>3. d < n
    BY <1>2, <1>4, <2>2, MinuteOfTick
  <2> HIDE DEF d
  <2>4. Grain * d + Grain = Grain * (d + 1)
    BY <1>2, <2>1
  <2> QED
    BY <2>1, <2>3, <2>4
<1> HIDE DEF d, a, b, n
<1>6. i \in 1 .. n
  BY <1>2, <1>5
<1>7. wall.start <= day[i] /\ day[i] < wall.end
  BY DEF d
<1> HIDE DEF i
<1>8. \A h, j \in 1 .. n : h < j => day[h] < day[j]
  <2> SUFFICES ASSUME NEW h \in 1 .. n, NEW j \in 1 .. n, h < j PROVE day[h] < day[j]
    OBVIOUS
  <2>1. day[h] < day[j] \/ \E k \in 1 .. n : k <= h /\ day[k] = day[j]
    BY <1>2 DEF IsDate
  <2>2. ASSUME NEW k \in 1 .. n, k <= h, day[k] = day[j] PROVE FALSE
    <3>1. k = j
      BY <1>2, <2>2 DEF Once
    <3> QED
      BY <1>2, <2>2, <3>1
  <2> QED
    BY <2>1, <2>2
<1>9. s <= day[i] /\ day[i] < e
  BY <1>1, <1>2, <1>6, <1>7
<1>10. a <= i /\ i < b
  <2>1. day[i] \in Nat /\ (i < a => day[i] < day[a]) /\ (b < i => day[b] < day[i])
    BY <1>2, <1>3, <1>6, <1>8
  <2>2. ~(i < a) /\ ~(b < i) /\ b # i
    BY <1>2, <1>3, <1>9, <2>1
  <2> QED
    BY <1>2, <1>3, <1>6, <2>2
<1>11. i = d + 1
  BY <1>5 DEF i
<1>12. Grain * (a - 1) <= Grain * d /\ Grain * (d + 1) <= Grain * (b - 1)
  <2> DEFINE x == a - 1
             y == b - 1
  <2>1. x \in Nat /\ y \in Nat /\ x <= d /\ d + 1 <= y
    BY <1>2, <1>3, <1>5, <1>10, <1>11
  <2> HIDE DEF x, y
  <2>2. Grain * x <= Grain * d /\ Grain * (d + 1) <= Grain * y
    BY <1>2, <1>5, <2>1
  <2> QED
    BY <2>2 DEF x, y
<1>13. /\ Grain * (a - 1) \in Int /\ Grain * d \in Int
       /\ Grain * (d + 1) \in Int /\ Grain * (b - 1) \in Int
  BY <1>2, <1>3, <1>5
<1> QED
  BY <1>1, <1>3, <1>4, <1>5, <1>12, <1>13

-----------------------------------------------------------------------------
(***************************************************************************)
(* The work of a date.                                                     *)
(***************************************************************************)

\* What the date makes of the work periods, one by one.
WorkResolved(cfg, day) == UNION {Range(ResolveInterval(day, cfg.work[k])) : k \in DOMAIN cfg.work}

LEMMA WorkPeriods ==
  ASSUME NEW cfg \in DraftConfig, ValidConfig(cfg), NEW day, IsDate(day)
  PROVE  \A i : i \in WorkResolved(cfg, day) <=>
           \E k \in 1 .. Len(cfg.work) :
             Resolves(day, cfg.work[k], i) /\ ResolveInterval(day, cfg.work[k]) = <<i>>
<1>1. /\ cfg.work \in Seq(Span) /\ DOMAIN cfg.work = 1 .. Len(cfg.work)
      /\ ValidPeriods(cfg.work)
  BY DraftNumbers DEF ValidConfig
<1>2. \A k \in 1 .. Len(cfg.work) : cfg.work[k] \in Span /\ cfg.work[k].start < cfg.work[k].end
  BY <1>1, ApartNumbers DEF ValidPeriods
<1>3. ASSUME NEW i, i \in WorkResolved(cfg, day)
      PROVE  \E k \in 1 .. Len(cfg.work) :
               Resolves(day, cfg.work[k], i) /\ ResolveInterval(day, cfg.work[k]) = <<i>>
  <2>1. PICK k \in 1 .. Len(cfg.work) : i \in Range(ResolveInterval(day, cfg.work[k]))
    BY <1>1, <1>3 DEF WorkResolved
  <2> DEFINE r == ResolveInterval(day, cfg.work[k])
  <2>2. r # <<>>
    BY <2>1 DEF Range
  <2>3. PICK p \in Span : Resolves(day, cfg.work[k], p) /\ r = <<p>>
    BY <1>2, <2>2, PartResolves
  <2>4. i = p
    BY <2>1, <2>3 DEF Range
  <2> QED
    BY <2>3, <2>4
<1>4. ASSUME NEW i, NEW k \in 1 .. Len(cfg.work), ResolveInterval(day, cfg.work[k]) = <<i>>
      PROVE  i \in WorkResolved(cfg, day)
  <2>1. i \in Range(<<i>>)
    BY DEF Range
  <2> QED
    BY <1>1, <1>4, <2>1 DEF WorkResolved
<1> QED
  BY <1>3, <1>4

\* The work of a date lies within it and its chart; where the calendar tells what
\* is work, it is what the calendar says of the chart.
LEMMA WorkOfDate ==
  ASSUME NEW cfg \in DraftConfig, ValidConfig(cfg), NEW day, IsDate(day), NEW chart, IsChart(chart)
  PROVE  /\ Apart(Work(cfg, day, chart)) /\ Held(Work(cfg, day, chart)) \subseteq TicksAt(chart)
         /\ Held(Work(cfg, day, chart)) \subseteq TicksOf(day)
         /\ Once(day) /\ DayMinutes - 1 \in Shown(day) => \A t \in TicksOf(day) \cap TicksAt(chart) :
              t \in Held(Work(cfg, day, chart))
                <=> cfg.workday /\ InPeriods(day[1 + (t \div Grain)], cfg.work)
<1> DEFINE n == Grain * Len(day)
           lo == chart.start
           hi == chart.end
           N == n + hi
           R == WorkResolved(cfg, day)
           C == {Clip(i, lo, hi) : i \in R}
           w == Work(cfg, day, chart)
           charted == {t \in Inside(R) : lo <= t /\ t < hi}
<1>1. /\ cfg.work \in Seq(Span) /\ DOMAIN cfg.work = 1 .. Len(cfg.work) /\ ValidPeriods(cfg.work)
      /\ \A k \in 1 .. Len(cfg.work) : cfg.work[k] \in Span /\ cfg.work[k].start < cfg.work[k].end
                                        /\ cfg.work[k].end <= DayMinutes - 1
  <2>1. cfg.work \in Seq(Span) /\ DOMAIN cfg.work = 1 .. Len(cfg.work) /\ ValidPeriods(cfg.work)
    BY DraftNumbers DEF ValidConfig
  <2>2. ASSUME NEW k \in 1 .. Len(cfg.work)
        PROVE  cfg.work[k] \in Span /\ cfg.work[k].start < cfg.work[k].end
               /\ cfg.work[k].end <= DayMinutes - 1
    <3>1. cfg.work[k].end \in WallMinute /\ DayMinutes \in Nat
      BY DraftNumbers
    <3>2. cfg.work[k].end <= DayMinutes - 1
      BY <3>1 DEF WallMinute
    <3> QED
      BY <2>1, <3>2, ApartNumbers DEF ValidPeriods
  <2> QED
    BY <2>1, <2>2
<1>2. n \in Nat /\ \A t : t \in TicksOf(day) <=> t \in Nat /\ t < n
  BY TickNumbers
<1>13. /\ lo \in Int /\ hi \in Nat /\ lo < hi
       /\ \A t : t \in TicksAt(chart) <=> t \in Int /\ lo <= t /\ t < hi
  BY ChartNumbers
<1>14. N \in Nat /\ n <= N /\ hi <= N
  <2> HIDE DEF n, hi
  <2> QED
    BY <1>2, <1>13
<1>3. \A i : i \in R <=> \E k \in 1 .. Len(cfg.work) :
        Resolves(day, cfg.work[k], i) /\ ResolveInterval(day, cfg.work[k]) = <<i>>
  BY WorkPeriods
<1> HIDE DEF n, R, lo, hi, N
<1>4. ASSUME NEW i \in R
      PROVE  i \in Span /\ Of(i) \subseteq TicksOf(day)
  <2>1. PICK k \in 1 .. Len(cfg.work) : Resolves(day, cfg.work[k], i)
    BY <1>3
  <2> DEFINE wall == cfg.work[k]
  <2>2. wall \in Span /\ Resolves(day, wall, i)
    BY <1>1, <2>1
  <2> HIDE DEF wall
  <2>3. i \in Span
    BY <2>2, ResolvesSpan
  <2>4. \A t \in Nat : i.start <= t /\ t < i.end => t \in TicksOf(day)
    BY <2>2, ResolvedTick DEF TicksOf
  <2> QED
    BY <2>3, <2>4 DEF Of
<1>5. ASSUME NEW i \in R
      PROVE  /\ Clip(i, lo, hi) \in Span
             /\ \A t \in Nat : t \in Of(Clip(i, lo, hi)) <=> t \in Of(i) /\ lo <= t /\ t < hi
             /\ Clip(i, lo, hi).start <= N /\ Clip(i, lo, hi).end <= N
  <2>1. i \in Span
    BY <1>4
  <2> DEFINE c == Clip(i, lo, hi)
  <2>2. /\ c \in Span /\ c.end = IF i.end < hi THEN i.end ELSE hi
        /\ c.start = IF i.start < lo THEN lo ELSE i.start
        /\ \A t \in Nat : t \in Of(c) <=> t \in Of(i) /\ lo <= t /\ t < hi
    BY <1>13, <2>1, ClipHolds
  <2> HIDE DEF c
  <2>4. i.start \in Nat /\ i.end \in Nat /\ i.start < i.end
    <3>1. PICK k \in 1 .. Len(cfg.work) : Resolves(day, cfg.work[k], i)
      BY <1>3
    <3> QED
      BY <1>1, <2>1, <3>1, ResolvesSpan DEF Span
  <2>5. i.start \in Of(i)
    BY <2>4 DEF Of
  <2>6. i.start < n
    BY <1>2, <1>4, <2>5
  <2>7. c.start <= N /\ c.end <= N
    BY <1>2, <1>13, <1>14, <2>2, <2>4, <2>6
  <2> QED
    BY <2>2, <2>7 DEF c
<1>6. C \in SUBSET Span /\ \A c \in C : c.start <= N /\ c.end <= N
  BY <1>5
<1>7. IsFiniteSet(C)
  <2> HIDE DEF C
  <2> QED
    BY <1>6, <1>14, SpansFinite
<1>8. Inside(C) = charted
  <2>1. \A t \in Nat : (\E c \in C : t \in Of(c)) <=> (\E i \in R : t \in Of(i)) /\ lo <= t /\ t < hi
    BY <1>5
  <2> HIDE DEF C
  <2>2. Inside(C) = {t \in Nat : \E c \in C : t \in Of(c)} /\ Inside(R) = {t \in Nat : \E i \in R : t \in Of(i)}
    BY DEF Inside, Of
  <2> QED
    BY <2>1, <2>2
<1>9. w = IF ~cfg.workday THEN <<>> ELSE MergeIntervals(C)
  BY DEF Work, WorkResolved, R, lo, hi
<1> HIDE DEF C, w
<1>10. Apart(w) /\ Held(w) = IF cfg.workday THEN charted ELSE {}
  <2>1. Apart(<<>>) /\ Held(<<>>) = {}
    BY DEF Apart, Held
  <2>2. Apart(MergeIntervals(C)) /\ Held(MergeIntervals(C)) = Inside(C)
    BY <1>6, <1>7, MergeHolds
  <2> QED
    BY <1>8, <1>9, <2>1, <2>2
<1>11. Inside(R) \subseteq TicksOf(day)
  BY <1>4 DEF Inside, Of
<1>12. ASSUME Once(day), DayMinutes - 1 \in Shown(day), NEW t \in TicksOf(day)
       PROVE  t \in Inside(R) <=> InPeriods(day[1 + (t \div Grain)], cfg.work)
  <2> DEFINE m == day[1 + (t \div Grain)]
  <2>1. t \in Nat /\ t < n
    BY <1>2
  <2>2. ASSUME t \in Inside(R) PROVE InPeriods(m, cfg.work)
    <3>1. PICK i \in R : i.start <= t /\ t < i.end
      BY <2>2 DEF Inside
    <3>2. PICK k \in 1 .. Len(cfg.work) : Resolves(day, cfg.work[k], i)
      BY <1>3
    <3> DEFINE wall == cfg.work[k]
    <3>3. wall \in Span /\ Resolves(day, wall, i)
      BY <1>1, <3>2
    <3> HIDE DEF wall
    <3>4. wall.start <= m /\ m < wall.end
      BY <1>12, <2>1, <3>1, <3>3, ResolvedTick
    <3> HIDE DEF m
    <3> QED
      BY <1>1, <3>4 DEF wall, InPeriods
  <2>3. ASSUME InPeriods(m, cfg.work) PROVE t \in Inside(R)
    <3>1. PICK k \in 1 .. Len(cfg.work) : cfg.work[k].start <= m /\ m < cfg.work[k].end
      BY <1>1, <2>3 DEF InPeriods
    <3> DEFINE wall == cfg.work[k]
    <3>2. wall \in Span /\ wall.start < wall.end /\ wall.end <= DayMinutes - 1
          /\ wall.start <= m /\ m < wall.end
      BY <1>1, <3>1
    <3>3. m \in Shown(day)
      <4>1. /\ Len(day) \in Nat /\ DOMAIN day = 1 .. Len(day) /\ Grain \in Nat \ {0} /\ 0 \in Nat
        BY DateNumbers
      <4>2. Grain * 0 <= t /\ t < Grain * Len(day)
        BY <2>1, <4>1 DEF n
      <4>3. t \div Grain \in Nat /\ t \div Grain < Len(day)
        BY <2>1, <4>1, <4>2, MinuteOfTick
      <4>4. 1 + (t \div Grain) \in DOMAIN day
        BY <4>1, <4>3
      <4> QED
        BY <4>4 DEF Shown, Range
    <3> HIDE DEF wall
    <3>4. ~(\A h \in Shown(day) : ~(wall.start <= h /\ h < wall.end))
      BY <3>2, <3>3
    <3>5. ~(\A h \in Shown(day) : h < wall.end)
      <4>1. DayMinutes - 1 \in Int /\ wall.end \in Int
        BY <3>2, PlannerAssumption DEF Span
      <4> QED
        BY <1>12, <3>2, <4>1
    <3>6. ResolveInterval(day, wall) # <<>>
      <4>1. \A s, e \in Shown(day) :
              <<[start |-> ResolveMinute(day, s), end |-> ResolveMinute(day, e)]>> # <<>>
        OBVIOUS
      <4> QED
        BY <3>2, <3>4, <3>5, <4>1, IntervalResolved
    <3>7. PICK p \in Span : Resolves(day, wall, p) /\ ResolveInterval(day, wall) = <<p>>
      BY <3>2, <3>6, PartResolves
    <3>8. p \in R
      BY <1>3, <3>7 DEF wall
    <3>9. p.start <= t /\ t < p.end
      BY <1>12, <3>2, <3>7, TickResolved
    <3> QED
      BY <2>1, <3>8, <3>9 DEF Inside
  <2> QED
    BY <2>2, <2>3
<1> HIDE DEF R
<1>15. Held(w) \subseteq TicksOf(day) /\ Held(w) \subseteq TicksAt(chart)
  <2>1. charted \subseteq TicksOf(day) /\ charted \subseteq TicksAt(chart)
    BY <1>2, <1>11, <1>13
  <2> QED
    BY <1>10, <2>1
<1>16. ASSUME Once(day), DayMinutes - 1 \in Shown(day), NEW t \in TicksOf(day) \cap TicksAt(chart)
       PROVE  t \in Held(w) <=> cfg.workday /\ InPeriods(day[1 + (t \div Grain)], cfg.work)
  BY <1>10, <1>12, <1>13, <1>16
<1> QED
  BY <1>10, <1>15, <1>16 DEF w

-----------------------------------------------------------------------------
(***************************************************************************)
(* The budget of one cycle.                                                *)
(***************************************************************************)

\* The first instants of M, B of them.
FirstOf(M, B) == {t \in M : Cardinality({u \in M : u < t}) < B}

\* What B instants, c of them gone, still pay for of a stretch.
PaidOf(x, y, c, B) == {t \in x .. y - 1 : c + (t - x) < B}

\* A stretch that comes after M uses what M leaves of the budget.
LEMMA BudgetGrows ==
  ASSUME NEW M \in SUBSET Nat, IsFiniteSet(M), NEW B \in Nat, NEW x \in Nat, NEW y \in Nat, x <= y,
         \A u \in M : u < x
  PROVE  /\ IsFiniteSet(M \cup (x .. y - 1)) /\ Cardinality(M) \in Nat
         /\ Cardinality(M \cup (x .. y - 1)) = Cardinality(M) + (y - x)
         /\ FirstOf(M \cup (x .. y - 1), B)
              = FirstOf(M, B) \cup PaidOf(x, y, Cardinality(M), B)
<1> DEFINE N == M \cup (x .. y - 1)
           m == Cardinality(M)
<1>1. m \in Nat
  BY FS_CardinalityType
<1>2. ASSUME NEW z \in Nat, x <= z
      PROVE  IsFiniteSet(M \cup (x .. z - 1)) /\ Cardinality(M \cup (x .. z - 1)) = m + (z - x)
  <2>1. IsFiniteSet(x .. z - 1) /\ Cardinality(x .. z - 1) = z - x
    <3>1. z - 1 \in Int /\ x \in Int
      OBVIOUS
    <3>2. /\ IsFiniteSet(x .. z - 1)
          /\ Cardinality(x .. z - 1) = IF x > z - 1 THEN 0 ELSE (z - 1) - x + 1
      BY <3>1, FS_Interval
    <3> QED
      BY <1>2, <3>2
  <2>2. M \cap (x .. z - 1) = {}
    OBVIOUS
  <2>3. /\ IsFiniteSet(M \cup (x .. z - 1))
        /\ Cardinality(M \cup (x .. z - 1))
             = m + Cardinality(x .. z - 1) - Cardinality(M \cap (x .. z - 1))
    BY <2>1, FS_Union
  <2>4. Cardinality(M \cap (x .. z - 1)) = 0
    BY <2>2, FS_EmptySet
  <2> QED
    BY <1>1, <2>1, <2>3, <2>4
<1>3. \A t \in M : {u \in N : u < t} = {u \in M : u < t}
  OBVIOUS
<1>4. ASSUME NEW t \in x .. y - 1
      PROVE  Cardinality({u \in N : u < t}) = m + (t - x)
  <2>1. {u \in N : u < t} = M \cup (x .. t - 1)
    <3>1. \A u \in M : u < t
      OBVIOUS
    <3>2. \A u : u \in x .. y - 1 /\ u < t <=> u \in x .. t - 1
      OBVIOUS
    <3> QED
      BY <3>1, <3>2
  <2>2. t \in Nat /\ x <= t
    OBVIOUS
  <2> QED
    BY <1>2, <2>1, <2>2
<1>5. FirstOf(N, B) = FirstOf(M, B) \cup {t \in x .. y - 1 : m + (t - x) < B}
  <2>1. ASSUME NEW t \in FirstOf(N, B) PROVE t \in FirstOf(M, B) \cup {v \in x .. y - 1 : m + (v - x) < B}
    <3>1. t \in N /\ Cardinality({u \in N : u < t}) < B
      BY DEF FirstOf
    <3>2. CASE t \in M
      BY <1>3, <3>1, <3>2 DEF FirstOf
    <3>3. CASE t \in x .. y - 1
      BY <1>4, <3>1, <3>3
    <3> QED
      BY <3>1, <3>2, <3>3
  <2>2. ASSUME NEW t \in FirstOf(M, B) PROVE t \in FirstOf(N, B)
    <3>1. t \in M /\ Cardinality({u \in M : u < t}) < B
      BY DEF FirstOf
    <3>2. {u \in N : u < t} = {u \in M : u < t} /\ t \in N
      BY <1>3, <3>1
    <3> HIDE DEF N
    <3> QED
      BY <3>1, <3>2 DEF FirstOf
  <2>3. ASSUME NEW t \in x .. y - 1, m + (t - x) < B PROVE t \in FirstOf(N, B)
    <3>1. Cardinality({u \in N : u < t}) < B /\ t \in N
      BY <1>4, <2>3
    <3> HIDE DEF N
    <3> QED
      BY <3>1 DEF FirstOf
  <2> HIDE DEF N
  <2> QED
    BY <2>1, <2>2, <2>3
<1> QED
  BY <1>1, <1>2, <1>5 DEF PaidOf

Spending == [left : Int, spans : SUBSET Span]

LEMMA UseType ==
  ASSUME NEW window \in Span, NEW p \in Span, NEW st \in Spending
  PROVE  Use(window, p, st) \in Spending
<1> DEFINE o == Clip(p, window.start, window.end)
           used == Min({o.end - o.start, st.left})
<1>1. window.start \in Nat /\ window.end \in Nat /\ st.left \in Int /\ st.spans \in SUBSET Span
  BY DEF Span, Spending
<1>2. o \in Span
  BY <1>1, ClipHolds
<1>3. o.start \in Nat /\ o.end \in Nat
  BY <1>2 DEF Span
<1>4. Use(window, p, st) = IF ~NotEmpty(o) \/ st.left <= 0 THEN st
                           ELSE [left |-> st.left - used,
                                 spans |-> st.spans \cup {[start |-> o.start, end |-> o.start + used]}]
  BY DEF Use, Charge
<1> HIDE DEF o
<1>5. used \in Int /\ (NotEmpty(o) /\ ~(st.left <= 0) => used \in Nat)
  <2> DEFINE a == o.end - o.start
             b == st.left
  <2>1. a \in Int /\ b \in Int /\ (NotEmpty(o) => a > 0)
    BY <1>1, <1>3 DEF NotEmpty
  <2> HIDE DEF a, b
  <2>2. Min({a, b}) = IF a < b THEN a ELSE b
    BY <2>1, PairBounds
  <2> QED
    BY <2>1, <2>2 DEF a, b
<1> HIDE DEF used
<1>6. CASE ~NotEmpty(o) \/ st.left <= 0
  BY <1>4, <1>6
<1>7. CASE ~(~NotEmpty(o) \/ st.left <= 0)
  <2>1. [start |-> o.start, end |-> o.start + used] \in Span
    BY <1>3, <1>5, <1>7 DEF Span
  <2>2. st.left - used \in Int
    BY <1>1, <1>5
  <2> QED
    BY <1>1, <1>4, <1>7, <2>1, <2>2 DEF Spending
<1> QED
  BY <1>6, <1>7

LEMMA SpentSteps ==
  ASSUME NEW window \in Span, NEW w \in Seq(Span), NEW budget \in Int
  PROVE  /\ Spent(window, w, budget)[0] = [left |-> Grain * budget, spans |-> {}]
         /\ \A k \in 0 .. Len(w) : Spent(window, w, budget)[k] \in Spending
         /\ \A k \in 1 .. Len(w) :
              Spent(window, w, budget)[k] = Use(window, w[k], Spent(window, w, budget)[k - 1])
<1> DEFINE n == Len(w)
           base == [left |-> Grain * budget, spans |-> {}]
           step == [k \in 1 .. n |-> [st \in Spending |-> Use(window, w[k], st)]]
           Spends(f) == f = [k \in 0 .. n |-> IF k = 0 THEN base ELSE Use(window, w[k], f[k - 1])]
<1>1. n \in Nat /\ DOMAIN w = 1 .. n
  OBVIOUS
<1>2. \A k \in 1 .. n : w[k] \in Span
  OBVIOUS
<1>3. base \in Spending
  <2>1. Grain * budget \in Int
    BY PlannerAssumption
  <2> QED
    BY <2>1 DEF Spending
<1>4. step \in [1 .. n -> [Spending -> Spending]]
  BY <1>2, UseType
<1> HIDE DEF base
<1>5. PICK f \in [0 .. n -> Spending] : f[0] = base /\ \A k \in 1 .. n : f[k] = step[k][f[k - 1]]
  <2> HIDE DEF step, n
  <2>1. HasRecursion(n, Spending, base, step)
    BY <1>1, <1>3, <1>4, RecursiveFunction
  <2> QED
    BY <2>1 DEF HasRecursion
<1>6. \A k \in 1 .. n : f[k] = Use(window, w[k], f[k - 1])
  <2> SUFFICES ASSUME NEW k \in 1 .. n PROVE f[k] = Use(window, w[k], f[k - 1])
    OBVIOUS
  <2>1. f[k - 1] \in Spending
    BY <1>1, <1>5
  <2> QED
    BY <1>5, <2>1
<1> HIDE DEF step
<1>7. Spends(f)
  <2>1. \A k \in 0 .. n : f[k] = IF k = 0 THEN base ELSE Use(window, w[k], f[k - 1])
    <3> SUFFICES ASSUME NEW k \in 0 .. n, k # 0 PROVE f[k] = Use(window, w[k], f[k - 1])
      BY <1>5
    <3>1. k \in 1 .. n
      BY <1>1
    <3> QED
      BY <1>6, <3>1
  <2>2. f = [k \in 0 .. n |-> f[k]]
    BY <1>5
  <2> HIDE DEF n
  <2> QED
    BY <2>1, <2>2
<1>8. Spent(window, w, budget) = CHOOSE g : Spends(g)
  BY DEF Spent, base
<1>9. Spends(Spent(window, w, budget))
  <2> HIDE DEF Spends
  <2> QED
    BY <1>7, <1>8
<1> DEFINE g == Spent(window, w, budget)
<1>10. g[0] = base /\ \A k \in 1 .. n : g[k] = Use(window, w[k], g[k - 1])
  <2>1. g = [k \in 0 .. n |-> IF k = 0 THEN base ELSE Use(window, w[k], g[k - 1])]
    BY <1>9
  <2>2. 0 \in 0 .. n /\ \A k \in 1 .. n : k \in 0 .. n /\ k # 0
    BY <1>1
  <2> HIDE DEF g, n, base
  <2>3. \A k \in 0 .. n : g[k] = IF k = 0 THEN base ELSE Use(window, w[k], g[k - 1])
    BY ONLY <2>1
  <2> QED
    BY ONLY <2>2, <2>3
<1>11. \A k \in 0 .. n : g[k] \in Spending
  <2> DEFINE T == {k \in 0 .. n : g[k] \in Spending}
  <2> HIDE DEF g
  <2>1. 0 \in T
    BY <1>1, <1>3, <1>10
  <2>2. \A k \in 0 .. n - 1 : k \in T => k + 1 \in T
    <3> SUFFICES ASSUME NEW k \in 0 .. n - 1, k \in T PROVE k + 1 \in T
      OBVIOUS
    <3>1. k + 1 \in 1 .. n /\ (k + 1) - 1 = k
      BY <1>1
    <3>2. g[k + 1] = Use(window, w[k + 1], g[k]) /\ w[k + 1] \in Span
      BY <1>2, <1>10, <3>1
    <3>3. g[k + 1] \in Spending
      BY <3>2, UseType
    <3> QED
      BY <1>1, <3>1, <3>3
  <2> HIDE DEF T
  <2>3. 0 .. n \subseteq T
    BY <1>1, <2>1, <2>2, RangeInduction
  <2> QED
    BY <2>3 DEF T
<1> QED
  BY <1>10, <1>11 DEF base

\* The instants of a window in the first k periods.
MineOf(w, k, window) == InFirst(w, k) \cap Of(window)

\* What is left of a window's budget B after the first k periods, and what they
\* used of it.
SpentSo(w, k, window, B, st) ==
  /\ st \in Spending
  /\ st.left = IF Cardinality(MineOf(w, k, window)) < B
               THEN B - Cardinality(MineOf(w, k, window)) ELSE 0
  /\ Inside(st.spans) = FirstOf(MineOf(w, k, window), B)
  /\ \A s \in st.spans : s.start <= window.end /\ s.end <= window.end

LEMMA MineGrows ==
  ASSUME NEW w, Apart(w), NEW window \in Span, NEW k \in 0 .. Len(w) - 1,
         NEW o, o = Clip(w[k + 1], window.start, window.end)
  PROVE  /\ o \in Span /\ o.start \in Nat /\ o.end \in Nat /\ o.end <= window.end
         /\ MineOf(w, k, window) \in SUBSET Nat /\ IsFiniteSet(MineOf(w, k, window))
         /\ \A u \in MineOf(w, k, window) : u < o.start
         /\ MineOf(w, k + 1, window) = MineOf(w, k, window) \cup (o.start .. o.end - 1)
<1> DEFINE M == MineOf(w, k, window)
           p == w[k + 1]
           n == Len(w)
<1>1. w \in Seq(Span) /\ n \in Nat /\ k \in Nat /\ k + 1 \in 1 .. n /\ window.start \in Nat /\ window.end \in Nat
  BY DEF Apart, Span
<1>2. /\ \A j \in 1 .. n : w[j] \in Span /\ w[j].start \in Nat /\ w[j].end \in Nat
      /\ \A i, j \in 1 .. n : i < j => w[i].end <= w[j].start
  BY <1>1, ApartNumbers DEF Apart
<1>3. p \in Span /\ p.start \in Nat /\ p.end \in Nat /\ \A j \in 1 .. k : w[j].end <= p.start
  <2>1. ASSUME NEW j \in 1 .. k PROVE w[j].end <= p.start
    <3>1. j \in 1 .. n /\ j < k + 1
      BY <1>1
    <3> QED
      BY <1>1, <1>2, <3>1
  <2> QED
    BY <1>1, <1>2, <2>1
<1> HIDE DEF p
<1>4. /\ o \in Span /\ o.start = IF p.start < window.start THEN window.start ELSE p.start
      /\ o.end = IF p.end < window.end THEN p.end ELSE window.end
      /\ \A t \in Nat : t \in Of(o) <=> t \in Of(p) /\ window.start <= t /\ t < window.end
  <2> DEFINE a == window.start
             b == window.end
  <2>1. a \in Nat /\ b \in Nat
    BY <1>1
  <2>2. o = Clip(p, a, b)
    BY DEF p
  <2> HIDE DEF a, b
  <2>3. /\ Clip(p, a, b) \in Span
        /\ Clip(p, a, b).start = IF p.start < a THEN a ELSE p.start
        /\ Clip(p, a, b).end = IF p.end < b THEN p.end ELSE b
        /\ \A t \in Nat : t \in Of(Clip(p, a, b)) <=> t \in Of(p) /\ a <= t /\ t < b
    BY <1>3, <2>1, ClipHolds
  <2> QED
    BY <2>2, <2>3 DEF a, b
<1>5. o.start \in Nat /\ o.end \in Nat /\ o.end <= window.end /\ p.start <= o.start
  BY <1>1, <1>3, <1>4
<1>6. M \in SUBSET Nat /\ IsFiniteSet(M)
  <2>1. M \in SUBSET Nat /\ \A t \in M : t <= window.end
    BY <1>1 DEF MineOf, Of
  <2> HIDE DEF M
  <2> QED
    BY <1>1, <2>1, FS_BoundedSetOfNaturals
<1>7. ASSUME NEW u \in M PROVE u < o.start
  <2>1. PICK j \in 1 .. k : u \in Nat /\ w[j].start <= u /\ u < w[j].end
    BY DEF MineOf, InFirst
  <2>2. w[j].end \in Nat /\ w[j].end <= p.start
    <3>1. j \in 1 .. n
      BY <1>1
    <3> QED
      BY <1>2, <1>3, <3>1
  <2> QED
    BY <1>3, <1>5, <2>1, <2>2
<1>8. MineOf(w, k + 1, window) = M \cup (o.start .. o.end - 1)
  <2>1. InFirst(w, k + 1) = InFirst(w, k) \cup Of(p)
    <3>1. \A j : j \in 1 .. k + 1 <=> j = k + 1 \/ j \in 1 .. k
      BY <1>1
    <3> QED
      BY <3>1 DEF InFirst, Of, p
  <2>2. Of(p) \cap Of(window) = Of(o)
    <3>1. \A t \in Nat : t \in Of(window) <=> window.start <= t /\ t < window.end
      BY DEF Of
    <3>2. Of(p) \subseteq Nat /\ Of(o) \subseteq Nat
      BY DEF Of
    <3> QED
      BY <1>4, <3>1, <3>2
  <2>3. Of(o) = o.start .. o.end - 1
    <3> DEFINE a == o.start
               b == o.end
    <3>1. a \in Nat /\ b \in Nat
      BY <1>5
    <3> HIDE DEF a, b
    <3>2. {t \in Nat : a <= t /\ t < b} = a .. b - 1
      BY <3>1
    <3> QED
      BY <3>2 DEF Of, a, b
  <2> QED
    BY <2>1, <2>2, <2>3 DEF MineOf
<1> QED
  BY <1>4, <1>5, <1>6, <1>7, <1>8

LEMMA UseStep ==
  ASSUME NEW w, Apart(w), NEW window \in Span, NEW B \in Nat, NEW k \in 0 .. Len(w) - 1,
         NEW st, SpentSo(w, k, window, B, st)
  PROVE  SpentSo(w, k + 1, window, B, Use(window, w[k + 1], st))
<1> DEFINE o == Clip(w[k + 1], window.start, window.end)
           used == Min({o.end - o.start, st.left})
           old == MineOf(w, k, window)
           new == MineOf(w, k + 1, window)
           m == Cardinality(old)
           span == [start |-> o.start, end |-> o.start + used]
           next == Use(window, w[k + 1], st)
<1>1. /\ o \in Span /\ o.start \in Nat /\ o.end \in Nat /\ o.end <= window.end
      /\ old \in SUBSET Nat /\ IsFiniteSet(old) /\ (\A u \in old : u < o.start)
      /\ new = old \cup (o.start .. o.end - 1)
  BY MineGrows
<1>2. /\ st \in Spending /\ st.left = (IF m < B THEN B - m ELSE 0)
      /\ Inside(st.spans) = FirstOf(old, B)
      /\ \A s \in st.spans : s.start <= window.end /\ s.end <= window.end
  BY DEF SpentSo
<1>3. next \in Spending
  <2>1. w \in Seq(Span) /\ k + 1 \in 1 .. Len(w)
    BY DEF Apart
  <2>2. w[k + 1] \in Span
    BY <2>1
  <2> QED
    BY <1>2, <2>2, UseType
<1>4. next = IF ~NotEmpty(o) \/ st.left <= 0 THEN st
             ELSE [left |-> st.left - used, spans |-> st.spans \cup {span}]
  BY DEF Use, Charge
<1>5. window.end \in Nat /\ m \in Nat /\ st.left \in Nat
  <2>1. m \in Nat
    BY <1>1, FS_CardinalityType
  <2> QED
    BY <1>2, <2>1 DEF Span
<1> HIDE DEF o, old, new, next
<1>6. CASE ~NotEmpty(o)
  <2>1. o.start .. o.end - 1 = {}
    BY <1>1, <1>6 DEF NotEmpty
  <2>2. new = old /\ next = st
    BY <1>1, <1>4, <1>6, <2>1
  <2> QED
    BY <1>2, <2>2 DEF SpentSo, old, new, next
<1>7. CASE NotEmpty(o)
  <2> DEFINE lo == o.start
             hi == o.end
             b == st.left
             c == Cardinality(new)
  <2>1. lo \in Nat /\ hi \in Nat /\ lo < hi /\ hi <= window.end
    BY <1>1, <1>7 DEF NotEmpty
  <2>2. /\ c = m + (hi - lo)
        /\ FirstOf(new, B) = FirstOf(old, B) \cup PaidOf(lo, hi, m, B)
    <3>1. lo <= hi /\ (\A u \in old : u < lo) /\ new = old \cup (lo .. hi - 1)
      BY <1>1, <2>1
    <3>2. old \in SUBSET Nat /\ IsFiniteSet(old) /\ lo \in Nat /\ hi \in Nat
      BY <1>1, <2>1
    <3> HIDE DEF lo, hi
    <3>3. /\ Cardinality(old \cup (lo .. hi - 1)) = Cardinality(old) + (hi - lo)
          /\ FirstOf(old \cup (lo .. hi - 1), B)
               = FirstOf(old, B) \cup PaidOf(lo, hi, Cardinality(old), B)
      <4>1. lo \in Nat /\ hi \in Nat /\ lo <= hi /\ old \in SUBSET Nat /\ IsFiniteSet(old) /\ B \in Nat
            /\ \A u \in old : u < lo
        BY <3>1, <3>2
      <4>2. Cardinality(old \cup (lo .. hi - 1)) = Cardinality(old) + (hi - lo)
        BY <4>1, BudgetGrows
      <4>3. FirstOf(old \cup (lo .. hi - 1), B)
               = FirstOf(old, B) \cup PaidOf(lo, hi, Cardinality(old), B)
        BY <4>1, BudgetGrows
      <4> QED
        BY <4>2, <4>3
    <3> QED
      BY <3>1, <3>3
  <2>3. CASE b <= 0
    <3>1. next = st /\ ~(m < B) /\ b = 0
      BY <1>2, <1>4, <1>5, <2>3
    <3>2. ~(c < B) /\ PaidOf(lo, hi, m, B) = {}
      <4> HIDE DEF lo, hi, c
      <4> QED
        BY <1>5, <2>1, <2>2, <3>1 DEF PaidOf
    <3>3. FirstOf(new, B) = FirstOf(old, B)
      BY <2>2, <3>2
    <3> HIDE DEF lo, hi
    <3> QED
      BY <1>2, <3>1, <3>2, <3>3 DEF SpentSo, new, next
  <2>4. CASE ~(b <= 0)
    <3>1. b = B - m /\ m < B
      BY <1>2, <1>5, <2>4
    <3>2. used = IF hi - lo < b THEN hi - lo ELSE b
      <4> DEFINE d == hi - lo
      <4>1. d \in Int /\ b \in Int
        BY <1>5, <2>1
      <4> HIDE DEF d, b
      <4>2. Min({d, b}) = IF d < b THEN d ELSE b
        BY <4>1, PairBounds
      <4> QED
        BY <4>2 DEF d, b
    <3>3. next.left = b - used /\ next.spans = st.spans \cup {span}
      BY <1>4, <1>7, <2>4
    <3> DEFINE e == lo + used
    <3>4. span.start = lo /\ span.end = e
      OBVIOUS
    <3> HIDE DEF span, used, lo, hi, b, c
    <3>5. used \in Nat /\ e \in Nat /\ e <= hi
      <4>1. lo \in Nat /\ hi \in Nat /\ lo <= hi /\ b \in Int /\ 0 <= b
        BY <1>5, <2>1 DEF b
      <4>2. used \in Nat /\ used <= hi - lo
        BY <3>2, <4>1
      <4> HIDE DEF used
      <4> QED
        BY <4>1, <4>2
    <3>6. next.left = IF c < B THEN B - c ELSE 0
      <4>1. /\ lo \in Nat /\ hi \in Nat /\ lo < hi /\ m \in Nat
            /\ c = m + (hi - lo) /\ b = B - m /\ b \in Nat /\ B \in Nat
        BY <1>5, <2>1, <2>2, <3>1 DEF b, c
      <4>2. used = IF hi - lo < b THEN hi - lo ELSE b
        BY <3>2
      <4>3. b - used = IF c < B THEN B - c ELSE 0
        BY ONLY <4>1, <4>2
      <4> QED
        BY <3>3, <4>3
    <3>7. Of(span) = PaidOf(lo, hi, m, B)
      <4>1. \A t \in Nat : lo <= t /\ t < e <=> t \in lo .. hi - 1 /\ m + (t - lo) < B
        BY <1>5, <2>1, <3>1, <3>2
      <4>2. Of(span) = {t \in Nat : lo <= t /\ t < e}
        BY <3>4 DEF Of
      <4>3. \A t \in lo .. hi - 1 : t \in Nat
        BY <2>1
      <4> HIDE DEF e
      <4> QED
        BY <4>1, <4>2, <4>3 DEF PaidOf
    <3>8. Inside(st.spans \cup {span}) = Inside(st.spans) \cup Of(span)
      BY DEF Inside, Of
    <3>9. Inside(next.spans) = FirstOf(new, B)
      BY <1>2, <2>2, <3>3, <3>7, <3>8
    <3>10. \A s \in next.spans : s.start <= window.end /\ s.end <= window.end
      <4>1. lo <= window.end /\ e <= window.end
        BY <1>5, <2>1, <3>5
      <4> HIDE DEF e
      <4> QED
        BY <1>2, <3>3, <3>4, <4>1
    <3> QED
      BY <1>3, <3>6, <3>9, <3>10 DEF SpentSo, new, next, c
  <2> QED
    BY <2>3, <2>4
<1> QED
  BY <1>6, <1>7

\* A cycle's spans hold the first work of its budget, and nothing else.
LEMMA BudgetUsed ==
  ASSUME NEW w, Apart(w), NEW window \in Span, NEW budget \in Nat
  PROVE  /\ UseBudget(window, w, budget) \in SUBSET Span
         /\ Inside(UseBudget(window, w, budget)) = FirstOf(Held(w) \cap Of(window), Grain * budget)
         /\ \A s \in UseBudget(window, w, budget) : s.start <= window.end /\ s.end <= window.end
<1> DEFINE n == Len(w)
           B == Grain * budget
           g == Spent(window, w, budget)
           T == {k \in 0 .. n : SpentSo(w, k, window, B, g[k])}
<1>1. w \in Seq(Span) /\ n \in Nat /\ B \in Nat /\ budget \in Int
  BY PlannerAssumption DEF Apart
<1>2. /\ g[0] = [left |-> B, spans |-> {}]
      /\ \A k \in 1 .. n : g[k] = Use(window, w[k], g[k - 1])
  BY <1>1, SpentSteps
<1> HIDE DEF n, B, g
<1>3. 0 \in T
  <2>1. MineOf(w, 0, window) = {}
    BY DEF MineOf, InFirst
  <2>2. Cardinality(MineOf(w, 0, window)) = 0 /\ FirstOf(MineOf(w, 0, window), B) = {}
    BY <2>1, FS_EmptySet DEF FirstOf
  <2>3. Inside({}) = {} /\ [left |-> B, spans |-> {}] \in Spending
    BY <1>1 DEF Inside, Spending
  <2>4. B = IF 0 < B THEN B - 0 ELSE 0
    BY <1>1
  <2>5. SpentSo(w, 0, window, B, [left |-> B, spans |-> {}])
    BY <2>2, <2>3, <2>4 DEF SpentSo
  <2>6. 0 \in 0 .. n
    BY <1>1
  <2> QED
    BY <1>2, <2>5, <2>6
<1>4. \A k \in 0 .. n - 1 : k \in T => k + 1 \in T
  <2> SUFFICES ASSUME NEW k \in 0 .. n - 1, k \in T PROVE k + 1 \in T
    OBVIOUS
  <2>1. k + 1 \in 1 .. n /\ (k + 1) - 1 = k /\ k + 1 \in 0 .. n
    BY <1>1
  <2>2. g[k + 1] = Use(window, w[k + 1], g[k])
    BY <1>2, <2>1
  <2>3. SpentSo(w, k + 1, window, B, g[k + 1])
    BY <1>1, <2>2, UseStep DEF n
  <2> QED
    BY <2>1, <2>3
<1>5. n \in T
  <2> HIDE DEF T
  <2>1. 0 .. n \subseteq T
    BY <1>1, <1>3, <1>4, RangeInduction
  <2> QED
    BY <1>1, <2>1
<1>6. SpentSo(w, n, window, B, g[n])
  BY <1>5
<1>7. MineOf(w, n, window) = Held(w) \cap Of(window)
  BY DEF MineOf, InFirst, Held, n
<1>8. UseBudget(window, w, budget) = g[n].spans
  BY DEF UseBudget, g, n
<1> QED
  BY <1>6, <1>7, <1>8 DEF SpentSo, Spending, B

-----------------------------------------------------------------------------
(***************************************************************************)
(* The plan that the simulator shows.                                      *)
(***************************************************************************)

LEMMA PlannedInDate ==
  ASSUME NEW cfg, NEW day, Plans(cfg, day), NEW o \in PlanDay(cfg, day)
  PROVE  /\ o.account \in Nat /\ o.account \in Range(cfg.accounts)
         /\ o.slot \in Nat /\ o.slot \in 0 .. DayMinutes - 1
         /\ ~o.missed => o.plannedAt \in TicksOf(day)
<1>1. cfg.workday /\ cfg.accounts # <<>> /\ cfg \in DraftConfig /\ ValidConfig(cfg)
  BY DayPlanned DEF Plans
<1>2. PICK a \in Anchors(cfg), i \in 1 .. Len(cfg.accounts) : o = Occurrence(cfg, day, a, i)
  BY DayPlanned
<1>3. o.account = Ranked(cfg, Slot(cfg, a))[i] /\ o.slot = Slot(cfg, a)
  BY <1>2, OccurrenceOf
<1>4. Slot(cfg, a) \in 0 .. DayMinutes - 1
  BY <1>1, SlotsApart
<1>5. o.account \in Range(cfg.accounts)
  BY <1>1, <1>3, <1>4, AccountsRanked
<1>6. o.account \in Nat
  BY <1>1, <1>5, AccountsCounted, PlannerAssumption
<1>7. ASSUME ~o.missed PROVE o.plannedAt \in TicksOf(day)
  <2>1. o.plannedAt \in Held(Allowed(cfg, day, a))
    BY <1>1, <1>2, <1>7, PlannedOffset
  <2> QED
    BY <1>1, <2>1, AllowedPeriods DEF TicksOf
<1> QED
  BY <1>3, <1>4, <1>5, <1>6, <1>7

\* An occurrence is known by its account and its slot.
LEMMA PlanNumbered ==
  ASSUME NEW cfg, NEW day, Plans(cfg, day)
  PROVE  /\ \A o, p \in PlanDay(cfg, day) : o.account = p.account /\ o.slot = p.slot => o = p
         /\ IsFiniteSet(PlanDay(cfg, day))
<1> DEFINE P == PlanDay(cfg, day)
           T == (0 .. DayMinutes - 1) \X Range(cfg.accounts)
           f == [o \in P |-> <<o.slot, o.account>>]
<1>1. cfg \in DraftConfig /\ ValidConfig(cfg)
  BY DEF Plans
<1>2. ASSUME NEW o \in P, NEW p \in P, o.account = p.account, o.slot = p.slot
      PROVE  o = p
  <2>1. PICK a \in Anchors(cfg), i \in 1 .. Len(cfg.accounts) : o = Occurrence(cfg, day, a, i)
    BY DayPlanned
  <2>2. PICK b \in Anchors(cfg), j \in 1 .. Len(cfg.accounts) : p = Occurrence(cfg, day, b, j)
    BY DayPlanned
  <2>3. /\ o.account = Ranked(cfg, Slot(cfg, a))[i] /\ o.slot = Slot(cfg, a)
        /\ p.account = Ranked(cfg, Slot(cfg, b))[j] /\ p.slot = Slot(cfg, b)
    BY <2>1, <2>2, OccurrenceOf
  <2>4. a = b /\ Slot(cfg, a) \in 0 .. DayMinutes - 1
    BY <1>1, <1>2, <2>3, SlotsApart
  <2> DEFINE s == Slot(cfg, a)
  <2>5. s \in 0 .. DayMinutes - 1 /\ Ranked(cfg, s)[i] = Ranked(cfg, s)[j]
    BY <1>2, <2>3, <2>4
  <2> HIDE DEF s
  <2>6. \A k, l \in 1 .. Len(cfg.accounts) : Ranked(cfg, s)[k] = Ranked(cfg, s)[l] => k = l
    BY <1>1, <2>5, AccountsRanked
  <2>7. i = j
    BY <2>5, <2>6
  <2> QED
    BY <2>1, <2>2, <2>4, <2>7
<1>3. IsFiniteSet(T)
  <2>1. IsFiniteSet(Range(cfg.accounts))
    BY <1>1, AccountsCounted
  <2>2. 0 \in Int /\ DayMinutes - 1 \in Int
    BY PlannerAssumption
  <2>3. IsFiniteSet(0 .. DayMinutes - 1)
    BY <2>2, FS_Interval
  <2> QED
    BY <2>1, <2>3, FS_Product
<1>4. f \in Injection(P, T)
  <2>1. \A o \in P : <<o.slot, o.account>> \in T
    BY PlannedInDate
  <2> HIDE DEF P, T
  <2>2. f \in [P -> T]
    BY <2>1
  <2> QED
    BY <1>2, <2>2 DEF Injection, IsInjective
<1>5. IsFiniteSet(P)
  <2> HIDE DEF f, P, T
  <2> QED
    BY <1>3, <1>4, FS_Injection
<1> QED
  BY <1>2, <1>5

\* The planned instants move the cycles forward, never back.
LEMMA AnchorOfPlan ==
  ASSUME NEW cfg, NEW day, Plans(cfg, day), NEW w, Apart(w), w # <<>>,
         NEW chart, IsChart(chart), chart.start <= Head(w).start
  PROVE  /\ ScheduledAnchor(w, PlanDay(cfg, day), chart) \in Nat
         /\ ScheduledAnchor(w, PlanDay(cfg, day), chart) <= Head(w).start
         /\ chart.start <= ScheduledAnchor(w, PlanDay(cfg, day), chart)
<1> DEFINE later == {o.plannedAt : o \in {p \in PlanDay(cfg, day) :
                                           ~p.missed /\ p.plannedAt >= chart.start}}
           S == {Head(w).start} \cup later
<1>1. Head(w).start \in Nat /\ chart.start \in Int
  BY ApartEnds, ChartNumbers
<1>2. \A o \in PlanDay(cfg, day) : ~o.missed => o.plannedAt \in Nat
  <2>1. IsDate(day)
    BY DEF Plans
  <2> QED
    BY <2>1, PlannedInDate, TickNumbers
<1>3. S \in SUBSET Nat /\ Head(w).start \in S /\ \A y \in S : chart.start <= y
  BY <1>1, <1>2
<1>4. ScheduledAnchor(w, PlanDay(cfg, day), chart) = Min(S)
  BY DEF ScheduledAnchor
<1> HIDE DEF S
<1>5. Min(S) \in S /\ \A y \in S : Min(S) <= y
  BY <1>3, LeastNatural
<1> QED
  BY <1>3, <1>4, <1>5

-----------------------------------------------------------------------------
(***************************************************************************)
(* The cycles.                                                             *)
(***************************************************************************)

LEMMA WholeCycles ==
  ASSUME NEW L \in Nat \ {0}, NEW x \in Nat
  PROVE  x % L = 0 <=> \E k \in Nat : x = k * L
<1> DEFINE q == x \div L
           r == x % L
<1>1. q \in Nat /\ r \in 0 .. L - 1 /\ x = L * q + r
  OBVIOUS
<1> HIDE DEF q, r
<1>2. ASSUME r = 0 PROVE x = q * L
  BY <1>1, <1>2
<1>3. ASSUME NEW k \in Nat, x = k * L PROVE r = 0
  <2> DEFINE d == k - q
  <2>1. d \in Int /\ r = L * d
    BY <1>1, <1>3
  <2> HIDE DEF d
  <2>2. d >= 1 => L * d >= L
    BY <2>1
  <2>3. d <= -1 => L * d <= -L
    <3>1. ASSUME NEW e \in Nat, e >= 1 PROVE L * e >= L
      BY <3>1
    <3>2. ASSUME d <= -1 PROVE L * d <= -L
      <4> DEFINE e == -d
      <4>1. e \in Nat /\ e >= 1 /\ d = -e
        BY <2>1, <3>2
      <4> HIDE DEF e
      <4>2. L * e >= L /\ L * d = -(L * e) /\ L * e \in Nat
        BY <3>1, <4>1
      <4> QED
        BY <4>2
    <3> QED
      BY <3>2
  <2>4. d = 0
    BY <1>1, <2>1, <2>2, <2>3
  <2> QED
    BY <2>1, <2>4
<1> QED
  BY <1>1, <1>2, <1>3 DEF r

\* The instants of the k-th cycle of length L.
CycleOf(anchor, L, k) == {t \in Nat : anchor + k * L <= t /\ t < anchor + (k + 1) * L}

LEMMA CyclesApart ==
  ASSUME NEW anchor \in Nat, NEW L \in Nat \ {0}, NEW j \in Nat, NEW k \in Nat,
         NEW t \in CycleOf(anchor, L, j), t \in CycleOf(anchor, L, k)
  PROVE  j = k
<1>1. ASSUME NEW a \in Nat, NEW b \in Nat, a < b PROVE (a + 1) * L <= b * L
  <2> DEFINE c == b - (a + 1)
  <2>1. c \in Nat /\ b = (a + 1) + c
    BY <1>1
  <2> HIDE DEF c
  <2>2. b * L = (a + 1) * L + c * L /\ c * L \in Nat /\ (a + 1) * L \in Nat
    BY <2>1
  <2> QED
    BY <2>2
<1>2. /\ t \in Nat /\ anchor + j * L <= t /\ t < anchor + (j + 1) * L
      /\ anchor + k * L <= t /\ t < anchor + (k + 1) * L
  BY DEF CycleOf
<1>3. /\ j * L \in Nat /\ (j + 1) * L \in Nat /\ k * L \in Nat /\ (k + 1) * L \in Nat
  OBVIOUS
<1>4. ~(j < k) /\ ~(k < j)
  BY <1>1, <1>2, <1>3
<1> QED
  BY <1>4

\* The window of a cycle: what the chart has of it.
LEMMA WindowOfCycle ==
  ASSUME NEW cycle \in Nat \ {0}, NEW chart, IsChart(chart), NEW n, n = chart.end,
         NEW anchor \in Nat, chart.start <= anchor, NEW k \in Nat,
         NEW start, start = anchor + k * (Grain * cycle), start < n
  PROVE  /\ CycleWindow(start, cycle, chart) \in Span
         /\ CycleWindow(start, cycle, chart).start = start /\ CycleWindow(start, cycle, chart).end <= n
         /\ start < CycleWindow(start, cycle, chart).end
         /\ \A t \in Nat : t \in Of(CycleWindow(start, cycle, chart))
              <=> t \in CycleOf(anchor, Grain * cycle, k) /\ t < n
<1> DEFINE L == Grain * cycle
           lo == chart.start
           i == [start |-> start, end |-> start + L]
           c == CycleWindow(start, cycle, chart)
<1>1. L \in Nat \ {0} /\ k * L \in Nat
  BY PlannerAssumption
<1>2. start = anchor + k * L
  OBVIOUS
<1>3. (k + 1) * L = k * L + L
  BY <1>1
<1> HIDE DEF L
<1>4. start \in Nat /\ i \in Span /\ i.start = start /\ i.end = start + L
  BY <1>1, <1>2 DEF Span
<1>10. lo \in Int /\ n \in Nat /\ lo <= start
  <2>1. lo \in Int /\ n \in Nat
    BY ChartNumbers
  <2>2. lo <= anchor
    OBVIOUS
  <2> HIDE DEF lo
  <2> QED
    BY <1>1, <1>2, <2>1, <2>2
<1>5. c = Clip(i, lo, n)
  BY DEF CycleWindow, L
<1>6. \A t \in Nat : t \in Of(i) <=> t \in CycleOf(anchor, L, k)
  <2>1. start + L = anchor + (k + 1) * L
    BY <1>1, <1>2, <1>3, <1>4
  <2> QED
    BY <1>2, <1>4, <2>1 DEF Of, CycleOf
<1> HIDE DEF i, c, lo
<1>7. /\ c \in Span
      /\ c.start = IF i.start < lo THEN lo ELSE i.start
      /\ c.end = IF i.end < n THEN i.end ELSE n
      /\ \A t \in Nat : t \in Of(c) <=> t \in Of(i) /\ lo <= t /\ t < n
  <2>1. /\ Clip(i, lo, n) \in Span
        /\ Clip(i, lo, n).start = IF i.start < lo THEN lo ELSE i.start
        /\ Clip(i, lo, n).end = IF i.end < n THEN i.end ELSE n
        /\ \A t \in Nat : t \in Of(Clip(i, lo, n)) <=> t \in Of(i) /\ lo <= t /\ t < n
    BY <1>4, <1>10, ClipHolds
  <2> QED
    BY <1>5, <2>1
<1>8. c.start = start /\ c.end <= n /\ start < c.end
  BY <1>1, <1>4, <1>7, <1>10
<1>9. \A t \in Nat : t \in Of(c) <=> t \in CycleOf(anchor, L, k) /\ t < n
  <2>1. \A t \in Nat : t \in Of(i) => i.start <= t
    BY DEF Of
  <2>2. \A t \in Nat : t \in Of(i) => lo <= t
    BY <1>4, <1>10, <2>1
  <2> QED
    BY <1>6, <1>7, <2>2
<1> QED
  BY <1>7, <1>8, <1>9 DEF L, c

\* What the cycles make of the work w on a chart that ends with tick n.
CyclesSo(c, w, n, anchor, L, B) ==
  /\ Apart(c.available) /\ Apart(c.windows) /\ c.windows # <<>> /\ Head(c.windows).start = anchor
  /\ Held(c.available) \subseteq Held(w)
  /\ \A t \in Held(c.windows) : anchor <= t /\ t < n
  /\ \A k \in Nat : Held(c.available) \cap CycleOf(anchor, L, k)
                      = FirstOf(Held(w) \cap CycleOf(anchor, L, k), B)

LEMMA CyclesCover ==
  ASSUME NEW cfg \in DraftConfig, ValidConfig(cfg), NEW chart, IsChart(chart),
         NEW w, Apart(w), w # <<>>, Held(w) \subseteq TicksAt(chart),
         NEW anchor \in Nat, chart.start <= anchor, anchor <= Head(w).start
  PROVE  CyclesSo(Cycles(cfg, chart, w, anchor), w, chart.end, anchor,
                  Grain * cfg.cycle, Grain * cfg.budget)
<1> DEFINE n == chart.end
           cycle == cfg.cycle
           budget == cfg.budget
           L == Grain * cycle
           B == Grain * budget
           E == Last(w).end
           starts == CycleStarts(w, anchor, cycle)
           Win(s) == CycleWindow(s, cycle, chart)
           windows == {Win(s) : s \in starts}
           spans == UNION {UseBudget(x, w, budget) : x \in windows}
           c == Cycles(cfg, chart, w, anchor)
           WorkIn(k) == Held(w) \cap CycleOf(anchor, L, k)
<1>1. cycle \in Nat \ {0} /\ budget \in Nat /\ L \in Nat \ {0} /\ n \in Nat
  <2>1. cycle \in Int /\ budget \in Int
    BY DEF DraftConfig
  <2>2. cycle \in Nat \ {0} /\ budget \in Nat
    BY <2>1 DEF ValidConfig
  <2> QED
    BY <2>2, ChartNumbers, PlannerAssumption
<1>2. /\ E \in Nat /\ E <= n /\ anchor < E /\ Head(w).start \in Nat
      /\ \A t \in Held(w) : t \in Nat /\ t < n /\ anchor <= t /\ t < E
  <2>1. /\ Head(w).start \in Nat /\ E \in Nat /\ Head(w).start < E /\ E - 1 \in Held(w)
        /\ \A t \in Held(w) : Head(w).start <= t /\ t < E
    BY ApartEnds
  <2>2. \A t \in Held(w) : t \in Nat /\ t < n
    BY ChartNumbers DEF Held
  <2> HIDE DEF E, n
  <2> QED
    BY <1>1, <2>1, <2>2
<1>3. c = [available |-> MergeIntervals(spans), windows |-> MergeIntervals(windows)]
  BY DEF Cycles
<1> HIDE DEF n, E, c
<1>4. \A s : s \in starts <=> \E k \in Nat : s = anchor + k * L /\ s < E
  <2>1. \A s : s \in starts <=> s \in anchor .. E - 1 /\ (s - anchor) % L = 0
    BY DEF CycleStarts, E
  <2> HIDE DEF starts, L
  <2>2. ASSUME NEW s \in anchor .. E - 1
        PROVE  (s - anchor) % L = 0 <=> \E k \in Nat : s = anchor + k * L
    <3> DEFINE x == s - anchor
    <3>1. x \in Nat /\ s = anchor + x
      OBVIOUS
    <3> HIDE DEF x
    <3>2. x % L = 0 <=> \E k \in Nat : x = k * L
      BY <1>1, <3>1, WholeCycles
    <3>3. \A k \in Nat : x = k * L <=> s = anchor + k * L
      <4>1. \A k \in Nat : k * L \in Nat
        BY <1>1
      <4> QED
        BY <1>1, <3>1, <4>1
    <3> QED
      BY <3>2, <3>3 DEF x
  <2>3. \A k \in Nat : k * L \in Nat
    BY <1>1
  <2>4. ASSUME NEW k \in Nat, anchor + k * L < E PROVE anchor + k * L \in anchor .. E - 1
    BY <1>1, <1>2, <2>3, <2>4
  <2>5. ASSUME NEW s, s \in starts PROVE \E k \in Nat : s = anchor + k * L /\ s < E
    <3>1. s \in anchor .. E - 1 /\ (s - anchor) % L = 0
      BY <2>1, <2>5
    <3>2. PICK k \in Nat : s = anchor + k * L
      BY <2>2, <3>1
    <3>3. s < E
      BY <1>2, <3>1
    <3> QED
      BY <3>2, <3>3
  <2>6. ASSUME NEW s, NEW k \in Nat, s = anchor + k * L, s < E PROVE s \in starts
    <3>1. s \in anchor .. E - 1
      BY <2>4, <2>6
    <3>2. (s - anchor) % L = 0
      BY <2>2, <2>6, <3>1
    <3> QED
      BY <2>1, <3>1, <3>2
  <2> QED
    BY <2>5, <2>6
<1> HIDE DEF starts
<1>5. ASSUME NEW k \in Nat, NEW s, s = anchor + k * L, s < E
      PROVE  /\ Win(s) \in Span /\ Win(s).start = s /\ Win(s).end <= n /\ s < Win(s).end
             /\ s \in Nat /\ Win(s).end \in Nat
             /\ Held(w) \cap Of(Win(s)) = WorkIn(k)
             /\ \A t \in Nat : t \in Of(Win(s)) <=> t \in CycleOf(anchor, L, k) /\ t < n
  <2>1. s < n /\ s \in Nat
    <3> DEFINE p == k * L
    <3>1. p \in Nat
      BY <1>1
    <3>2. s = anchor + p
      BY <1>5
    <3> HIDE DEF p
    <3> QED
      BY <1>1, <1>2, <1>5, <3>1, <3>2
  <2>2. /\ Win(s) \in Span /\ Win(s).start = s /\ Win(s).end <= n /\ s < Win(s).end
        /\ \A t \in Nat : t \in Of(Win(s)) <=> t \in CycleOf(anchor, L, k) /\ t < n
    <3>1. n = chart.end
      BY DEF n
    <3> HIDE DEF cycle
    <3> QED
      BY <1>1, <1>5, <2>1, <3>1, WindowOfCycle
  <2> HIDE DEF Win, L
  <2>3. Held(w) \cap Of(Win(s)) = Held(w) \cap CycleOf(anchor, L, k)
    BY <1>2, <2>2
  <2>4. Win(s).end \in Nat
    BY <2>2 DEF Span
  <2> QED
    BY <2>1, <2>2, <2>3, <2>4
<1>6. ASSUME NEW x \in windows
      PROVE  \E k \in Nat : anchor + k * L < E /\ x = Win(anchor + k * L)
  <2>1. PICK s \in starts : x = Win(s)
    OBVIOUS
  <2> QED
    BY <1>4, <2>1
<1>7. ASSUME NEW k \in Nat, anchor + k * L < E PROVE Win(anchor + k * L) \in windows
  BY <1>4, <1>7
<1> HIDE DEF windows, Win
<1>8. windows \in SUBSET Span /\ \A x \in windows : x.start <= n /\ x.end <= n
  <2> SUFFICES ASSUME NEW x \in windows PROVE x \in Span /\ x.start <= n /\ x.end <= n
    OBVIOUS
  <2>1. PICK k \in Nat : anchor + k * L < E /\ x = Win(anchor + k * L)
    BY <1>6
  <2> DEFINE s == anchor + k * L
  <2>2. s < E /\ x = Win(s)
    BY <2>1
  <2>3. x \in Span /\ x.start = s /\ x.end <= n /\ s < x.end /\ s \in Nat /\ x.end \in Nat
    BY <1>5, <2>2
  <2> HIDE DEF s
  <2> QED
    BY <1>1, <2>3
<1>9. IsFiniteSet(windows)
  BY <1>1, <1>8, SpansFinite
<1>10. ASSUME NEW x \in windows
       PROVE  /\ UseBudget(x, w, budget) \in SUBSET Span
              /\ Inside(UseBudget(x, w, budget)) = FirstOf(Held(w) \cap Of(x), B)
              /\ \A s \in UseBudget(x, w, budget) : s.start <= n /\ s.end <= n
  <2>1. x \in Span /\ x.end <= n
    BY <1>8
  <2> DEFINE u == UseBudget(x, w, budget)
  <2>2. /\ u \in SUBSET Span /\ Inside(u) = FirstOf(Held(w) \cap Of(x), B)
        /\ \A s \in u : s.start <= x.end /\ s.end <= x.end
    <3> HIDE DEF budget
    <3> QED
      BY <1>1, <2>1, BudgetUsed
  <2> HIDE DEF u
  <2>3. \A s \in u : s.start <= n /\ s.end <= n
    <3> SUFFICES ASSUME NEW s \in u PROVE s.start <= n /\ s.end <= n
      OBVIOUS
    <3>1. s.start \in Nat /\ s.end \in Nat /\ x.end \in Nat
      BY <2>1, <2>2 DEF Span
    <3>2. s.start <= x.end /\ s.end <= x.end
      BY <2>2
    <3> QED
      BY <1>1, <2>1, <3>1, <3>2
  <2> QED
    BY <2>2, <2>3 DEF u
<1>11. spans \in SUBSET Span /\ \A s \in spans : s.start <= n /\ s.end <= n
  BY <1>10
<1>12. Inside(spans) = UNION {Inside(UseBudget(x, w, budget)) : x \in windows}
  BY DEF Inside
<1> HIDE DEF spans
<1>13. IsFiniteSet(spans)
  BY <1>1, <1>11, SpansFinite
<1>14. \A t : t \in Inside(spans) <=> \E k \in Nat : anchor + k * L < E /\ t \in FirstOf(WorkIn(k), B)
  <2>1. ASSUME NEW t \in Inside(spans)
        PROVE  \E k \in Nat : anchor + k * L < E /\ t \in FirstOf(WorkIn(k), B)
    <3>1. PICK x \in windows : t \in Inside(UseBudget(x, w, budget))
      BY <1>12, <2>1
    <3>2. t \in FirstOf(Held(w) \cap Of(x), B)
      BY <1>10, <3>1
    <3>3. PICK k \in Nat : anchor + k * L < E /\ x = Win(anchor + k * L)
      BY <1>6
    <3>4. Held(w) \cap Of(x) = WorkIn(k)
      BY <1>5, <3>3
    <3> HIDE DEF WorkIn
    <3> QED
      BY <3>2, <3>3, <3>4
  <2>2. ASSUME NEW t, NEW k \in Nat, anchor + k * L < E, t \in FirstOf(WorkIn(k), B)
        PROVE  t \in Inside(spans)
    <3> DEFINE x == Win(anchor + k * L)
    <3>1. x \in windows
      BY <1>7, <2>2
    <3>2. Held(w) \cap Of(x) = WorkIn(k)
      BY <1>5, <2>2
    <3> HIDE DEF WorkIn, x
    <3>3. t \in Inside(UseBudget(x, w, budget))
      BY <1>10, <2>2, <3>1, <3>2
    <3> QED
      BY <1>12, <3>1, <3>3
  <2> QED
    BY <2>1, <2>2
<1>15. /\ Apart(c.available) /\ Held(c.available) = Inside(spans)
       /\ Apart(c.windows) /\ Held(c.windows) = Inside(windows)
  <2>1. Apart(MergeIntervals(spans)) /\ Held(MergeIntervals(spans)) = Inside(spans)
    BY <1>11, <1>13, MergeHolds
  <2>2. Apart(MergeIntervals(windows)) /\ Held(MergeIntervals(windows)) = Inside(windows)
    BY <1>8, <1>9, MergeHolds
  <2> QED
    BY <1>3, <2>1, <2>2
<1>16. \A t \in Held(c.windows) : t \in Nat /\ t < n /\ anchor <= t
  <2> SUFFICES ASSUME NEW t \in Inside(windows) PROVE t \in Nat /\ t < n /\ anchor <= t
    BY <1>15
  <2>1. PICK x \in windows : t \in Nat /\ x.start <= t /\ t < x.end
    BY DEF Inside
  <2>2. PICK k \in Nat : anchor + k * L < E /\ x = Win(anchor + k * L)
    BY <1>6
  <2> DEFINE s == anchor + k * L
  <2>3. x.start = s /\ x.end <= n /\ s \in Nat /\ x.end \in Nat
    BY <1>5, <2>2
  <2>4. anchor <= s
    <3>1. k * L \in Nat
      BY <1>1
    <3> QED
      BY <3>1
  <2> HIDE DEF s
  <2> QED
    BY <1>1, <2>1, <2>3, <2>4
<1>17. anchor \in Held(c.windows)
  <2> DEFINE s == anchor + 0 * L
  <2>1. s = anchor
    BY <1>1
  <2>2. s < E /\ 0 \in Nat
    BY <1>2, <2>1
  <2>3. Win(s) \in windows /\ Win(s).start = s /\ s < Win(s).end
    BY <1>5, <1>7, <2>2
  <2> HIDE DEF s
  <2>4. anchor \in Inside(windows)
    BY <2>1, <2>3 DEF Inside
  <2> QED
    BY <1>15, <2>4
<1>18. c.windows # <<>> /\ Head(c.windows).start = anchor
  <2>1. c.windows # <<>>
    BY <1>15, <1>17, HeldFinite
  <2>2. /\ Head(c.windows).start \in Held(c.windows) /\ Head(c.windows).start \in Nat
        /\ \A t \in Held(c.windows) : Head(c.windows).start <= t
    BY <1>15, <2>1, ApartEnds
  <2>3. anchor <= Head(c.windows).start /\ Head(c.windows).start <= anchor
    BY <1>16, <1>17, <2>2
  <2> QED
    BY <2>1, <2>2, <2>3
<1>19. Held(c.available) \subseteq Held(w)
  BY <1>14, <1>15 DEF FirstOf
<1>20. ASSUME NEW k \in Nat
       PROVE  Held(c.available) \cap CycleOf(anchor, L, k) = FirstOf(WorkIn(k), B)
  <2>1. ASSUME NEW t \in Held(c.available), t \in CycleOf(anchor, L, k) PROVE t \in FirstOf(WorkIn(k), B)
    <3>1. PICK j \in Nat : t \in FirstOf(WorkIn(j), B)
      BY <1>14, <1>15
    <3>2. t \in CycleOf(anchor, L, j)
      BY <3>1 DEF FirstOf
    <3>3. j = k
      BY <1>1, <2>1, <3>2, CyclesApart
    <3> QED
      BY <3>1, <3>3
  <2>2. ASSUME NEW t \in FirstOf(WorkIn(k), B)
        PROVE  t \in Held(c.available) /\ t \in CycleOf(anchor, L, k)
    <3>1. t \in Held(w) /\ t \in CycleOf(anchor, L, k)
      BY DEF FirstOf
    <3>2. anchor + k * L < E
      <4>1. t \in Nat /\ anchor + k * L <= t /\ t < E /\ k * L \in Nat
        BY <1>1, <1>2, <3>1 DEF CycleOf
      <4> QED
        BY <1>2, <4>1
    <3> HIDE DEF WorkIn
    <3>3. t \in Inside(spans)
      BY <1>14, <3>2
    <3> QED
      BY <1>15, <3>1, <3>3
  <2> QED
    BY <2>1, <2>2
<1> QED
  BY <1>15, <1>16, <1>18, <1>19, <1>20 DEF CyclesSo, c, n

-----------------------------------------------------------------------------
(***************************************************************************)
(* The metrics.                                                            *)
(***************************************************************************)

LEMMA OverlapsHold ==
  ASSUME NEW v, Apart(v), NEW w, Apart(w)
  PROVE  Apart(Overlaps(v, w)) /\ Held(Overlaps(v, w)) = Held(v) \cap Held(w)
<1> DEFINE D == (DOMAIN w) \X (DOMAIN v)
           Part(p, k) == Clip(w[p], v[k].start, v[k].end)
           S == {Part(p, k) : p \in DOMAIN w, k \in DOMAIN v}
           f == [q \in D |-> Part(q[1], q[2])]
<1>1. /\ v \in Seq(Span) /\ Len(v) \in Nat /\ DOMAIN v = 1 .. Len(v)
      /\ w \in Seq(Span) /\ Len(w) \in Nat /\ DOMAIN w = 1 .. Len(w)
  BY DEF Apart
<1>2. ASSUME NEW p \in DOMAIN w, NEW k \in DOMAIN v
      PROVE  Part(p, k) \in Span /\ Of(Part(p, k)) = Of(w[p]) \cap Of(v[k])
  <2> DEFINE i == w[p]
             a == v[k].start
             b == v[k].end
  <2>1. i \in Span /\ a \in Nat /\ b \in Nat
    BY <1>1, ApartNumbers
  <2>2. Of(v[k]) = {t \in Nat : a <= t /\ t < b}
    BY DEF Of
  <2> HIDE DEF i, a, b
  <2>3. Clip(i, a, b) \in Span /\ \A t \in Nat : t \in Of(Clip(i, a, b)) <=> t \in Of(i) /\ a <= t /\ t < b
    BY <2>1, ClipHolds
  <2>4. Of(Clip(i, a, b)) \subseteq Nat
    BY DEF Of
  <2>5. Of(Clip(i, a, b)) = Of(i) \cap Of(v[k])
    BY <2>2, <2>3, <2>4
  <2> QED
    BY <2>3, <2>5 DEF i, a, b
<1> HIDE DEF Part
<1>3. S \in SUBSET Span
  BY <1>2
<1>4. f \in Surjection(D, S)
  <2>1. f \in [D -> S]
    <3>1. \A q \in D : q[1] \in DOMAIN w /\ q[2] \in DOMAIN v
      OBVIOUS
    <3>2. \A q \in D : Part(q[1], q[2]) \in S
      BY <3>1
    <3> HIDE DEF D, S
    <3> QED
      BY <3>2
  <2>2. \A y \in S : \E q \in D : f[q] = y
    <3> SUFFICES ASSUME NEW p \in DOMAIN w, NEW k \in DOMAIN v
                 PROVE  \E q \in D : f[q] = Part(p, k)
      OBVIOUS
    <3>1. <<p, k>> \in D /\ <<p, k>>[1] = p /\ <<p, k>>[2] = k
      OBVIOUS
    <3> HIDE DEF D
    <3>2. f[<<p, k>>] = Part(p, k)
      BY <3>1
    <3> QED
      BY <3>1, <3>2
  <2> HIDE DEF D, S, f
  <2> QED
    BY <2>1, <2>2 DEF Surjection
<1>5. IsFiniteSet(D)
  <2>1. IsFiniteSet(DOMAIN v) /\ IsFiniteSet(DOMAIN w)
    BY <1>1, FS_Interval
  <2> QED
    BY <2>1, FS_Product
<1>6. IsFiniteSet(S)
  <2> HIDE DEF D, S, f
  <2> QED
    BY <1>4, <1>5, FS_Surjection
<1>7. Inside(S) = Held(v) \cap Held(w)
  <2>1. Held(v) = {t \in Nat : \E k \in DOMAIN v : t \in Of(v[k])}
        /\ Held(w) = {t \in Nat : \E p \in DOMAIN w : t \in Of(w[p])}
    BY <1>1 DEF Held, Of
  <2>2. Inside(S) = {t \in Nat : \E i \in S : t \in Of(i)}
    BY DEF Inside, Of
  <2>3. \A t : (\E i \in S : t \in Of(i)) <=> \E p \in DOMAIN w, k \in DOMAIN v : t \in Of(Part(p, k))
    OBVIOUS
  <2> QED
    BY <1>2, <2>1, <2>2, <2>3
<1>8. Overlaps(v, w) = MergeIntervals(S)
  BY DEF Overlaps, Part
<1> HIDE DEF S
<1> QED
  BY <1>3, <1>6, <1>7, <1>8, MergeHolds

\* The idle time is what the cycles have outside work.
LEMMA IdleCounts ==
  ASSUME NEW v, Apart(v), NEW w, Apart(w)
  PROVE  IdleTicks(v, w) = Cardinality(Held(v) \ Held(w)) /\ IdleTicks(v, w) \in Nat
<1> DEFINE a == Duration(v)
           b == Duration(Overlaps(v, w))
           V == Held(v)
           W == Held(w)
<1>1. IsFiniteSet(V) /\ Cardinality(V) = a /\ a \in Nat
  BY HeldFinite, DurationCounts
<1>2. Cardinality(V \cap W) = b /\ b \in Nat
  <2> DEFINE o == Overlaps(v, w)
  <2>1. Apart(o) /\ Held(o) = V \cap W
    BY OverlapsHold
  <2> HIDE DEF o
  <2> QED
    BY <2>1, HeldFinite, DurationCounts DEF o
<1>3. IdleTicks(v, w) = Max({0, a - b})
  BY DEF IdleTicks
<1> HIDE DEF a, b, V, W
<1>4. IsFiniteSet(V \ W) /\ Cardinality(V \ W) = a - b
  BY <1>1, <1>2, FS_Difference
<1>5. a - b \in Nat
  BY <1>4, FS_CardinalityType
<1> DEFINE d == a - b
<1>6. 0 \in Int /\ d \in Int /\ d >= 0
  BY <1>5
<1> HIDE DEF d
<1>7. Max({0, d}) = d
  <2>1. Max({0, d}) = IF 0 < d THEN d ELSE 0
    BY <1>6, PairBounds
  <2> QED
    BY <1>6, <2>1
<1> QED
  BY <1>3, <1>4, <1>5, <1>7 DEF d, V, W

\* What a strategy's metrics say of the work w.
Counts(s, w, cfg, chart) ==
  LET anchor == IF s.windows = <<>> THEN 0 ELSE Head(s.windows).start
      L == Grain * cfg.cycle
  IN /\ Apart(s.available) /\ Apart(s.windows)
     /\ Held(s.available) \subseteq Held(w)
     /\ Held(s.windows) \subseteq TicksAt(chart)
     /\ \A k \in Nat : Held(s.available) \cap CycleOf(anchor, L, k)
                         = FirstOf(Held(w) \cap CycleOf(anchor, L, k), Grain * cfg.budget)
     /\ s.coverage = Cardinality(Held(s.available)) \div Grain
     /\ s.idle = Cardinality(Held(s.windows) \ Held(w)) \div Grain

LEMMA MetricsCount ==
  ASSUME NEW cfg \in DraftConfig, ValidConfig(cfg), NEW chart, IsChart(chart),
         NEW w, Apart(w), Held(w) \subseteq TicksAt(chart),
         NEW anchor \in Nat, w # <<>> => chart.start <= anchor /\ anchor <= Head(w).start
  PROVE  Counts(Metrics(cfg, chart, w, anchor), w, cfg, chart)
<1> DEFINE c == Cycles(cfg, chart, w, anchor)
           s == Metrics(cfg, chart, w, anchor)
           L == Grain * cfg.cycle
           B == Grain * cfg.budget
<1>1. /\ s.available = c.available /\ s.windows = c.windows
      /\ s.coverage = WholeMinutes(Duration(c.available))
      /\ s.idle = WholeMinutes(IdleTicks(c.windows, w))
  BY DEF Metrics
<1>2. ASSUME NEW x \in Nat PROVE WholeMinutes(x) = x \div Grain
  <2>1. Grain \in Nat \ {0}
    BY PlannerAssumption
  <2>2. x <= 0 => x = 0 /\ x \div Grain = 0
    BY <2>1
  <2> QED
    BY <2>2 DEF WholeMinutes
<1> HIDE DEF s
<1>3. ASSUME Apart(c.available), Apart(c.windows)
      PROVE  /\ s.coverage = Cardinality(Held(s.available)) \div Grain
             /\ s.idle = Cardinality(Held(s.windows) \ Held(w)) \div Grain
  <2>1. Duration(c.available) \in Nat /\ Cardinality(Held(c.available)) = Duration(c.available)
    BY <1>3, HeldFinite, DurationCounts
  <2>2. /\ IdleTicks(c.windows, w) = Cardinality(Held(c.windows) \ Held(w))
        /\ IdleTicks(c.windows, w) \in Nat
    BY <1>3, IdleCounts
  <2> HIDE DEF c
  <2> QED
    BY <1>1, <1>2, <2>1, <2>2
<1>4. CASE w = <<>>
  <2>1. c.available = <<>> /\ c.windows = <<>>
    BY <1>4 DEF Cycles
  <2>2. Apart(<<>>) /\ Held(<<>>) = {}
    BY DEF Apart, Held
  <2>3. Held(w) = {}
    BY <1>4, <2>2
  <2>4. \A k \in Nat : {} \cap CycleOf(0, L, k) = FirstOf({} \cap CycleOf(0, L, k), B)
    BY DEF FirstOf
  <2> HIDE DEF c
  <2>5. /\ s.coverage = Cardinality(Held(s.available)) \div Grain
        /\ s.idle = Cardinality(Held(s.windows) \ Held(w)) \div Grain
    BY <1>3, <2>1, <2>2
  <2> QED
    BY <1>1, <2>1, <2>2, <2>3, <2>4, <2>5 DEF Counts, s, L, B
<1>5. CASE w # <<>>
  <2>1. CyclesSo(c, w, chart.end, anchor, L, B)
    BY <1>5, CyclesCover
  <2> HIDE DEF c
  <2>2. /\ Apart(c.available) /\ Apart(c.windows) /\ c.windows # <<>> /\ Head(c.windows).start = anchor
        /\ Held(c.available) \subseteq Held(w)
        /\ \A t \in Held(c.windows) : anchor <= t /\ t < chart.end
        /\ \A k \in Nat : Held(c.available) \cap CycleOf(anchor, L, k)
                            = FirstOf(Held(w) \cap CycleOf(anchor, L, k), B)
    BY <2>1 DEF CyclesSo
  <2>3. Held(c.windows) \subseteq TicksAt(chart)
    BY <1>5, <2>2, ChartNumbers DEF Held
  <2>4. /\ s.coverage = Cardinality(Held(s.available)) \div Grain
        /\ s.idle = Cardinality(Held(s.windows) \ Held(w)) \div Grain
    BY <1>3, <2>2
  <2> HIDE DEF L, B
  <2> QED
    BY <1>1, <2>2, <2>3, <2>4 DEF Counts, s, L, B
<1> QED
  BY <1>4, <1>5

-----------------------------------------------------------------------------
(***************************************************************************)
(* The answer to a preview.                                                *)
(***************************************************************************)

LEMMA AskedRun ==
  ASSUME Answered, Previewed
  PROVE  /\ Plans(Cfg, Day) /\ Cfg \in DraftConfig /\ IsDate(Day) /\ ValidConfig(Cfg)
         /\ answer.run = Run(Cfg, Day, Chart) /\ IsChart(Chart)
<1>1. Plans(Cfg, Day) /\ Cfg \in DraftConfig /\ IsDate(Day) /\ ValidConfig(Cfg)
  BY AskedPlans, AskedSchedules DEF Previewed, Planned
<1>2. answer.run = Run(Cfg, Day, Chart)
  <2> DEFINE c == Drafted(question.cfg)
  <2>1. question.kind = "preview" /\ answer # Unanswered /\ answer.valid /\ ~answer.fails
    BY DEF Previewed, Planned, Valid
  <2>2. answer = Preview(c, Day, Chart)
    BY <2>1 DEF Answered, Day, Chart
  <2> HIDE DEF c
  <2>3. /\ answer.cfg = c /\ answer.valid = ValidConfig(c) /\ answer.fails = PlanFails(c)
        /\ answer.run = IF ValidConfig(c) /\ ~PlanFails(c) THEN Run(c, Day, Chart) ELSE <<>>
    BY <2>2 DEF Preview
  <2> QED
    BY <2>1, <2>3 DEF Cfg
<1>3. IsChart(Chart)
  <2>1. question \in ScheduleQuestions /\ question.kind = "preview"
    BY QuestionsAssumption DEF Answered, Previewed, Planned, Valid
  <2> QED
    BY <2>1, QuestionsAssumption DEF Chart
<1> QED
  BY <1>1, <1>2, <1>3

LEMMA TicksHeld ==
  ASSUME NEW is, Apart(is), Held(is) \subseteq TicksAt(Chart), IsChart(Chart)
  PROVE  ChartedIn(is) = Held(is)
<1>1. DOMAIN is = 1 .. Len(is) /\ \A k \in 1 .. Len(is) : is[k].start \in Nat /\ is[k].end \in Nat
  BY ApartNumbers DEF Apart
<1>2. Charted = TicksAt(Chart) /\ \A t : t \in Charted => t \in Int
  BY ChartNumbers DEF Charted, TicksAt, Chart
<1>3. \A t \in Charted : (\E k \in 1 .. Len(is) : is[k].start <= t /\ t < is[k].end) => t \in Nat
  BY <1>1, <1>2
<1> QED
  BY <1>1, <1>2, <1>3 DEF ChartedIn, Held

\* What the properties take for work is what the simulator resolves.
LEMMA AskedWork ==
  ASSUME Answered, Previewed
  PROVE  /\ answer.run.work = Work(Cfg, Day, Chart) /\ Apart(Work(Cfg, Day, Chart))
         /\ Held(Work(Cfg, Day, Chart)) \subseteq TicksAt(Chart)
         /\ Held(Work(Cfg, Day, Chart)) \subseteq TicksOf(Day)
         /\ WorkTicks = Held(Work(Cfg, Day, Chart))
<1> DEFINE w == Work(Cfg, Day, Chart)
<1>1. /\ Cfg \in DraftConfig /\ IsDate(Day) /\ ValidConfig(Cfg) /\ answer.run = Run(Cfg, Day, Chart)
      /\ IsChart(Chart)
  BY AskedRun
<1>2. answer.run.work = w
  BY <1>1 DEF Run
<1>3. /\ Apart(w) /\ Held(w) \subseteq TicksAt(Chart) /\ Held(w) \subseteq TicksOf(Day)
      /\ Once(Day) /\ DayMinutes - 1 \in Shown(Day) => \A t \in TicksOf(Day) \cap TicksAt(Chart) :
           t \in Held(w) <=> Cfg.workday /\ InPeriods(Day[1 + (t \div Grain)], Cfg.work)
  BY <1>1, WorkOfDate
<1> HIDE DEF w
<1>4. Ticks = TicksOf(Day) /\ Charted = TicksAt(Chart)
  BY DEF Ticks, TicksOf, Charted, TicksAt, Chart
<1>5. WorkTicks = Held(w)
  <2>1. CASE Folded \/ DayMinutes - 1 \notin Shown(Day)
    <3>1. WorkTicks = ChartedIn(w)
      BY <1>2, <2>1 DEF WorkTicks
    <3> QED
      BY <1>1, <1>3, <3>1, TicksHeld
  <2>2. CASE ~(Folded \/ DayMinutes - 1 \notin Shown(Day))
    <3>1. Once(Day) /\ DayMinutes - 1 \in Shown(Day)
      BY <2>2 DEF Folded, Once
    <3>2. WorkTicks = {t \in Ticks \cap Charted : Cfg.workday /\ InPeriods(Day[1 + (t \div Grain)], Cfg.work)}
      BY <2>2 DEF WorkTicks, WallAt
    <3> QED
      BY <1>3, <1>4, <3>1, <3>2
  <2> QED
    BY <2>1, <2>2
<1> QED
  BY <1>2, <1>3, <1>5 DEF w

\* The metrics of both strategies count the work of the date.
LEMMA AskedMetrics ==
  ASSUME Answered, Previewed,
         NEW s \in {answer.run.baseline, answer.run.scheduled}
  PROVE  /\ Counts(s, Work(Cfg, Day, Chart), Cfg, Chart)
         /\ s.timeline = StrategyTimeline(Chart, Work(Cfg, Day, Chart), s.available)
<1> DEFINE w == Work(Cfg, Day, Chart)
           plan == PlanDay(Cfg, Day)
           base == IF w = <<>> THEN 0 ELSE Head(w).start
           scheduled == IF w = <<>> THEN 0 ELSE ScheduledAnchor(w, plan, Chart)
<1>1. /\ Plans(Cfg, Day) /\ Cfg \in DraftConfig /\ IsDate(Day) /\ ValidConfig(Cfg)
      /\ answer.run = Run(Cfg, Day, Chart) /\ IsChart(Chart)
  BY AskedRun
<1>2. Apart(w) /\ Held(w) \subseteq TicksAt(Chart)
  BY AskedWork
<1>3. /\ answer.run.baseline = Metrics(Cfg, Chart, w, base)
      /\ answer.run.scheduled = Metrics(Cfg, Chart, w, scheduled)
  BY <1>1 DEF Run
<1>4. w # <<>> => Head(w).start \in Nat /\ Chart.start <= Head(w).start
  BY <1>1, <1>2, ApartEnds, ChartNumbers
<1>5. w # <<>> =>
        /\ ScheduledAnchor(w, plan, Chart) \in Nat
        /\ Chart.start <= ScheduledAnchor(w, plan, Chart)
        /\ ScheduledAnchor(w, plan, Chart) <= Head(w).start
  BY <1>1, <1>2, <1>4, AnchorOfPlan
<1> HIDE DEF w, plan
<1>6. /\ base \in Nat /\ (w # <<>> => Chart.start <= base /\ base <= Head(w).start)
      /\ scheduled \in Nat /\ (w # <<>> => Chart.start <= scheduled /\ scheduled <= Head(w).start)
  BY <1>4, <1>5
<1> HIDE DEF base, scheduled
<1>7. PICK anchor \in Nat : /\ s = Metrics(Cfg, Chart, w, anchor)
                            /\ w # <<>> => Chart.start <= anchor /\ anchor <= Head(w).start
  BY <1>3, <1>6
<1> DEFINE cfg == Cfg
           chart == Chart
<1>8. /\ cfg \in DraftConfig /\ IsChart(chart) /\ ValidConfig(cfg) /\ Held(w) \subseteq TicksAt(chart)
      /\ s = Metrics(cfg, chart, w, anchor)
      /\ w # <<>> => chart.start <= anchor /\ anchor <= Head(w).start
  BY <1>1, <1>2, <1>7
<1> HIDE DEF cfg, chart
<1>9. Counts(s, w, cfg, chart)
  <2>1. Counts(Metrics(cfg, chart, w, anchor), w, cfg, chart)
    BY <1>2, <1>7, <1>8, MetricsCount
  <2> QED
    BY <1>8, <2>1
<1>10. s.timeline = StrategyTimeline(Chart, w, s.available)
  BY <1>7 DEF Metrics
<1> QED
  BY <1>9, <1>10 DEF cfg, chart, w

\* Within every cycle the first work of one budget is covered and nothing else,
\* and the minutes reported are those of the ticks (Run, cycleAvailability).
THEOREM CoverageCounted == Spec => []CoverageByCycle
<1>1. Answered => CoverageByCycle
  <2> SUFFICES ASSUME Answered, Previewed, NEW s \in {answer.run.baseline, answer.run.scheduled}
               PROVE
                 LET covered == ChartedIn(s.available)
                     anchor == IF s.windows = <<>> THEN 0 ELSE Head(s.windows).start
                     InCycle(t, k) == anchor + k * Grain * Cfg.cycle <= t /\ t < anchor + (k + 1) * Grain * Cfg.cycle
                     work == WorkTicks
                 IN /\ \A k \in 0 .. Len(Day) :
                         LET mine == {t \in work : InCycle(t, k)}
                         IN {t \in covered : InCycle(t, k)} =
                              {t \in mine : Cardinality({u \in mine : u < t}) < Grain * Cfg.budget}
                    /\ covered \subseteq work
                    /\ s.coverage = Cardinality(covered) \div Grain
                    /\ s.idle = Cardinality(ChartedIn(s.windows) \ work) \div Grain
    BY DEF CoverageByCycle
  <2> DEFINE w == Work(Cfg, Day, Chart)
             covered == ChartedIn(s.available)
             anchor == IF s.windows = <<>> THEN 0 ELSE Head(s.windows).start
             InCycle(t, k) == anchor + k * Grain * Cfg.cycle <= t /\ t < anchor + (k + 1) * Grain * Cfg.cycle
             work == WorkTicks
             L == Grain * Cfg.cycle
             B == Grain * Cfg.budget
  <2>1. IsDate(Day) /\ Cfg \in DraftConfig /\ ValidConfig(Cfg) /\ IsChart(Chart)
    BY AskedRun
  <2>2. Apart(w) /\ Held(w) \subseteq TicksAt(Chart) /\ work = Held(w)
    BY AskedWork
  <2>3. Counts(s, w, Cfg, Chart)
    BY AskedMetrics
  <2> HIDE DEF w, work
  <2>4. /\ Apart(s.available) /\ Apart(s.windows) /\ Held(s.available) \subseteq Held(w)
        /\ Held(s.windows) \subseteq TicksAt(Chart)
        /\ \A k \in Nat : Held(s.available) \cap CycleOf(anchor, L, k)
                            = FirstOf(Held(w) \cap CycleOf(anchor, L, k), B)
        /\ s.coverage = Cardinality(Held(s.available)) \div Grain
        /\ s.idle = Cardinality(Held(s.windows) \ Held(w)) \div Grain
    BY <2>3 DEF Counts
  <2>5. covered = Held(s.available) /\ ChartedIn(s.windows) = Held(s.windows)
    <3>1. Held(s.available) \subseteq TicksAt(Chart)
      BY <2>2, <2>4
    <3> QED
      BY <2>1, <2>4, <3>1, TicksHeld
  <2>6. Len(Day) \in Nat /\ Grain \in Nat /\ Cfg.cycle \in Int
    BY <2>1, DateNumbers DEF DraftConfig
  <2> HIDE DEF covered, anchor
  <2>7. ASSUME NEW k \in 0 .. Len(Day)
        PROVE  LET mine == {t \in work : InCycle(t, k)}
               IN {t \in covered : InCycle(t, k)} =
                    {t \in mine : Cardinality({u \in mine : u < t}) < Grain * Cfg.budget}
    <3> DEFINE mine == {t \in work : InCycle(t, k)}
    <3>1. k \in Nat
      BY <2>6
    <3>2. k * Grain * Cfg.cycle = k * L /\ (k + 1) * Grain * Cfg.cycle = (k + 1) * L
      <4> DEFINE c == Cfg.cycle
      <4>1. c \in Int /\ k \in Int /\ Grain \in Int
        BY <2>6, <3>1
      <4> HIDE DEF c
      <4>2. k * Grain * c = k * (Grain * c) /\ (k + 1) * Grain * c = (k + 1) * (Grain * c)
        BY <4>1
      <4> QED
        BY <4>2 DEF c
    <3> HIDE DEF L
    <3>3. \A t \in Nat : InCycle(t, k) <=> t \in CycleOf(anchor, L, k)
      BY <3>2 DEF CycleOf
    <3> HIDE DEF InCycle
    <3>4. mine = Held(w) \cap CycleOf(anchor, L, k)
      BY <2>2, <3>3 DEF Held, CycleOf
    <3>5. {t \in covered : InCycle(t, k)} = Held(s.available) \cap CycleOf(anchor, L, k)
      BY <2>5, <3>3 DEF Held, CycleOf
    <3> HIDE DEF mine
    <3>6. {t \in covered : InCycle(t, k)} = FirstOf(mine, B)
      BY <2>4, <3>1, <3>4, <3>5
    <3> QED
      BY <3>6 DEF FirstOf, mine
  <2>8. covered \subseteq work
    BY <2>2, <2>4, <2>5
  <2>9. s.coverage = Cardinality(covered) \div Grain
    BY <2>4, <2>5
  <2>10. s.idle = Cardinality(ChartedIn(s.windows) \ work) \div Grain
    BY <2>2, <2>4, <2>5
  <2> QED
    BY <2>7, <2>8, <2>9, <2>10 DEF covered, anchor, work
<1> QED
  BY <1>1, AnswersComputed, PTL

-----------------------------------------------------------------------------
(***************************************************************************)
(* The pieces of a chart.                                                  *)
(***************************************************************************)

\* b cuts the chart from lo to n at the instants of I.
Cuts(b, I, lo, n) ==
  /\ b \in Seq(Int) /\ Len(b) \in Nat /\ Len(b) >= 2 /\ b[1] = lo /\ b[Len(b)] = n
  /\ \A k \in 1 .. Len(b) : b[k] \in I /\ b[k] \in Int
  /\ \A k \in 1 .. Len(b) - 1 : b[k] < b[k + 1] /\ \A x \in I : x <= b[k] \/ b[k + 1] <= x
  /\ \A x \in I : \E k \in 1 .. Len(b) : b[k] = x
  /\ \A k, l \in 1 .. Len(b) : k < l => b[k] < b[l]

LEMMA BoundariesCut ==
  ASSUME NEW I \in SUBSET Int, NEW lo \in Int, NEW n \in Int, lo < n, lo \in I, n \in I,
         \A x \in I : lo <= x /\ x <= n
  PROVE  Cuts(Boundaries(I), I, lo, n)
<1> DEFINE R == {p \in I \X I : p[1] < p[2]}
           b == Boundaries(I)
           l == Len(b)
<1>1. IsFiniteSet(I)
  <2>1. I \subseteq lo .. n /\ IsFiniteSet(lo .. n)
    BY FS_Interval
  <2> QED
    BY <2>1, FS_Subset
<1>2. \A x, y \in I : <<x, y>> \in R <=> x < y
  OBVIOUS
<1> HIDE DEF R
<1>3. InLine(I, R)
  BY <1>2 DEF InLine
<1>4. Lists(b, I, R)
  <2>1. b = InOrder(I, R)
    BY DEF Boundaries, R
  <2>2. Lists(InOrder(I, R), I, R)
    BY <1>1, <1>3, OrderLists
  <2> HIDE DEF b
  <2> QED
    BY <2>1, <2>2
<1> HIDE DEF b
<1>5. /\ b \in Seq(I) /\ l \in Nat
      /\ \A x \in I : \E k \in 1 .. l : b[k] = x
      /\ \A j, k \in 1 .. l : j < k => <<b[j], b[k]>> \in R
  BY <1>4 DEF Lists
<1>6. b \in Seq(Int) /\ \A k \in 1 .. l : b[k] \in I /\ b[k] \in Int
  <2>1. \A k \in 1 .. l : b[k] \in I
    BY <1>5
  <2>2. \A k \in 1 .. l : b[k] \in Int
    BY <2>1
  <2>3. b = [k \in 1 .. l |-> b[k]]
    BY <1>5
  <2> HIDE DEF l
  <2>4. b \in Seq(Int)
    BY <1>5, <2>2, <2>3
  <2> QED
    BY <2>1, <2>2, <2>4
<1>7. \A j, k \in 1 .. l : j < k => b[j] < b[k]
  <2> SUFFICES ASSUME NEW j \in 1 .. l, NEW k \in 1 .. l, j < k PROVE b[j] < b[k]
    OBVIOUS
  <2>1. b[j] \in I /\ b[k] \in I /\ <<b[j], b[k]>> \in R
    BY <1>5, <1>6
  <2> QED
    BY <1>2, <2>1
<1> HIDE DEF l
<1>8. PICK first \in 1 .. l : b[first] = lo
  BY <1>5
<1>9. PICK last \in 1 .. l : b[last] = n
  BY <1>5
<1>10. first = 1 /\ last = l /\ l >= 2
  <2>1. first = 1
    <3>1. 1 \in 1 .. l /\ (1 < first \/ first = 1)
      BY <1>5
    <3>2. b[1] \in Int /\ lo <= b[1] /\ (1 < first => b[1] < lo)
      BY <1>6, <1>7, <1>8, <3>1
    <3> QED
      BY <3>1, <3>2
  <2>2. last = l
    <3>1. l \in 1 .. l /\ (last < l \/ last = l)
      BY <1>5
    <3>2. b[l] \in Int /\ b[l] <= n /\ (last < l => n < b[l])
      BY <1>6, <1>7, <1>9, <3>1
    <3> QED
      BY <3>1, <3>2
  <2>3. first # last
    BY <1>8, <1>9
  <2> QED
    BY <1>5, <2>1, <2>2, <2>3
<1>11. ASSUME NEW k \in 1 .. l - 1
       PROVE  b[k] < b[k + 1] /\ \A x \in I : x <= b[k] \/ b[k + 1] <= x
  <2>1. k \in 1 .. l /\ k + 1 \in 1 .. l /\ k < k + 1
    BY <1>5
  <2>2. ASSUME NEW x \in I PROVE x <= b[k] \/ b[k + 1] <= x
    <3>1. PICK j \in 1 .. l : b[j] = x
      BY <1>5
    <3>2. j = k \/ j < k \/ j = k + 1 \/ k + 1 < j
      BY <2>1
    <3>3. b[j] \in Int /\ b[k] \in Int /\ b[k + 1] \in Int
      BY <1>6, <2>1
    <3>4. (j < k => b[j] < b[k]) /\ (k + 1 < j => b[k + 1] < b[j])
      BY <1>7, <2>1
    <3> QED
      BY <3>1, <3>2, <3>3, <3>4
  <2> QED
    BY <1>7, <2>1, <2>2
<1> QED
  BY <1>5, <1>6, <1>7, <1>8, <1>9, <1>10, <1>11 DEF Cuts, b, l

LEMMA BoundsWithin ==
  ASSUME NEW is, Apart(is), NEW lo \in Int, NEW n \in Int, \A t \in Held(is) : lo <= t /\ t < n
  PROVE  Bounds(is) \in SUBSET Int /\ \A x \in Bounds(is) : lo <= x /\ x <= n
<1>1. is \in Seq(Span) /\ Len(is) \in Nat /\ DOMAIN is = 1 .. Len(is)
  BY DEF Apart
<1>2. ASSUME NEW k \in 1 .. Len(is)
      PROVE  /\ is[k].start \in Int /\ lo <= is[k].start /\ is[k].start <= n
             /\ is[k].end \in Int /\ lo <= is[k].end /\ is[k].end <= n
  <2> DEFINE a == is[k].start
             e == is[k].end
  <2>1. a \in Nat /\ e \in Nat /\ a < e
    BY <1>1, ApartNumbers DEF Apart
  <2> HIDE DEF a, e
  <2>2. e - 1 \in Nat /\ a <= e - 1 /\ e - 1 < e
    BY <2>1
  <2>3. e - 1 \in Held(is) /\ a \in Held(is)
    BY <2>1, <2>2 DEF Held, a, e
  <2>4. e - 1 < n /\ lo <= a
    BY <2>3
  <2>5. lo <= a /\ a <= n /\ lo <= e /\ e <= n
    BY <2>1, <2>2, <2>4
  <2> QED
    BY <2>1, <2>5 DEF a, e
<1> QED
  BY <1>1, <1>2 DEF Bounds

LEMMA InstantHeld ==
  ASSUME NEW is, Apart(is), NEW t \in Int
  PROVE  ContainsInstant(is, t) <=> t \in Held(is)
<1>1. DOMAIN is = 1 .. Len(is) /\ \A k \in 1 .. Len(is) : is[k].start \in Nat
  BY ApartNumbers DEF Apart
<1>2. \A k \in 1 .. Len(is) : is[k].start <= t => t \in Nat
  BY <1>1
<1> QED
  BY <1>1, <1>2 DEF ContainsInstant, Held

\* A piece lies within an interval or outside it.
LEMMA PieceAlike ==
  ASSUME NEW b, NEW I, NEW lo, NEW n, Cuts(b, I, lo, n), NEW k \in 1 .. Len(b) - 1,
         NEW is, Apart(is), Bounds(is) \subseteq I,
         NEW t \in Int, b[k] <= t, t < b[k + 1],
         NEW u \in Int, b[k] <= u, u < b[k + 1]
  PROVE  /\ ContainsInstant(is, t) => ContainsInstant(is, u)
         /\ (is # <<>> /\ Head(is).start < t /\ t < Last(is).end /\ ~ContainsInstant(is, u))
              => Head(is).start < u /\ u < Last(is).end
<1>1. /\ is \in Seq(Span) /\ Len(is) \in Nat /\ DOMAIN is = 1 .. Len(is)
      /\ \A j \in 1 .. Len(is) : is[j].start \in Nat /\ is[j].end \in Nat /\ is[j].start < is[j].end
  BY ApartNumbers DEF Apart
<1> DEFINE x == b[k]
           y == b[k + 1]
<1>2. /\ x \in Int /\ y \in Int /\ x <= t /\ t < y /\ x <= u /\ u < y
      /\ \A z \in I : z <= x \/ y <= z
  <2>1. Len(b) \in Nat /\ k \in 1 .. Len(b) /\ k + 1 \in 1 .. Len(b)
    BY DEF Cuts
  <2> QED
    BY <2>1 DEF Cuts
<1> HIDE DEF x, y
<1>3. ASSUME NEW j \in 1 .. Len(is)
      PROVE  /\ is[j].start <= t => is[j].start <= u
             /\ t < is[j].end => u < is[j].end
  <2>1. is[j].start \in I /\ is[j].end \in I
    BY <1>1 DEF Bounds
  <2>2. is[j].start \in Nat /\ is[j].end \in Nat
    BY <1>1
  <2>3. (is[j].start <= x \/ y <= is[j].start) /\ (is[j].end <= x \/ y <= is[j].end)
    BY <1>2, <2>1
  <2> DEFINE s == is[j].start
             e == is[j].end
  <2>4. s \in Int /\ e \in Int /\ (s <= x \/ y <= s) /\ (e <= x \/ y <= e)
    BY <2>2, <2>3
  <2> HIDE DEF s, e
  <2>5. s <= t => s <= u
    BY <1>2, <2>4
  <2>6. t < e => u < e
    BY <1>2, <2>4
  <2> QED
    BY <2>5, <2>6 DEF s, e
<1>4. ContainsInstant(is, t) => ContainsInstant(is, u)
  BY <1>1, <1>3 DEF ContainsInstant
<1>5. ASSUME is # <<>>, Head(is).start < t, t < Last(is).end, ~ContainsInstant(is, u)
      PROVE  Head(is).start < u /\ u < Last(is).end
  <2>1. 1 \in 1 .. Len(is) /\ Len(is) \in 1 .. Len(is) /\ Head(is) = is[1] /\ Last(is) = is[Len(is)]
    BY <1>1, <1>5 DEF Last
  <2>2. is[1].start \in Nat /\ is[1].start < is[1].end
    BY <1>1, <2>1
  <2>3. is[1].start <= u /\ u < is[Len(is)].end
    BY <1>3, <1>5, <2>1, <2>2
  <2>4. u # is[1].start
    BY <1>1, <1>5, <2>1, <2>2 DEF ContainsInstant
  <2> QED
    BY <2>1, <2>2, <2>3, <2>4
<1> QED
  BY <1>4, <1>5

LEMMA MiddleInside ==
  ASSUME NEW x \in Int, NEW y \in Int, x < y
  PROVE  Middle(x, y) \in Int /\ x <= Middle(x, y) /\ Middle(x, y) < y
<1> DEFINE d == y - x
           h == d \div 2
<1>1. d \in Nat /\ d > 0 /\ x + d = y
  OBVIOUS
<1> HIDE DEF d
<1>2. h \in Nat /\ h < d
  BY <1>1
<1> QED
  BY <1>1, <1>2 DEF Middle, d

-----------------------------------------------------------------------------
(***************************************************************************)
(* The strategy's chart.                                                   *)
(***************************************************************************)

Segment == [kind : {"available", "limited", "break", "idle"}, start : Int, end : Int]

LEMMA KindType ==
  ASSUME NEW work, NEW available, NEW t
  PROVE  KindAt(work, available, t) \in {"available", "limited", "break", "idle"}
BY DEF KindAt

\* The chart so far: it reaches from lo to e, no two
\* neighbours alike, and each segment is of the kind of all its instants.
LineSo(line, work, available, lo, e) ==
  /\ line \in Seq(Segment)
  /\ line = <<>> => e = lo
  /\ line # <<>> => line[1].start = lo /\ line[Len(line)].end = e
  /\ \A i \in 1 .. Len(line) : \A t \in Int :
       line[i].start <= t /\ t < line[i].end => line[i].kind = KindAt(work, available, t)
  /\ \A i \in 1 .. Len(line) :
       i > 1 => line[i].start = line[i - 1].end /\ line[i].kind # line[i - 1].kind

\* A chart whose last segment is a new one.
LEMMA LineAppended ==
  ASSUME NEW work, NEW available, NEW lo, NEW s \in Int, NEW line, LineSo(line, work, available, lo, s),
         NEW p \in Segment, p.start = s,
         line # <<>> => line[Len(line)].kind # p.kind,
         \A t \in Int : s <= t /\ t < p.end => p.kind = KindAt(work, available, t)
  PROVE  LineSo(Append(line, p), work, available, lo, p.end)
<1> DEFINE l == Len(line)
           js == Append(line, p)
<1>1. line \in Seq(Segment) /\ l \in Nat
  BY DEF LineSo
<1>2. /\ js \in Seq(Segment) /\ Len(js) = l + 1 /\ js[l + 1] = p
      /\ \A i \in 1 .. l : js[i] = line[i]
  BY <1>1
<1>3. (line = <<>>) = (l = 0)
  BY <1>1
<1> HIDE DEF l, js
<1>4. js # <<>> /\ js[Len(js)].end = p.end
  BY <1>1, <1>2
<1>5. js[1].start = lo
  <2>1. CASE l = 0
    BY <1>2, <1>3, <2>1 DEF LineSo
  <2>2. CASE l # 0
    <3>1. 1 \in 1 .. l
      BY <1>1, <2>2
    <3> QED
      BY <1>2, <1>3, <2>2, <3>1 DEF LineSo
  <2> QED
    BY <2>1, <2>2
<1>6. \A i : i \in 1 .. l + 1 <=> i = l + 1 \/ i \in 1 .. l
  BY <1>1
<1>7. ASSUME NEW i \in 1 .. l + 1, NEW t \in Int, js[i].start <= t, t < js[i].end
      PROVE  js[i].kind = KindAt(work, available, t)
  <2>1. CASE i = l + 1
    BY <1>2, <1>7, <2>1
  <2>2. CASE i \in 1 .. l
    BY <1>2, <1>7, <2>2 DEF LineSo, l
  <2> QED
    BY <1>6, <2>1, <2>2
<1>8. ASSUME NEW i \in 1 .. l + 1, i > 1
      PROVE  js[i].start = js[i - 1].end /\ js[i].kind # js[i - 1].kind
  <2>1. i - 1 \in 1 .. l
    BY <1>1, <1>8
  <2>2. js[i - 1] = line[i - 1]
    BY <1>2, <2>1
  <2>3. CASE i = l + 1
    <3>1. i - 1 = l /\ l # 0
      BY <1>1, <2>1, <2>3
    <3> QED
      BY <1>2, <1>3, <2>2, <2>3, <3>1 DEF LineSo, l
  <2>4. CASE i \in 1 .. l
    BY <1>2, <1>8, <2>2, <2>4 DEF LineSo, l
  <2> QED
    BY <1>6, <2>3, <2>4
<1> QED
  BY <1>2, <1>4, <1>5, <1>7, <1>8 DEF LineSo, js

\* A chart whose last segment is prolonged.
LEMMA LineProlonged ==
  ASSUME NEW work, NEW available, NEW lo, NEW s \in Int, NEW line, LineSo(line, work, available, lo, s),
         line # <<>>, NEW e \in Int,
         \A t \in Int : s <= t /\ t < e => line[Len(line)].kind = KindAt(work, available, t)
  PROVE  LineSo([line EXCEPT ![Len(line)].end = e], work, available, lo, e)
<1> DEFINE l == Len(line)
           js == [line EXCEPT ![l].end = e]
<1>1. line \in Seq(Segment) /\ l \in Nat \ {0} /\ l \in 1 .. l
  BY DEF LineSo
<1>2. line[l] \in Segment
  BY <1>1
<1> DEFINE p == [line[l] EXCEPT !.end = e]
<1>3. p \in Segment /\ p.end = e /\ p.start = line[l].start /\ p.kind = line[l].kind
  BY <1>2 DEF Segment
<1>4. js = [line EXCEPT ![l] = p]
  OBVIOUS
<1> HIDE DEF p
<1>5. /\ js \in Seq(Segment) /\ Len(js) = l /\ js[l] = p
      /\ \A i \in 1 .. l : i # l => js[i] = line[i]
  BY <1>1, <1>3, <1>4
<1> HIDE DEF js, l
<1>6. js # <<>> /\ js[Len(js)].end = e
  BY <1>1, <1>3, <1>5
<1>7. /\ \A i \in 1 .. l : js[i].start = line[i].start /\ js[i].kind = line[i].kind
      /\ \A i \in 1 .. l : i # l => js[i].end = line[i].end
  BY <1>3, <1>5
<1>8. js[1].start = lo
  <2>1. 1 \in 1 .. l
    BY <1>1
  <2> QED
    BY <1>7, <2>1 DEF LineSo
<1>9. ASSUME NEW i \in 1 .. l, NEW t \in Int, js[i].start <= t, t < js[i].end
      PROVE  js[i].kind = KindAt(work, available, t)
  <2>1. CASE i # l
    BY <1>7, <1>9, <2>1 DEF LineSo, l
  <2>2. CASE i = l
    <3>1. line[l].end = s /\ js[l].end = e
      BY <1>3, <1>5 DEF LineSo, l
    <3>2. CASE t < s
      BY <1>7, <1>9, <2>2, <3>1, <3>2 DEF LineSo, l
    <3>3. CASE ~(t < s)
      BY <1>7, <1>9, <2>2, <3>1, <3>3 DEF l
    <3> QED
      BY <3>2, <3>3
  <2> QED
    BY <2>1, <2>2
<1>10. ASSUME NEW i \in 1 .. l, i > 1
       PROVE  js[i].start = js[i - 1].end /\ js[i].kind # js[i - 1].kind
  <2>1. i - 1 \in 1 .. l /\ i - 1 # l
    BY <1>1, <1>10
  <2>2. line[i].start = line[i - 1].end /\ line[i].kind # line[i - 1].kind
    BY <1>10 DEF LineSo, l
  <2> QED
    BY <1>7, <2>1, <2>2
<1> QED
  BY <1>5, <1>6, <1>8, <1>9, <1>10 DEF LineSo, js, l

LEMMA ContinueLine ==
  ASSUME NEW work, NEW available, NEW lo, NEW s \in Int, NEW e \in Int,
         NEW line, LineSo(line, work, available, lo, s),
         NEW kind \in {"available", "limited", "break", "idle"},
         \A t \in Int : s <= t /\ t < e => kind = KindAt(work, available, t)
  PROVE  LineSo(Continue(line, kind, s, e), work, available, lo, e)
<1>1. Last(line) = line[Len(line)]
  BY DEF Last
<1>2. CASE line # <<>> /\ Last(line).kind = kind
  <2>1. Continue(line, kind, s, e) = [line EXCEPT ![Len(line)].end = e]
    BY <1>2 DEF Continue
  <2>2. line[Len(line)].kind = kind
    BY <1>1, <1>2
  <2>3. LineSo([line EXCEPT ![Len(line)].end = e], work, available, lo, e)
    BY <1>2, <2>2, LineProlonged
  <2> QED
    BY <2>1, <2>3
<1>3. CASE ~(line # <<>> /\ Last(line).kind = kind)
  <2> DEFINE p == [kind |-> kind, start |-> s, end |-> e]
  <2>1. Continue(line, kind, s, e) = Append(line, p)
    BY <1>3 DEF Continue
  <2>2. p \in Segment /\ p.start = s /\ p.end = e /\ p.kind = kind
    BY DEF Segment
  <2>3. line # <<>> => line[Len(line)].kind # p.kind
    BY <1>1, <1>3, <2>2
  <2> HIDE DEF p
  <2>4. LineSo(Append(line, p), work, available, lo, p.end)
    BY <2>2, <2>3, LineAppended
  <2> QED
    BY <2>1, <2>2, <2>4
<1> QED
  BY <1>2, <1>3

LEMMA ContinueType ==
  ASSUME NEW line \in Seq(Segment), NEW kind \in {"available", "limited", "break", "idle"},
         NEW s \in Int, NEW e \in Int
  PROVE  Continue(line, kind, s, e) \in Seq(Segment)
<1>1. CASE line # <<>> /\ Last(line).kind = kind
  <2> DEFINE l == Len(line)
             p == [line[l] EXCEPT !.end = e]
  <2>1. l \in 1 .. l /\ line[l] \in Segment
    BY <1>1
  <2>2. p \in Segment
    BY <2>1 DEF Segment
  <2>3. Continue(line, kind, s, e) = [line EXCEPT ![l] = p]
    BY <1>1 DEF Continue
  <2> HIDE DEF p
  <2> QED
    BY <2>1, <2>2, <2>3
<1>2. CASE ~(line # <<>> /\ Last(line).kind = kind)
  <2>1. Continue(line, kind, s, e) = Append(line, [kind |-> kind, start |-> s, end |-> e])
    BY <1>2 DEF Continue
  <2>2. [kind |-> kind, start |-> s, end |-> e] \in Segment
    BY DEF Segment
  <2> QED
    BY <2>1, <2>2
<1> QED
  BY <1>1, <1>2

LEMMA SegmentsSteps ==
  ASSUME NEW b \in Seq(Int), Len(b) >= 1, NEW work, NEW available
  PROVE  /\ Segments(b, work, available)[0] = <<>>
         /\ \A k \in 1 .. Len(b) - 1 :
              Segments(b, work, available)[k]
                = Continue(Segments(b, work, available)[k - 1],
                           KindAt(work, available, Middle(b[k], b[k + 1])), b[k], b[k + 1])
<1> DEFINE n == Len(b) - 1
           S == Seq(Segment)
           Kind(k) == KindAt(work, available, Middle(b[k], b[k + 1]))
           step == [k \in 1 .. n |-> [line \in S |-> Continue(line, Kind(k), b[k], b[k + 1])]]
           Steps(f) == f = [k \in 0 .. n |->
                              IF k = 0 THEN <<>> ELSE Continue(f[k - 1], Kind(k), b[k], b[k + 1])]
<1>1. n \in Nat /\ <<>> \in S
  OBVIOUS
<1>2. \A k \in 1 .. n : b[k] \in Int /\ b[k + 1] \in Int
  <2> SUFFICES ASSUME NEW k \in 1 .. n PROVE b[k] \in Int /\ b[k + 1] \in Int
    OBVIOUS
  <2>1. k \in 1 .. Len(b) /\ k + 1 \in 1 .. Len(b)
    BY <1>1
  <2> QED
    BY <2>1
<1>3. \A k : Kind(k) \in {"available", "limited", "break", "idle"}
  BY KindType
<1> HIDE DEF Kind, n
<1>4. step \in [1 .. n -> [S -> S]]
  BY <1>2, <1>3, ContinueType
<1>5. PICK f \in [0 .. n -> S] : f[0] = <<>> /\ \A k \in 1 .. n : f[k] = step[k][f[k - 1]]
  <2> HIDE DEF step, S
  <2>1. HasRecursion(n, S, <<>>, step)
    BY <1>1, <1>4, RecursiveFunction
  <2> QED
    BY <2>1 DEF HasRecursion
<1> HIDE DEF S
<1>6. \A k \in 1 .. n : f[k] = Continue(f[k - 1], Kind(k), b[k], b[k + 1])
  <2> SUFFICES ASSUME NEW k \in 1 .. n PROVE f[k] = Continue(f[k - 1], Kind(k), b[k], b[k + 1])
    OBVIOUS
  <2>1. f[k - 1] \in S
    BY <1>1, <1>5
  <2> QED
    BY <1>5, <2>1
<1> HIDE DEF step
<1>7. Steps(f)
  <2>1. \A k \in 0 .. n : f[k] = IF k = 0 THEN <<>> ELSE Continue(f[k - 1], Kind(k), b[k], b[k + 1])
    <3> SUFFICES ASSUME NEW k \in 0 .. n, k # 0 PROVE f[k] = Continue(f[k - 1], Kind(k), b[k], b[k + 1])
      BY <1>5
    <3>1. k \in 1 .. n
      BY <1>1
    <3> QED
      BY <1>6, <3>1
  <2>2. f = [k \in 0 .. n |-> f[k]]
    BY <1>5
  <2> QED
    BY <2>1, <2>2
<1>8. Segments(b, work, available) = CHOOSE g : Steps(g)
  BY DEF Segments, Kind, n
<1> DEFINE g == Segments(b, work, available)
<1>9. Steps(g)
  <2> HIDE DEF Steps
  <2> QED
    BY <1>7, <1>8
<1>10. g[0] = <<>> /\ \A k \in 1 .. n : g[k] = Continue(g[k - 1], Kind(k), b[k], b[k + 1])
  <2> HIDE DEF g
  <2>1. 0 \in 0 .. n /\ \A k \in 1 .. n : k \in 0 .. n /\ k # 0
    BY <1>1
  <2> QED
    BY <1>9, <2>1
<1> QED
  BY <1>10 DEF Kind, n

\* The strategy's chart divides the date as its kinds say.
LEMMA StrategyLine ==
  ASSUME NEW chart, IsChart(chart), NEW lo, lo = chart.start, NEW n, n = chart.end,
         NEW work, Apart(work), \A t \in Held(work) : lo <= t /\ t < n,
         NEW available, Apart(available), \A t \in Held(available) : lo <= t /\ t < n
  PROVE  LineSo(StrategyTimeline(chart, work, available), work, available, lo, n)
<1> DEFINE I == {lo, n} \cup Bounds(work) \cup Bounds(available)
           b == Boundaries(I)
           last == Len(b) - 1
           g == Segments(b, work, available)
           T == {k \in 0 .. last : LineSo(g[k], work, available, lo, b[k + 1])}
<1>12. lo \in Int /\ n \in Int /\ lo < n
  BY ChartNumbers
<1>1. I \in SUBSET Int /\ lo \in I /\ n \in I /\ \A x \in I : lo <= x /\ x <= n
  <2>1. /\ Bounds(work) \in SUBSET Int /\ (\A x \in Bounds(work) : lo <= x /\ x <= n)
        /\ Bounds(available) \in SUBSET Int /\ (\A x \in Bounds(available) : lo <= x /\ x <= n)
    BY <1>12, BoundsWithin
  <2> QED
    BY <1>12, <2>1
<1>2. Bounds(work) \subseteq I /\ Bounds(available) \subseteq I
  OBVIOUS
<1>3. StrategyTimeline(chart, work, available) = g[last]
  BY DEF StrategyTimeline
<1> HIDE DEF I
<1>4. Cuts(b, I, lo, n)
  BY <1>1, <1>12, BoundariesCut
<1> HIDE DEF b
<1>5. /\ b \in Seq(Int) /\ Len(b) \in Nat /\ Len(b) >= 2 /\ last \in Nat /\ b[1] = lo /\ b[Len(b)] = n
      /\ \A k \in 1 .. last : b[k] \in Int /\ b[k + 1] \in Int /\ b[k] < b[k + 1]
  <2>1. /\ b \in Seq(Int) /\ Len(b) \in Nat /\ Len(b) >= 2 /\ b[1] = lo /\ b[Len(b)] = n
        /\ \A k \in 1 .. Len(b) : b[k] \in Int
        /\ \A k \in 1 .. Len(b) - 1 : b[k] < b[k + 1]
    BY <1>4 DEF Cuts
  <2>2. \A k \in 1 .. last : k \in 1 .. Len(b) /\ k + 1 \in 1 .. Len(b)
    BY <2>1
  <2> QED
    BY <2>1, <2>2
<1>6. /\ g[0] = <<>>
      /\ \A k \in 1 .. last :
           g[k] = Continue(g[k - 1], KindAt(work, available, Middle(b[k], b[k + 1])), b[k], b[k + 1])
  <2>1. b \in Seq(Int) /\ Len(b) >= 1
    BY <1>5
  <2> QED
    BY <2>1, SegmentsSteps
<1>7. ASSUME NEW k \in 1 .. last, NEW t \in Int, b[k] <= t, t < b[k + 1]
      PROVE  KindAt(work, available, Middle(b[k], b[k + 1])) = KindAt(work, available, t)
  <2> DEFINE m == Middle(b[k], b[k + 1])
  <2>1. m \in Int /\ b[k] <= m /\ m < b[k + 1]
    BY <1>5, MiddleInside
  <2> HIDE DEF m
  <2>2. /\ ContainsInstant(work, t) <=> ContainsInstant(work, m)
        /\ ContainsInstant(available, t) <=> ContainsInstant(available, m)
    BY <1>2, <1>4, <1>7, <2>1, PieceAlike
  <2>3. ASSUME ~ContainsInstant(work, t), ~ContainsInstant(work, m), work # <<>>
        PROVE  Head(work).start < t /\ t < Last(work).end
                 <=> Head(work).start < m /\ m < Last(work).end
    BY <1>2, <1>4, <1>7, <2>1, <2>3, PieceAlike
  <2>4. /\ Head(work).start < t <=> t > Head(work).start
        /\ Head(work).start < m <=> m > Head(work).start
    OBVIOUS
  <2>5. KindAt(work, available, m) = KindAt(work, available, t)
    BY <2>2, <2>3, <2>4 DEF KindAt
  <2> QED
    BY <2>5 DEF m
<1> HIDE DEF g, last
<1>8. 0 \in T
  <2>1. LineSo(<<>>, work, available, lo, lo)
    BY DEF LineSo
  <2>2. 0 \in 0 .. last /\ 0 + 1 = 1
    BY <1>5
  <2>3. LineSo(g[0], work, available, lo, b[0 + 1])
    BY <1>5, <1>6, <2>1, <2>2
  <2> QED
    BY <2>2, <2>3
<1>9. \A k \in 0 .. last - 1 : k \in T => k + 1 \in T
  <2> SUFFICES ASSUME NEW k \in 0 .. last - 1, k \in T PROVE k + 1 \in T
    OBVIOUS
  <2> DEFINE j == k + 1
             kind == KindAt(work, available, Middle(b[j], b[j + 1]))
  <2>1. j \in 1 .. last /\ j - 1 = k /\ j \in 0 .. last
    BY <1>5
  <2>2. LineSo(g[k], work, available, lo, b[j])
    OBVIOUS
  <2> HIDE DEF j, T
  <2>3. g[j] = Continue(g[k], kind, b[j], b[j + 1])
    BY <1>6, <2>1
  <2>4. kind \in {"available", "limited", "break", "idle"}
    BY KindType
  <2>5. \A t \in Int : b[j] <= t /\ t < b[j + 1] => kind = KindAt(work, available, t)
    BY <1>7, <2>1
  <2>6. b[j] \in Int /\ b[j + 1] \in Int
    BY <1>5, <2>1
  <2> HIDE DEF kind
  <2>7. LineSo(Continue(g[k], kind, b[j], b[j + 1]), work, available, lo, b[j + 1])
    BY <2>2, <2>4, <2>5, <2>6, ContinueLine
  <2>8. LineSo(g[j], work, available, lo, b[j + 1])
    BY <2>3, <2>7
  <2> QED
    BY <2>1, <2>8 DEF T, j
<1>10. last \in T
  <2> HIDE DEF T
  <2>1. 0 .. last \subseteq T
    BY <1>5, <1>8, <1>9, RangeInduction
  <2>2. last \in 0 .. last
    BY <1>5
  <2> QED
    BY <2>1, <2>2
<1>11. LineSo(g[last], work, available, lo, b[last + 1]) /\ b[last + 1] = n
  <2>1. last + 1 = Len(b)
    BY <1>5 DEF last
  <2> QED
    BY <1>5, <1>10, <2>1
<1> QED
  BY <1>3, <1>11

-----------------------------------------------------------------------------
(***************************************************************************)
(* The preheat chart.                                                      *)
(***************************************************************************)

Mark == [kind : {"preheat", "work", "idle"}, start : Int, end : Int, account : Int]

\* Occurrences that their accounts and slots tell apart.
Numbered(M) ==
  /\ IsFiniteSet(M)
  /\ \A o \in M : o.account \in Nat /\ o.slot \in Nat /\ o.plannedAt \in Nat
  /\ \A o, p \in M : o.account = p.account /\ o.slot = p.slot => o = p

\* Those planned at an instant.
PlannedAt(M, t) == {o \in M : o.plannedAt = t}

\* The markers at t, one for each of s.
MarkersOf(m, t, s) ==
  /\ m \in Seq(Mark) /\ Len(m) = Len(s) /\ Len(s) \in Nat
  /\ \A k \in 1 .. Len(s) : /\ m[k].kind = "preheat" /\ m[k].start = t /\ m[k].end = t
                            /\ m[k].account = s[k].account

LEMMA MarkersListed ==
  ASSUME NEW M, Numbered(M), NEW t \in Int
  PROVE  \E s : /\ Lists(s, PlannedAt(M, t), ByAccount(PlannedAt(M, t)))
                /\ MarkersOf(Markers(M, t), t, s)
<1> DEFINE here == PlannedAt(M, t)
           R == ByAccount(here)
           s == InOrder(here, R)
           m == Markers(M, t)
           Mk(k) == [kind |-> "preheat", start |-> t, end |-> t, account |-> s[k].account]
<1>1. /\ here \subseteq M
      /\ \A o \in here : o.account \in Nat /\ o.slot \in Nat
      /\ \A o, p \in here : o.account = p.account /\ o.slot = p.slot => o = p
  BY DEF PlannedAt, Numbered
<1>2. IsFiniteSet(here)
  BY <1>1, FS_Subset DEF Numbered
<1> HIDE DEF here
<1>3. \A o, p \in here : <<o, p>> \in R
        <=> o.account < p.account \/ (o.account = p.account /\ o.slot < p.slot)
  BY DEF ByAccount
<1> HIDE DEF R
<1>4. InLine(here, R)
  <2>1. \A o, p \in here : o = p \/ <<o, p>> \in R \/ <<p, o>> \in R
    <3> SUFFICES ASSUME NEW o \in here, NEW p \in here, ~(<<o, p>> \in R), ~(<<p, o>> \in R)
                 PROVE  o = p
      OBVIOUS
    <3>1. o.account = p.account /\ o.slot = p.slot
      BY <1>1, <1>3
    <3> QED
      BY <1>1, <3>1
  <2>2. \A o \in here : <<o, o>> \notin R
    BY <1>1, <1>3
  <2>3. \A o, p, q \in here : <<o, p>> \in R /\ <<p, q>> \in R => <<o, q>> \in R
    <3> SUFFICES ASSUME NEW o \in here, NEW p \in here, NEW q \in here,
                        <<o, p>> \in R, <<p, q>> \in R
                 PROVE  <<o, q>> \in R
      OBVIOUS
    <3> QED
      BY <1>1, <1>3
  <2> QED
    BY <2>1, <2>2, <2>3 DEF InLine
<1>5. Lists(s, here, R)
  BY <1>2, <1>4, OrderLists
<1> HIDE DEF s
<1>6. Len(s) \in Nat /\ \A k \in 1 .. Len(s) : s[k] \in here
  BY <1>5 DEF Lists
<1>7. m = [k \in 1 .. Len(s) |-> Mk(k)]
  BY DEF Markers, PlannedAt, s, R, here
<1>8. \A k \in 1 .. Len(s) : Mk(k) \in Mark
  BY <1>1, <1>6 DEF Mark
<1> HIDE DEF m
<1>9. m \in Seq(Mark) /\ Len(m) = Len(s) /\ \A k \in 1 .. Len(s) : m[k] = Mk(k)
  <2> HIDE DEF Mk
  <2> QED
    BY <1>6, <1>7, <1>8
<1>10. MarkersOf(m, t, s)
  <2>1. \A k : /\ Mk(k).kind = "preheat" /\ Mk(k).start = t /\ Mk(k).end = t
               /\ Mk(k).account = s[k].account
    OBVIOUS
  <2> HIDE DEF Mk
  <2>2. \A k \in 1 .. Len(s) : /\ m[k].kind = "preheat" /\ m[k].start = t /\ m[k].end = t
                               /\ m[k].account = s[k].account
    BY <1>9, <2>1
  <2> QED
    BY <1>6, <1>9, <2>2 DEF MarkersOf
<1> QED
  BY <1>5, <1>10 DEF m, here, R

\* A chart from a to e: its markers are due, its pieces are of work or outside
\* it.
ChartSo(line, marked, work, a, e) ==
  /\ line \in Seq(Mark)
  /\ line = <<>> => a = e
  /\ line # <<>> => line[1].start = a /\ line[Len(line)].end = e
  /\ \A i \in 1 .. Len(line) : i > 1 => line[i].start = line[i - 1].end
  /\ \A i \in 1 .. Len(line) : line[i].kind = "preheat" =>
       /\ line[i].end = line[i].start
       /\ \E o \in marked : o.account = line[i].account /\ o.plannedAt = line[i].start
  /\ \A i \in 1 .. Len(line) : line[i].kind # "preheat" =>
       \A t \in Int : line[i].start <= t /\ t < line[i].end =>
         (line[i].kind = "work" <=> ContainsInstant(work, t))

\* The places of a chart's markers.
Spots(line) == {i \in 1 .. Len(line) : line[i].kind = "preheat"}

\* The markers are those of the occurrences of M, one for each.
Marks(line, M, f) ==
  /\ f \in [Spots(line) -> M]
  /\ \A i, j \in Spots(line) : f[i] = f[j] => i = j
  /\ \A o \in M : \E i \in Spots(line) : f[i] = o
  /\ \A i \in Spots(line) : f[i].account = line[i].account /\ f[i].plannedAt = line[i].start

\* Two charts, one behind the other.
LEMMA ChartsJoined ==
  ASSUME NEW u \in Seq(Mark), NEW v \in Seq(Mark)
  PROVE  /\ u \o v \in Seq(Mark) /\ Len(u \o v) = Len(u) + Len(v)
         /\ Len(u) \in Nat /\ Len(v) \in Nat
         /\ \A i \in 1 .. Len(u) : (u \o v)[i] = u[i]
         /\ \A i \in 1 .. Len(v) : (u \o v)[Len(u) + i] = v[i]
         /\ \A i : i \in 1 .. Len(u \o v) <=> i \in 1 .. Len(u) \/ \E j \in 1 .. Len(v) : i = Len(u) + j
<1>1. /\ u \o v \in Seq(Mark) /\ Len(u \o v) = Len(u) + Len(v)
      /\ Len(u) \in Nat /\ Len(v) \in Nat
  OBVIOUS
<1>2. \A i \in 1 .. Len(u) : (u \o v)[i] = u[i]
  BY <1>1
<1>3. \A i \in 1 .. Len(v) : (u \o v)[Len(u) + i] = v[i]
  <2> SUFFICES ASSUME NEW i \in 1 .. Len(v) PROVE (u \o v)[Len(u) + i] = v[i]
    OBVIOUS
  <2>1. Len(u) + i \in 1 .. Len(u) + Len(v) /\ ~(Len(u) + i <= Len(u)) /\ (Len(u) + i) - Len(u) = i
    BY <1>1
  <2> QED
    BY <1>1, <2>1
<1>4. ASSUME NEW i
      PROVE  i \in 1 .. Len(u \o v) <=> i \in 1 .. Len(u) \/ \E j \in 1 .. Len(v) : i = Len(u) + j
  <2> DEFINE a == Len(u)
             c == Len(v)
  <2>1. a \in Nat /\ c \in Nat /\ Len(u \o v) = a + c
    BY <1>1
  <2> HIDE DEF a, c
  <2>2. ASSUME i \in 1 .. a + c, ~(i \in 1 .. a) PROVE \E j \in 1 .. c : i = a + j
    <3>1. i - a \in 1 .. c /\ i = a + (i - a)
      BY <2>1, <2>2
    <3> QED
      BY <3>1
  <2>3. ASSUME NEW j \in 1 .. c PROVE a + j \in 1 .. a + c
    BY <2>1
  <2>4. ASSUME i \in 1 .. a PROVE i \in 1 .. a + c
    BY <2>1, <2>4
  <2> QED
    BY <2>1, <2>2, <2>3, <2>4 DEF a, c
<1> QED
  BY <1>1, <1>2, <1>3, <1>4

LEMMA ChartContinued ==
  ASSUME NEW marked, NEW work, NEW a \in Int, NEW x \in Int, NEW e \in Int,
         NEW u, ChartSo(u, marked, work, a, x), NEW v, ChartSo(v, marked, work, x, e)
  PROVE  ChartSo(u \o v, marked, work, a, e)
<1> DEFINE l == Len(u)
           c == Len(v)
           js == u \o v
<1>1. u \in Seq(Mark) /\ v \in Seq(Mark)
  BY DEF ChartSo
<1>2. /\ js \in Seq(Mark) /\ Len(js) = l + c /\ l \in Nat /\ c \in Nat
      /\ \A i \in 1 .. l : js[i] = u[i]
      /\ \A i \in 1 .. c : js[l + i] = v[i]
      /\ \A i : i \in 1 .. Len(js) <=> i \in 1 .. l \/ \E j \in 1 .. c : i = l + j
  BY <1>1, ChartsJoined
<1>3. (u = <<>>) = (l = 0) /\ (v = <<>>) = (c = 0)
  BY <1>1
<1>4. (js = <<>>) = (l + c = 0)
  <2> HIDE DEF l, c, js
  <2> QED
    BY <1>2
<1> HIDE DEF js
<1>5. /\ l = 0 => a = x
      /\ l # 0 => u[1].start = a /\ u[l].end = x /\ 1 \in 1 .. l /\ l \in 1 .. l
      /\ c = 0 => x = e
      /\ c # 0 => v[1].start = x /\ v[c].end = e /\ 1 \in 1 .. c /\ c \in 1 .. c
  BY <1>2, <1>3 DEF ChartSo
<1> HIDE DEF l, c
<1>6. js = <<>> => a = e
  BY <1>2, <1>4, <1>5
<1>7. ASSUME js # <<>> PROVE js[1].start = a /\ js[Len(js)].end = e
  <2>1. js[1].start = a
    <3>1. CASE l # 0
      BY <1>2, <1>5, <3>1
    <3>2. CASE l = 0
      <4>1. c # 0 /\ l + 1 = 1
        BY <1>2, <1>4, <1>7, <3>2
      <4> QED
        BY <1>2, <1>5, <3>2, <4>1
    <3> QED
      BY <3>1, <3>2
  <2>2. js[l + c].end = e
    <3>1. CASE c # 0
      BY <1>2, <1>5, <3>1
    <3>2. CASE c = 0
      <4>1. l # 0 /\ l + c = l
        BY <1>2, <1>4, <1>7, <3>2
      <4> QED
        BY <1>2, <1>5, <3>2, <4>1
    <3> QED
      BY <3>1, <3>2
  <2> QED
    BY <1>2, <2>1, <2>2
<1>8. ASSUME NEW i \in 1 .. Len(js), i > 1 PROVE js[i].start = js[i - 1].end
  <2>1. CASE i \in 1 .. l
    <3>1. i - 1 \in 1 .. l
      BY <1>2, <1>8, <2>1
    <3>2. u[i].start = u[i - 1].end
      BY <1>8, <2>1 DEF ChartSo, l
    <3> QED
      BY <1>2, <2>1, <3>1, <3>2
  <2>2. ASSUME NEW j \in 1 .. c, i = l + j PROVE js[i].start = js[i - 1].end
    <3>1. CASE j = 1
      <4>1. i - 1 = l /\ l # 0 /\ c # 0
        BY <1>2, <1>8, <2>2, <3>1
      <4> QED
        BY <1>2, <1>5, <2>2, <3>1, <4>1
    <3>2. CASE j # 1
      <4>1. j > 1 /\ j - 1 \in 1 .. c /\ i - 1 = l + (j - 1)
        BY <1>2, <2>2, <3>2
      <4>2. v[j].start = v[j - 1].end
        BY <2>2, <4>1 DEF ChartSo, c
      <4> QED
        BY <1>2, <2>2, <4>1, <4>2
    <3> QED
      BY <3>1, <3>2
  <2> QED
    BY <1>2, <2>1, <2>2
<1>9. ASSUME NEW i \in 1 .. Len(js), js[i].kind = "preheat"
      PROVE  /\ js[i].end = js[i].start
             /\ \E o \in marked : o.account = js[i].account /\ o.plannedAt = js[i].start
  <2>1. CASE i \in 1 .. l
    <3>1. js[i] = u[i] /\ u[i].kind = "preheat"
      BY <1>2, <1>9, <2>1
    <3>2. /\ u[i].end = u[i].start
          /\ \E o \in marked : o.account = u[i].account /\ o.plannedAt = u[i].start
      BY <2>1, <3>1 DEF ChartSo, l
    <3> QED
      BY <3>1, <3>2
  <2>2. ASSUME NEW j \in 1 .. c, i = l + j
        PROVE  /\ js[i].end = js[i].start
               /\ \E o \in marked : o.account = js[i].account /\ o.plannedAt = js[i].start
    <3>1. js[i] = v[j] /\ v[j].kind = "preheat"
      BY <1>2, <1>9, <2>2
    <3>2. /\ v[j].end = v[j].start
          /\ \E o \in marked : o.account = v[j].account /\ o.plannedAt = v[j].start
      BY <3>1 DEF ChartSo, c
    <3> QED
      BY <3>1, <3>2
  <2> QED
    BY <1>2, <2>1, <2>2
<1>10. ASSUME NEW i \in 1 .. Len(js), js[i].kind # "preheat",
              NEW t \in Int, js[i].start <= t, t < js[i].end
       PROVE  js[i].kind = "work" <=> ContainsInstant(work, t)
  <2>1. CASE i \in 1 .. l
    BY <1>2, <1>10, <2>1 DEF ChartSo, l
  <2>2. ASSUME NEW j \in 1 .. c, i = l + j
        PROVE  js[i].kind = "work" <=> ContainsInstant(work, t)
    BY <1>2, <1>10, <2>2 DEF ChartSo, c
  <2> QED
    BY <1>2, <2>1, <2>2
<1> QED
  BY <1>2, <1>6, <1>7, <1>8, <1>9, <1>10 DEF ChartSo, js

LEMMA MarksContinued ==
  ASSUME NEW u \in Seq(Mark), NEW v \in Seq(Mark), NEW M, NEW N, M \cap N = {},
         NEW f, Marks(u, M, f), NEW g, Marks(v, N, g)
  PROVE  \E h : Marks(u \o v, M \cup N, h)
<1> DEFINE l == Len(u)
           c == Len(v)
           js == u \o v
           S == Spots(js)
           h == [i \in S |-> IF i \in 1 .. l THEN f[i] ELSE g[i - l]]
<1>1. /\ Len(js) = l + c /\ l \in Nat /\ c \in Nat
      /\ \A i \in 1 .. l : js[i] = u[i]
      /\ \A i \in 1 .. c : js[l + i] = v[i]
      /\ \A i : i \in 1 .. Len(js) <=> i \in 1 .. l \/ \E j \in 1 .. c : i = l + j
  BY ChartsJoined
<1>2. \A j \in 1 .. c : ~(l + j \in 1 .. l) /\ (l + j) - l = j
  BY <1>1
<1> HIDE DEF js
<1>3. \A i \in 1 .. l : i \in S <=> i \in Spots(u)
  BY <1>1 DEF Spots
<1>4. \A j \in 1 .. c : l + j \in S <=> j \in Spots(v)
  BY <1>1 DEF Spots
<1>5. Spots(u) \subseteq 1 .. l /\ Spots(v) \subseteq 1 .. c /\ S \subseteq 1 .. Len(js)
  BY DEF Spots
<1> HIDE DEF S, l, c
<1>6. \A i : i \in S <=> i \in Spots(u) \/ \E j \in Spots(v) : i = l + j
  BY <1>1, <1>3, <1>4, <1>5
<1>7. /\ \A i \in Spots(u) : i \in S /\ h[i] = f[i] /\ f[i] \in M
      /\ \A j \in Spots(v) : l + j \in S /\ h[l + j] = g[j] /\ g[j] \in N
  <2>1. \A i \in Spots(u) : i \in S /\ h[i] = f[i]
    BY <1>5, <1>6
  <2>2. \A j \in Spots(v) : l + j \in S /\ h[l + j] = g[j]
    BY <1>2, <1>5, <1>6
  <2> QED
    BY <2>1, <2>2 DEF Marks
<1> HIDE DEF h
<1>8. h \in [S -> M \cup N]
  <2>1. h = [i \in S |-> h[i]]
    BY DEF h
  <2>2. \A i \in S : h[i] \in M \cup N
    BY <1>6, <1>7
  <2> QED
    BY <2>1, <2>2
<1>9. ASSUME NEW i \in S, NEW j \in S, h[i] = h[j] PROVE i = j
  <2>1. CASE i \in Spots(u) /\ j \in Spots(u)
    BY <1>7, <1>9, <2>1 DEF Marks
  <2>2. ASSUME NEW p \in Spots(v), i = l + p, NEW q \in Spots(v), j = l + q PROVE i = j
    BY <1>7, <1>9, <2>2 DEF Marks
  <2>3. ASSUME i \in Spots(u), NEW q \in Spots(v), j = l + q PROVE FALSE
    BY <1>7, <1>9, <2>3
  <2>4. ASSUME NEW p \in Spots(v), i = l + p, j \in Spots(u) PROVE FALSE
    BY <1>7, <1>9, <2>4
  <2> QED
    BY <1>6, <2>1, <2>2, <2>3, <2>4
<1>10. ASSUME NEW o \in M \cup N PROVE \E i \in S : h[i] = o
  <2>1. CASE o \in M
    <3>1. PICK i \in Spots(u) : f[i] = o
      BY <2>1 DEF Marks
    <3> QED
      BY <1>7, <3>1
  <2>2. CASE o \in N
    <3>1. PICK j \in Spots(v) : g[j] = o
      BY <2>2 DEF Marks
    <3> QED
      BY <1>7, <3>1
  <2> QED
    BY <2>1, <2>2
<1>11. ASSUME NEW i \in S
       PROVE  h[i].account = js[i].account /\ h[i].plannedAt = js[i].start
  <2>1. CASE i \in Spots(u)
    BY <1>1, <1>5, <1>7, <2>1 DEF Marks
  <2>2. ASSUME NEW j \in Spots(v), i = l + j
        PROVE  h[i].account = js[i].account /\ h[i].plannedAt = js[i].start
    <3>1. js[i] = v[j] /\ h[i] = g[j]
      BY <1>1, <1>5, <1>7, <2>2
    <3>2. g[j].account = v[j].account /\ g[j].plannedAt = v[j].start
      BY DEF Marks
    <3> QED
      BY <3>1, <3>2
  <2> QED
    BY <1>6, <2>1, <2>2
<1>12. Marks(js, M \cup N, h)
  BY <1>8, <1>9, <1>10, <1>11 DEF Marks, S
<1> QED
  BY <1>12 DEF js

\* The markers of an instant are a chart that takes no time.
LEMMA MarkersChart ==
  ASSUME NEW M, Numbered(M), NEW work, NEW t \in Int
  PROVE  /\ ChartSo(Markers(M, t), M, work, t, t)
         /\ \E f : Marks(Markers(M, t), PlannedAt(M, t), f)
<1> DEFINE here == PlannedAt(M, t)
           m == Markers(M, t)
<1>1. PICK s : Lists(s, here, ByAccount(here)) /\ MarkersOf(m, t, s)
  BY MarkersListed
<1> HIDE DEF m
<1> DEFINE n == Len(s)
<1>2. /\ m \in Seq(Mark) /\ Len(m) = n /\ n \in Nat
      /\ \A k \in 1 .. n : /\ m[k].kind = "preheat" /\ m[k].start = t /\ m[k].end = t
                           /\ m[k].account = s[k].account
  BY <1>1 DEF MarkersOf
<1>3. /\ \A k \in 1 .. n : s[k] \in here
      /\ \A o \in here : \E k \in 1 .. n : s[k] = o
      /\ \A k, l \in 1 .. n : s[k] = s[l] => k = l
  BY <1>1 DEF Lists
<1>4. \A o \in here : o \in M /\ o.plannedAt = t
  BY DEF PlannedAt
<1> HIDE DEF n, here
<1>5. ChartSo(m, M, work, t, t)
  <2>1. m # <<>> => n \in 1 .. n /\ 1 \in 1 .. n
    BY <1>2
  <2>2. m # <<>> => m[1].start = t /\ m[Len(m)].end = t
    BY <1>2, <2>1
  <2>3. \A i \in 1 .. n : i > 1 => m[i].start = m[i - 1].end
    <3> SUFFICES ASSUME NEW i \in 1 .. n, i > 1 PROVE m[i].start = m[i - 1].end
      OBVIOUS
    <3>1. i - 1 \in 1 .. n
      BY <1>2
    <3> QED
      BY <1>2, <3>1
  <2>4. \A i \in 1 .. n : m[i].end = m[i].start
    BY <1>2
  <2>5. \A i \in 1 .. n : \E o \in M : o.account = m[i].account /\ o.plannedAt = m[i].start
    <3> SUFFICES ASSUME NEW i \in 1 .. n
                 PROVE  \E o \in M : o.account = m[i].account /\ o.plannedAt = m[i].start
      OBVIOUS
    <3>1. s[i] \in M /\ s[i].plannedAt = t
      BY <1>3, <1>4
    <3> QED
      BY <1>2, <3>1
  <2> QED
    BY <1>2, <2>2, <2>3, <2>4, <2>5 DEF ChartSo
<1>6. Spots(m) = 1 .. n
  BY <1>2 DEF Spots
<1> DEFINE f == [k \in 1 .. n |-> s[k]]
<1>7. Marks(m, here, f)
  <2>1. f \in [1 .. n -> here] /\ \A k \in 1 .. n : f[k] = s[k]
    BY <1>3
  <2> HIDE DEF f
  <2>2. \A k \in 1 .. n : f[k].account = m[k].account /\ f[k].plannedAt = m[k].start
    BY <1>2, <1>3, <1>4, <2>1
  <2> QED
    BY <1>3, <1>6, <2>1, <2>2 DEF Marks
<1> QED
  BY <1>5, <1>7 DEF m, here

LEMMA PieceChart ==
  ASSUME NEW b, NEW I, NEW lo, NEW n, Cuts(b, I, lo, n), NEW k \in 1 .. Len(b) - 1,
         NEW work, Apart(work), Bounds(work) \subseteq I, NEW M
  PROVE  /\ ChartSo(<<Piece(work, b[k], b[k + 1])>>, M, work, b[k], b[k + 1])
         /\ \E f : Marks(<<Piece(work, b[k], b[k + 1])>>, {}, f)
<1> DEFINE x == b[k]
           y == b[k + 1]
           m == Middle(x, y)
           p == Piece(work, x, y)
           js == <<p>>
<1>1. x \in Int /\ y \in Int /\ x < y
  <2>1. Len(b) \in Nat /\ k \in 1 .. Len(b) /\ k + 1 \in 1 .. Len(b)
    BY DEF Cuts
  <2> QED
    BY <2>1 DEF Cuts
<1>2. \A t, u \in Int : x <= t /\ t < y /\ x <= u /\ u < y =>
        (ContainsInstant(work, t) <=> ContainsInstant(work, u))
  BY PieceAlike
<1> HIDE DEF x, y
<1>3. m \in Int /\ x <= m /\ m < y
  BY <1>1, MiddleInside
<1> HIDE DEF m
<1>4. /\ p = [kind |-> IF ContainsInstant(work, m) THEN "work" ELSE "idle",
              start |-> x, end |-> y, account |-> None]
  BY DEF Piece, m
<1> HIDE DEF p
<1>5. /\ p.kind = (IF ContainsInstant(work, m) THEN "work" ELSE "idle")
      /\ p.start = x /\ p.end = y /\ p \in Mark
  BY <1>1, <1>4 DEF Mark, None
<1>6. js \in Seq(Mark) /\ Len(js) = 1 /\ js[1] = p /\ js # <<>> /\ \A i : i \in 1 .. 1 <=> i = 1
  BY <1>5
<1> HIDE DEF js
<1>7. p.kind # "preheat" /\ \A t \in Int : x <= t /\ t < y =>
        (p.kind = "work" <=> ContainsInstant(work, t))
  BY <1>2, <1>3, <1>5
<1>8. ChartSo(js, M, work, x, y)
  BY <1>5, <1>6, <1>7 DEF ChartSo
<1>9. Spots(js) = {}
  BY <1>6, <1>7 DEF Spots
<1>10. Marks(js, {}, [i \in {} |-> i])
  BY <1>9 DEF Marks
<1> QED
  BY <1>8, <1>10 DEF x, y, p, js

\* The chart grows by the markers of a bound and the piece behind it.
MarksOn(b, work, M) ==
  /\ Marking(b, work, M)[0] = <<>>
  /\ \A k \in 1 .. Len(b) :
       Marking(b, work, M)[k]
         = Marking(b, work, M)[k - 1] \o Markers(M, b[k])
             \o (IF k = Len(b) THEN <<>> ELSE <<Piece(work, b[k], b[k + 1])>>)

LEMMA MarkingSteps ==
  ASSUME NEW b, NEW I, NEW lo, NEW n, Cuts(b, I, lo, n), NEW work, Apart(work), Bounds(work) \subseteq I,
         NEW M, Numbered(M)
  PROVE  MarksOn(b, work, M)
<1> DEFINE l == Len(b)
           S == Seq(Mark)
           Ending(k) == IF k = Len(b) THEN <<>> ELSE <<Piece(work, b[k], b[k + 1])>>
           Put(line, k) == line \o Markers(M, b[k]) \o Ending(k)
           step == [k \in 1 .. l |-> [line \in S |-> Put(line, k)]]
           Steps(f) == f = [k \in 0 .. l |-> IF k = 0 THEN <<>> ELSE Put(f[k - 1], k)]
<1>1. l \in Nat /\ <<>> \in S
  BY DEF Cuts
<1>2. \A k \in 1 .. l : Markers(M, b[k]) \in Seq(Mark)
  <2> SUFFICES ASSUME NEW k \in 1 .. l PROVE Markers(M, b[k]) \in Seq(Mark)
    OBVIOUS
  <2> DEFINE t == b[k]
  <2>1. t \in Int
    BY DEF Cuts
  <2> HIDE DEF t
  <2>2. ChartSo(Markers(M, t), M, work, t, t)
    BY <2>1, MarkersChart
  <2> QED
    BY <2>2 DEF ChartSo, t
<1>3. \A k \in 1 .. l : Ending(k) \in Seq(Mark)
  <2> SUFFICES ASSUME NEW k \in 1 .. l, k # l PROVE <<Piece(work, b[k], b[k + 1])>> \in Seq(Mark)
    OBVIOUS
  <2>1. k \in 1 .. Len(b) - 1
    BY <1>1
  <2>2. ChartSo(<<Piece(work, b[k], b[k + 1])>>, M, work, b[k], b[k + 1])
    BY <2>1, PieceChart
  <2> QED
    BY <2>2 DEF ChartSo
<1> HIDE DEF Ending, l
<1>4. \A k \in 1 .. l : \A line \in S : Put(line, k) \in S
  <2> SUFFICES ASSUME NEW k \in 1 .. l, NEW line \in S PROVE Put(line, k) \in S
    OBVIOUS
  <2> DEFINE u == Markers(M, b[k])
             v == Ending(k)
  <2>1. u \in Seq(Mark) /\ v \in Seq(Mark)
    BY <1>2, <1>3
  <2> HIDE DEF u, v
  <2>2. (line \o u) \o v \in Seq(Mark)
    BY <2>1
  <2> QED
    BY <2>2 DEF u, v
<1> HIDE DEF Put
<1>5. step \in [1 .. l -> [S -> S]]
  BY <1>4
<1>6. PICK f \in [0 .. l -> S] : f[0] = <<>> /\ \A k \in 1 .. l : f[k] = step[k][f[k - 1]]
  <2> HIDE DEF step, S
  <2>1. HasRecursion(l, S, <<>>, step)
    BY <1>1, <1>5, RecursiveFunction
  <2> QED
    BY <2>1 DEF HasRecursion
<1> HIDE DEF S
<1>7. \A k \in 1 .. l : f[k] = Put(f[k - 1], k)
  <2> SUFFICES ASSUME NEW k \in 1 .. l PROVE f[k] = Put(f[k - 1], k)
    OBVIOUS
  <2>1. f[k - 1] \in S
    BY <1>1, <1>6
  <2> QED
    BY <1>6, <2>1
<1> HIDE DEF step
<1>8. Steps(f)
  <2>1. \A k \in 0 .. l : f[k] = IF k = 0 THEN <<>> ELSE Put(f[k - 1], k)
    <3> SUFFICES ASSUME NEW k \in 0 .. l, k # 0 PROVE f[k] = Put(f[k - 1], k)
      BY <1>6
    <3>1. k \in 1 .. l
      BY <1>1
    <3> QED
      BY <1>7, <3>1
  <2>2. f = [k \in 0 .. l |-> f[k]]
    BY <1>6
  <2> QED
    BY <2>1, <2>2
<1>9. Marking(b, work, M) = CHOOSE g : Steps(g)
  BY DEF Marking, Put, Ending, l
<1> DEFINE g == Marking(b, work, M)
<1>10. Steps(g)
  <2> HIDE DEF Steps
  <2> QED
    BY <1>8, <1>9
<1>11. g[0] = <<>> /\ \A k \in 1 .. l : g[k] = Put(g[k - 1], k)
  <2> HIDE DEF g
  <2>1. 0 \in 0 .. l /\ \A k \in 1 .. l : k \in 0 .. l /\ k # 0
    BY <1>1
  <2> QED
    BY <1>10, <2>1
<1> QED
  BY <1>11 DEF MarksOn, Put, Ending, l

\* The preheat chart divides the date and marks every occurrence once.
LEMMA PreheatLine ==
  ASSUME NEW lo \in Int, NEW n \in Int, lo < n,
         NEW work, Apart(work), \A t \in Held(work) : lo <= t /\ t < n,
         NEW M, Numbered(M), \A o \in M : lo <= o.plannedAt /\ o.plannedAt <= n,
         NEW I, I = {lo, n} \cup Bounds(work) \cup {o.plannedAt : o \in M},
         NEW b, b = Boundaries(I)
  PROVE  /\ ChartSo(Marking(b, work, M)[Len(b)], M, work, lo, n)
         /\ \E f : Marks(Marking(b, work, M)[Len(b)], M, f)
<1> DEFINE last == Len(b)
           g == Marking(b, work, M)
           Done(k) == {o \in M : \E j \in 1 .. k : b[j] = o.plannedAt}
           T == {k \in 0 .. last : /\ ChartSo(g[k], M, work, lo, IF k < last THEN b[k + 1] ELSE n)
                                   /\ \E f : Marks(g[k], Done(k), f)}
<1>1. I \in SUBSET Int /\ lo \in I /\ n \in I /\ \A x \in I : lo <= x /\ x <= n
  <2>1. Bounds(work) \in SUBSET Int /\ \A x \in Bounds(work) : lo <= x /\ x <= n
    BY BoundsWithin
  <2>2. \A o \in M : o.plannedAt \in Nat
    BY DEF Numbered
  <2> QED
    BY <2>1, <2>2
<1>2. Bounds(work) \subseteq I /\ \A o \in M : o.plannedAt \in I
  OBVIOUS
<1>3. Cuts(b, I, lo, n)
  BY <1>1, BoundariesCut
<1>4. /\ last \in Nat /\ last >= 2 /\ b[1] = lo /\ b[last] = n
      /\ \A k \in 1 .. last : b[k] \in Int
      /\ \A x \in I : \E k \in 1 .. last : b[k] = x
      /\ \A k, j \in 1 .. last : k < j => b[k] < b[j]
  BY <1>3 DEF Cuts
<1>5. /\ g[0] = <<>>
      /\ \A k \in 1 .. last :
           g[k] = g[k - 1] \o Markers(M, b[k])
                    \o (IF k = last THEN <<>> ELSE <<Piece(work, b[k], b[k + 1])>>)
  <2> HIDE DEF g, last
  <2>1. Bounds(work) \subseteq I
    BY <1>2
  <2>2. /\ Marking(b, work, M)[0] = <<>>
        /\ \A k \in 1 .. Len(b) :
             Marking(b, work, M)[k]
               = Marking(b, work, M)[k - 1] \o Markers(M, b[k])
                   \o (IF k = Len(b) THEN <<>> ELSE <<Piece(work, b[k], b[k + 1])>>)
    <3>1. MarksOn(b, work, M)
      BY <1>3, <2>1, MarkingSteps
    <3> QED
      BY ONLY <3>1 DEF MarksOn
  <2>3. g[0] = <<>>
    BY ONLY <2>2 DEF g
  <2>4. \A k \in 1 .. last :
          g[k] = g[k - 1] \o Markers(M, b[k])
                   \o (IF k = last THEN <<>> ELSE <<Piece(work, b[k], b[k + 1])>>)
    <3> SUFFICES ASSUME NEW k \in 1 .. last
                 PROVE  g[k] = g[k - 1] \o Markers(M, b[k])
                                 \o (IF k = last THEN <<>> ELSE <<Piece(work, b[k], b[k + 1])>>)
      OBVIOUS
    <3>1. k \in 1 .. Len(b)
      BY DEF last
    <3>2. Marking(b, work, M)[k]
            = Marking(b, work, M)[k - 1] \o Markers(M, b[k])
                \o (IF k = Len(b) THEN <<>> ELSE <<Piece(work, b[k], b[k + 1])>>)
      BY ONLY <2>2, <3>1
    <3> QED
      BY ONLY <3>2 DEF g, last
  <2> QED
    BY <2>3, <2>4
<1> HIDE DEF g, last
<1>6. 0 \in T
  <2>1. ChartSo(<<>>, M, work, lo, lo)
    BY DEF ChartSo
  <2>2. 0 \in 0 .. last /\ 0 < last /\ 0 + 1 = 1
    BY <1>4
  <2>3. ChartSo(g[0], M, work, lo, IF 0 < last THEN b[0 + 1] ELSE n)
    BY <1>4, <1>5, <2>1, <2>2
  <2>4. Done(0) = {} /\ Spots(<<>>) = {}
    BY DEF Spots
  <2>5. Marks(<<>>, {}, [i \in {} |-> i])
    BY <2>4 DEF Marks
  <2>6. \E f : Marks(g[0], Done(0), f)
    BY <1>5, <2>4, <2>5
  <2> QED
    BY <2>2, <2>3, <2>6
<1>7. \A k \in 0 .. last - 1 : k \in T => k + 1 \in T
  <2> SUFFICES ASSUME NEW k \in 0 .. last - 1, k \in T PROVE k + 1 \in T
    OBVIOUS
  <2> DEFINE j == k + 1
             t == b[j]
             here == PlannedAt(M, t)
             m == Markers(M, t)
             tail == IF j = last THEN <<>> ELSE <<Piece(work, b[j], b[j + 1])>>
             e == IF j < last THEN b[j + 1] ELSE n
  <2>1. j \in 1 .. last /\ j - 1 = k /\ k < last /\ j \in 0 .. last /\ t \in Int
    BY <1>4
  <2>2. ChartSo(g[k], M, work, lo, t) /\ \E f : Marks(g[k], Done(k), f)
    BY <2>1
  <2>3. Done(k) \cap here = {} /\ Done(j) = Done(k) \cup here
    <3>1. \A i : i \in 1 .. j <=> i = j \/ i \in 1 .. k
      BY <2>1
    <3>2. ASSUME NEW i \in 1 .. k PROVE b[i] # t
      <4>1. i \in 1 .. last /\ i < j
        BY <1>4, <2>1
      <4>2. b[i] < b[j] /\ b[i] \in Int
        BY <1>4, <2>1, <4>1
      <4> QED
        BY <2>1, <4>2
    <3>3. Done(k) \cap here = {}
      BY <3>2 DEF PlannedAt
    <3>4. Done(j) = Done(k) \cup here
      BY <3>1 DEF PlannedAt
    <3> QED
      BY <3>3, <3>4
  <2>4. g[j] = g[k] \o m \o tail
    BY <1>5, <2>1
  <2>5. e \in Int /\ ChartSo(tail, M, work, t, e) /\ \E f : Marks(tail, {}, f)
    <3>1. CASE j = last
      <4>1. tail = <<>> /\ e = n /\ t = n
        BY <1>4, <2>1, <3>1
      <4>2. ChartSo(<<>>, M, work, n, n)
        BY DEF ChartSo
      <4>3. Spots(<<>>) = {}
        BY DEF Spots
      <4>4. Marks(<<>>, {}, [i \in {} |-> i])
        BY <4>3 DEF Marks
      <4> HIDE DEF t, tail, e
      <4>5. e \in Int
        BY <4>1
      <4>6. ChartSo(tail, M, work, t, e)
        BY <4>1, <4>2
      <4>7. Marks(tail, {}, [i \in {} |-> i])
        BY <4>1, <4>4
      <4> QED
        BY <4>5, <4>6, <4>7
    <3>2. CASE j # last
      <4>1. j \in 1 .. Len(b) - 1 /\ j + 1 \in 1 .. last /\ j < last
        <5>1. last \in Nat /\ j \in 1 .. last /\ j # last
          BY <1>4, <2>1, <3>2
        <5> HIDE DEF j
        <5>2. j \in 1 .. last - 1 /\ j + 1 \in 1 .. last /\ j < last
          BY <5>1
        <5> QED
          BY <5>2 DEF last
      <4>2. tail = <<Piece(work, b[j], b[j + 1])>> /\ e = b[j + 1]
        BY <3>2, <4>1
      <4> HIDE DEF j, tail, e
      <4>3. /\ ChartSo(<<Piece(work, b[j], b[j + 1])>>, M, work, b[j], b[j + 1])
            /\ \E f : Marks(<<Piece(work, b[j], b[j + 1])>>, {}, f)
        BY <1>2, <1>3, <4>1, PieceChart
      <4> QED
        BY <1>4, <4>1, <4>2, <4>3
    <3> QED
      BY <3>1, <3>2
  <2> HIDE DEF T, j, t, tail, Done, here, e
  <2>6. ChartSo(m, M, work, t, t) /\ \E f : Marks(m, here, f)
    BY <2>1, MarkersChart DEF here
  <2> HIDE DEF m
  <2>7. g[k] \in Seq(Mark) /\ m \in Seq(Mark) /\ tail \in Seq(Mark)
    BY <2>2, <2>5, <2>6 DEF ChartSo
  <2> DEFINE u == g[k]
  <2>8. u \in Seq(Mark) /\ u \o m \in Seq(Mark)
    BY <2>7
  <2> HIDE DEF u
  <2>9. ChartSo(u \o m, M, work, lo, t)
    <3>1. ChartSo(u, M, work, lo, t) 
      BY <2>2 DEF u
    <3> QED
      BY <2>1, <2>6, <3>1, ChartContinued
  <2>10. \E f : Marks(u \o m, Done(j), f)
    <3>1. PICK f : Marks(u, Done(k), f)
      BY <2>2 DEF u
    <3>2. PICK h : Marks(m, here, h)
      BY <2>6
    <3>3. \E f1 : Marks(u \o m, Done(k) \cup here, f1)
      BY <2>3, <2>7, <2>8, <3>1, <3>2, MarksContinued
    <3> QED
      BY <2>3, <3>3
  <2> DEFINE v == u \o m
  <2>11. g[j] = v \o tail
    BY <2>4 DEF u
  <2> HIDE DEF v
  <2>12. ChartSo(v, M, work, lo, t) /\ v \in Seq(Mark)
    BY <2>8, <2>9 DEF v
  <2>13. ChartSo(v \o tail, M, work, lo, e)
    BY <2>1, <2>5, <2>12, ChartContinued
  <2>14. \E f : Marks(v \o tail, Done(j), f)
    <3>1. PICK f : Marks(v, Done(j), f)
      BY <2>10 DEF v
    <3>2. PICK h : Marks(tail, {}, h)
      BY <2>5
    <3>3. Done(j) \cap {} = {} /\ Done(j) \cup {} = Done(j)
      OBVIOUS
    <3>4. \E f1 : Marks(v \o tail, Done(j) \cup {}, f1)
      BY <2>7, <2>12, <3>1, <3>2, <3>3, MarksContinued
    <3> QED
      BY <3>3, <3>4
  <2>15. ChartSo(g[j], M, work, lo, IF j < last THEN b[j + 1] ELSE n)
    BY <2>11, <2>13 DEF e
  <2>16. \E f : Marks(g[j], Done(j), f)
    BY <2>11, <2>14
  <2>17. j \in T
    BY <2>1, <2>15, <2>16 DEF T
  <2> QED
    BY <2>17 DEF j
<1>8. last \in T
  <2> HIDE DEF T
  <2>1. 0 .. last \subseteq T
    BY <1>4, <1>6, <1>7, RangeInduction
  <2>2. last \in 0 .. last
    BY <1>4
  <2> QED
    BY <2>1, <2>2
<1>9. ChartSo(g[last], M, work, lo, n) /\ \E f : Marks(g[last], Done(last), f)
  <2>1. /\ ChartSo(g[last], M, work, lo, IF last < last THEN b[last + 1] ELSE n)
        /\ \E f : Marks(g[last], Done(last), f)
    BY <1>8
  <2>2. ~(last < last)
    BY <1>4
  <2> QED
    BY <2>1, <2>2
<1>10. Done(last) = M
  BY <1>2, <1>4
<1> QED
  BY <1>9, <1>10 DEF g, last

-----------------------------------------------------------------------------
(***************************************************************************)
(* The charts of an answer.                                                *)
(***************************************************************************)

\* The points of a chart for an account at an instant.
PointsOf(line, acc, t) ==
  {i \in 1 .. Len(line) : line[i].kind = "preheat" /\ line[i].account = acc /\ line[i].start = t}

\* The occurrences that they stand for.
DueOf(M, acc, t) == {o \in M : o.account = acc /\ o.plannedAt = t}

LEMMA PointsCounted ==
  ASSUME NEW line, NEW M, IsFiniteSet(M), NEW f, Marks(line, M, f), NEW acc, NEW t
  PROVE  Cardinality(PointsOf(line, acc, t)) = Cardinality(DueOf(M, acc, t))
<1> DEFINE P == PointsOf(line, acc, t)
           D == DueOf(M, acc, t)
           g == [i \in P |-> f[i]]
<1>1. P \subseteq Spots(line)
  BY DEF PointsOf, Spots
<1>2. IsFiniteSet(D)
  <2>1. D \in SUBSET M
    BY DEF DueOf
  <2> QED
    BY <2>1, FS_Subset
<1>3. \A i \in P : f[i] \in D
  <2> SUFFICES ASSUME NEW i \in P PROVE f[i] \in D
    OBVIOUS
  <2>1. i \in Spots(line) /\ line[i].account = acc /\ line[i].start = t
    BY <1>1 DEF PointsOf
  <2>2. f[i] \in M /\ f[i].account = line[i].account /\ f[i].plannedAt = line[i].start
    BY <2>1 DEF Marks
  <2> QED
    BY <2>1, <2>2 DEF DueOf
<1>4. \A i, j \in P : f[i] = f[j] => i = j
  BY <1>1 DEF Marks
<1>5. \A o \in D : \E i \in P : f[i] = o
  <2> SUFFICES ASSUME NEW o \in D PROVE \E i \in P : f[i] = o
    OBVIOUS
  <2>1. o \in M /\ o.account = acc /\ o.plannedAt = t
    BY DEF DueOf
  <2>2. PICK i \in Spots(line) : f[i] = o
    BY <2>1 DEF Marks
  <2>3. f[i].account = line[i].account /\ f[i].plannedAt = line[i].start
    BY <2>2 DEF Marks
  <2>4. i \in P
    BY <2>1, <2>2, <2>3 DEF PointsOf, Spots
  <2> QED
    BY <2>2, <2>4
<1> HIDE DEF P, D
<1>6. g \in Injection(P, D) /\ g \in Surjection(P, D)
  <2>1. g \in [P -> D] /\ \A i \in P : g[i] = f[i]
    BY <1>3
  <2> HIDE DEF g
  <2>2. g \in Injection(P, D)
    BY <1>4, <2>1 DEF Injection, IsInjective
  <2>3. g \in Surjection(P, D)
    BY <1>5, <2>1 DEF Surjection
  <2> QED
    BY <2>2, <2>3
<1>7. Cardinality(P) = Cardinality(D)
  <2> HIDE DEF g
  <2> QED
    BY <1>2, <1>6, FS_Injection
<1> QED
  BY <1>7 DEF P, D

\* The marked occurrences of a plan are those within the chart.
LEMMA PlanMarked ==
  ASSUME NEW cfg, NEW day, Plans(cfg, day), IsDate(day), NEW chart, IsChart(chart)
  PROVE  /\ Numbered(Marked(chart, PlanDay(cfg, day)))
         /\ \A o \in Marked(chart, PlanDay(cfg, day)) :
              chart.start <= o.plannedAt /\ o.plannedAt <= chart.end
<1> DEFINE P == PlanDay(cfg, day)
           M == Marked(chart, P)
<1>1. \A t : t \in TicksOf(day) => t \in Nat
  BY TickNumbers
<1>2. \A o \in P : /\ o.account \in Nat /\ o.slot \in Nat
                   /\ ~o.missed => o.plannedAt \in Nat
  BY <1>1, PlannedInDate
<1>3. /\ \A o, p \in P : o.account = p.account /\ o.slot = p.slot => o = p
      /\ IsFiniteSet(P)
  BY PlanNumbered
<1> HIDE DEF P
<1>4. M \in SUBSET P /\ \A o \in M : ~o.missed /\ chart.start <= o.plannedAt /\ o.plannedAt <= chart.end
  BY DEF Marked
<1> HIDE DEF M
<1>5. IsFiniteSet(M)
  BY <1>3, <1>4, FS_Subset
<1>6. Numbered(M)
  BY <1>2, <1>3, <1>4, <1>5 DEF Numbered
<1> QED
  BY <1>4, <1>6 DEF M, P

\* The ticks of work are those that the chart's pieces are compared with.
LEMMA AskedTicks ==
  ASSUME Answered, Previewed
  PROVE  /\ Chart.start \in Int /\ Chart.end \in Nat /\ Chart.start < Chart.end
         /\ \A t : t \in Charted <=> t \in Int /\ Chart.start <= t /\ t < Chart.end
         /\ \A t \in Held(Work(Cfg, Day, Chart)) : Chart.start <= t /\ t < Chart.end
         /\ \A t \in Int : ContainsInstant(Work(Cfg, Day, Chart), t) <=> t \in WorkTicks
<1> DEFINE w == Work(Cfg, Day, Chart)
<1>1. IsChart(Chart)
  BY AskedRun
<1>2. Apart(w) /\ Held(w) \subseteq TicksAt(Chart) /\ WorkTicks = Held(w)
  BY AskedWork
<1> HIDE DEF w
<1>3. /\ Chart.start \in Int /\ Chart.end \in Nat /\ Chart.start < Chart.end
      /\ Charted = TicksAt(Chart)
      /\ \A t : t \in TicksAt(Chart) <=> t \in Int /\ Chart.start <= t /\ t < Chart.end
  BY <1>1, ChartNumbers DEF Charted, TicksAt
<1>4. \A t \in Int : ContainsInstant(w, t) <=> t \in WorkTicks
  BY <1>2, InstantHeld
<1> QED
  BY <1>2, <1>3, <1>4 DEF w

LEMMA PreheatShown ==
  ASSUME Answered, Previewed
  PROVE  PreheatChartAgrees
<1> DEFINE w == Work(Cfg, Day, Chart)
           lo == Chart.start
           n == Chart.end
           plan == PlanDay(Cfg, Day)
           M == Marked(Chart, plan)
           I == {lo, n} \cup Bounds(w) \cup {o.plannedAt : o \in M}
           b == Boundaries(I)
           line == answer.run.timeline
<1>1. /\ Plans(Cfg, Day) /\ IsDate(Day) /\ answer.run = Run(Cfg, Day, Chart)
      /\ IsChart(Chart)
  BY AskedRun
<1>2. Apart(w)
  BY AskedWork
<1>3. /\ lo \in Int /\ n \in Int /\ lo < n
      /\ \A t : t \in Charted <=> t \in Int /\ lo <= t /\ t < n
      /\ \A t \in Held(w) : lo <= t /\ t < n
      /\ \A t \in Int : ContainsInstant(w, t) <=> t \in WorkTicks
  BY AskedTicks
<1>4. /\ Numbered(M) /\ \A o \in M : lo <= o.plannedAt /\ o.plannedAt <= n
      /\ M = {o \in plan : ~o.missed /\ lo <= o.plannedAt /\ o.plannedAt <= n}
  BY <1>1, PlanMarked DEF Marked
<1>5. answer.run.plan = plan /\ lo = Chart.start /\ n = Chart.end /\ line = PreheatTimeline(Chart, w, plan)
  BY <1>1 DEF Run
<1>6. line = Marking(b, w, M)[Len(b)]
  <2> HIDE DEF line, w, plan
  <2> QED
    BY <1>5 DEF PreheatTimeline
<1> HIDE DEF line, w, lo, n, plan, M
<1>7. ChartSo(line, M, w, lo, n) /\ \E f : Marks(line, M, f)
  <2>1. I = {lo, n} \cup Bounds(w) \cup {o.plannedAt : o \in M} /\ b = Boundaries(I)
    OBVIOUS
  <2> HIDE DEF b, I
  <2> QED
    BY <1>2, <1>3, <1>4, <1>6, <2>1, PreheatLine
<1> HIDE DEF b, I
<1>8. line \in Seq(Mark) /\ DOMAIN line = 1 .. Len(line)
  BY <1>7 DEF ChartSo
<1>9. line # <<>> /\ Head(line) = line[1] /\ Last(line) = line[Len(line)]
  <2>1. line # <<>>
    BY <1>3, <1>7 DEF ChartSo
  <2> QED
    BY <1>8, <2>1 DEF Last
<1>10. /\ \A acc, t : DueOf(M, acc, t) \subseteq
                       {o \in plan : ~o.missed /\ o.account = acc /\ o.plannedAt = t}
       /\ \A acc, t : lo <= t /\ t <= n =>
            DueOf(M, acc, t) = {o \in plan : ~o.missed /\ o.account = acc /\ o.plannedAt = t}
  BY <1>4 DEF DueOf
<1>11. \A acc, t : PointsOf(line, acc, t)
                     = {i \in DOMAIN line : line[i].kind = "preheat" /\ line[i].account = acc
                                            /\ line[i].start = t}
  BY <1>8 DEF PointsOf
<1>12. \A acc, t : Cardinality(PointsOf(line, acc, t)) = Cardinality(DueOf(M, acc, t))
  <2>1. IsFiniteSet(M)
    BY <1>4 DEF Numbered
  <2> QED
    BY <1>7, <2>1, PointsCounted
<1>13. Head(line).start = lo /\ Last(line).end = n
  BY <1>7, <1>9 DEF ChartSo
<1>14. ASSUME NEW i \in DOMAIN line
       PROVE  /\ i > 1 => line[i].start = line[i - 1].end
              /\ line[i].kind = "preheat" =>
                   line[i].end = line[i].start /\ DueOf(M, line[i].account, line[i].start) # {}
              /\ line[i].kind # "preheat" => \A t \in Charted : line[i].start <= t /\ t < line[i].end =>
                   (line[i].kind = "work") = (t \in WorkTicks)
  <2>1. i \in 1 .. Len(line)
    BY <1>8
  <2>2. i > 1 => line[i].start = line[i - 1].end
    BY <1>7, <2>1 DEF ChartSo
  <2>3. ASSUME line[i].kind = "preheat"
        PROVE  line[i].end = line[i].start /\ DueOf(M, line[i].account, line[i].start) # {}
    <3>1. /\ line[i].end = line[i].start
          /\ \E o \in M : o.account = line[i].account /\ o.plannedAt = line[i].start
      BY <1>7, <2>1, <2>3 DEF ChartSo
    <3> QED
      BY <3>1 DEF DueOf
  <2>4. ASSUME line[i].kind # "preheat", NEW t \in Charted, line[i].start <= t, t < line[i].end
        PROVE  (line[i].kind = "work") = (t \in WorkTicks)
    <3>1. t \in Int
      BY <1>3
    <3>2. line[i].kind = "work" <=> ContainsInstant(w, t)
      BY <1>7, <2>1, <2>4, <3>1 DEF ChartSo
    <3>3. ContainsInstant(w, t) <=> t \in WorkTicks
      BY <1>3, <3>1
    <3> QED
      BY <3>2, <3>3
  <2> QED
    BY <2>2, <2>3, <2>4
<1>15. \A o \in plan : ~o.missed /\ o.plannedAt \in Charted =>
         Cardinality(PointsOf(line, o.account, o.plannedAt))
           = Cardinality(DueOf(M, o.account, o.plannedAt))
  BY <1>12
<1>16. lo = Chart.start /\ n = Chart.end /\ line = answer.run.timeline /\ plan = answer.run.plan
  BY <1>5 DEF line
<1> DEFINE Points(acc, t) == {i \in DOMAIN line : line[i].kind = "preheat" /\ line[i].account = acc
                                                   /\ line[i].start = t}
           Due(acc, t) == {o \in plan : ~o.missed /\ o.account = acc /\ o.plannedAt = t}
<1>17. /\ \A acc, t : DueOf(M, acc, t) \subseteq Due(acc, t) /\ PointsOf(line, acc, t) = Points(acc, t)
       /\ \A acc, t : lo <= t /\ t <= n => DueOf(M, acc, t) = Due(acc, t)
  BY <1>10, <1>11
<1> HIDE DEF Points, Due
<1>18. ASSUME NEW o \in plan, ~o.missed, o.plannedAt \in Charted
       PROVE  Cardinality(Points(o.account, o.plannedAt)) = Cardinality(Due(o.account, o.plannedAt))
  <2>1. lo <= o.plannedAt /\ o.plannedAt <= n
    BY <1>3, <1>18
  <2>2. /\ DueOf(M, o.account, o.plannedAt) = Due(o.account, o.plannedAt)
        /\ PointsOf(line, o.account, o.plannedAt) = Points(o.account, o.plannedAt)
    BY <1>17, <2>1
  <2> QED
    BY <1>15, <1>18, <2>2
<1>19. \A i \in DOMAIN line :
         /\ i > 1 => line[i].start = line[i - 1].end
         /\ line[i].kind = "preheat" =>
              line[i].end = line[i].start /\ Due(line[i].account, line[i].start) # {}
         /\ line[i].kind # "preheat" => \A t \in Charted : line[i].start <= t /\ t < line[i].end =>
              (line[i].kind = "work") = (t \in WorkTicks)
  <2>1. \A acc, t : DueOf(M, acc, t) # {} => Due(acc, t) # {}
    BY <1>17
  <2> QED
    BY <1>14, <2>1
<1> QED
  BY <1>13, <1>16, <1>18, <1>19 DEF PreheatChartAgrees, Points, Due

LEMMA StrategyShown ==
  ASSUME Answered, Previewed,
         NEW s \in {answer.run.baseline, answer.run.scheduled}
  PROVE  StrategyChartAgrees(s)
<1> DEFINE w == Work(Cfg, Day, Chart)
           lo == Chart.start
           n == Chart.end
           line == s.timeline
           a == s.available
<1>1. IsChart(Chart)
  BY AskedRun
<1>2. answer.run.work = w /\ Apart(w) /\ Held(w) \subseteq TicksAt(Chart)
  BY AskedWork
<1>3. /\ lo \in Int /\ n \in Int /\ lo < n
      /\ \A t : t \in Charted <=> t \in Int /\ lo <= t /\ t < n
      /\ \A t \in Held(w) : lo <= t /\ t < n
      /\ \A t \in Int : ContainsInstant(w, t) <=> t \in WorkTicks
  BY AskedTicks
<1>4. /\ Counts(s, w, Cfg, Chart) /\ line = StrategyTimeline(Chart, w, a)
      /\ lo = Chart.start /\ n = Chart.end
  BY AskedMetrics
<1> HIDE DEF w, lo, n, line
<1>5. Apart(a) /\ Held(a) \subseteq Held(w)
  BY <1>4 DEF Counts
<1>6. ChartedIn(a) = Held(a)
  <2>1. Held(a) \subseteq TicksAt(Chart)
    BY <1>2, <1>5
  <2> HIDE DEF a
  <2> QED
    BY <1>1, <1>5, <2>1, TicksHeld
<1> HIDE DEF a
<1>7. LineSo(line, w, a, lo, n)
  <2>1. \A t \in Held(a) : lo <= t /\ t < n
    BY <1>3, <1>5
  <2>2. LineSo(StrategyTimeline(Chart, w, a), w, a, lo, n)
    BY <1>1, <1>2, <1>3, <1>4, <1>5, <2>1, StrategyLine
  <2> QED
    BY <1>4, <2>2
<1>8. \A t \in Int : ContainsInstant(a, t) <=> t \in ChartedIn(a)
  BY <1>5, <1>6, InstantHeld
<1>9. line \in Seq(Segment) /\ DOMAIN line = 1 .. Len(line)
  BY <1>7 DEF LineSo
<1>10. line # <<>> /\ Head(line) = line[1] /\ Last(line) = line[Len(line)]
  <2>1. line # <<>>
    BY <1>3, <1>7 DEF LineSo
  <2> QED
    BY <1>9, <2>1 DEF Last
<1>11. Head(line).start = lo /\ Last(line).end = n
  BY <1>7, <1>10 DEF LineSo
<1> DEFINE Kind(t) == IF t \in WorkTicks
                      THEN IF t \in ChartedIn(a) THEN "available" ELSE "limited"
                      ELSE IF w # <<>> /\ Head(w).start < t /\ t < Last(w).end
                      THEN "break" ELSE "idle"
<1>12. ASSUME NEW t \in Int PROVE KindAt(w, a, t) = Kind(t)
  <2>1. w # <<>> => Head(w).start \in Nat
    BY <1>2, ApartEnds
  <2>2. w # <<>> => (t > Head(w).start <=> Head(w).start < t)
    BY <2>1
  <2>3. /\ ContainsInstant(w, t) <=> t \in WorkTicks
        /\ ContainsInstant(a, t) <=> t \in ChartedIn(a)
    BY <1>3, <1>8
  <2> QED
    BY <2>2, <2>3 DEF KindAt
<1> HIDE DEF Kind
<1>13. ASSUME NEW i \in DOMAIN line
       PROVE  /\ \A t \in Charted : line[i].start <= t /\ t < line[i].end => line[i].kind = Kind(t)
              /\ i > 1 => line[i].start = line[i - 1].end /\ line[i].kind # line[i - 1].kind
  <2>1. i \in 1 .. Len(line)
    BY <1>9
  <2>2. \A t \in Int : line[i].start <= t /\ t < line[i].end => line[i].kind = KindAt(w, a, t)
    BY <1>7, <2>1 DEF LineSo
  <2>3. \A t \in Charted : t \in Int
    BY <1>3
  <2>4. i > 1 => line[i].start = line[i - 1].end /\ line[i].kind # line[i - 1].kind
    BY <1>7, <2>1 DEF LineSo
  <2> QED
    BY <1>12, <2>2, <2>3, <2>4
<1>14. /\ w = answer.run.work /\ lo = Chart.start /\ n = Chart.end
       /\ line = s.timeline /\ a = s.available
  BY <1>2, <1>4 DEF line, a
<1> QED
  BY <1>11, <1>13, <1>14 DEF StrategyChartAgrees, Kind

\* The charts of every answer agree with what was planned and counted, whatever
\* date is asked about and wherever its chart begins and ends.
THEOREM ChartsDrawn == Spec => []ChartsAgree
<1>1. Answered => ChartsAgree
  BY PreheatShown, StrategyShown DEF ChartsAgree
<1> QED
  BY <1>1, AnswersComputed, PTL

=============================================================================
