-------------------------- MODULE CalculationProofs --------------------------
(***************************************************************************)
(* What the answers of Calculations are, for every question: the usage     *)
(* parser's, and the planner's up to the instants that it plans.           *)
(***************************************************************************)
EXTENDS Calculations, FiniteSetTheorems, WellFoundedInduction, TLAPS

-----------------------------------------------------------------------------
(***************************************************************************)
(* Numbers, recursive functions and orders.                                *)
(***************************************************************************)

LEMMA SetInduction ==
  ASSUME NEW T \in SUBSET Nat, 0 \in T, \A n \in T : n + 1 \in T
  PROVE  T = Nat
<1> SUFFICES ASSUME NEW n \in Nat, n \notin T PROVE FALSE
  OBVIOUS
<1> DEFINE S == 0 .. n
           Bad == {s \in SUBSET S : \E k \in S : s = 0 .. k /\ k \notin T}
<1>1. IsFiniteSet(S)
  BY FS_Interval
<1>2. IsWellFoundedOn(StrictSubsetOrdering(S), SUBSET S)
  BY <1>1, FS_StrictSubsetOrderingWellFounded, FS_FiniteSubsetsOfFinite
<1>3. S \in Bad
  OBVIOUS
<1>4. Bad # {} /\ Bad \subseteq SUBSET S
  BY <1>3
<1> HIDE DEF Bad
<1>5. PICK s \in Bad : \A r \in Bad : <<r, s>> \notin StrictSubsetOrdering(S)
  BY <1>2, <1>4, WFMin
<1>6. PICK k \in S : s = 0 .. k /\ k \notin T
  BY <1>5 DEF Bad
<1>7. k - 1 \in S /\ k - 1 \notin T
  BY <1>6
<1>8. 0 .. k - 1 \in Bad
  BY <1>7 DEF Bad
<1>9. <<0 .. k - 1, s>> \in StrictSubsetOrdering(S)
  BY <1>6, <1>7 DEF StrictSubsetOrdering
<1> QED
  BY <1>5, <1>8, <1>9

\* Induction up to a bound.
LEMMA RangeInduction ==
  ASSUME NEW n \in Nat, NEW T, 0 \in T,
         \A i \in 0 .. n - 1 : i \in T => i + 1 \in T
  PROVE  0 .. n \subseteq T
<1> DEFINE U == {i \in Nat : i <= n => i \in T}
<1>1. U \in SUBSET Nat /\ 0 \in U
  OBVIOUS
<1>2. \A i \in U : i + 1 \in U
  <2> SUFFICES ASSUME NEW i \in U, i + 1 <= n PROVE i + 1 \in T
    OBVIOUS
  <2> i \in 0 .. n - 1 /\ i \in T
    OBVIOUS
  <2> QED
    OBVIOUS
<1> HIDE DEF U
<1>3. U = Nat
  BY <1>1, <1>2, SetInduction
<1> QED
  BY <1>3 DEF U

\* What makes each value from the one before it exists.
HasRecursion(n, S, base, step) ==
  \E f \in [0 .. n -> S] : f[0] = base /\ \A i \in 1 .. n : f[i] = step[i][f[i - 1]]

LEMMA RecursiveFunction ==
  ASSUME NEW n \in Nat, NEW S, NEW base \in S, NEW step \in [1 .. n -> [S -> S]]
  PROVE  HasRecursion(n, S, base, step)
<1> DEFINE Right(k, f) == /\ f \in [0 .. k -> S]
                          /\ f[0] = base
                          /\ \A i \in 1 .. k : f[i] = step[i][f[i - 1]]
           T == {k \in 0 .. n : \E f : Right(k, f)}
<1>1. 0 \in T
  <2>1. Right(0, [i \in 0 .. 0 |-> base])
    OBVIOUS
  <2> HIDE DEF Right
  <2> QED
    BY <2>1
<1>2. ASSUME NEW k \in 0 .. n - 1, k \in T
      PROVE  k + 1 \in T
  <2>1. PICK f : Right(k, f)
    BY <1>2
  <2> DEFINE g == [i \in 0 .. k + 1 |-> IF i = k + 1 THEN step[k + 1][f[k]] ELSE f[i]]
  <2>2. step[k + 1][f[k]] \in S
    BY <2>1
  <2>3. g \in [0 .. k + 1 -> S] /\ g[0] = base
    BY <2>1, <2>2
  <2>4. ASSUME NEW i \in 1 .. k + 1
        PROVE  g[i] = step[i][g[i - 1]]
    <3>1. CASE i = k + 1
      <4>1. g[i] = step[k + 1][f[k]] /\ g[k] = f[k]
        BY <3>1
      <4> HIDE DEF g
      <4>2. i - 1 = k
        BY <3>1
      <4> QED
        BY <3>1, <4>1, <4>2
    <3>2. CASE i \in 1 .. k
      <4>1. g[i] = f[i] /\ g[i - 1] = f[i - 1]
        BY <3>2
      <4> QED
        BY <3>2, <4>1, <2>1
    <3> QED
      BY <3>1, <3>2
  <2>5. Right(k + 1, g)
    BY <2>3, <2>4
  <2> HIDE DEF Right, g
  <2> QED
    BY <2>5
<1>3. 0 .. n \subseteq T
  <2> HIDE DEF T
  <2> QED
    BY <1>1, <1>2, RangeInduction
<1>4. PICK f : Right(n, f)
  BY <1>3
<1> QED
  BY <1>4 DEF HasRecursion

LEMMA LeastNatural ==
  ASSUME NEW S \in SUBSET Nat, S # {}
  PROVE  Min(S) \in S /\ \A y \in S : Min(S) <= y
<1> DEFINE Free == {n \in Nat : \A y \in S : n < y}
<1>1. \E x \in S : \A y \in S : x <= y
  <2> SUFFICES ASSUME \A x \in S : \E y \in S : y < x
               PROVE  FALSE
    OBVIOUS
  <2>1. 0 \in Free
    OBVIOUS
  <2>2. \A n \in Free : n + 1 \in Free
    <3> SUFFICES ASSUME NEW n \in Free, NEW y \in S PROVE n + 1 < y
      OBVIOUS
    <3>1. PICK x \in S : x < y
      OBVIOUS
    <3> QED
      BY <3>1
  <2>3. Free \in SUBSET Nat
    OBVIOUS
  <2>4. Free = Nat
    <3> HIDE DEF Free
    <3> QED
      BY <2>1, <2>2, <2>3, SetInduction
  <2>5. PICK y \in S : TRUE
    OBVIOUS
  <2>6. y \in Free
    BY <2>4
  <2> QED
    BY <2>6
<1> QED
  BY <1>1 DEF Min

\* R puts the elements of S in a line.
InLine(S, R) ==
  /\ \A x \in S : <<x, x>> \notin R
  /\ \A x, y, z \in S : <<x, y>> \in R /\ <<y, z>> \in R => <<x, z>> \in R
  /\ \A x, y \in S : x = y \/ <<x, y>> \in R \/ <<y, x>> \in R

\* How many stand before x.
Place(S, R, x) == Cardinality({y \in S : <<y, x>> \in R})

LEMMA LaterPlace ==
  ASSUME NEW S, IsFiniteSet(S), NEW R, InLine(S, R), NEW x \in S, NEW y \in S, <<x, y>> \in R
  PROVE  Place(S, R, x) < Place(S, R, y)
<1> DEFINE A == {z \in S : <<z, x>> \in R}
           B == {z \in S : <<z, y>> \in R}
<1>1. A \in SUBSET S /\ B \in SUBSET S /\ x \notin A /\ A \cup {x} \in SUBSET B
  BY DEF InLine
<1>2. IsFiniteSet(A) /\ IsFiniteSet(B)
  BY <1>1, FS_Subset
<1>3. Cardinality(A \cup {x}) = Cardinality(A) + 1
  BY <1>1, <1>2, FS_AddElement
<1>4. Cardinality(A \cup {x}) <= Cardinality(B)
  BY <1>1, <1>2, FS_Subset
<1>5. Cardinality(A) \in Nat /\ Cardinality(B) \in Nat
  BY <1>2, FS_CardinalityType
<1> QED
  BY <1>3, <1>4, <1>5 DEF Place

\* The elements take the places from 0 up, each its own.
LEMMA PlacesTaken ==
  ASSUME NEW S, IsFiniteSet(S), NEW R, InLine(S, R)
  PROVE  /\ Cardinality(S) \in Nat
         /\ \A x \in S : Place(S, R, x) \in 0 .. Cardinality(S) - 1
         /\ \A x, y \in S : Place(S, R, x) = Place(S, R, y) => x = y
         /\ \A k \in 0 .. Cardinality(S) - 1 : \E x \in S : Place(S, R, x) = k
<1>1. Cardinality(S) \in Nat
  BY FS_CardinalityType
<1>2. ASSUME NEW x \in S
      PROVE  Place(S, R, x) \in 0 .. Cardinality(S) - 1
  <2> DEFINE A == {z \in S : <<z, x>> \in R}
  <2>1. A \in SUBSET (S \ {x})
    BY DEF InLine
  <2>2. IsFiniteSet(S \ {x}) /\ Cardinality(S \ {x}) = Cardinality(S) - 1
    BY FS_RemoveElement
  <2>3. IsFiniteSet(A) /\ Cardinality(A) <= Cardinality(S \ {x})
    BY <2>1, <2>2, FS_Subset
  <2>4. Cardinality(A) \in Nat
    BY <2>3, FS_CardinalityType
  <2> QED
    BY <1>1, <2>2, <2>3, <2>4 DEF Place
<1>3. ASSUME NEW x \in S, NEW y \in S, Place(S, R, x) = Place(S, R, y)
      PROVE  x = y
  <2>1. CASE <<x, y>> \in R
    <3>1. Place(S, R, x) < Place(S, R, y)
      BY <2>1, LaterPlace
    <3> QED
      BY <1>1, <1>2, <1>3, <3>1
  <2>2. CASE <<y, x>> \in R
    <3>1. Place(S, R, y) < Place(S, R, x)
      BY <2>2, LaterPlace
    <3> QED
      BY <1>1, <1>2, <1>3, <3>1
  <2> QED
    BY <2>1, <2>2 DEF InLine
<1> DEFINE n == Cardinality(S)
           f == [x \in S |-> Place(S, R, x)]
<1>4. f \in Injection(S, 0 .. n - 1)
  BY <1>2, <1>3 DEF Injection, IsInjective
<1>5. IsFiniteSet(0 .. n - 1) /\ Cardinality(0 .. n - 1) = n
  BY <1>1, FS_Interval, SMTT(30)
<1>6. f \in Surjection(S, 0 .. n - 1)
  BY <1>4, <1>5, FS_Injection
<1>7. \A k \in 0 .. n - 1 : \E x \in S : Place(S, R, x) = k
  BY <1>6 DEF Surjection
<1> QED
  BY <1>1, <1>2, <1>3, <1>7

-----------------------------------------------------------------------------
(***************************************************************************)
(* Usage answers.                                                          *)
(***************************************************************************)

\* Shorter windows come first: a strict order of the windows.
ByLength(ws) ==
  {p \in (DOMAIN ws) \X (DOMAIN ws) : ShorterFirst(ws, p[1], p[2])}

LEMMA PercentRange ==
  ASSUME NEW n \in Field
  PROVE  /\ Percent(n) \in Int
         /\ Percent(n) = -2 \/ (0 <= Percent(n) /\ Percent(n) <= 10000)
<1> n \in Int
  BY DEF Field, Absent, Malformed
<1> QED
  BY DEF Percent, Malformed

LEMMA WindowNumbers ==
  ASSUME NEW w \in Window
  PROVE  /\ Seconds(w) \in Int
         /\ \A limited : Used(w, limited) \in Int /\ Used(w, limited) <= 10000
<1>1. w.seconds \in Nat \cup {-1, -2} /\ w.minutes \in Nat \cup {-1, -2}
  BY DEF Window, Field, Absent, Malformed
<1>2. w.used \in Nat \cup {-1, -2} /\ w.remaining \in Nat \cup {-1, -2} /\ w.resetAt \in Nat
  BY DEF Window, Field, Absent, Malformed
<1>3. Seconds(w) \in Int
  BY <1>1 DEF Seconds, Absent, Malformed
<1>4. w.used \in Field /\ w.remaining \in Field
  BY DEF Window
<1>5. UsagePercent(w) \in Int /\ UsagePercent(w) <= 10000
  <2> DEFINE u == Percent(w.used)
             r == Percent(w.remaining)
  <2>1. u \in Int /\ u <= 10000
    BY <1>4, PercentRange
  <2>2. r \in Int /\ (r = -2 \/ 0 <= r)
    BY <1>4, PercentRange
  <2>3. UsagePercent(w) = IF w.used # -1 THEN u ELSE IF w.remaining = -1 THEN -1
                          ELSE IF r = -2 THEN -2 ELSE 10000 - r
    BY DEF UsagePercent, Absent, Malformed
  <2> HIDE DEF u, r
  <2>4. r # -2 => 10000 - r \in Int /\ 10000 - r <= 10000
    BY <2>2
  <2> QED
    BY <2>1, <2>3, <2>4
<1> QED
  BY <1>3, <1>5 DEF Used

\* The rounded remainder of a percentage in hundredths.
LEMMA WholePercent ==
  ASSUME NEW u \in Int, 0 <= u, u <= 10000
  PROVE  (10000 - u + 50) \div 100 \in 0 .. 100
<1> DEFINE x == 10000 - u + 50
           d == x \div 100
<1>1. x \in Int /\ 0 <= x /\ x <= 10050
  OBVIOUS
<1> HIDE DEF x
<1>2. d \in Int /\ 100 * d <= x /\ x < 100 * d + 100
  BY <1>1
<1> HIDE DEF d
<1>3. d \in 0 .. 100
  BY <1>1, <1>2
<1> QED
  BY <1>3 DEF d, x

LEMMA WindowsInLine ==
  ASSUME NEW ws \in Seq(Window)
  PROVE  /\ InLine(DOMAIN ws, ByLength(ws))
         /\ IsFiniteSet(DOMAIN ws) /\ Cardinality(DOMAIN ws) = Len(ws)
<1>1. DOMAIN ws = 1 .. Len(ws) /\ Len(ws) \in Nat
  OBVIOUS
<1>2. \A i \in DOMAIN ws : Seconds(ws[i]) \in Int
  <2> SUFFICES ASSUME NEW i \in DOMAIN ws PROVE Seconds(ws[i]) \in Int
    OBVIOUS
  <2>1. ws[i] \in Window
    BY <1>1
  <2> QED
    BY <2>1, WindowNumbers
<1>3. InLine(DOMAIN ws, ByLength(ws))
  BY <1>1, <1>2 DEF InLine, ByLength, ShorterFirst
<1> QED
  BY <1>1, <1>3, FS_Interval

\* Every place among the windows has its window.
LEMMA PlacedWindow ==
  ASSUME NEW ws \in Seq(Window), NEW k \in DOMAIN ws
  PROVE  /\ Placed(ws, k) \in DOMAIN ws
         /\ Place(DOMAIN ws, ByLength(ws), Placed(ws, k)) = k - 1
<1>1. DOMAIN ws = 1 .. Len(ws) /\ Len(ws) \in Nat
  OBVIOUS
<1>2. ASSUME NEW i \in DOMAIN ws
      PROVE  Place(DOMAIN ws, ByLength(ws), i)
               = Cardinality({j \in DOMAIN ws : ShorterFirst(ws, j, i)})
  <2>1. {j \in DOMAIN ws : <<j, i>> \in ByLength(ws)}
          = {j \in DOMAIN ws : ShorterFirst(ws, j, i)}
    BY DEF ByLength
  <2> QED
    BY <2>1 DEF Place
<1>3. k - 1 \in 0 .. Cardinality(DOMAIN ws) - 1
  BY <1>1, WindowsInLine
<1>4. \E i \in DOMAIN ws : Place(DOMAIN ws, ByLength(ws), i) = k - 1
  BY <1>3, WindowsInLine, PlacesTaken
<1>5. PICK i \in DOMAIN ws : Place(DOMAIN ws, ByLength(ws), i) = k - 1
  BY <1>4
<1>6. \E j \in DOMAIN ws : Cardinality({l \in DOMAIN ws : ShorterFirst(ws, l, j)}) = k - 1
  BY <1>2, <1>5
<1> DEFINE Good(j) == Cardinality({l \in DOMAIN ws : ShorterFirst(ws, l, j)}) = k - 1
<1>7. Placed(ws, k) = CHOOSE j \in DOMAIN ws : Good(j)
  BY DEF Placed
<1>8. \E j \in DOMAIN ws : Good(j)
  BY <1>6
<1>9. Placed(ws, k) \in DOMAIN ws /\ Good(Placed(ws, k))
  <2> HIDE DEF Good
  <2> QED
    BY <1>7, <1>8
<1> QED
  BY <1>2, <1>9

\* The first is the shortest.
LEMMA FirstPlaced ==
  ASSUME NEW ws \in Seq(Window), ws # <<>>, NEW i \in DOMAIN ws
  PROVE  Seconds(ws[Placed(ws, 1)]) <= Seconds(ws[i])
<1>1. DOMAIN ws = 1 .. Len(ws) /\ Len(ws) \in Nat /\ 1 \in DOMAIN ws
  OBVIOUS
<1> DEFINE first == Placed(ws, 1)
<1>2. first \in DOMAIN ws /\ Place(DOMAIN ws, ByLength(ws), first) = 0
  BY <1>1, PlacedWindow
<1>3. <<i, first>> \notin ByLength(ws)
  <2>1. Place(DOMAIN ws, ByLength(ws), i) \in Nat
    BY WindowsInLine, PlacesTaken
  <2> QED
    BY <1>2, <2>1, WindowsInLine, LaterPlace
<1>4. ws[i] \in Window /\ ws[first] \in Window
  BY <1>1, <1>2
<1>5. Seconds(ws[i]) \in Int /\ Seconds(ws[first]) \in Int
  BY <1>4, WindowNumbers
<1>6. ~ShorterFirst(ws, i, first)
  BY <1>2, <1>3 DEF ByLength
<1> QED
  BY <1>5, <1>6 DEF ShorterFirst

\* What a usage answer that is not refused becomes.
Reported(asked, ws) ==
  /\ Len(ws) = Len(asked)
  /\ ShortestIndex(ws) = 1
  /\ \A i \in DOMAIN ws :
       /\ ws[i].remaining \in 0 .. 100
       /\ ws[i].minutes >= ws[1].minutes
       /\ \E w \in Range(asked) : ws[i].resetAt = w.resetAt

LEMMA ParsedWindows ==
  ASSUME NEW payload \in UsageAnswer,
         ParseUsage(payload) # Invalid
  PROVE  Reported(payload.windows, ParseUsage(payload))
<1> DEFINE asked == payload.windows
           limited == payload.limited
           ws == ParseUsage(payload)
           Row(k) == LET w == ParseWindow(asked[Placed(asked, k)], limited)
                     IN [minutes |-> w.minutes, remaining |-> w.remaining, resetAt |-> w.resetAt,
                         short |-> k = 1]
<1>1. asked \in Seq(Window) /\ limited \in BOOLEAN
  BY DEF UsageAnswer
<1>2. /\ asked # <<>>
      /\ \A i \in DOMAIN asked : Parses(asked[i], limited)
      /\ ws = [k \in DOMAIN asked |-> Row(k)]
  BY DEF ParseUsage
<1>3. DOMAIN asked = 1 .. Len(asked) /\ Len(asked) \in Nat /\ 1 \in DOMAIN asked
  BY <1>1, <1>2
<1>4. DOMAIN ws = 1 .. Len(asked)
  BY <1>2, <1>3
<1>5. Len(ws) = Len(asked)
  BY <1>3, <1>2
<1>6. ASSUME NEW i \in DOMAIN asked
      PROVE  /\ Seconds(asked[i]) \in Int
             /\ Used(asked[i], limited) \in Int
             /\ 0 <= Used(asked[i], limited) /\ Used(asked[i], limited) <= 10000
  <2> DEFINE w == asked[i]
  <2>1. w \in Window
    BY <1>1, <1>3
  <2>2. Parses(w, limited)
    BY <1>2
  <2> HIDE DEF w, limited
  <2>3. Seconds(w) \in Int /\ Used(w, limited) \in Int /\ Used(w, limited) <= 10000
    BY <2>1, WindowNumbers
  <2>4. Used(w, limited) >= 0
    BY <2>2 DEF Parses
  <2>5. 0 <= Used(w, limited)
    BY <2>3, <2>4
  <2> QED
    BY <2>3, <2>5 DEF w
<1>7. ASSUME NEW k \in DOMAIN asked
      PROVE  /\ Placed(asked, k) \in DOMAIN asked
             /\ ws[k].minutes
                  = Max1((Seconds(asked[Placed(asked, k)]) + 30) \div 60)
             /\ ws[k].remaining
                  = (10000 - Used(asked[Placed(asked, k)], limited) + 50) \div 100
             /\ ws[k].resetAt = asked[Placed(asked, k)].resetAt
             /\ ws[k].short = (k = 1)
  <2>1. Placed(asked, k) \in DOMAIN asked
    BY <1>1, PlacedWindow
  <2>2. ws[k] = Row(k)
    BY <1>2
  <2> QED
    BY <2>1, <2>2 DEF ParseWindow
<1> HIDE DEF asked, limited, ws, Row
<1>8. ShortestIndex(ws) = 1
  <2>1. {i \in DOMAIN ws : ws[i].short} = {1}
    <3>1. \A i \in DOMAIN ws : ws[i].short = (i = 1)
      BY <1>3, <1>4, <1>7
    <3>2. 1 \in DOMAIN ws
      BY <1>3, <1>4
    <3> QED
      BY <3>1, <3>2
  <2> QED
    BY <2>1 DEF ShortestIndex
<1>9. ASSUME NEW i \in DOMAIN ws
      PROVE  /\ ws[i].remaining \in 0 .. 100
             /\ ws[i].minutes >= ws[1].minutes
             /\ \E w \in Range(asked) : ws[i].resetAt = w.resetAt
  <2> DEFINE p == Placed(asked, i)
             q == Placed(asked, 1)
  <2>1. i \in DOMAIN asked /\ p \in DOMAIN asked /\ q \in DOMAIN asked
    BY <1>3, <1>4, <1>7
  <2>2. ws[i].remaining \in 0 .. 100
    <3> DEFINE used == Used(asked[p], limited)
    <3>1. used \in Int /\ 0 <= used /\ used <= 10000
      BY <2>1, <1>6
    <3>2. ws[i].remaining = (10000 - used + 50) \div 100
      BY <2>1, <1>7
    <3> HIDE DEF used
    <3>3. (10000 - used + 50) \div 100 \in 0 .. 100
      BY <3>1, WholePercent
    <3> QED
      BY <3>2, <3>3
  <2>3. ws[i].minutes >= ws[1].minutes
    <3> DEFINE long == Seconds(asked[p])
               short == Seconds(asked[q])
    <3>1. short <= long
      BY <1>1, <1>2, <2>1, FirstPlaced
    <3>2. long \in Int /\ short \in Int
      BY <2>1, <1>6
    <3>3. ws[i].minutes = Max1((long + 30) \div 60)
          /\ ws[1].minutes = Max1((short + 30) \div 60)
      BY <2>1, <1>3, <1>7
    <3> HIDE DEF long, short
    <3> QED
      BY <3>1, <3>2, <3>3 DEF Max1
  <2>4. \E w \in Range(asked) : ws[i].resetAt = w.resetAt
    <3>1. asked[p] \in Range(asked)
      BY <2>1 DEF Range
    <3> QED
      BY <3>1, <2>1, <1>7
  <2> QED
    BY <2>2, <2>3, <2>4
<1> QED
  BY <1>5, <1>8, <1>9 DEF asked, ws, Reported

\* A credit detail that is complete names a count.
LEMMA CompleteCounts ==
  ASSUME NEW payload \in UsageAnswer, NEW detail \in CreditInfo,
         ValidCredits(detail)
  PROVE  ParseSnapshot(payload, detail).count >= 0
<1>1. /\ detail.available \in Nat \cup {-1, -2} /\ detail.applicable \in Nat \cup {-1, -2}
      /\ detail.listed \in BOOLEAN
      /\ DOMAIN detail.credits = 1 .. Len(detail.credits) /\ Len(detail.credits) \in Nat
  BY DEF CreditInfo, Field, Absent, Malformed
<1>2. Credits(detail) \in SUBSET (1 .. Len(detail.credits))
  BY <1>1 DEF Credits
<1>3. IsFiniteSet(Credits(detail))
  <2>1. IsFiniteSet(1 .. Len(detail.credits))
    BY <1>1, FS_Interval
  <2> QED
    BY <1>2, <2>1, FS_Subset
<1>4. Cardinality(Credits(detail)) \in Nat
  BY <1>3, FS_CardinalityType
<1>5. ApplicableCount(detail) \in Nat \cup {-1}
  <2>1. detail.available # -2 /\ detail.applicable # -2
    BY DEF ValidCredits, Malformed
  <2> QED
    BY <1>1, <1>4, <2>1 DEF ApplicableCount, Absent
<1>6. detail.listed \/ ApplicableCount(detail) # -1
  BY <1>1 DEF ApplicableCount, ValidCredits, Absent, Malformed
<1> QED
  BY <1>5, <1>6 DEF ParseSnapshot, Absent

-----------------------------------------------------------------------------
(***************************************************************************)
(* Answers.                                                                *)
(***************************************************************************)

\* The answer to a question is what the code computes for it.
Answered ==
  /\ question \in ScheduleQuestions \cup UsageQuestions
  /\ answer # Unanswered =>
       \/ /\ question.kind = "preview"
          /\ answer = Preview(Drafted(question.cfg), question.day, question.chart)
       \/ question.kind = "update" /\ answer = Update(question.cfg, question.day)
       \/ question.kind = "usage" /\ answer = ParseSnapshot(question.payload, question.detail)

LEMMA AnswersComputed == Spec => []Answered
<1>1. Init => Answered
  BY DEF Init, Answered
<1>2. Answered /\ [Next]_vars => Answered'
  <2> SUFFICES ASSUME Answered, [Next]_vars
               PROVE  Answered'
    OBVIOUS
  <2>1. CASE AnswerPreview
    BY <2>1 DEF Answered, AnswerPreview
  <2>2. CASE AnswerUpdate
    BY <2>2 DEF Answered, AnswerUpdate
  <2>3. CASE AnswerUsage
    BY <2>3 DEF Answered, AnswerUsage
  <2>4. CASE UNCHANGED vars
    BY <2>4 DEF Answered, vars
  <2> QED
    BY <2>1, <2>2, <2>3, <2>4 DEF Next
<1> QED
  BY <1>1, <1>2, PTL DEF Spec

\* What is collected of a usage answer is reported whole, its shortest window
\* first, with a count when its credits are complete (ParseUsage, refreshOwner).
THEOREM SnapshotsWhole == Spec => []SnapshotWhole
<1>1. Answered => SnapshotWhole
  <2> SUFFICES ASSUME Answered, answer # Unanswered, question.kind = "usage"
               PROVE  SnapshotWhole
    BY DEF SnapshotWhole, Parsed
  <2>1. /\ question.payload \in UsageAnswer /\ question.detail \in CreditInfo
        /\ answer = ParseSnapshot(question.payload, question.detail)
    BY QuestionsAssumption DEF Answered
  <2>2. answer.windows = ParseUsage(question.payload) /\ answer.complete = ValidCredits(question.detail)
    BY <2>1 DEF ParseSnapshot
  <2>3. answer.complete => answer.count >= 0
    BY <2>1, <2>2, CompleteCounts
  <2>4. ASSUME Parsed
        PROVE  Reported(Asked, answer.windows)
    <3>1. ParseUsage(question.payload) # Invalid
      BY <2>2, <2>4 DEF Parsed
    <3> QED
      BY <2>1, <2>2, <3>1, ParsedWindows DEF Asked
  <2> QED
    BY <2>3, <2>4 DEF SnapshotWhole, Reported
<1> QED
  BY <1>1, AnswersComputed, PTL

-----------------------------------------------------------------------------
(***************************************************************************)
(* Periods laid end to end.                                                *)
(***************************************************************************)

Span == [start : Nat, end : Nat]

\* Periods that are none of them empty, each over before the next begins.
Apart(is) ==
  /\ is \in Seq(Span)
  /\ \A k \in 1 .. Len(is) : is[k].start < is[k].end
  /\ \A k, l \in 1 .. Len(is) : k < l => is[k].end <= is[l].start

LEMMA ElapsedSteps ==
  ASSUME NEW is \in Seq(Span)
  PROVE  /\ Elapsed(is) \in [0 .. Len(is) -> Int]
         /\ Elapsed(is)[0] = 0
         /\ \A k \in 1 .. Len(is) :
              Elapsed(is)[k] = Elapsed(is)[k - 1] + (is[k].end - is[k].start)
<1> DEFINE n == Len(is)
           step == [k \in 1 .. n |-> [x \in Int |-> x + (is[k].end - is[k].start)]]
           Sums(f) == f = [k \in 0 .. n |-> IF k = 0 THEN 0 ELSE f[k - 1] + (is[k].end - is[k].start)]
<1>1. n \in Nat /\ DOMAIN is = 1 .. n
  OBVIOUS
<1>2. \A k \in 1 .. n : is[k].end \in Nat /\ is[k].start \in Nat
  <2> SUFFICES ASSUME NEW k \in 1 .. n PROVE is[k].end \in Nat /\ is[k].start \in Nat
    OBVIOUS
  <2> is[k] \in Span
    BY <1>1
  <2> QED
    BY DEF Span
<1>3. step \in [1 .. n -> [Int -> Int]]
  BY <1>2
<1>4. PICK f \in [0 .. n -> Int] : f[0] = 0 /\ \A k \in 1 .. n : f[k] = step[k][f[k - 1]]
  <2> HIDE DEF step, n
  <2>1. 0 \in Int
    OBVIOUS
  <2>2. HasRecursion(n, Int, 0, step)
    BY <1>1, <1>3, <2>1, RecursiveFunction
  <2> QED
    BY <2>2 DEF HasRecursion
<1>5. Sums(f)
  <2>1. \A k \in 1 .. n : step[k][f[k - 1]] = f[k - 1] + (is[k].end - is[k].start)
    <3> SUFFICES ASSUME NEW k \in 1 .. n
                 PROVE  step[k][f[k - 1]] = f[k - 1] + (is[k].end - is[k].start)
      OBVIOUS
    <3>1. f[k - 1] \in Int
      BY <1>1, <1>4
    <3> QED
      BY <3>1
  <2>2. \A k \in 0 .. n : f[k] = IF k = 0 THEN 0 ELSE f[k - 1] + (is[k].end - is[k].start)
    <3> SUFFICES ASSUME NEW k \in 0 .. n
                 PROVE  f[k] = IF k = 0 THEN 0 ELSE f[k - 1] + (is[k].end - is[k].start)
      OBVIOUS
    <3>1. CASE k = 0
      BY <1>4, <3>1
    <3>2. CASE k \in 1 .. n
      <4>1. f[k] = step[k][f[k - 1]]
        BY <1>4, <3>2
      <4> HIDE DEF step
      <4> QED
        BY <3>2, <4>1, <2>1
    <3> QED
      BY <1>1, <3>1, <3>2
  <2>3. f = [k \in 0 .. n |-> f[k]]
    BY <1>4
  <2> HIDE DEF n
  <2> QED
    BY <2>2, <2>3
<1>6. Elapsed(is) = CHOOSE g : Sums(g)
  BY DEF Elapsed
<1>7. Sums(Elapsed(is))
  <2> HIDE DEF Sums
  <2> QED
    BY <1>5, <1>6
<1> DEFINE e == Elapsed(is)
<1>8. e[0] = 0 /\ \A k \in 1 .. n : e[k] = e[k - 1] + (is[k].end - is[k].start)
  <2> HIDE DEF e
  <2> QED
    BY <1>1, <1>7 DEF e
<1>9. \A k \in 0 .. n : e[k] \in Int
  <2> DEFINE T == {k \in 0 .. n : e[k] \in Int}
  <2> HIDE DEF e
  <2>1. 0 \in T
    BY <1>1, <1>8
  <2>2. \A k \in 0 .. n - 1 : k \in T => k + 1 \in T
    <3> SUFFICES ASSUME NEW k \in 0 .. n - 1, k \in T PROVE k + 1 \in T
      OBVIOUS
    <3>1. k + 1 \in 1 .. n /\ (k + 1) - 1 = k
      BY <1>1
    <3>2. e[k + 1] = e[k] + (is[k + 1].end - is[k + 1].start)
      BY <1>8, <3>1
    <3> QED
      BY <1>2, <3>1, <3>2
  <2> HIDE DEF T
  <2>3. 0 .. n \subseteq T
    BY <1>1, <2>1, <2>2, RangeInduction
  <2> QED
    BY <2>3 DEF T
<1> QED
  BY <1>7, <1>8, <1>9

LEMMA ElapsedGrows ==
  ASSUME NEW is, Apart(is)
  PROVE  \A k, l \in 0 .. Len(is) : k < l => Elapsed(is)[k] < Elapsed(is)[l]
<1> DEFINE n == Len(is)
           e == Elapsed(is)
           T == {l \in 0 .. n : \A k \in 0 .. n : k < l => e[k] < e[l]}
<1>1. is \in Seq(Span) /\ n \in Nat
  BY DEF Apart
<1>2. \A k \in 0 .. n : e[k] \in Int
  BY <1>1, ElapsedSteps
<1>3. \A k \in 1 .. n : e[k - 1] < e[k]
  <2> SUFFICES ASSUME NEW k \in 1 .. n PROVE e[k - 1] < e[k]
    OBVIOUS
  <2>1. e[k] = e[k - 1] + (is[k].end - is[k].start)
    BY <1>1, ElapsedSteps
  <2>2. is[k] \in Span
    BY <1>1
  <2>3. is[k].start < is[k].end /\ is[k].start \in Nat /\ is[k].end \in Nat
    BY <2>2 DEF Apart, Span
  <2>4. e[k - 1] \in Int
    BY <1>1, <1>2
  <2> HIDE DEF e
  <2> QED
    BY <2>1, <2>3, <2>4
<1> HIDE DEF e, n
<1>4. 0 \in T
  BY <1>1
<1>5. \A l \in 0 .. n - 1 : l \in T => l + 1 \in T
  <2> SUFFICES ASSUME NEW l \in 0 .. n - 1, l \in T, NEW k \in 0 .. n, k < l + 1
               PROVE  e[k] < e[l + 1]
    BY <1>1
  <2>1. l + 1 \in 1 .. n /\ (l + 1) - 1 = l
    BY <1>1
  <2>2. e[l] < e[l + 1]
    BY <1>3, <2>1
  <2>3. k = l \/ e[k] < e[l]
    OBVIOUS
  <2>4. e[k] \in Int /\ e[l] \in Int /\ e[l + 1] \in Int
    BY <1>1, <1>2
  <2> QED
    BY <2>2, <2>3, <2>4
<1>6. 0 .. n \subseteq T
  <2> HIDE DEF T
  <2> QED
    BY <1>1, <1>4, <1>5, RangeInduction
<1> QED
  BY <1>6 DEF n, e

\* The instants that periods hold.
Held(is) == {t \in Nat : \E k \in 1 .. Len(is) : is[k].start <= t /\ t < is[k].end}

\* The k-th period is the one that an offset falls into.
FallsIn(is, offset, k) == Elapsed(is)[k - 1] <= offset /\ offset < Elapsed(is)[k]

LEMMA OffsetFalls ==
  ASSUME NEW is, Apart(is), NEW offset \in Nat, offset < Duration(is)
  PROVE  \E k \in 1 .. Len(is) : FallsIn(is, offset, k)
<1> DEFINE n == Len(is)
           e == Elapsed(is)
           Later == {l \in 0 .. n : offset < e[l]}
<1>1. is \in Seq(Span) /\ n \in Nat
  BY DEF Apart
<1>2. (\A k \in 0 .. n : e[k] \in Int) /\ e[0] = 0
  BY <1>1, ElapsedSteps
<1>3. n \in Later
  BY <1>1 DEF Duration
<1> HIDE DEF e, n
<1>4. Later \in SUBSET Nat /\ Later # {}
  BY <1>1, <1>3
<1>5. Min(Later) \in Later /\ \A y \in Later : Min(Later) <= y
  <2> HIDE DEF Later
  <2> QED
    BY <1>4, LeastNatural
<1>6. PICK k \in Later : \A y \in Later : k <= y
  BY <1>5
<1>7. k # 0
  BY <1>2, <1>6
<1>8. k \in 1 .. n /\ k - 1 \in 0 .. n
  BY <1>1, <1>6, <1>7
<1>9. k - 1 \notin Later
  BY <1>6, <1>8
<1> QED
  BY <1>2, <1>6, <1>8, <1>9 DEF FallsIn, e, n

LEMMA OffsetInstant ==
  ASSUME NEW is, Apart(is), NEW offset \in Nat, NEW k \in 1 .. Len(is), FallsIn(is, offset, k)
  PROVE  /\ AtOffset(is, offset) = is[k].start + (offset - Elapsed(is)[k - 1])
         /\ AtOffset(is, offset) \in Nat
         /\ is[k].start <= AtOffset(is, offset) /\ AtOffset(is, offset) < is[k].end
         /\ offset < Duration(is)
<1> DEFINE n == Len(is)
           e == Elapsed(is)
           Later == {l \in DOMAIN is : offset < e[l]}
<1>1. is \in Seq(Span) /\ n \in Nat /\ DOMAIN is = 1 .. n /\ k \in 1 .. n
  BY DEF Apart
<1>2. (\A l \in 0 .. n : e[l] \in Int) /\ e[k] = e[k - 1] + (is[k].end - is[k].start)
  BY <1>1, ElapsedSteps
<1>3. \A l, m \in 0 .. n : l < m => e[l] < e[m]
  BY ElapsedGrows
<1>4. e[k - 1] <= offset /\ offset < e[k]
  BY DEF FallsIn
<1>5. is[k].start \in Nat /\ is[k].end \in Nat
  <2>1. is[k] \in Span
    BY <1>1
  <2> QED
    BY <2>1 DEF Span
<1>6. Duration(is) = e[n]
  BY DEF Duration
<1> HIDE DEF e, n
<1>7. k \in Later /\ \A l \in Later : k <= l
  <2>1. k \in Later
    BY <1>1, <1>4
  <2>2. ASSUME NEW l \in Later, l < k
        PROVE  FALSE
    <3>1. l \in 0 .. n /\ k - 1 \in 0 .. n /\ (l = k - 1 \/ l < k - 1)
      BY <1>1, <2>2
    <3>2. e[l] <= e[k - 1]
      BY <1>2, <1>3, <3>1
    <3>3. offset < e[l]
      OBVIOUS
    <3>4. e[l] \in Int /\ e[k - 1] \in Int
      BY <1>2, <3>1
    <3> QED
      BY <1>4, <3>2, <3>3, <3>4
  <2> QED
    BY <1>1, <2>1, <2>2
<1>8. Min(Later) = k
  <2>1. Later \in SUBSET Nat /\ Later # {}
    BY <1>1, <1>7
  <2> HIDE DEF Later
  <2>2. Min(Later) \in Later /\ \A y \in Later : Min(Later) <= y
    BY <2>1, LeastNatural
  <2>3. Min(Later) \in Nat /\ Min(Later) <= k /\ k <= Min(Later)
    BY <1>7, <2>1, <2>2
  <2> QED
    BY <1>1, <2>3
<1>9. offset < Duration(is)
  <2>1. k = n \/ e[k] < e[n]
    BY <1>1, <1>3
  <2>2. e[k] \in Int /\ e[n] \in Int
    BY <1>1, <1>2
  <2> QED
    BY <1>4, <1>6, <2>1, <2>2
<1>10. AtOffset(is, offset) = is[k].start + (offset - e[k - 1])
  <2>1. ~(offset >= Duration(is))
    <3>1. Duration(is) \in Int
      BY <1>1, <1>2, <1>6
    <3> QED
      BY <1>9, <3>1
  <2> QED
    BY <1>8, <2>1 DEF AtOffset, e
<1>11. e[k - 1] \in Int /\ e[k] \in Int
  BY <1>1, <1>2
<1> DEFINE s == is[k].start
           t == is[k].end
           x == e[k - 1]
           y == e[k]
<1>12. s \in Nat /\ t \in Nat /\ x \in Int /\ y \in Int /\ x <= offset /\ offset < y /\ y = x + (t - s)
  BY <1>2, <1>4, <1>5, <1>11
<1>13. AtOffset(is, offset) = s + (offset - x)
  BY <1>10
<1> HIDE DEF s, t, x, y
<1>14. s + (offset - x) \in Nat /\ s <= s + (offset - x) /\ s + (offset - x) < t
  BY <1>12
<1> QED
  BY <1>9, <1>10, <1>13, <1>14 DEF s, t, e

LEMMA OffsetsRise ==
  ASSUME NEW is, Apart(is), NEW x \in Nat, NEW y \in Nat, x < y, y < Duration(is)
  PROVE  AtOffset(is, x) < AtOffset(is, y)
<1>1. is \in Seq(Span) /\ Len(is) \in Nat
  BY DEF Apart
<1>2. \A l \in 0 .. Len(is) : Elapsed(is)[l] \in Int
  BY <1>1, ElapsedSteps
<1>3. x < Duration(is)
  BY <1>1, <1>2 DEF Duration
<1>4. PICK k \in 1 .. Len(is) : FallsIn(is, x, k)
  BY <1>3, OffsetFalls
<1>5. PICK l \in 1 .. Len(is) : FallsIn(is, y, l)
  BY OffsetFalls
<1>6. /\ AtOffset(is, x) = is[k].start + (x - Elapsed(is)[k - 1])
      /\ AtOffset(is, x) \in Nat /\ AtOffset(is, x) < is[k].end
  BY <1>4, OffsetInstant
<1>7. /\ AtOffset(is, y) = is[l].start + (y - Elapsed(is)[l - 1])
      /\ AtOffset(is, y) \in Nat /\ is[l].start <= AtOffset(is, y)
  BY <1>5, OffsetInstant
<1>8. is[k] \in Span /\ is[l] \in Span
  BY <1>1
<1>9. is[k].start \in Nat /\ is[k].end \in Nat /\ is[l].start \in Nat
  BY <1>8 DEF Span
<1>10. Elapsed(is)[k - 1] \in Int /\ Elapsed(is)[k] \in Int /\ Elapsed(is)[l - 1] \in Int
       /\ Elapsed(is)[l] \in Int
  BY <1>1, <1>2
<1>11. CASE k = l
  BY <1>6, <1>7, <1>9, <1>10, <1>11, SMTT(30)
<1>12. CASE k < l
  <2>1. is[k].end <= is[l].start
    BY <1>12 DEF Apart
  <2> QED
    BY <1>6, <1>7, <1>9, <2>1, SMTT(30)
<1>13. CASE l < k
  <2>1. l = k - 1 \/ l < k - 1
    BY <1>13
  <2>2. Elapsed(is)[l] <= Elapsed(is)[k - 1]
    BY <1>1, <1>10, <2>1, ElapsedGrows
  <2> QED
    BY <1>4, <1>5, <1>10, <2>2 DEF FallsIn
<1> QED
  BY <1>11, <1>12, <1>13

LEMMA OffsetsReach ==
  ASSUME NEW is, Apart(is), NEW t \in Held(is)
  PROVE  \E offset \in Nat : offset < Duration(is) /\ AtOffset(is, offset) = t
<1>1. is \in Seq(Span) /\ Len(is) \in Nat
  BY DEF Apart
<1>2. (\A l \in 0 .. Len(is) : Elapsed(is)[l] \in Int) /\ Elapsed(is)[0] = 0
  BY <1>1, ElapsedSteps
<1>3. PICK k \in 1 .. Len(is) : is[k].start <= t /\ t < is[k].end
  BY DEF Held
<1>4. Elapsed(is)[k] = Elapsed(is)[k - 1] + (is[k].end - is[k].start)
  BY <1>1, ElapsedSteps
<1>5. Elapsed(is)[k - 1] \in Int /\ Elapsed(is)[k] \in Int /\ t \in Nat
  BY <1>1, <1>2 DEF Held
<1>6. is[k].start \in Nat /\ is[k].end \in Nat
  <2>1. is[k] \in Span
    BY <1>1
  <2> QED
    BY <2>1 DEF Span
<1>7. Elapsed(is)[k - 1] >= 0
  <2>1. k - 1 = 0 \/ Elapsed(is)[0] < Elapsed(is)[k - 1]
    BY <1>1, ElapsedGrows
  <2> QED
    BY <1>2, <1>5, <2>1
<1> DEFINE offset == Elapsed(is)[k - 1] + (t - is[k].start)
<1>8. offset \in Nat
  BY <1>3, <1>5, <1>6, <1>7
<1>9. FallsIn(is, offset, k)
  <2> DEFINE s == is[k].start
             d == is[k].end
             x == Elapsed(is)[k - 1]
             y == Elapsed(is)[k]
  <2>1. /\ s \in Nat /\ d \in Nat /\ x \in Int /\ y \in Int /\ t \in Nat
        /\ s <= t /\ t < d /\ y = x + (d - s)
    BY <1>3, <1>4, <1>5, <1>6
  <2> HIDE DEF s, d, x, y
  <2>2. x <= x + (t - s) /\ x + (t - s) < y
    BY <2>1
  <2> QED
    BY <2>2 DEF FallsIn, s, x, y
<1> HIDE DEF offset
<1>10. /\ AtOffset(is, offset) = is[k].start + (offset - Elapsed(is)[k - 1])
       /\ offset < Duration(is)
  BY <1>8, <1>9, OffsetInstant
<1>11. AtOffset(is, offset) = t
  BY <1>5, <1>6, <1>10 DEF offset
<1> QED
  BY <1>8, <1>10, <1>11

LEMMA ApartNumbers ==
  ASSUME NEW is \in Seq(Span), NEW k \in 1 .. Len(is)
  PROVE  is[k] \in Span /\ is[k].start \in Nat /\ is[k].end \in Nat
<1>1. is[k] \in Span
  OBVIOUS
<1> QED
  BY <1>1 DEF Span

\* Sorted periods are apart.
LEMMA PeriodsApart ==
  ASSUME NEW ps \in Seq(Span), ValidPeriods(ps)
  PROVE  Apart(ps)
<1> DEFINE n == Len(ps)
           T == {l \in 0 .. n : \A k \in 1 .. n : k < l => ps[k].end <= ps[l].start}
<1>1. n \in Nat /\ DOMAIN ps = 1 .. n
  OBVIOUS
<1>2. \A k \in 1 .. n : ps[k].start \in Nat /\ ps[k].end \in Nat
  BY ApartNumbers
<1>3. \A k \in 1 .. n : ps[k].start < ps[k].end
  BY <1>1 DEF ValidPeriods
<1>4. \A k \in 1 .. n : k > 1 => ps[k - 1].end <= ps[k].start
  <2> SUFFICES ASSUME NEW k \in 1 .. n, k > 1 PROVE ps[k - 1].end <= ps[k].start
    OBVIOUS
  <2>1. k - 1 \in 1 .. n
    BY <1>1
  <2>2. ps[k].start >= ps[k - 1].end
    BY <1>1 DEF ValidPeriods
  <2> QED
    BY <1>2, <2>1, <2>2
<1> HIDE DEF n
<1>5. 0 \in T
  BY <1>1
<1>6. \A l \in 0 .. n - 1 : l \in T => l + 1 \in T
  <2> SUFFICES ASSUME NEW l \in 0 .. n - 1, l \in T, NEW k \in 1 .. n, k < l + 1
               PROVE  ps[k].end <= ps[l + 1].start
    BY <1>1
  <2>1. l + 1 \in 1 .. n /\ l \in 1 .. n /\ (l + 1) - 1 = l /\ l + 1 > 1
    BY <1>1
  <2>2. ps[l].end <= ps[l + 1].start
    BY <1>4, <2>1
  <2>3. k = l \/ ps[k].end <= ps[l].start
    OBVIOUS
  <2>4. ps[l].start < ps[l].end
    BY <1>3, <2>1
  <2>5. ps[k].end \in Nat /\ ps[l].start \in Nat /\ ps[l].end \in Nat /\ ps[l + 1].start \in Nat
    BY <1>2, <2>1
  <2> QED
    BY <2>2, <2>3, <2>4, <2>5, SMTT(30)
<1>7. 0 .. n \subseteq T
  <2> HIDE DEF T
  <2> QED
    BY <1>1, <1>5, <1>6, RangeInduction
<1>8. \A k, l \in 1 .. n : k < l => ps[k].end <= ps[l].start
  BY <1>1, <1>7
<1> QED
  BY <1>3, <1>8 DEF Apart, n

LEMMA ApartAppended ==
  ASSUME NEW is, Apart(is), NEW p \in Span, p.start < p.end,
         \A k \in 1 .. Len(is) : is[k].end <= p.start
  PROVE  /\ Apart(Append(is, p))
         /\ Len(Append(is, p)) = Len(is) + 1
         /\ Append(is, p)[Len(is) + 1] = p
         /\ \A k \in 1 .. Len(is) : Append(is, p)[k] = is[k]
         /\ Held(Append(is, p)) = Held(is) \cup {t \in Nat : p.start <= t /\ t < p.end}
<1> DEFINE n == Len(is)
           js == Append(is, p)
<1>1. is \in Seq(Span) /\ n \in Nat
  BY DEF Apart
<1>2. /\ js \in Seq(Span) /\ Len(js) = n + 1 /\ js[n + 1] = p
      /\ \A k \in 1 .. n : js[k] = is[k]
  BY <1>1
<1>3. /\ \A k \in 1 .. n : is[k].start < is[k].end
      /\ \A k, l \in 1 .. n : k < l => is[k].end <= is[l].start
  BY DEF Apart
<1>4. \A k \in 1 .. n : is[k].end <= p.start
  OBVIOUS
<1> HIDE DEF n, js
<1>5. \A k \in 1 .. n + 1 : js[k].start < js[k].end
  <2> SUFFICES ASSUME NEW k \in 1 .. n + 1 PROVE js[k].start < js[k].end
    OBVIOUS
  <2>1. k = n + 1 \/ k \in 1 .. n
    BY <1>1
  <2> QED
    BY <1>2, <1>3, <2>1
<1>6. \A k, l \in 1 .. n + 1 : k < l => js[k].end <= js[l].start
  <2> SUFFICES ASSUME NEW k \in 1 .. n + 1, NEW l \in 1 .. n + 1, k < l
               PROVE  js[k].end <= js[l].start
    OBVIOUS
  <2>1. k \in 1 .. n /\ (l = n + 1 \/ l \in 1 .. n)
    BY <1>1
  <2> QED
    BY <1>2, <1>3, <1>4, <2>1
<1>7. Held(js) = Held(is) \cup {t \in Nat : p.start <= t /\ t < p.end}
  <2>1. \A k : k \in 1 .. n + 1 <=> k = n + 1 \/ k \in 1 .. n
    BY <1>1
  <2>2. \A t : (\E k \in 1 .. n + 1 : js[k].start <= t /\ t < js[k].end)
               <=> (p.start <= t /\ t < p.end) \/ (\E k \in 1 .. n : is[k].start <= t /\ t < is[k].end)
    BY <1>2, <2>1
  <2> QED
    BY <1>2, <2>2 DEF Held, n
<1> QED
  BY <1>2, <1>5, <1>6, <1>7 DEF Apart, n, js

-----------------------------------------------------------------------------
(***************************************************************************)
(* What blackouts leave of a window.                                       *)
(***************************************************************************)

Pass == [cursor : Nat, done : BOOLEAN, allowed : Seq(Span)]

LEMMA CutType ==
  ASSUME NEW base \in Span, NEW b \in Span, NEW st \in Pass
  PROVE  Cut(base, b, st) \in Pass
<1>1. /\ base.end \in Nat /\ b.start \in Nat /\ b.end \in Nat
      /\ st.cursor \in Nat /\ st.done \in BOOLEAN /\ st.allowed \in Seq(Span)
  BY DEF Span, Pass
<1>2. (b.end >= base.end) \in BOOLEAN
  OBVIOUS
<1>3. [start |-> st.cursor, end |-> b.start] \in Span
  BY <1>1 DEF Span
<1>4. Append(st.allowed, [start |-> st.cursor, end |-> b.start]) \in Seq(Span)
  BY <1>1, <1>3
<1>5. [st EXCEPT !.done = TRUE] \in Pass
  BY DEF Pass
<1>6. \A a \in Seq(Span), d \in BOOLEAN : [cursor |-> b.end, done |-> d, allowed |-> a] \in Pass
  BY <1>1 DEF Pass
<1>7. (IF b.start <= st.cursor THEN st.allowed
       ELSE Append(st.allowed, [start |-> st.cursor, end |-> b.start])) \in Seq(Span)
  BY <1>1, <1>4
<1>8. [cursor |-> b.end, done |-> b.end >= base.end,
       allowed |-> IF b.start <= st.cursor THEN st.allowed
                   ELSE Append(st.allowed, [start |-> st.cursor, end |-> b.start])] \in Pass
  BY <1>2, <1>6, <1>7
<1> QED
  BY <1>5, <1>8 DEF Cut

LEMMA PassedSteps ==
  ASSUME NEW base \in Span, NEW bs \in Seq(Span)
  PROVE  /\ Passed(base, bs)[0] = [cursor |-> base.start, allowed |-> <<>>, done |-> FALSE]
         /\ \A i \in 1 .. Len(bs) : Passed(base, bs)[i] = Cut(base, bs[i], Passed(base, bs)[i - 1])
<1> DEFINE n == Len(bs)
           first == [cursor |-> base.start, allowed |-> <<>>, done |-> FALSE]
           step == [i \in 1 .. n |-> [st \in Pass |-> Cut(base, bs[i], st)]]
           Passes(f) == f = [i \in 0 .. n |-> IF i = 0 THEN first ELSE Cut(base, bs[i], f[i - 1])]
<1>1. n \in Nat
  OBVIOUS
<1>2. \A i \in 1 .. n : bs[i] \in Span
  OBVIOUS
<1>3. step \in [1 .. n -> [Pass -> Pass]]
  BY <1>2, CutType
<1>4. first \in Pass
  BY DEF Pass, Span
<1>5. PICK f \in [0 .. n -> Pass] : f[0] = first /\ \A i \in 1 .. n : f[i] = step[i][f[i - 1]]
  <2> HIDE DEF step, n, first
  <2>1. HasRecursion(n, Pass, first, step)
    BY <1>1, <1>3, <1>4, RecursiveFunction
  <2> QED
    BY <2>1 DEF HasRecursion
<1>6. Passes(f)
  <2> SUFFICES ASSUME NEW i \in 0 .. n
               PROVE  f[i] = IF i = 0 THEN first ELSE Cut(base, bs[i], f[i - 1])
    <3>1. f = [i \in 0 .. n |-> f[i]]
      BY <1>5
    <3> HIDE DEF n, first, step
    <3> QED
      BY <3>1
  <2>1. CASE i = 0
    BY <1>5, <2>1
  <2>2. CASE i \in 1 .. n
    <3>1. f[i] = step[i][f[i - 1]]
      BY <1>5, <2>2
    <3>2. f[i - 1] \in Pass
      BY <1>5, <2>2
    <3>3. step[i][f[i - 1]] = Cut(base, bs[i], f[i - 1])
      BY <2>2, <3>2
    <3> HIDE DEF step, first
    <3> QED
      BY <2>2, <3>1, <3>3
  <2> QED
    BY <1>1, <2>1, <2>2
<1>7. Passed(base, bs) = CHOOSE g : Passes(g)
  BY DEF Passed
<1>8. Passes(Passed(base, bs))
  <2> HIDE DEF Passes
  <2> QED
    BY <1>6, <1>7
<1> DEFINE p == Passed(base, bs)
<1> HIDE DEF p
<1>9. p = [i \in 0 .. n |-> IF i = 0 THEN first ELSE Cut(base, bs[i], p[i - 1])]
  BY <1>8 DEF p
<1>10. p[0] = first
  <2> HIDE DEF first, n
  <2> QED
    BY <1>1, <1>9
<1>11. \A i \in 1 .. n : p[i] = Cut(base, bs[i], p[i - 1])
  <2> HIDE DEF first, n
  <2> QED
    BY <1>1, <1>9
<1> QED
  BY <1>10, <1>11 DEF p

\* A minute that one of the first i blackouts holds.
BlackedOut(bs, i, m) == \E j \in 1 .. i : bs[j].start <= m /\ m < bs[j].end

\* What the pass has done after the first i blackouts: the cursor is past them,
\* or they do not concern the window; what is allowed before it is collected.
CutSoFar(base, bs, i, st) ==
  /\ st \in Pass
  /\ base.start <= st.cursor
  /\ Apart(st.allowed)
  /\ \A k \in 1 .. Len(st.allowed) :
       /\ base.start <= st.allowed[k].start
       /\ st.allowed[k].end <= st.cursor
       /\ st.allowed[k].end <= base.end
  /\ ~st.done => st.cursor < base.end
  /\ st.done => \A j \in i + 1 .. Len(bs) : bs[j].start >= base.end
  /\ st.cursor = base.start \/ \A j \in i + 1 .. Len(bs) : bs[j].start >= st.cursor
  /\ \A j \in 1 .. i : bs[j].end <= st.cursor \/ bs[j].start >= base.end
  /\ \A m \in Nat : base.start <= m /\ m < st.cursor /\ m < base.end =>
       (m \in Held(st.allowed) <=> ~BlackedOut(bs, i, m))

LEMMA CutBegins ==
  ASSUME NEW base \in Span, base.start < base.end, NEW bs \in Seq(Span)
  PROVE  CutSoFar(base, bs, 0, [cursor |-> base.start, allowed |-> <<>>, done |-> FALSE])
<1> DEFINE st == [cursor |-> base.start, allowed |-> <<>>, done |-> FALSE]
<1>1. base.start \in Nat /\ base.end \in Nat
  BY DEF Span
<1>2. st.cursor = base.start /\ st.allowed = <<>> /\ st.done = FALSE /\ st \in Pass
  BY <1>1 DEF Pass
<1>3. <<>> \in Seq(Span) /\ Len(<<>>) = 0
  OBVIOUS
<1>4. Apart(<<>>)
  BY <1>3 DEF Apart
<1> HIDE DEF st
<1> QED
  BY <1>1, <1>2, <1>3, <1>4 DEF CutSoFar, st

LEMMA CutStep ==
  ASSUME NEW base \in Span, base.start < base.end, NEW bs, Apart(bs),
         NEW i \in 0 .. Len(bs) - 1, NEW st, CutSoFar(base, bs, i, st)
  PROVE  CutSoFar(base, bs, i + 1, Cut(base, bs[i + 1], st))
<1> DEFINE n == Len(bs)
           b == bs[i + 1]
<1>1. bs \in Seq(Span) /\ n \in Nat /\ i + 1 \in 1 .. n /\ i \in Nat
  BY DEF Apart
<1>2. \A j \in 1 .. n : bs[j].start \in Nat /\ bs[j].end \in Nat
  BY <1>1, ApartNumbers
<1>3. /\ b.start \in Nat /\ b.end \in Nat /\ b.start < b.end /\ b \in Span
      /\ \A j \in (i + 1) + 1 .. n : bs[j].start >= b.end
      /\ \A j \in 1 .. i + 1 : j = i + 1 \/ j \in 1 .. i
      /\ \A j \in (i + 1) + 1 .. n : j \in i + 1 .. n
      /\ i + 1 \in i + 1 .. n
  <2>1. \A j \in (i + 1) + 1 .. n : bs[j].start >= b.end
    <3> SUFFICES ASSUME NEW j \in (i + 1) + 1 .. n PROVE bs[j].start >= b.end
      OBVIOUS
    <3>1. j \in 1 .. n /\ i + 1 < j
      BY <1>1
    <3>2. b.end <= bs[j].start
      BY <1>1, <3>1 DEF Apart
    <3> QED
      BY <1>1, <1>2, <3>1, <3>2
  <2>2. b.start < b.end
    BY <1>1 DEF Apart
  <2> QED
    BY <1>1, <1>2, <2>1, <2>2
<1>4. base.start \in Nat /\ base.end \in Nat
  BY DEF Span
<1>5. st \in Pass /\ st.cursor \in Nat /\ st.done \in BOOLEAN /\ st.allowed \in Seq(Span)
  BY DEF CutSoFar, Pass
<1>6. \A m : BlackedOut(bs, i + 1, m) <=> BlackedOut(bs, i, m) \/ (b.start <= m /\ m < b.end)
  <2>1. \A j : j \in 1 .. i + 1 <=> j = i + 1 \/ j \in 1 .. i
    BY <1>1
  <2> QED
    BY <2>1 DEF BlackedOut
<1>7. Cut(base, b, st) \in Pass
  BY <1>3, <1>5, CutType
<1>8. /\ base.start <= st.cursor
      /\ Apart(st.allowed)
      /\ \A k \in 1 .. Len(st.allowed) :
           /\ base.start <= st.allowed[k].start
           /\ st.allowed[k].end <= st.cursor
           /\ st.allowed[k].end <= base.end
      /\ ~st.done => st.cursor < base.end
      /\ st.done => \A j \in i + 1 .. n : bs[j].start >= base.end
      /\ st.cursor = base.start \/ \A j \in i + 1 .. n : bs[j].start >= st.cursor
      /\ \A j \in 1 .. i : bs[j].end <= st.cursor \/ bs[j].start >= base.end
      /\ \A m \in Nat : base.start <= m /\ m < st.cursor /\ m < base.end =>
           (m \in Held(st.allowed) <=> ~BlackedOut(bs, i, m))
  BY DEF CutSoFar
<1> HIDE DEF n, b
<1>9. CASE st.done \/ b.end <= st.cursor
  <2>1. Cut(base, b, st) = st
    BY <1>9 DEF Cut
  <2>2. \A m \in Nat : base.start <= m /\ m < st.cursor /\ m < base.end =>
          ~(b.start <= m /\ m < b.end)
    BY <1>1, <1>3, <1>4, <1>5, <1>8, <1>9 DEF b
  <2>3. \A j \in 1 .. i + 1 : bs[j].end <= st.cursor \/ bs[j].start >= base.end
    BY <1>3, <1>8, <1>9 DEF b
  <2>4. st.cursor = base.start \/ \A j \in (i + 1) + 1 .. n : bs[j].start >= st.cursor
    BY <1>3, <1>8
  <2>5. st.done => \A j \in (i + 1) + 1 .. n : bs[j].start >= base.end
    BY <1>3, <1>8
  <2>6. \A m \in Nat : base.start <= m /\ m < st.cursor /\ m < base.end =>
          (m \in Held(st.allowed) <=> ~BlackedOut(bs, i + 1, m))
    BY <1>6, <1>8, <2>2
  <2> QED
    BY <1>5, <1>8, <2>1, <2>3, <2>4, <2>5, <2>6 DEF CutSoFar, n, b
<1>10. CASE ~st.done /\ b.end > st.cursor /\ b.start >= base.end
  <2> DEFINE next == Cut(base, b, st)
  <2>1. next = [st EXCEPT !.done = TRUE]
    BY <1>3, <1>5, <1>10 DEF Cut
  <2>2. next.cursor = st.cursor /\ next.done = TRUE /\ next.allowed = st.allowed
    BY <1>5, <2>1 DEF Pass
  <2>3. \A m \in Nat : m < base.end => ~(b.start <= m /\ m < b.end)
    BY <1>3, <1>4, <1>10
  <2>4. \A j \in 1 .. i + 1 : bs[j].end <= st.cursor \/ bs[j].start >= base.end
    BY <1>3, <1>8, <1>10 DEF b
  <2>5. st.cursor = base.start \/ \A j \in (i + 1) + 1 .. n : bs[j].start >= st.cursor
    BY <1>3, <1>8
  <2>6. \A j \in (i + 1) + 1 .. n : bs[j].start >= base.end
    <3> SUFFICES ASSUME NEW j \in (i + 1) + 1 .. n PROVE bs[j].start >= base.end
      OBVIOUS
    <3>1. bs[j].start >= b.end /\ bs[j].start \in Nat
      BY <1>1, <1>2, <1>3 DEF n
    <3> QED
      BY <1>3, <1>4, <1>10, <3>1
  <2>7. \A m \in Nat : base.start <= m /\ m < st.cursor /\ m < base.end =>
          (m \in Held(st.allowed) <=> ~BlackedOut(bs, i + 1, m))
    BY <1>6, <1>8, <2>3
  <2>8. next \in Pass
    BY <1>7
  <2> HIDE DEF next
  <2>9. CutSoFar(base, bs, i + 1, next)
    BY <1>8, <2>2, <2>4, <2>5, <2>6, <2>7, <2>8 DEF CutSoFar, n
  <2> QED
    BY <2>9 DEF next, b
<1>11. CASE ~st.done /\ b.end > st.cursor /\ b.start < base.end
  <2> DEFINE next == Cut(base, b, st)
             piece == [start |-> st.cursor, end |-> b.start]
  <2>1. next = [cursor |-> b.end, done |-> b.end >= base.end,
                allowed |-> IF b.start <= st.cursor THEN st.allowed
                            ELSE Append(st.allowed, piece)]
    BY <1>3, <1>4, <1>5, <1>11 DEF Cut
  <2>2. /\ next.cursor = b.end /\ next.done = (b.end >= base.end)
        /\ next.allowed = IF b.start <= st.cursor THEN st.allowed ELSE Append(st.allowed, piece)
    BY <2>1
  <2>3. next \in Pass
    BY <1>7
  <2>4. base.start <= b.end /\ (~next.done => b.end < base.end)
    <3>1. base.start <= b.end
      BY <1>3, <1>4, <1>5, <1>8, <1>11
    <3>2. b.end >= base.end \/ b.end < base.end
      BY <1>3, <1>4
    <3> QED
      BY <2>2, <3>1, <3>2
  <2>5. next.done => \A j \in (i + 1) + 1 .. n : bs[j].start >= base.end
    <3> SUFFICES ASSUME b.end >= base.end, NEW j \in (i + 1) + 1 .. n PROVE bs[j].start >= base.end
      BY <2>2
    <3>1. bs[j].start >= b.end /\ bs[j].start \in Nat
      BY <1>1, <1>2, <1>3 DEF n
    <3> QED
      BY <1>3, <1>4, <3>1
  <2>6. \A j \in 1 .. i + 1 : bs[j].end <= b.end \/ bs[j].start >= base.end
    <3> SUFFICES ASSUME NEW j \in 1 .. i, bs[j].end <= st.cursor PROVE bs[j].end <= b.end
      BY <1>3, <1>8 DEF b
    <3>1. bs[j].end \in Nat
      BY <1>1, <1>2 DEF n
    <3> QED
      BY <1>3, <1>5, <1>11, <3>1
  <2>7. \A m \in Nat : BlackedOut(bs, i, m) /\ m < base.end => m < st.cursor
    <3> SUFFICES ASSUME NEW m \in Nat, m < base.end, NEW j \in 1 .. i,
                        bs[j].start <= m, m < bs[j].end
                 PROVE  m < st.cursor
      BY DEF BlackedOut
    <3>1. bs[j].start \in Nat /\ bs[j].end \in Nat
      BY <1>1, <1>2 DEF n
    <3>2. bs[j].end <= st.cursor \/ bs[j].start >= base.end
      BY <1>8
    <3> QED
      BY <1>4, <1>5, <3>1, <3>2
  <2>8. \A m \in Nat : base.start <= m /\ m < st.cursor => m < b.start
    BY <1>1, <1>3, <1>4, <1>5, <1>8 DEF b
  <2>9. \A m \in Nat : m \in Held(st.allowed) => m < st.cursor
    <3> SUFFICES ASSUME NEW m \in Nat, NEW k \in 1 .. Len(st.allowed), m < st.allowed[k].end
                 PROVE  m < st.cursor
      BY DEF Held
    <3>1. st.allowed[k].end \in Nat /\ st.allowed[k].end <= st.cursor
      BY <1>5, <1>8, ApartNumbers
    <3> QED
      BY <1>5, <3>1
  <2>10. /\ Apart(next.allowed)
         /\ \A k \in 1 .. Len(next.allowed) :
              /\ base.start <= next.allowed[k].start
              /\ next.allowed[k].end <= b.end
              /\ next.allowed[k].end <= base.end
         /\ \A m \in Nat : m \in Held(next.allowed)
              <=> m \in Held(st.allowed) \/ (st.cursor <= m /\ m < b.start)
    <3>1. CASE b.start <= st.cursor
      <4>1. next.allowed = st.allowed
        BY <2>2, <3>1
      <4>2. \A k \in 1 .. Len(st.allowed) : st.allowed[k].end <= b.end
        <5> SUFFICES ASSUME NEW k \in 1 .. Len(st.allowed) PROVE st.allowed[k].end <= b.end
          OBVIOUS
        <5>1. st.allowed[k].end \in Nat /\ st.allowed[k].end <= st.cursor
          BY <1>5, <1>8, ApartNumbers
        <5> QED
          BY <1>3, <1>5, <1>11, <5>1
      <4>3. \A m \in Nat : ~(st.cursor <= m /\ m < b.start)
        BY <1>3, <1>5, <3>1
      <4> HIDE DEF next
      <4> QED
        BY <1>8, <4>1, <4>2, <4>3
    <3>2. CASE b.start > st.cursor
      <4>1. next.allowed = Append(st.allowed, piece)
        BY <1>3, <1>5, <2>2, <3>2
      <4>2. piece \in Span /\ piece.start = st.cursor /\ piece.end = b.start
        BY <1>3, <1>5 DEF Span
      <4> DEFINE old == st.allowed
                 new == next.allowed
      <4> HIDE DEF piece, next, old
      <4>3. Apart(old) /\ piece.start < piece.end
            /\ \A k \in 1 .. Len(old) : old[k].end <= piece.start
        BY <1>3, <1>5, <1>8, <3>2, <4>2 DEF old
      <4>4. /\ Apart(new)
            /\ Len(new) = Len(old) + 1
            /\ new[Len(old) + 1] = piece
            /\ \A k \in 1 .. Len(old) : new[k] = old[k]
            /\ Held(new) = Held(old) \cup {t \in Nat : piece.start <= t /\ t < piece.end}
        BY <4>1, <4>2, <4>3, ApartAppended DEF old
      <4>5. ASSUME NEW k \in 1 .. Len(new)
            PROVE  base.start <= new[k].start /\ new[k].end <= b.end /\ new[k].end <= base.end
        <5>1. Len(old) \in Nat
          BY <1>5 DEF old
        <5>2. CASE k = Len(old) + 1
          BY <1>3, <1>4, <1>5, <1>8, <1>11, <4>2, <4>4, <5>2, SMTT(30)
        <5>3. CASE k \in 1 .. Len(old)
          <6>1. old[k].end \in Nat /\ old[k].end <= st.cursor /\ old[k].end <= base.end
                /\ base.start <= old[k].start
            BY <1>5, <1>8, <5>3, ApartNumbers DEF old
          <6>2. old[k].end <= b.end
            BY <1>3, <1>5, <1>11, <6>1
          <6> QED
            BY <4>4, <5>3, <6>1, <6>2
        <5> QED
          BY <4>4, <5>1, <5>2, <5>3
      <4>6. \A m \in Nat : m \in Held(new) <=> m \in Held(old) \/ (st.cursor <= m /\ m < b.start)
        BY <4>2, <4>4
      <4>7. \A k \in 1 .. Len(new) :
              base.start <= new[k].start /\ new[k].end <= b.end /\ new[k].end <= base.end
        BY <4>5
      <4> QED
        BY <4>4, <4>6, <4>7 DEF old
    <3>3. b.start <= st.cursor \/ b.start > st.cursor
      BY <1>3, <1>5
    <3> HIDE DEF next
    <3> QED
      BY <3>1, <3>2, <3>3
  <2>11. \A m \in Nat : base.start <= m /\ m < b.end /\ m < base.end =>
           (m \in Held(next.allowed) <=> ~BlackedOut(bs, i + 1, m))
    <3> SUFFICES ASSUME NEW m \in Nat, base.start <= m, m < b.end, m < base.end
                 PROVE  m \in Held(next.allowed) <=> ~BlackedOut(bs, i + 1, m)
      OBVIOUS
    <3> HIDE DEF next
    <3>1. CASE m < st.cursor
      <4>1. m < b.start
        BY <2>8, <3>1
      <4>2. m \in Held(st.allowed) <=> ~BlackedOut(bs, i, m)
        BY <1>8, <3>1
      <4>3. ~(b.start <= m) /\ ~(st.cursor <= m)
        BY <1>3, <1>5, <3>1, <4>1
      <4> QED
        BY <1>6, <2>10, <4>2, <4>3
    <3>2. CASE st.cursor <= m
      <4>1. m \notin Held(st.allowed) /\ ~BlackedOut(bs, i, m)
        BY <1>5, <2>7, <2>9, <3>2
      <4>2. m < b.start <=> ~(b.start <= m)
        BY <1>3
      <4> QED
        BY <1>6, <2>10, <3>2, <4>1, <4>2
    <3> QED
      BY <1>5, <3>1, <3>2
  <2> HIDE DEF next
  <2>12. CutSoFar(base, bs, i + 1, next)
    BY <1>3, <2>2, <2>3, <2>4, <2>5, <2>6, <2>10, <2>11 DEF CutSoFar, n
  <2> QED
    BY <2>12 DEF next, b
<1> QED
  BY <1>3, <1>4, <1>5, <1>9, <1>10, <1>11

\* subtractBlackouts leaves periods that are apart and within the window, and
\* in them the minutes of the window that no blackout holds.
LEMMA SubtractLeaves ==
  ASSUME NEW base \in Span, base.start < base.end, NEW bs \in Seq(Span), ValidPeriods(bs)
  PROVE  /\ Apart(Subtract(base, bs))
         /\ \A k \in 1 .. Len(Subtract(base, bs)) :
              base.start <= Subtract(base, bs)[k].start /\ Subtract(base, bs)[k].end <= base.end
         /\ \A m \in Nat : m \in Held(Subtract(base, bs))
              <=> base.start <= m /\ m < base.end /\ ~BlackedOut(bs, Len(bs), m)
<1> DEFINE n == Len(bs)
           p == Passed(base, bs)
           last == p[n]
           T == {i \in 0 .. n : CutSoFar(base, bs, i, p[i])}
<1>1. n \in Nat /\ Apart(bs)
  BY PeriodsApart
<1>2. base.start \in Nat /\ base.end \in Nat
  BY DEF Span
<1>3. CutSoFar(base, bs, n, last)
  <2>1. p[0] = [cursor |-> base.start, allowed |-> <<>>, done |-> FALSE]
        /\ \A i \in 1 .. n : p[i] = Cut(base, bs[i], p[i - 1])
    BY PassedSteps
  <2> HIDE DEF p
  <2>2. 0 \in T
    BY <1>1, <2>1, CutBegins
  <2>3. \A i \in 0 .. n - 1 : i \in T => i + 1 \in T
    <3> SUFFICES ASSUME NEW i \in 0 .. n - 1, CutSoFar(base, bs, i, p[i])
                 PROVE  i + 1 \in T
      OBVIOUS
    <3>1. i + 1 \in 1 .. n /\ (i + 1) - 1 = i
      BY <1>1
    <3>2. p[i + 1] = Cut(base, bs[i + 1], p[i])
      BY <2>1, <3>1
    <3>3. CutSoFar(base, bs, i + 1, p[i + 1])
      BY <1>1, <3>2, CutStep
    <3> QED
      BY <1>1, <3>1, <3>3
  <2>4. 0 .. n \subseteq T
    <3> HIDE DEF T, n
    <3> QED
      BY <1>1, <2>2, <2>3, RangeInduction
  <2> QED
    BY <1>1, <2>4
<1> HIDE DEF p
<1>4. Subtract(base, bs) = IF last.cursor < base.end
                           THEN Append(last.allowed, [start |-> last.cursor, end |-> base.end])
                           ELSE last.allowed
  BY DEF Subtract, p
<1> HIDE DEF last
<1>5. last.cursor \in Nat /\ last.allowed \in Seq(Span)
  BY <1>3 DEF CutSoFar, Pass
<1>6. /\ base.start <= last.cursor
      /\ Apart(last.allowed)
      /\ \A k \in 1 .. Len(last.allowed) :
           /\ base.start <= last.allowed[k].start
           /\ last.allowed[k].end <= last.cursor
           /\ last.allowed[k].end <= base.end
      /\ \A j \in 1 .. n : bs[j].end <= last.cursor \/ bs[j].start >= base.end
      /\ \A m \in Nat : base.start <= m /\ m < last.cursor /\ m < base.end =>
           (m \in Held(last.allowed) <=> ~BlackedOut(bs, n, m))
  BY <1>3 DEF CutSoFar
<1>7. ASSUME NEW m \in Nat, m \in Held(last.allowed)
      PROVE  base.start <= m /\ m < last.cursor /\ m < base.end
  <2>1. PICK k \in 1 .. Len(last.allowed) : last.allowed[k].start <= m /\ m < last.allowed[k].end
    BY <1>7 DEF Held
  <2>2. last.allowed[k].start \in Nat /\ last.allowed[k].end \in Nat
    BY <1>5, ApartNumbers
  <2> QED
    BY <1>2, <1>5, <1>6, <2>1, <2>2, SMTT(30)
<1>8. ASSUME NEW m \in Nat, last.cursor <= m, m < base.end
      PROVE  ~BlackedOut(bs, n, m)
  <2> SUFFICES ASSUME NEW j \in 1 .. n, bs[j].start <= m, m < bs[j].end
               PROVE  FALSE
    BY DEF BlackedOut
  <2>1. bs[j].start \in Nat /\ bs[j].end \in Nat
    BY ApartNumbers
  <2>2. bs[j].end <= last.cursor \/ bs[j].start >= base.end
    BY <1>6
  <2> QED
    BY <1>2, <1>5, <1>8, <2>1, <2>2
<1> HIDE DEF n
<1>9. CASE last.cursor < base.end
  <2> DEFINE piece == [start |-> last.cursor, end |-> base.end]
             old == last.allowed
             new == Subtract(base, bs)
  <2>1. new = Append(old, piece)
    BY <1>4, <1>9
  <2>2. piece \in Span /\ piece.start = last.cursor /\ piece.end = base.end
    BY <1>2, <1>5 DEF Span
  <2> HIDE DEF piece, old, new
  <2>3. Apart(old) /\ piece.start < piece.end /\ \A k \in 1 .. Len(old) : old[k].end <= piece.start
    BY <1>6, <1>9, <2>2 DEF old
  <2>4. /\ Apart(new)
        /\ Len(new) = Len(old) + 1
        /\ new[Len(old) + 1] = piece
        /\ \A k \in 1 .. Len(old) : new[k] = old[k]
        /\ Held(new) = Held(old) \cup {t \in Nat : piece.start <= t /\ t < piece.end}
    BY <2>1, <2>2, <2>3, ApartAppended
  <2>5. \A k \in 1 .. Len(new) : base.start <= new[k].start /\ new[k].end <= base.end
    <3> SUFFICES ASSUME NEW k \in 1 .. Len(new)
                 PROVE  base.start <= new[k].start /\ new[k].end <= base.end
      OBVIOUS
    <3>1. Len(old) \in Nat
      BY <1>5 DEF old
    <3>2. CASE k = Len(old) + 1
      BY <1>2, <1>6, <2>2, <2>4, <3>2
    <3>3. CASE k \in 1 .. Len(old)
      BY <1>6, <2>4, <3>3 DEF old
    <3> QED
      BY <2>4, <3>1, <3>2, <3>3
  <2>6. \A m \in Nat : m \in Held(new) <=> base.start <= m /\ m < base.end /\ ~BlackedOut(bs, n, m)
    <3> SUFFICES ASSUME NEW m \in Nat
                 PROVE  m \in Held(new) <=> base.start <= m /\ m < base.end /\ ~BlackedOut(bs, n, m)
      OBVIOUS
    <3>1. m \in Held(new) <=> m \in Held(old) \/ (last.cursor <= m /\ m < base.end)
      BY <2>2, <2>4
    <3>2. CASE m < last.cursor
      <4>1. ~(last.cursor <= m) /\ m < base.end
        BY <1>2, <1>5, <1>9, <3>2
      <4> QED
        BY <1>6, <1>7, <3>1, <3>2, <4>1 DEF old
    <3>3. CASE last.cursor <= m
      <4>1. base.start <= m /\ ~(m < last.cursor)
        BY <1>2, <1>5, <1>6, <3>3
      <4>2. m \notin Held(old)
        BY <1>7, <4>1 DEF old
      <4> QED
        BY <1>8, <3>1, <3>3, <4>1, <4>2
    <3> QED
      BY <1>5, <3>2, <3>3
  <2> QED
    BY <2>4, <2>5, <2>6 DEF new, n
<1>10. CASE ~(last.cursor < base.end)
  <2>1. Subtract(base, bs) = last.allowed
    BY <1>4, <1>10
  <2>2. \A m \in Nat : m < base.end => m < last.cursor
    BY <1>2, <1>5, <1>10
  <2>3. \A m \in Nat : m \in Held(last.allowed)
          <=> base.start <= m /\ m < base.end /\ ~BlackedOut(bs, n, m)
    BY <1>6, <1>7, <2>2
  <2> QED
    BY <1>6, <2>1, <2>3 DEF n
<1> QED
  BY <1>9, <1>10

-----------------------------------------------------------------------------
(***************************************************************************)
(* Periods of a date as instants.                                          *)
(***************************************************************************)

\* Where a date first shows a minute.
Onset(day, m) == Min({i \in DOMAIN day : day[i] = m})

LEMMA DateNumbers ==
  ASSUME NEW day, IsDate(day)
  PROVE  /\ Len(day) \in Nat /\ DOMAIN day = 1 .. Len(day)
         /\ \A i \in 1 .. Len(day) : day[i] \in 0 .. DayMinutes - 1
         /\ Shown(day) \subseteq 0 .. DayMinutes - 1
         /\ DayMinutes \in Nat \ {0} /\ Grain \in Nat \ {0}
<1>1. day \in Seq(WallMinute)
  BY DEF IsDate
<1>2. Len(day) \in Nat /\ DOMAIN day = 1 .. Len(day)
  BY <1>1
<1>3. \A i \in 1 .. Len(day) : day[i] \in 0 .. DayMinutes - 1
  <2>1. \A i \in 1 .. Len(day) : day[i] \in WallMinute
    BY <1>1
  <2> QED
    BY <2>1 DEF WallMinute
<1>4. Shown(day) \subseteq 0 .. DayMinutes - 1
  BY <1>2, <1>3 DEF Shown, Range
<1>5. DayMinutes \in Nat \ {0} /\ Grain \in Nat \ {0}
  BY PlannerAssumption
<1> QED
  BY <1>2, <1>3, <1>4, <1>5

LEMMA OnsetShows ==
  ASSUME NEW day, IsDate(day), NEW m \in Shown(day)
  PROVE  /\ Onset(day, m) \in 1 .. Len(day)
         /\ day[Onset(day, m)] = m
         /\ \A i \in 1 .. Len(day) : day[i] = m => Onset(day, m) <= i
         /\ ResolveMinute(day, m) = Grain * (Onset(day, m) - 1)
         /\ ResolveMinute(day, m) \in Nat
<1> DEFINE S == {i \in DOMAIN day : day[i] = m}
<1>1. DOMAIN day = 1 .. Len(day) /\ Len(day) \in Nat /\ Grain \in Nat
  BY DateNumbers
<1>2. S # {} /\ S \in SUBSET Nat
  BY <1>1 DEF Shown, Range
<1>3. Min(S) \in S /\ \A y \in S : Min(S) <= y
  <2> HIDE DEF S
  <2> QED
    BY <1>2, LeastNatural
<1>4. Onset(day, m) = Min(S)
  BY DEF Onset
<1>5. ResolveMinute(day, m) = Grain * (Onset(day, m) - 1)
  BY DEF ResolveMinute, Onset
<1>6. Onset(day, m) \in 1 .. Len(day)
  BY <1>1, <1>3, <1>4
<1>7. ResolveMinute(day, m) \in Nat
  <2>1. Onset(day, m) - 1 \in Nat
    BY <1>1, <1>6
  <2> QED
    BY <1>1, <1>5, <2>1
<1> QED
  BY <1>1, <1>3, <1>4, <1>5, <1>6, <1>7

\* A date first shows its minutes in order.
LEMMA OnsetsInOrder ==
  ASSUME NEW day, IsDate(day), NEW m \in Shown(day), NEW p \in Shown(day), m < p
  PROVE  Onset(day, m) < Onset(day, p)
<1> DEFINE i == Onset(day, m)
           j == Onset(day, p)
<1>1. DOMAIN day = 1 .. Len(day) /\ Len(day) \in Nat /\ m \in Int /\ p \in Int
  BY DateNumbers
<1>2. i \in 1 .. Len(day) /\ day[i] = m /\ \A h \in 1 .. Len(day) : day[h] = m => i <= h
  BY OnsetShows
<1>3. j \in 1 .. Len(day) /\ day[j] = p
  BY OnsetShows
<1> HIDE DEF i, j
<1>4. CASE j < i
  <2>1. day[j] < day[i] \/ \E h \in DOMAIN day : h <= j /\ day[h] = day[i]
    BY <1>1, <1>2, <1>3, <1>4 DEF IsDate
  <2>2. PICK h \in 1 .. Len(day) : h <= j /\ day[h] = m
    BY <1>1, <1>2, <1>3, <2>1
  <2> QED
    BY <1>1, <1>2, <1>3, <1>4, <2>2
<1>5. i # j
  BY <1>1, <1>2, <1>3
<1> QED
  BY <1>1, <1>2, <1>3, <1>4, <1>5 DEF i, j

\* The first shown minute of a range, and its instant.
LEMMA FirstValidMinute ==
  ASSUME NEW day, IsDate(day), NEW from \in Nat, NEW before \in Nat
  PROVE  \/ /\ FirstValid(day, from, before) = None
            /\ \A m \in Shown(day) : ~(from <= m /\ m < before)
         \/ \E m \in Shown(day) :
              /\ from <= m /\ m < before
              /\ \A p \in Shown(day) : from <= p => m <= p
              /\ FirstValid(day, from, before) = ResolveMinute(day, m)
              /\ FirstValid(day, from, before) # None
<1> DEFINE valid == {m \in Shown(day) : from <= m /\ m < before}
<1>1. Shown(day) \subseteq Nat
  BY DateNumbers
<1>2. CASE valid = {}
  <2>1. FirstValid(day, from, before) = None
    BY <1>2 DEF FirstValid
  <2> QED
    BY <1>2, <2>1
<1>3. CASE valid # {}
  <2>1. valid \in SUBSET Nat
    BY <1>1
  <2>2. Min(valid) \in valid /\ \A p \in valid : Min(valid) <= p
    <3> HIDE DEF valid
    <3> QED
      BY <1>3, <2>1, LeastNatural
  <2>3. PICK m \in valid : m = Min(valid) /\ \A p \in valid : m <= p
    BY <2>2
  <2>4. FirstValid(day, from, before) = ResolveMinute(day, m)
    BY <1>3, <2>3 DEF FirstValid
  <2>5. m \in Shown(day) /\ from <= m /\ m < before /\ m \in Nat
    BY <1>1
  <2>6. ResolveMinute(day, m) # None
    <3>1. ResolveMinute(day, m) \in Nat
      BY <2>5, OnsetShows
    <3> QED
      BY <3>1 DEF None
  <2>7. \A p \in Shown(day) : from <= p => m <= p
    <3> SUFFICES ASSUME NEW p \in Shown(day), from <= p PROVE m <= p
      OBVIOUS
    <3>1. p \in Nat
      BY <1>1
    <3>2. CASE p < before
      BY <2>3, <3>2
    <3>3. CASE before <= p
      BY <2>5, <3>1, <3>3
    <3> QED
      BY <3>1, <3>2, <3>3
  <2> QED
    BY <2>4, <2>5, <2>6, <2>7
<1> QED
  BY <1>2, <1>3

LEMMA InstantsInOrder ==
  ASSUME NEW day, IsDate(day), NEW m \in Shown(day), NEW p \in Shown(day)
  PROVE  /\ m < p => ResolveMinute(day, m) < ResolveMinute(day, p)
         /\ m <= p => ResolveMinute(day, m) <= ResolveMinute(day, p)
<1>1. m \in Int /\ p \in Int /\ Len(day) \in Nat /\ Grain \in Nat \ {0}
  BY DateNumbers
<1>2. /\ Onset(day, m) \in 1 .. Len(day) /\ Onset(day, p) \in 1 .. Len(day)
      /\ ResolveMinute(day, m) = Grain * (Onset(day, m) - 1)
      /\ ResolveMinute(day, p) = Grain * (Onset(day, p) - 1)
      /\ ResolveMinute(day, m) \in Nat
  BY OnsetShows
<1>3. ASSUME m < p
      PROVE  ResolveMinute(day, m) < ResolveMinute(day, p)
  <2> DEFINE i == Onset(day, m) - 1
             j == Onset(day, p) - 1
  <2>1. i \in Nat /\ j \in Nat /\ i < j
    BY <1>1, <1>2, <1>3, OnsetsInOrder
  <2> HIDE DEF i, j
  <2>2. Grain * i < Grain * j
    BY <1>1, <2>1
  <2> QED
    BY <1>2, <2>2 DEF i, j
<1>4. ASSUME m <= p
      PROVE  ResolveMinute(day, m) <= ResolveMinute(day, p)
  <2>1. m = p \/ m < p
    BY <1>1, <1>4
  <2>2. ResolveMinute(day, p) \in Nat
    BY OnsetShows
  <2> QED
    BY <1>2, <1>3, <2>1, <2>2
<1> QED
  BY <1>3, <1>4

\* What resolveWallInterval makes of a period: it lasts from the first minute
\* shown in it to the first one shown after it, when there are both.
LEMMA IntervalResolved ==
  ASSUME NEW day, IsDate(day), NEW wall \in Span, wall.start < wall.end
  PROVE  \/ /\ ResolveInterval(day, wall) = <<>>
            /\ \/ \A m \in Shown(day) : ~(wall.start <= m /\ m < wall.end)
               \/ \A m \in Shown(day) : m < wall.end
         \/ \E s, e \in Shown(day) :
              /\ wall.start <= s /\ s < wall.end /\ wall.end <= e
              /\ \A m \in Shown(day) : wall.start <= m => s <= m
              /\ \A m \in Shown(day) : wall.end <= m => e <= m
              /\ ResolveInterval(day, wall)
                   = <<[start |-> ResolveMinute(day, s), end |-> ResolveMinute(day, e)]>>
<1> DEFINE start == FirstValid(day, wall.start, wall.end)
           end == FirstValid(day, wall.end, DayMinutes)
<1>1. wall.start \in Nat /\ wall.end \in Nat
  BY DEF Span
<1>2. DayMinutes \in Nat /\ \A m \in Shown(day) : m \in Nat /\ m < DayMinutes
  BY DateNumbers
<1>3. ResolveInterval(day, wall) = IF start = None \/ end = None \/ end <= start THEN <<>>
                                   ELSE <<[start |-> start, end |-> end]>>
  BY DEF ResolveInterval
<1>4. CASE start = None
  <2>1. \A m \in Shown(day) : ~(wall.start <= m /\ m < wall.end)
    BY <1>1, <1>4, FirstValidMinute
  <2> HIDE DEF start, end
  <2> QED
    BY <1>3, <1>4, <2>1
<1>5. CASE end = None
  <2>1. \A m \in Shown(day) : ~(wall.end <= m /\ m < DayMinutes)
    BY <1>1, <1>2, <1>5, FirstValidMinute
  <2>2. \A m \in Shown(day) : m < wall.end
    BY <1>1, <1>2, <2>1
  <2> HIDE DEF start, end
  <2> QED
    BY <1>3, <1>5, <2>2
<1>6. CASE start # None /\ end # None
  <2>1. PICK s \in Shown(day) :
          /\ wall.start <= s /\ s < wall.end
          /\ \A m \in Shown(day) : wall.start <= m => s <= m
          /\ start = ResolveMinute(day, s)
    BY <1>1, <1>6, FirstValidMinute
  <2>2. PICK e \in Shown(day) :
          /\ wall.end <= e
          /\ \A m \in Shown(day) : wall.end <= m => e <= m
          /\ end = ResolveMinute(day, e)
    BY <1>1, <1>2, <1>6, FirstValidMinute
  <2>3. s < e
    BY <1>1, <1>2, <2>1, <2>2
  <2>4. ResolveMinute(day, s) < ResolveMinute(day, e)
        /\ ResolveMinute(day, s) \in Nat /\ ResolveMinute(day, e) \in Nat
    BY <2>3, InstantsInOrder, OnsetShows
  <2>5. ~(ResolveMinute(day, e) <= ResolveMinute(day, s))
    BY <2>4
  <2>6. ResolveInterval(day, wall)
          = <<[start |-> ResolveMinute(day, s), end |-> ResolveMinute(day, e)]>>
    BY <1>3, <1>6, <2>1, <2>2, <2>5
  <2> HIDE DEF start, end
  <2> QED
    BY <2>1, <2>2, <2>6
<1> QED
  BY <1>4, <1>5, <1>6

\* Sequences of one period or none, in order.
OneEach(seqs) ==
  /\ seqs \in Seq(Seq(Span))
  /\ \A i \in 1 .. Len(seqs) :
       seqs[i] # <<>> => \E p \in Span : p.start < p.end /\ seqs[i] = <<p>>
  /\ \A i, j \in 1 .. Len(seqs) : i < j /\ seqs[i] # <<>> /\ seqs[j] # <<>> =>
       seqs[i][1].end <= seqs[j][1].start

\* s holds the periods of the first i of them.
Gathered(seqs, i, s) ==
  /\ Apart(s)
  /\ \A k \in 1 .. Len(s) : \E j \in 1 .. i : seqs[j] = <<s[k]>>
  /\ \A j \in 1 .. i : seqs[j] # <<>> => \E k \in 1 .. Len(s) : seqs[j] = <<s[k]>>

LEMMA GatheredNext ==
  ASSUME NEW seqs, OneEach(seqs), NEW i \in 0 .. Len(seqs) - 1, NEW s, Gathered(seqs, i, s)
  PROVE  Gathered(seqs, i + 1, s \o seqs[i + 1])
<1> DEFINE q == seqs[i + 1]
<1>1. /\ Len(seqs) \in Nat /\ i + 1 \in 1 .. Len(seqs) /\ i \in Nat
      /\ \A j \in 1 .. i + 1 : j = i + 1 \/ j \in 1 .. i
      /\ \A j \in 1 .. i : j \in 1 .. i + 1 /\ j \in 1 .. Len(seqs) /\ j < i + 1
      /\ i + 1 \in 1 .. i + 1
  BY DEF OneEach
<1>2. s \in Seq(Span) /\ Len(s) \in Nat /\ Apart(s)
  BY DEF Gathered, Apart
<1>3. /\ \A k \in 1 .. Len(s) : \E j \in 1 .. i : seqs[j] = <<s[k]>>
      /\ \A j \in 1 .. i : seqs[j] # <<>> => \E k \in 1 .. Len(s) : seqs[j] = <<s[k]>>
  BY DEF Gathered
<1>4. CASE q = <<>>
  <2>1. s \o q = s
    BY <1>2, <1>4
  <2>2. \A k \in 1 .. Len(s) : \E j \in 1 .. i + 1 : seqs[j] = <<s[k]>>
    BY <1>1, <1>3
  <2>3. \A j \in 1 .. i + 1 : seqs[j] # <<>> => \E k \in 1 .. Len(s) : seqs[j] = <<s[k]>>
    BY <1>1, <1>3, <1>4
  <2>4. Gathered(seqs, i + 1, s)
    BY <1>2, <2>2, <2>3 DEF Gathered
  <2> HIDE DEF q
  <2>5. Gathered(seqs, i + 1, s \o q)
    BY <2>1, <2>4
  <2> QED
    BY <2>5 DEF q
<1>5. CASE q # <<>>
  <2>1. PICK p \in Span : p.start < p.end /\ q = <<p>>
    BY <1>1, <1>5 DEF OneEach
  <2>2. \A k \in 1 .. Len(s) : s[k].end <= p.start
    <3> SUFFICES ASSUME NEW k \in 1 .. Len(s) PROVE s[k].end <= p.start
      OBVIOUS
    <3>1. PICK j \in 1 .. i : seqs[j] = <<s[k]>>
      BY <1>3
    <3>2. seqs[j] # <<>> /\ seqs[j][1] = s[k] /\ q[1] = p
      BY <2>1, <3>1
    <3>3. seqs[j][1].end <= q[1].start
      BY <1>1, <1>5, <3>2 DEF OneEach
    <3> QED
      BY <3>2, <3>3
  <2> DEFINE t == s \o q
  <2>3. t = Append(s, p)
    BY <1>2, <2>1
  <2> HIDE DEF t
  <2>4. /\ Apart(t) /\ Len(t) = Len(s) + 1 /\ t[Len(s) + 1] = p
        /\ \A k \in 1 .. Len(s) : t[k] = s[k]
    BY <1>2, <2>1, <2>2, <2>3, ApartAppended
  <2>5. \A k \in 1 .. Len(t) : k = Len(s) + 1 \/ k \in 1 .. Len(s)
    BY <1>2, <2>4
  <2>6. Len(s) + 1 \in 1 .. Len(t) /\ \A k \in 1 .. Len(s) : k \in 1 .. Len(t)
    BY <1>2, <2>4
  <2>7. \A k \in 1 .. Len(t) : \E j \in 1 .. i + 1 : seqs[j] = <<t[k]>>
    <3> SUFFICES ASSUME NEW k \in 1 .. Len(t) PROVE \E j \in 1 .. i + 1 : seqs[j] = <<t[k]>>
      OBVIOUS
    <3>1. CASE k = Len(s) + 1
      BY <1>1, <2>1, <2>4, <3>1
    <3>2. CASE k \in 1 .. Len(s)
      BY <1>1, <1>3, <2>4, <3>2
    <3> QED
      BY <2>5, <3>1, <3>2
  <2>8. \A j \in 1 .. i + 1 : seqs[j] # <<>> => \E k \in 1 .. Len(t) : seqs[j] = <<t[k]>>
    <3> SUFFICES ASSUME NEW j \in 1 .. i + 1, seqs[j] # <<>>
                 PROVE  \E k \in 1 .. Len(t) : seqs[j] = <<t[k]>>
      OBVIOUS
    <3>1. CASE j = i + 1
      BY <2>1, <2>4, <2>6, <3>1
    <3>2. CASE j \in 1 .. i
      <4>1. PICK k \in 1 .. Len(s) : seqs[j] = <<s[k]>>
        BY <1>3, <3>2
      <4> QED
        BY <2>4, <2>6, <4>1
    <3> QED
      BY <1>1, <3>1, <3>2
  <2> QED
    BY <2>4, <2>7, <2>8 DEF Gathered, t
<1> QED
  BY <1>4, <1>5

LEMMA FlattenGathers ==
  ASSUME NEW seqs, OneEach(seqs)
  PROVE  Gathered(seqs, Len(seqs), FlattenSeq(seqs))
<1> DEFINE n == Len(seqs)
           Flat(f) == f = [i \in 1 .. n |-> IF i = 1 THEN seqs[i] ELSE f[i - 1] \o seqs[i]]
<1>1. n \in Nat /\ seqs \in Seq(Seq(Span)) /\ \A i \in 1 .. n : seqs[i] \in Seq(Span)
  BY DEF OneEach
<1>2. Gathered(seqs, 0, <<>>)
  <2>1. Len(<<>>) = 0 /\ <<>> \in Seq(Span)
    OBVIOUS
  <2> QED
    BY <2>1 DEF Gathered, Apart
<1>3. CASE n = 0
  <2>1. seqs = <<>>
    BY <1>1, <1>3
  <2>2. FlattenSeq(seqs) = <<>>
    BY <1>3, <2>1 DEF FlattenSeq
  <2> QED
    BY <1>2, <1>3, <2>2
<1>4. CASE n # 0
  <2> DEFINE step == [i \in 1 .. n |-> [x \in Seq(Span) |-> IF i = 1 THEN seqs[i] ELSE x \o seqs[i]]]
  <2>1. step \in [1 .. n -> [Seq(Span) -> Seq(Span)]]
    BY <1>1
  <2>2. PICK f \in [0 .. n -> Seq(Span)] : f[0] = <<>> /\ \A i \in 1 .. n : f[i] = step[i][f[i - 1]]
    <3>1. <<>> \in Seq(Span)
      OBVIOUS
    <3> HIDE DEF step, n
    <3>2. HasRecursion(n, Seq(Span), <<>>, step)
      BY <1>1, <2>1, <3>1, RecursiveFunction
    <3> QED
      BY <3>2 DEF HasRecursion
  <2> DEFINE g == [i \in 1 .. n |-> f[i]]
  <2>3. Flat(g)
    <3> SUFFICES ASSUME NEW i \in 1 .. n
                 PROVE  f[i] = IF i = 1 THEN seqs[i] ELSE g[i - 1] \o seqs[i]
      OBVIOUS
    <3>4. i - 1 \in 0 .. n
      BY <1>1
    <3>5. f[i - 1] \in Seq(Span)
      BY <2>2, <3>4
    <3> DEFINE x == f[i - 1]
    <3>2. step[i][x] = IF i = 1 THEN seqs[i] ELSE x \o seqs[i]
      <4> HIDE DEF x
      <4> QED
        BY <3>5 DEF x
    <3> HIDE DEF step
    <3>1. f[i] = step[i][f[i - 1]]
      BY <2>2
    <3>3. i # 1 => g[i - 1] = f[i - 1]
      BY <1>1
    <3> HIDE DEF step, g
    <3> QED
      BY <3>1, <3>2, <3>3
  <2> DEFINE h == CHOOSE f1 : Flat(f1)
  <2>4. Flat(h)
    <3> HIDE DEF Flat
    <3> QED
      BY <2>3
  <2>5. FlattenSeq(seqs) = h[n]
    BY <1>4 DEF FlattenSeq
  <2> HIDE DEF h
  <2>6. \A i \in 1 .. n : h[i] = IF i = 1 THEN seqs[i] ELSE h[i - 1] \o seqs[i]
    BY <2>4
  <2> DEFINE T == {i \in 0 .. n : i # 0 => Gathered(seqs, i, h[i])}
  <2> HIDE DEF n
  <2>7. 0 \in T
    BY <1>1
  <2>8. \A i \in 0 .. n - 1 : i \in T => i + 1 \in T
    <3> SUFFICES ASSUME NEW i \in 0 .. n - 1, i # 0 => Gathered(seqs, i, h[i])
                 PROVE  i + 1 \in T
      OBVIOUS
    <3>1. i + 1 \in 1 .. n /\ i + 1 \in 0 .. n /\ (i + 1) - 1 = i
      BY <1>1
    <3>2. CASE i = 0
      <4>1. h[i + 1] = seqs[i + 1]
        BY <2>6, <3>1, <3>2
      <4>2. <<>> \o seqs[i + 1] = seqs[i + 1]
        BY <1>1, <3>1
      <4>3. Gathered(seqs, i + 1, h[i + 1])
        BY <1>2, <3>2, <4>1, <4>2, GatheredNext DEF n
      <4> QED
        BY <3>1, <4>3
    <3>3. CASE i # 0
      <4>3. i + 1 # 1
        BY <3>1, <3>3
      <4>4. h[i + 1] = h[(i + 1) - 1] \o seqs[i + 1]
        BY <2>6, <3>1, <4>3
      <4>1. h[i + 1] = h[i] \o seqs[i + 1]
        BY <3>1, <4>4
      <4>2. Gathered(seqs, i + 1, h[i + 1])
        BY <3>3, <4>1, GatheredNext DEF n
      <4> QED
        BY <3>1, <4>2
    <3> QED
      BY <3>2, <3>3
  <2>9. 0 .. n \subseteq T
    <3> HIDE DEF T
    <3> QED
      BY <1>1, <2>7, <2>8, RangeInduction
  <2>10. Gathered(seqs, n, h[n])
    BY <1>1, <1>4, <2>9
  <2> QED
    BY <2>5, <2>10 DEF n
<1> QED
  BY <1>3, <1>4
\* The periods of S, each resolved on the date.
Parts(day, S) == [j \in DOMAIN S |-> ResolveInterval(day, S[j])]
Resolved(day, S) == FlattenSeq(Parts(day, S))

\* p is what the date makes of wall: from the first minute shown in it to the
\* first shown after it.
Resolves(day, wall, p) ==
  \E s, e \in Shown(day) :
    /\ wall.start <= s /\ s < wall.end /\ wall.end <= e
    /\ \A m \in Shown(day) : wall.start <= m => s <= m
    /\ \A m \in Shown(day) : wall.end <= m => e <= m
    /\ p = [start |-> ResolveMinute(day, s), end |-> ResolveMinute(day, e)]

LEMMA ResolvesSpan ==
  ASSUME NEW day, IsDate(day), NEW wall \in Span, NEW p, Resolves(day, wall, p)
  PROVE  p \in Span /\ p.start < p.end
<1>1. PICK s \in Shown(day), e \in Shown(day) :
        /\ s < wall.end /\ wall.end <= e
        /\ p = [start |-> ResolveMinute(day, s), end |-> ResolveMinute(day, e)]
  BY DEF Resolves
<1>2. s \in Nat /\ e \in Nat /\ wall.end \in Nat
  BY DateNumbers DEF Span
<1>3. s < e
  BY <1>1, <1>2
<1>4. /\ ResolveMinute(day, s) < ResolveMinute(day, e)
      /\ ResolveMinute(day, s) \in Nat /\ ResolveMinute(day, e) \in Nat
  BY <1>3, InstantsInOrder, OnsetShows
<1> QED
  BY <1>1, <1>4 DEF Span

LEMMA PartResolves ==
  ASSUME NEW day, IsDate(day), NEW wall \in Span, wall.start < wall.end,
         ResolveInterval(day, wall) # <<>>
  PROVE  \E p \in Span : p.start < p.end /\ Resolves(day, wall, p) /\ ResolveInterval(day, wall) = <<p>>
<1>1. PICK s \in Shown(day), e \in Shown(day) :
        /\ wall.start <= s /\ s < wall.end /\ wall.end <= e
        /\ \A m \in Shown(day) : wall.start <= m => s <= m
        /\ \A m \in Shown(day) : wall.end <= m => e <= m
        /\ ResolveInterval(day, wall)
             = <<[start |-> ResolveMinute(day, s), end |-> ResolveMinute(day, e)]>>
  BY IntervalResolved
<1> DEFINE p == [start |-> ResolveMinute(day, s), end |-> ResolveMinute(day, e)]
<1>2. Resolves(day, wall, p)
  BY <1>1 DEF Resolves
<1>3. p \in Span /\ p.start < p.end
  <2> HIDE DEF p
  <2> QED
    BY <1>2, ResolvesSpan
<1>4. ResolveInterval(day, wall) = <<p>>
  BY <1>1
<1> HIDE DEF p
<1> QED
  BY <1>2, <1>3, <1>4

LEMMA ResolvedInOrder ==
  ASSUME NEW day, IsDate(day), NEW v \in Span, NEW w \in Span, v.end <= w.start,
         NEW p, Resolves(day, v, p), NEW q, Resolves(day, w, q)
  PROVE  p.end <= q.start
<1>1. PICK s \in Shown(day), e \in Shown(day) :
        /\ \A m \in Shown(day) : v.end <= m => e <= m
        /\ p = [start |-> ResolveMinute(day, s), end |-> ResolveMinute(day, e)]
  BY DEF Resolves
<1>2. PICK s2 \in Shown(day), e2 \in Shown(day) :
        /\ w.start <= s2
        /\ q = [start |-> ResolveMinute(day, s2), end |-> ResolveMinute(day, e2)]
  BY DEF Resolves
<1>3. v.end \in Nat /\ w.start \in Nat /\ s2 \in Nat
  BY DateNumbers DEF Span
<1>4. e <= s2
  BY <1>1, <1>2, <1>3
<1>5. ResolveMinute(day, e) <= ResolveMinute(day, s2)
  BY <1>4, InstantsInOrder
<1> QED
  BY <1>1, <1>2, <1>5

LEMMA ResolvedParts ==
  ASSUME NEW day, IsDate(day), NEW S, Apart(S)
  PROVE  OneEach(Parts(day, S)) /\ Len(Parts(day, S)) = Len(S)
<1> DEFINE q == Parts(day, S)
<1>1. /\ Len(S) \in Nat /\ DOMAIN S = 1 .. Len(S)
      /\ \A j \in 1 .. Len(S) : S[j] \in Span /\ S[j].start < S[j].end
      /\ \A i, j \in 1 .. Len(S) : i < j => S[i].end <= S[j].start
  BY DEF Apart
<1>2. \A j \in 1 .. Len(S) : q[j] = ResolveInterval(day, S[j])
  BY <1>1 DEF Parts
<1>3. \A j \in 1 .. Len(S) : q[j] # <<>> =>
        \E p \in Span : p.start < p.end /\ Resolves(day, S[j], p) /\ q[j] = <<p>>
  BY <1>1, <1>2, PartResolves
<1>4. \A j \in 1 .. Len(S) : q[j] \in Seq(Span)
  <2> SUFFICES ASSUME NEW j \in 1 .. Len(S) PROVE q[j] \in Seq(Span)
    OBVIOUS
  <2>1. CASE q[j] = <<>>
    BY <2>1
  <2>2. CASE q[j] # <<>>
    <3>1. PICK p \in Span : q[j] = <<p>>
      BY <1>3, <2>2
    <3>2. <<p>> \in Seq(Span)
      OBVIOUS
    <3> QED
      BY <3>1, <3>2
  <2> QED
    BY <2>1, <2>2
<1>5. q \in Seq(Seq(Span)) /\ Len(q) = Len(S)
  <2>1. q = [j \in 1 .. Len(S) |-> q[j]]
    BY <1>1 DEF Parts
  <2> HIDE DEF q
  <2> QED
    BY <1>1, <1>4, <2>1
<1> HIDE DEF q
<1>6. \A i, j \in 1 .. Len(q) : i < j /\ q[i] # <<>> /\ q[j] # <<>> => q[i][1].end <= q[j][1].start
  <2> SUFFICES ASSUME NEW i \in 1 .. Len(q), NEW j \in 1 .. Len(q), i < j,
                      q[i] # <<>>, q[j] # <<>>
               PROVE  q[i][1].end <= q[j][1].start
    OBVIOUS
  <2>1. PICK p \in Span : Resolves(day, S[i], p) /\ q[i] = <<p>>
    BY <1>3, <1>5
  <2>2. PICK r \in Span : Resolves(day, S[j], r) /\ q[j] = <<r>>
    BY <1>3, <1>5
  <2>3. p.end <= r.start
    BY <1>1, <1>5, <2>1, <2>2, ResolvedInOrder
  <2>4. q[i][1] = p /\ q[j][1] = r
    BY <2>1, <2>2
  <2> QED
    BY <2>3, <2>4
<1> QED
  BY <1>3, <1>5, <1>6 DEF OneEach, q

LEMMA ResolvedPeriods ==
  ASSUME NEW day, IsDate(day), NEW S, Apart(S)
  PROVE  /\ Apart(Resolved(day, S))
         /\ \A k \in 1 .. Len(Resolved(day, S)) :
              \E j \in 1 .. Len(S) : Resolves(day, S[j], Resolved(day, S)[k])
         /\ Resolved(day, S) = <<>> => \A j \in 1 .. Len(S) : ResolveInterval(day, S[j]) = <<>>
<1> DEFINE q == Parts(day, S)
           r == Resolved(day, S)
<1>1. OneEach(q) /\ Len(q) = Len(S)
  BY ResolvedParts
<1>2. /\ Len(S) \in Nat /\ DOMAIN S = 1 .. Len(S)
      /\ \A j \in 1 .. Len(S) : S[j] \in Span /\ S[j].start < S[j].end
      /\ \A j \in 1 .. Len(S) : q[j] = ResolveInterval(day, S[j])
  BY DEF Apart, Parts
<1>3. Gathered(q, Len(q), r)
  <2>1. Gathered(q, Len(q), FlattenSeq(q))
    <3> HIDE DEF q
    <3> QED
      BY <1>1, FlattenGathers
  <2> QED
    BY <2>1 DEF Resolved
<1> HIDE DEF q, r
<1>4. /\ Apart(r)
      /\ \A k \in 1 .. Len(r) : \E j \in 1 .. Len(S) : q[j] = <<r[k]>>
      /\ \A j \in 1 .. Len(S) : q[j] # <<>> => \E k \in 1 .. Len(r) : q[j] = <<r[k]>>
  BY <1>1, <1>3 DEF Gathered
<1>5. \A k \in 1 .. Len(r) : \E j \in 1 .. Len(S) : Resolves(day, S[j], r[k])
  <2> SUFFICES ASSUME NEW k \in 1 .. Len(r)
               PROVE  \E j \in 1 .. Len(S) : Resolves(day, S[j], r[k])
    OBVIOUS
  <2>1. PICK j \in 1 .. Len(S) : q[j] = <<r[k]>>
    BY <1>4
  <2>2. q[j] # <<>> /\ q[j][1] = r[k]
    BY <2>1
  <2>3. PICK p \in Span : Resolves(day, S[j], p) /\ q[j] = <<p>>
    BY <1>2, <2>2, PartResolves
  <2>4. p = r[k]
    BY <2>2, <2>3
  <2> QED
    BY <2>3, <2>4
<1>6. r = <<>> => \A j \in 1 .. Len(S) : ResolveInterval(day, S[j]) = <<>>
  <2>1. r = <<>> => 1 .. Len(r) = {}
    OBVIOUS
  <2> QED
    BY <1>2, <1>4, <2>1
<1> QED
  BY <1>4, <1>5, <1>6 DEF r
\* No minute of the date is shown twice.
Once(day) == \A i, j \in DOMAIN day : day[i] = day[j] => i = j

\* The minute in which a tick falls.
LEMMA MinuteOfTick ==
  ASSUME NEW g \in Nat \ {0}, NEW a \in Nat, NEW b \in Nat, NEW t \in Nat, g * a <= t, t < g * b
  PROVE  t \div g \in Nat /\ a <= t \div g /\ t \div g < b
<1> DEFINE d == t \div g
<1>1. d \in Nat /\ g * d <= t /\ t < g * d + g
  OBVIOUS
<1> HIDE DEF d
<1>2. g * d + g = g * (d + 1)
  BY <1>1
<1>3. g * a < g * (d + 1) /\ g * d < g * b
  BY <1>1, <1>2
<1>4. a < d + 1 /\ d < b
  BY <1>1, <1>3
<1> QED
  BY <1>1, <1>4 DEF d

\* A tick of what the date makes of a period is a tick of the date; and where no
\* minute comes twice it shows a minute of the period.
LEMMA ResolvedTick ==
  ASSUME NEW day, IsDate(day), NEW wall \in Span, NEW p, Resolves(day, wall, p),
         NEW t \in Nat, p.start <= t, t < p.end
  PROVE  /\ t \in 0 .. Grain * Len(day) - 1
         /\ Once(day) => wall.start <= day[1 + (t \div Grain)] /\ day[1 + (t \div Grain)] < wall.end
                         /\ day[1 + (t \div Grain)] \in Nat
<1>1. PICK s \in Shown(day), e \in Shown(day) :
        /\ wall.start <= s /\ s < wall.end /\ wall.end <= e
        /\ \A m \in Shown(day) : wall.end <= m => e <= m
        /\ p = [start |-> ResolveMinute(day, s), end |-> ResolveMinute(day, e)]
  BY DEF Resolves
<1> DEFINE a == Onset(day, s)
           b == Onset(day, e)
           d == t \div Grain
           n == Len(day)
<1>2. /\ n \in Nat /\ Grain \in Nat \ {0} /\ DOMAIN day = 1 .. n
      /\ \A i \in 1 .. n : day[i] \in Nat /\ day[i] \in Shown(day)
      /\ s \in Nat /\ e \in Nat /\ wall.start \in Nat /\ wall.end \in Nat
  BY DateNumbers DEF Span, Shown, Range
<1>3. /\ a \in 1 .. n /\ b \in 1 .. n /\ day[a] = s /\ day[b] = e
      /\ ResolveMinute(day, s) = Grain * (a - 1) /\ ResolveMinute(day, e) = Grain * (b - 1)
  BY OnsetShows
<1> HIDE DEF a, b, n
<1>4. Grain * (a - 1) <= t /\ t < Grain * (b - 1) /\ a - 1 \in Nat /\ b - 1 \in Nat
  BY <1>1, <1>2, <1>3
<1>5. d \in Nat /\ a - 1 <= d /\ d < b - 1
  BY <1>2, <1>4, MinuteOfTick
<1> HIDE DEF d
<1>6. t \in 0 .. Grain * n - 1
  <2> DEFINE x == Grain * (b - 1)
             y == Grain * n
  <2>1. x <= y /\ x \in Int
    BY <1>2, <1>3
  <2>2. y \in Nat
    BY <1>2
  <2>4. t < x
    BY <1>4
  <2> HIDE DEF x, y
  <2>3. t \in 0 .. y - 1
    BY <2>1, <2>2, <2>4
  <2> QED
    BY <2>3 DEF y
<1>7. ASSUME Once(day) PROVE wall.start <= day[1 + d] /\ day[1 + d] < wall.end /\ day[1 + d] \in Nat
  <2> DEFINE i == 1 + d
  <2>1. i \in 1 .. n /\ a <= i /\ i < b
    BY <1>2, <1>3, <1>5
  <2> HIDE DEF i
  <2>2. \A h, j \in 1 .. n : h < j => day[h] < day[j]
    <3> SUFFICES ASSUME NEW h \in 1 .. n, NEW j \in 1 .. n, h < j PROVE day[h] < day[j]
      OBVIOUS
    <3>1. day[h] < day[j] \/ \E k \in 1 .. n : k <= h /\ day[k] = day[j]
      BY <1>2 DEF IsDate
    <3>2. ASSUME NEW k \in 1 .. n, k <= h, day[k] = day[j] PROVE FALSE
      <4>1. k = j
        BY <1>2, <1>7, <3>2 DEF Once
      <4> QED
        BY <1>2, <3>2, <4>1
    <3> QED
      BY <3>1, <3>2
  <2>3. s <= day[i] /\ day[i] < e /\ day[i] \in Nat /\ day[i] \in Shown(day)
    <3>1. day[i] < day[b] /\ (a = i \/ day[a] < day[i])
      BY <1>2, <1>3, <2>1, <2>2
    <3> QED
      BY <1>2, <1>3, <2>1, <3>1
  <2>4. day[i] < wall.end
    BY <1>1, <1>2, <2>3
  <2> QED
    BY <1>1, <1>2, <2>3, <2>4 DEF i
<1> QED
  BY <1>6, <1>7 DEF d, n

\* A date on which the last minute is shown makes nothing of periods that end by
\* then only when it shows no minute of them.
LEMMA NothingResolved ==
  ASSUME NEW day, IsDate(day), NEW S, Apart(S), DayMinutes - 1 \in Shown(day),
         \A j \in 1 .. Len(S) : S[j].end <= DayMinutes - 1
  PROVE  Resolved(day, S) = <<>> <=> \A m \in Shown(day) : m \notin Held(S)
<1> DEFINE r == Resolved(day, S)
<1>1. /\ Len(S) \in Nat /\ Shown(day) \subseteq Nat
      /\ \A j \in 1 .. Len(S) : S[j] \in Span /\ S[j].start < S[j].end
                                /\ S[j].start \in Nat /\ S[j].end \in Nat
  BY DateNumbers, ApartNumbers DEF Apart
<1>2. /\ Apart(r)
      /\ \A k \in 1 .. Len(r) : \E j \in 1 .. Len(S) : Resolves(day, S[j], r[k])
      /\ r = <<>> => \A j \in 1 .. Len(S) : ResolveInterval(day, S[j]) = <<>>
  BY ResolvedPeriods
<1> HIDE DEF r
<1>3. ASSUME r = <<>>, NEW m \in Shown(day), m \in Held(S) PROVE FALSE
  <2>1. PICK j \in 1 .. Len(S) : S[j].start <= m /\ m < S[j].end
    BY <1>3 DEF Held
  <2>2. ResolveInterval(day, S[j]) = <<>>
    BY <1>2, <1>3
  <2>3. ~(DayMinutes - 1 < S[j].end)
    BY <1>1, DateNumbers
  <2>4. \/ \A h \in Shown(day) : ~(S[j].start <= h /\ h < S[j].end)
        \/ \A h \in Shown(day) : h < S[j].end
    <3> DEFINE wall == S[j]
    <3>1. wall \in Span /\ wall.start < wall.end /\ ResolveInterval(day, wall) = <<>>
      BY <1>1, <2>2
    <3> HIDE DEF wall
    <3>2. \A s, e \in Shown(day) : ResolveInterval(day, wall)
             # <<[start |-> ResolveMinute(day, s), end |-> ResolveMinute(day, e)]>>
      BY <3>1
    <3>3. \/ \A h \in Shown(day) : ~(wall.start <= h /\ h < wall.end)
          \/ \A h \in Shown(day) : h < wall.end
      BY <3>1, <3>2, IntervalResolved
    <3> QED
      BY <3>3 DEF wall
  <2> QED
    BY <2>1, <2>3, <2>4
<1>4. ASSUME r # <<>> PROVE \E m \in Shown(day) : m \in Held(S)
  <2>1. 1 \in 1 .. Len(r)
    BY <1>2, <1>4 DEF Apart
  <2>2. PICK j \in 1 .. Len(S) : Resolves(day, S[j], r[1])
    BY <1>2, <2>1
  <2>3. PICK s \in Shown(day) : S[j].start <= s /\ s < S[j].end
    BY <2>2 DEF Resolves
  <2>4. s \in Held(S)
    BY <1>1, <2>3 DEF Held
  <2> QED
    BY <2>4
<1> QED
  BY <1>3, <1>4 DEF r

LEMMA DurationCounts ==
  ASSUME NEW is, Apart(is)
  PROVE  /\ Duration(is) \in Nat
         /\ Duration(is) = 0 <=> is = <<>>
<1>1. is \in Seq(Span) /\ Len(is) \in Nat
  BY DEF Apart
<1> DEFINE e == Elapsed(is)
           n == Len(is)
<1>2. e \in [0 .. n -> Int] /\ e[0] = 0
  BY <1>1, ElapsedSteps
<1>3. \A k, l \in 0 .. n : k < l => e[k] < e[l]
  BY ElapsedGrows
<1>4. n = 0 <=> is = <<>>
  BY <1>1
<1> HIDE DEF e, n
<1>5. 0 \in 0 .. n /\ n \in 0 .. n /\ n \in Nat
  BY <1>1 DEF n
<1>6. e[n] \in Int /\ (0 < n => 0 < e[n])
  BY <1>2, <1>3, <1>5
<1>7. e[n] \in Nat /\ (e[n] = 0 <=> n = 0)
  BY <1>2, <1>5, <1>6
<1> QED
  BY <1>4, <1>7 DEF Duration, e, n
-----------------------------------------------------------------------------
(***************************************************************************)
(* The slots of a date and the accounts of a slot.                         *)
(***************************************************************************)

LEMMA DraftNumbers ==
  ASSUME NEW cfg \in DraftConfig
  PROVE  /\ cfg.work \in Seq(Span) /\ cfg.blackouts \in Seq(Span) /\ Len(cfg.work) \in Nat
         /\ DOMAIN cfg.work = 1 .. Len(cfg.work)
         /\ \A i \in 1 .. Len(cfg.work) :
              cfg.work[i].start \in WallMinute /\ cfg.work[i].end \in WallMinute
         /\ cfg.lead \in Int /\ cfg.span \in Int /\ cfg.accounts \in Seq(Accounts)
         /\ DayMinutes \in Nat \ {0} /\ WallMinute \subseteq Nat
<1>1. DayMinutes \in Nat \ {0}
  BY PlannerAssumption
<1>2. WallMinute \subseteq Nat
  BY <1>1 DEF WallMinute
<1>3. Period \subseteq Span
  BY <1>2 DEF Period, Span
<1>4. /\ cfg.work \in Seq(Period) /\ cfg.blackouts \in Seq(Period) /\ cfg.lead \in Int
      /\ cfg.span \in Int /\ cfg.accounts \in Seq(Accounts)
  BY DEF DraftConfig
<1>5. cfg.work \in Seq(Span) /\ cfg.blackouts \in Seq(Span)
  BY <1>3, <1>4
<1>6. Len(cfg.work) \in Nat /\ DOMAIN cfg.work = 1 .. Len(cfg.work)
  BY <1>4
<1>7. \A i \in 1 .. Len(cfg.work) :
        cfg.work[i].start \in WallMinute /\ cfg.work[i].end \in WallMinute
  <2> SUFFICES ASSUME NEW i \in 1 .. Len(cfg.work)
               PROVE  cfg.work[i].start \in WallMinute /\ cfg.work[i].end \in WallMinute
    OBVIOUS
  <2>1. cfg.work[i] \in Period
    BY <1>4, <1>6
  <2> QED
    BY <2>1 DEF Period
<1> QED
  BY <1>1, <1>2, <1>4, <1>5, <1>6, <1>7

LEMMA AnchorNumbers ==
  ASSUME NEW cfg \in DraftConfig
  PROVE  /\ Anchors(cfg) \subseteq 0 .. DayMinutes - 2
         /\ \A a \in Anchors(cfg) : cfg.work # <<>>
              /\ \E i \in 1 .. Len(cfg.work) : cfg.work[i].start <= a /\ a < cfg.work[i].end
         /\ IsFiniteSet(Anchors(cfg)) /\ Cardinality(Anchors(cfg)) <= DayMinutes - 1
<1>1. /\ Len(cfg.work) \in Nat /\ DOMAIN cfg.work = 1 .. Len(cfg.work)
      /\ \A i \in 1 .. Len(cfg.work) :
           cfg.work[i].start \in 0 .. DayMinutes - 1 /\ cfg.work[i].end \in 0 .. DayMinutes - 1
      /\ DayMinutes \in Nat \ {0}
  BY DraftNumbers DEF WallMinute
<1>2. ASSUME NEW a \in Anchors(cfg)
      PROVE  /\ a \in 0 .. DayMinutes - 2 /\ cfg.work # <<>>
             /\ \E i \in 1 .. Len(cfg.work) : cfg.work[i].start <= a /\ a < cfg.work[i].end
  <2>1. cfg.work # <<>>
    BY DEF Anchors
  <2>2. /\ a \in Int
        /\ \E i \in 1 .. Len(cfg.work) : cfg.work[i].start <= a /\ a < cfg.work[i].end
    <3>1. Head(cfg.work) = cfg.work[1] /\ Last(cfg.work) = cfg.work[Len(cfg.work)]
          /\ 1 \in 1 .. Len(cfg.work) /\ Len(cfg.work) \in 1 .. Len(cfg.work)
      BY <1>1, <2>1, DraftNumbers DEF Last
    <3>2. a \in Head(cfg.work).start .. Last(cfg.work).end - 1
      BY <2>1 DEF Anchors
    <3>3. Head(cfg.work).start \in Int /\ Last(cfg.work).end \in Int
      BY <1>1, <3>1
    <3>4. \E i \in 1 .. Len(cfg.work) : cfg.work[i].start <= a /\ a < cfg.work[i].end
      BY <1>1, <2>1 DEF Anchors
    <3> QED
      BY <3>2, <3>3, <3>4
  <2>3. PICK i \in 1 .. Len(cfg.work) : cfg.work[i].start <= a /\ a < cfg.work[i].end
    BY <2>2
  <2> DEFINE x == cfg.work[i].start
             y == cfg.work[i].end
  <2>4. x \in 0 .. DayMinutes - 1 /\ y \in 0 .. DayMinutes - 1 /\ x <= a /\ a < y
    BY <1>1, <2>3
  <2> HIDE DEF x, y
  <2>5. a \in 0 .. DayMinutes - 2
    BY <1>1, <2>2, <2>4
  <2> QED
    BY <2>1, <2>2, <2>5
<1>3. Anchors(cfg) \in SUBSET (0 .. DayMinutes - 2)
  BY <1>2
<1>4. /\ IsFiniteSet(0 .. DayMinutes - 2)
      /\ Cardinality(0 .. DayMinutes - 2) = DayMinutes - 1
  <2>1. DayMinutes - 2 \in Int /\ 0 \in Int
    BY <1>1
  <2>2. /\ IsFiniteSet(0 .. DayMinutes - 2)
        /\ Cardinality(0 .. DayMinutes - 2)
             = IF 0 > DayMinutes - 2 THEN 0 ELSE (DayMinutes - 2) - 0 + 1
    BY <2>1, FS_Interval
  <2> QED
    BY <1>1, <2>2
<1>5. IsFiniteSet(Anchors(cfg)) /\ Cardinality(Anchors(cfg)) <= DayMinutes - 1
  BY <1>3, <1>4, FS_Subset
<1> QED
  BY <1>2, <1>5

\* Anchors in the order of the date.
ByTime(cfg) == {p \in Anchors(cfg) \X Anchors(cfg) : p[1] < p[2]}

LEMMA SlotsApart ==
  ASSUME NEW cfg \in DraftConfig
  PROVE  /\ \A a \in Anchors(cfg) : Slot(cfg, a) \in 0 .. DayMinutes - 1
         /\ \A a, b \in Anchors(cfg) : Slot(cfg, a) = Slot(cfg, b) => a = b
<1> DEFINE S == Anchors(cfg)
           R == ByTime(cfg)
<1>1. S \subseteq Nat /\ IsFiniteSet(S) /\ Cardinality(S) <= DayMinutes - 1 /\ DayMinutes \in Nat
  BY AnchorNumbers, PlannerAssumption
<1>2. \A x, y \in S : <<x, y>> \in R <=> x < y
  BY DEF ByTime
<1>3. \A a \in S : Slot(cfg, a) = Place(S, R, a)
  <2> SUFFICES ASSUME NEW a \in S PROVE Slot(cfg, a) = Place(S, R, a)
    OBVIOUS
  <2>1. {b \in S : b < a} = {b \in S : <<b, a>> \in R}
    BY <1>2
  <2> QED
    BY <2>1 DEF Slot, Place
<1> HIDE DEF S, R
<1>4. InLine(S, R)
  BY <1>1, <1>2 DEF InLine
<1>5. /\ Cardinality(S) \in Nat
      /\ \A x \in S : Place(S, R, x) \in 0 .. Cardinality(S) - 1
      /\ \A x, y \in S : Place(S, R, x) = Place(S, R, y) => x = y
  BY <1>1, <1>4, PlacesTaken
<1>6. \A a \in S : Slot(cfg, a) \in 0 .. DayMinutes - 1
  BY <1>1, <1>3, <1>5
<1> QED
  BY <1>3, <1>5, <1>6 DEF S

\* A slot's accounts in their order.
InSlot(cfg, slot) ==
  {p \in Range(cfg.accounts) \X Range(cfg.accounts) : Before(slot, p[1], p[2])}

LEMMA AccountsCounted ==
  ASSUME NEW cfg \in DraftConfig, ValidConfig(cfg)
  PROVE  /\ IsFiniteSet(Range(cfg.accounts))
         /\ Cardinality(Range(cfg.accounts)) = Len(cfg.accounts)
         /\ Range(cfg.accounts) \subseteq Accounts
         /\ DOMAIN cfg.accounts = 1 .. Len(cfg.accounts) /\ Len(cfg.accounts) \in Nat
<1> DEFINE f == cfg.accounts
           n == Len(f)
           K == Range(f)
<1>1. f \in Seq(Accounts) /\ n \in Nat /\ DOMAIN f = 1 .. n
  BY DraftNumbers
<1>2. \A i, j \in DOMAIN f : f[i] = f[j] => i = j
  BY DEF ValidConfig
<1> HIDE DEF f, n
<1>3. K = {f[i] : i \in 1 .. n} /\ K \subseteq Accounts
  BY <1>1 DEF Range, n
<1>4. f = [i \in 1 .. n |-> f[i]]
  BY <1>1 DEF n
<1> HIDE DEF K
<1>5. f \in [1 .. n -> K]
  BY <1>3, <1>4
<1>6. f \in Surjection(1 .. n, K) /\ f \in Injection(1 .. n, K)
  BY <1>1, <1>2, <1>3, <1>5 DEF Surjection, Injection, IsInjective
<1>7. IsFiniteSet(1 .. n) /\ Cardinality(1 .. n) = n
  BY <1>1, FS_Interval
<1>8. /\ IsFiniteSet(K)
      /\ Cardinality(K) = Cardinality(1 .. n) <=> f \in Injection(1 .. n, K)
  BY <1>6, <1>7, FS_Surjection
<1> QED
  BY <1>1, <1>3, <1>6, <1>7, <1>8 DEF K, f, n

LEMMA AccountsRanked ==
  ASSUME NEW cfg \in DraftConfig, ValidConfig(cfg), NEW slot \in 0 .. DayMinutes - 1
  PROVE  /\ DOMAIN Ranked(cfg, slot) = 1 .. Len(cfg.accounts)
         /\ Len(Ranked(cfg, slot)) = Len(cfg.accounts)
         /\ \A i \in 1 .. Len(cfg.accounts) : Ranked(cfg, slot)[i] \in Range(cfg.accounts)
         /\ \A i, j \in 1 .. Len(cfg.accounts) :
              Ranked(cfg, slot)[i] = Ranked(cfg, slot)[j] => i = j
         /\ \A acc \in Range(cfg.accounts) :
              \E i \in 1 .. Len(cfg.accounts) : Ranked(cfg, slot)[i] = acc
<1> DEFINE K == Range(cfg.accounts)
           n == Len(cfg.accounts)
           R == InSlot(cfg, slot)
           r == Ranked(cfg, slot)
<1>1. /\ IsFiniteSet(K) /\ Cardinality(K) = n /\ K \subseteq Accounts /\ n \in Nat
      /\ DOMAIN cfg.accounts = 1 .. n
  BY AccountsCounted
<1>2. \A x, y \in K : <<x, y>> \in R <=> Before(slot, x, y)
  BY DEF InSlot
<1>3. r = [i \in 1 .. n |-> CHOOSE a \in K : Place(K, R, a) = i - 1]
  <2>1. \A a \in K : {b \in K : Before(slot, b, a)} = {b \in K : <<b, a>> \in R}
    BY <1>2
  <2>2. \A a \in K : Cardinality({b \in K : Before(slot, b, a)}) = Place(K, R, a)
    BY <2>1 DEF Place
  <2> DEFINE F(i) == CHOOSE a \in K : Cardinality({b \in K : Before(slot, b, a)}) = i - 1
             G(i) == CHOOSE a \in K : Place(K, R, a) = i - 1
  <2>3. \A i \in 1 .. n : F(i) = G(i)
    BY <2>2
  <2>4. r = [i \in 1 .. n |-> F(i)]
    BY <1>1 DEF Ranked
  <2> HIDE DEF F, G, r, n
  <2>5. r = [i \in 1 .. n |-> G(i)]
    BY <2>3, <2>4
  <2> QED
    BY <2>5 DEF G
<1> HIDE DEF K, n, R, r
<1>4. \A x \in K : x \in Nat /\ Hash[slot][x] \in Nat
  BY <1>1, PlannerAssumption
<1>5. InLine(K, R)
  BY <1>2, <1>4 DEF InLine, Before
<1>6. /\ \A x \in K : Place(K, R, x) \in 0 .. n - 1
      /\ \A x, y \in K : Place(K, R, x) = Place(K, R, y) => x = y
      /\ \A k \in 0 .. n - 1 : \E x \in K : Place(K, R, x) = k
  BY <1>1, <1>5, PlacesTaken
<1>7. \A i \in 1 .. n : r[i] \in K /\ Place(K, R, r[i]) = i - 1
  <2> SUFFICES ASSUME NEW i \in 1 .. n PROVE r[i] \in K /\ Place(K, R, r[i]) = i - 1
    OBVIOUS
  <2>1. r[i] = CHOOSE a \in K : Place(K, R, a) = i - 1
    BY <1>3
  <2>2. \E a \in K : Place(K, R, a) = i - 1
    BY <1>1, <1>6
  <2> QED
    BY <2>1, <2>2
<1>8. \A i, j \in 1 .. n : r[i] = r[j] => i = j
  <2> SUFFICES ASSUME NEW i \in 1 .. n, NEW j \in 1 .. n, r[i] = r[j] PROVE i = j
    OBVIOUS
  <2>1. i - 1 = j - 1
    BY <1>7
  <2> QED
    BY <1>1, <2>1
<1>9. \A acc \in K : \E i \in 1 .. n : r[i] = acc
  <2> SUFFICES ASSUME NEW acc \in K PROVE \E i \in 1 .. n : r[i] = acc
    OBVIOUS
  <2> DEFINE i == Place(K, R, acc) + 1
  <2>1. i \in 1 .. n /\ i - 1 = Place(K, R, acc)
    BY <1>1, <1>6
  <2> HIDE DEF i
  <2>2. r[i] = acc
    BY <1>6, <1>7, <2>1
  <2> QED
    BY <2>1, <2>2
<1>10. DOMAIN r = 1 .. n /\ Len(r) = n
  BY <1>1, <1>3
<1> QED
  BY <1>7, <1>8, <1>9, <1>10 DEF K, n, r
-----------------------------------------------------------------------------
(***************************************************************************)
(* The plan of a date.                                                     *)
(***************************************************************************)

\* cfg can plan the date.
Plans(cfg, day) == cfg \in DraftConfig /\ IsDate(day) /\ ValidConfig(cfg) /\ ~PlanFails(cfg)

\* A minute of an anchor's preheat window outside every blackout.
AllowedAt(cfg, anchor, m) ==
  /\ anchor - cfg.lead - cfg.span <= m /\ m < anchor - cfg.lead
  /\ ~InPeriods(m, cfg.blackouts)

\* The allowed periods of an anchor, in wall minutes.
Open(cfg, anchor) == Subtract(PreheatWindow(cfg, anchor), cfg.blackouts)

LEMMA OpenMinutes ==
  ASSUME NEW cfg, NEW day, Plans(cfg, day), cfg.workday, cfg.accounts # <<>>, NEW a \in Anchors(cfg)
  PROVE  /\ Apart(Open(cfg, a))
         /\ \A k \in 1 .. Len(Open(cfg, a)) : Open(cfg, a)[k].end <= DayMinutes - 1
         /\ \A m \in Nat : m \in Held(Open(cfg, a)) <=> AllowedAt(cfg, a, m)
         /\ Allowed(cfg, day, a) = Resolved(day, Open(cfg, a))
<1> DEFINE base == PreheatWindow(cfg, a)
           bs == cfg.blackouts
<1>1. cfg \in DraftConfig /\ ValidConfig(cfg) /\ ~PlanFails(cfg)
  BY DEF Plans
<1>2. bs \in Seq(Span) /\ ValidPeriods(bs) /\ cfg.lead \in Int /\ cfg.span \in Int
  BY <1>1, DraftNumbers DEF ValidConfig
<1>3. cfg.work # <<>> /\ a \in 0 .. DayMinutes - 2 /\ DayMinutes \in Nat
  BY <1>1, AnchorNumbers, PlannerAssumption
<1>4. cfg.lead >= 1 /\ cfg.span >= 1 /\ ~(base.start < 0)
  <2>1. ~(cfg.lead < 1) /\ ~(cfg.span < 1) /\ ~(base.start < 0)
    BY <1>1, <1>3 DEF PlanFails
  <2> QED
    BY <1>2, <2>1
<1>5. base.start = a - cfg.lead - cfg.span /\ base.end = a - cfg.lead
  BY DEF PreheatWindow
<1>6. base = [start |-> base.start, end |-> base.end]
  BY DEF PreheatWindow
<1> HIDE DEF base, bs
<1>7. base.start \in Nat /\ base.end \in Nat /\ base.start < base.end /\ base.end <= DayMinutes - 1
  BY <1>2, <1>3, <1>4, <1>5
<1>8. base \in Span
  BY <1>6, <1>7 DEF Span
<1> DEFINE S == Subtract(base, bs)
<1>9. /\ Apart(S)
      /\ \A k \in 1 .. Len(S) : base.start <= S[k].start /\ S[k].end <= base.end
      /\ \A m \in Nat : m \in Held(S)
           <=> base.start <= m /\ m < base.end /\ ~BlackedOut(bs, Len(bs), m)
  BY <1>2, <1>7, <1>8, SubtractLeaves
<1> HIDE DEF S
<1>10. \A k \in 1 .. Len(S) : S[k].end <= DayMinutes - 1
  <2> SUFFICES ASSUME NEW k \in 1 .. Len(S) PROVE S[k].end <= DayMinutes - 1
    OBVIOUS
  <2>1. S[k].end \in Nat /\ S[k].end <= base.end
    BY <1>9, ApartNumbers DEF Apart
  <2> QED
    BY <1>3, <1>7, <2>1
<1>11. \A m \in Nat : BlackedOut(bs, Len(bs), m) <=> InPeriods(m, bs)
  <2>1. DOMAIN bs = 1 .. Len(bs)
    BY <1>2
  <2> QED
    BY <2>1 DEF BlackedOut, InPeriods
<1>12. \A m \in Nat : m \in Held(S) <=> AllowedAt(cfg, a, m)
  BY <1>5, <1>9, <1>11 DEF AllowedAt, bs
<1>13. S = Open(cfg, a)
  BY DEF Open, S, base, bs
<1>14. Allowed(cfg, day, a) = Resolved(day, Open(cfg, a))
  BY DEF Allowed, Resolved, Parts, Open
<1> QED
  BY <1>9, <1>10, <1>12, <1>13, <1>14

LEMMA AllowedPeriods ==
  ASSUME NEW cfg, NEW day, Plans(cfg, day), cfg.workday, cfg.accounts # <<>>, NEW a \in Anchors(cfg)
  PROVE  /\ Apart(Allowed(cfg, day, a))
         /\ \A t \in Held(Allowed(cfg, day, a)) :
              /\ t \in 0 .. Grain * Len(day) - 1
              /\ Once(day) => AllowedAt(cfg, a, day[1 + (t \div Grain)])
         /\ DayMinutes - 1 \in Shown(day) =>
              (Allowed(cfg, day, a) = <<>> <=> \A m \in Shown(day) : ~AllowedAt(cfg, a, m))
<1> DEFINE S == Open(cfg, a)
           r == Allowed(cfg, day, a)
<1>1. IsDate(day) /\ Shown(day) \subseteq Nat
  BY DateNumbers DEF Plans
<1>2. /\ Apart(S)
      /\ \A k \in 1 .. Len(S) : S[k].end <= DayMinutes - 1
      /\ \A m \in Nat : m \in Held(S) <=> AllowedAt(cfg, a, m)
      /\ r = Resolved(day, S)
  BY OpenMinutes
<1> HIDE DEF S, r
<1>3. /\ Apart(r)
      /\ \A k \in 1 .. Len(r) : \E j \in 1 .. Len(S) : Resolves(day, S[j], r[k])
  BY <1>1, <1>2, ResolvedPeriods
<1>4. ASSUME NEW t \in Held(r)
      PROVE  /\ t \in 0 .. Grain * Len(day) - 1
             /\ Once(day) => AllowedAt(cfg, a, day[1 + (t \div Grain)])
  <2>1. PICK k \in 1 .. Len(r) : r[k].start <= t /\ t < r[k].end
    BY DEF Held
  <2>2. PICK j \in 1 .. Len(S) : Resolves(day, S[j], r[k])
    BY <1>3
  <2> DEFINE m == day[1 + (t \div Grain)]
             wall == S[j]
             p == r[k]
  <2>3. wall \in Span
    BY <1>2, ApartNumbers DEF Apart
  <2>4. t \in Nat /\ p.start <= t /\ t < p.end /\ Resolves(day, wall, p)
    BY <2>1, <2>2 DEF Held
  <2> HIDE DEF wall, p
  <2>5. /\ t \in 0 .. Grain * Len(day) - 1
        /\ Once(day) => wall.start <= m /\ m < wall.end /\ m \in Nat
    BY <1>1, <2>3, <2>4, ResolvedTick
  <2> HIDE DEF m
  <2>6. Once(day) => m \in Held(S)
    BY <2>5 DEF Held, wall
  <2>7. Once(day) => AllowedAt(cfg, a, m)
    BY <1>2, <2>5, <2>6
  <2> QED
    BY <2>5, <2>7 DEF m
<1>5. DayMinutes - 1 \in Shown(day) => (r = <<>> <=> \A m \in Shown(day) : m \notin Held(S))
  BY <1>1, <1>2, NothingResolved
<1>6. (\A m \in Shown(day) : m \notin Held(S)) <=> (\A m \in Shown(day) : ~AllowedAt(cfg, a, m))
  BY <1>1, <1>2
<1> QED
  BY <1>3, <1>4, <1>5, <1>6 DEF r

\* The occurrence of the account that comes i-th in an anchor's slot.
Occurrence(cfg, day, a, i) ==
  [account |-> Ranked(cfg, Slot(cfg, a))[i], slot |-> Slot(cfg, a),
   missed |-> Duration(Allowed(cfg, day, a)) = 0,
   plannedAt |-> IF Duration(Allowed(cfg, day, a)) = 0 THEN None
                 ELSE AtOffset(Allowed(cfg, day, a),
                        ShareOffset(Duration(Allowed(cfg, day, a)), Len(cfg.accounts), i))]

LEMMA SlotPlanned ==
  ASSUME NEW cfg, NEW day, Plans(cfg, day), NEW a \in Anchors(cfg)
  PROVE  PlanSlot(cfg, day, a) = {Occurrence(cfg, day, a, i) : i \in 1 .. Len(cfg.accounts)}
<1>1. cfg \in DraftConfig /\ ValidConfig(cfg)
  BY DEF Plans
<1>2. Slot(cfg, a) \in 0 .. DayMinutes - 1
  BY <1>1, SlotsApart
<1>3. Len(Ranked(cfg, Slot(cfg, a))) = Len(cfg.accounts)
  BY <1>1, <1>2, AccountsRanked
<1> QED
  BY <1>3 DEF PlanSlot, Occurrence

LEMMA DayPlanned ==
  ASSUME NEW cfg, NEW day, Plans(cfg, day)
  PROVE  \A o : o \in PlanDay(cfg, day) <=>
           /\ cfg.workday /\ cfg.accounts # <<>>
           /\ \E a \in Anchors(cfg) : \E i \in 1 .. Len(cfg.accounts) : o = Occurrence(cfg, day, a, i)
<1>1. cfg \in DraftConfig
  BY DEF Plans
<1>2. \A a \in Anchors(cfg) : cfg.work # <<>>
  BY <1>1, AnchorNumbers
<1>3. \A a \in Anchors(cfg) : \A o : o \in PlanSlot(cfg, day, a)
        <=> \E i \in 1 .. Len(cfg.accounts) : o = Occurrence(cfg, day, a, i)
  BY SlotPlanned
<1> QED
  BY <1>2, <1>3 DEF PlanDay
LEMMA OccurrenceOf ==
  ASSUME NEW cfg, NEW day, NEW a, NEW i
  PROVE  /\ Occurrence(cfg, day, a, i).account = Ranked(cfg, Slot(cfg, a))[i]
         /\ Occurrence(cfg, day, a, i).slot = Slot(cfg, a)
         /\ Occurrence(cfg, day, a, i).missed = (Duration(Allowed(cfg, day, a)) = 0)
         /\ Duration(Allowed(cfg, day, a)) # 0 =>
              Occurrence(cfg, day, a, i).plannedAt
                = AtOffset(Allowed(cfg, day, a),
                    ShareOffset(Duration(Allowed(cfg, day, a)), Len(cfg.accounts), i))
BY DEF Occurrence

\* What a plan has of an account in a slot.
Mine(plan, acc, slot) == {x \in plan : x.account = acc /\ x.slot = slot}

LEMMA SlotComplete ==
  ASSUME NEW cfg, NEW day, Plans(cfg, day), cfg.workday,
         NEW a \in Anchors(cfg), NEW acc \in Range(cfg.accounts)
  PROVE  \E o : /\ Mine(PlanDay(cfg, day), acc, Slot(cfg, a)) = {o}
                /\ o.missed = (Allowed(cfg, day, a) = <<>>)
<1> DEFINE n == Len(cfg.accounts)
           mine == Mine(PlanDay(cfg, day), acc, Slot(cfg, a))
           r == Ranked(cfg, Slot(cfg, a))
<1>1. cfg \in DraftConfig /\ ValidConfig(cfg)
  BY DEF Plans
<1>2. cfg.accounts # <<>>
  BY <1>1, AccountsCounted DEF Range
<1>3. /\ Slot(cfg, a) \in 0 .. DayMinutes - 1
      /\ \A b \in Anchors(cfg) : Slot(cfg, b) = Slot(cfg, a) => b = a
  BY <1>1, SlotsApart
<1>4. /\ \A i, j \in 1 .. n : r[i] = r[j] => i = j
      /\ \E i \in 1 .. n : r[i] = acc
  <2> DEFINE s == Slot(cfg, a)
  <2> HIDE DEF s
  <2>1. s \in 0 .. DayMinutes - 1
    BY <1>3 DEF s
  <2>2. \A i, j \in 1 .. Len(cfg.accounts) : Ranked(cfg, s)[i] = Ranked(cfg, s)[j] => i = j
    BY <1>1, <2>1, AccountsRanked
  <2>3. \E i \in 1 .. Len(cfg.accounts) : Ranked(cfg, s)[i] = acc
    BY <1>1, <2>1, AccountsRanked
  <2> QED
    BY <2>2, <2>3 DEF s
<1>5. PICK i \in 1 .. n : r[i] = acc
  BY <1>4
<1> DEFINE o == Occurrence(cfg, day, a, i)
<1> HIDE DEF n, r, o
<1>6. o \in PlanDay(cfg, day)
  BY <1>2, DayPlanned DEF n, o
<1>7. o.account = acc /\ o.slot = Slot(cfg, a)
  BY <1>5, OccurrenceOf DEF r, o
<1>8. \A x \in mine : x = o
  <2> SUFFICES ASSUME NEW x \in mine PROVE x = o
    OBVIOUS
  <2>1. x \in PlanDay(cfg, day) /\ x.account = acc /\ x.slot = Slot(cfg, a)
    BY DEF Mine
  <2>2. PICK b \in Anchors(cfg), j \in 1 .. n : x = Occurrence(cfg, day, b, j)
    BY <2>1, DayPlanned DEF n
  <2>3. Slot(cfg, b) = Slot(cfg, a)
    BY <2>1, <2>2, OccurrenceOf
  <2>4. b = a
    BY <1>3, <2>3
  <2>5. r[j] = acc
    BY <2>1, <2>2, <2>4, OccurrenceOf DEF r
  <2>6. j = i
    BY <1>4, <1>5, <2>5
  <2> QED
    BY <2>2, <2>4, <2>6 DEF o
<1>9. mine = {o}
  BY <1>6, <1>7, <1>8 DEF Mine
<1>10. o.missed = (Duration(Allowed(cfg, day, a)) = 0)
  BY OccurrenceOf DEF o
<1>11. Apart(Allowed(cfg, day, a))
  BY <1>2, AllowedPeriods
<1>12. Duration(Allowed(cfg, day, a)) = 0 <=> Allowed(cfg, day, a) = <<>>
  BY <1>11, DurationCounts
<1> QED
  BY <1>9, <1>10, <1>12

LEMMA LeadAndSpan ==
  ASSUME NEW cfg \in DraftConfig, NEW x \in Int
  PROVE  /\ [cfg EXCEPT !.lead = x] \in DraftConfig
         /\ [cfg EXCEPT !.span = x] \in DraftConfig
BY DEF DraftConfig

\* What a preview assumes makes a draft that names a preheat window.
LEMMA DraftedTyped ==
  ASSUME NEW cfg \in DraftConfig
  PROVE  Drafted(cfg) \in DraftConfig /\ Drafted(cfg).lead # None
<1>1. PreviewAccount \in Accounts /\ PreviewLead \in Nat \ {0} /\ PreviewSpan \in Nat \ {0}
  BY QuestionsAssumption, PreviewAssumption
<1>2. <<PreviewAccount>> \in Seq(Accounts)
  BY <1>1
<1> DEFINE named == IF cfg.accounts = <<>> THEN [cfg EXCEPT !.accounts = <<PreviewAccount>>] ELSE cfg
           full == [named EXCEPT !.lead = PreviewLead, !.span = PreviewSpan]
<1>3. named \in DraftConfig
  BY <1>2 DEF DraftConfig
<1>4. Drafted(cfg) = IF cfg.lead = None \/ cfg.span = None THEN full ELSE named
  BY DEF Drafted
<1>5. named.lead = cfg.lead
  BY DEF DraftConfig
<1> HIDE DEF named
<1>6. full \in DraftConfig /\ full.lead = PreviewLead
  <2> DEFINE led == [named EXCEPT !.lead = PreviewLead]
  <2>1. PreviewLead \in Int /\ PreviewSpan \in Int
    BY <1>1
  <2>2. led \in DraftConfig
    BY <1>3, <2>1, LeadAndSpan
  <2>3. led.lead = PreviewLead
    BY <1>3 DEF DraftConfig
  <2>4. full = [led EXCEPT !.span = PreviewSpan]
    OBVIOUS
  <2> HIDE DEF led, full
  <2>5. full \in DraftConfig
    BY <2>1, <2>2, <2>4, LeadAndSpan
  <2>6. full.lead = led.lead
    BY <2>2, <2>4 DEF DraftConfig
  <2> QED
    BY <2>3, <2>5, <2>6
<1> HIDE DEF full
<1>7. PreviewLead # None
  BY <1>1 DEF None
<1> QED
  BY <1>3, <1>4, <1>5, <1>6, <1>7

LEMMA AskedSchedules ==
  ASSUME Answered, Valid
  PROVE  /\ Cfg \in DraftConfig /\ IsDate(Day) /\ ValidConfig(Cfg)
         /\ answer.fails = PlanFails(Cfg)
         /\ question.kind = "preview" => Cfg.lead # None
         /\ ~answer.fails => answer.run.plan = PlanDay(Cfg, Day)
<1>1. question \in ScheduleQuestions /\ question.cfg \in DraftConfig /\ IsDate(Day)
  BY QuestionsAssumption DEF Answered, Valid, Day
<1>2. CASE question.kind = "preview"
  <2> DEFINE c == Drafted(question.cfg)
  <2>1. c \in DraftConfig /\ c.lead # None
    BY <1>1, DraftedTyped
  <2>2. answer = Preview(c, Day, Chart)
    BY <1>2 DEF Answered, Valid, Day, Chart
  <2> HIDE DEF c
  <2>3. /\ answer.cfg = c /\ answer.valid = ValidConfig(c) /\ answer.fails = PlanFails(c)
        /\ answer.run = IF ValidConfig(c) /\ ~PlanFails(c) THEN Run(c, Day, Chart) ELSE <<>>
    BY <2>2 DEF Preview
  <2>4. Run(c, Day, Chart).plan = PlanDay(c, Day)
    BY DEF Run
  <2> QED
    BY <1>1, <2>1, <2>3, <2>4 DEF Valid, Cfg
<1>3. CASE question.kind = "update"
  <2> DEFINE c == question.cfg
  <2>1. answer = Update(c, Day)
    BY <1>3 DEF Answered, Valid, Day
  <2>2. /\ answer.cfg = c /\ answer.valid = ValidConfig(c) /\ answer.fails = PlanFails(c)
        /\ answer.run = IF ValidConfig(c) /\ ~PlanFails(c) THEN [plan |-> PlanDay(c, Day)] ELSE <<>>
    BY <2>1 DEF Update
  <2> QED
    BY <1>1, <1>3, <2>2 DEF Valid, Cfg
<1> QED
  BY <1>2, <1>3 DEF Valid

LEMMA AskedPlans ==
  ASSUME Answered, Planned
  PROVE  Plans(Cfg, Day) /\ answer.run.plan = PlanDay(Cfg, Day)
BY AskedSchedules DEF Planned, Plans

\* A preheat window reaches back into the day before only when validation has
\* refused the configuration.
LEMMA ValidPlans ==
  ASSUME NEW cfg \in DraftConfig, ValidConfig(cfg), cfg.lead # None
  PROVE  ~PlanFails(cfg)
<1>1. /\ cfg.lead \in Int /\ cfg.span \in Int /\ cfg.span # None
      /\ cfg.lead > 0 /\ cfg.span > 0
      /\ \A i \in DOMAIN cfg.work : cfg.work[i].start >= cfg.lead + cfg.span
  BY DraftNumbers DEF ValidConfig
<1>2. ASSUME NEW a \in Anchors(cfg) PROVE ~(PreheatWindow(cfg, a).start < 0)
  <2>1. /\ a \in 0 .. DayMinutes - 2 /\ DayMinutes \in Nat
        /\ \E i \in 1 .. Len(cfg.work) : cfg.work[i].start <= a
    BY AnchorNumbers, PlannerAssumption
  <2>2. PICK i \in 1 .. Len(cfg.work) : cfg.work[i].start <= a
    BY <2>1
  <2> DEFINE x == cfg.work[i].start
  <2>3. x \in Nat /\ x >= cfg.lead + cfg.span /\ x <= a
    BY <1>1, <2>2, DraftNumbers
  <2> HIDE DEF x
  <2>4. a - cfg.lead - cfg.span >= 0
    BY <1>1, <2>1, <2>3
  <2> QED
    BY <1>1, <2>1, <2>4 DEF PreheatWindow
<1> QED
  BY <1>1, <1>2 DEF PlanFails

\* Whatever validation accepts can be planned: every account has its one
\* occurrence for every anchor, missed just when the date shows none of the
\* anchor's allowed minutes (planner.PlanDay).
THEOREM PlansComplete == Spec => []PlanComplete
<1>1. Answered => PlanComplete
  <2> SUFFICES ASSUME Answered PROVE PlanComplete
    OBVIOUS
  <2>1. Valid /\ (Cfg.enabled \/ question.kind = "preview") => ~answer.fails
    <3> SUFFICES ASSUME Valid, Cfg.enabled \/ question.kind = "preview" PROVE ~answer.fails
      OBVIOUS
    <3>1. /\ Cfg \in DraftConfig /\ ValidConfig(Cfg) /\ answer.fails = PlanFails(Cfg)
          /\ question.kind = "preview" => Cfg.lead # None
      BY AskedSchedules
    <3>2. Cfg.lead # None
      BY <3>1 DEF ValidConfig
    <3> QED
      BY <3>1, <3>2, ValidPlans
  <2>2. ASSUME Planned, NEW a \in Anchors(Cfg), NEW acc \in Range(Cfg.accounts), Cfg.workday
        PROVE  LET mine == {o \in answer.run.plan : o.account = acc /\ o.slot = Slot(Cfg, a)}
               IN /\ Cardinality(mine) = 1
                  /\ DayMinutes - 1 \in Shown(Day) =>
                       \A o \in mine : o.missed = (\A m \in Shown(Day) : ~AllowedMinute(m, a))
    <3> DEFINE mine == {o \in answer.run.plan : o.account = acc /\ o.slot = Slot(Cfg, a)}
    <3>1. Plans(Cfg, Day) /\ answer.run.plan = PlanDay(Cfg, Day)
      BY <2>2, AskedPlans
    <3>2. PICK p : mine = {p} /\ p.missed = (Allowed(Cfg, Day, a) = <<>>)
      <4>1. PICK p : /\ Mine(PlanDay(Cfg, Day), acc, Slot(Cfg, a)) = {p}
                     /\ p.missed = (Allowed(Cfg, Day, a) = <<>>)
        BY <2>2, <3>1, SlotComplete
      <4> QED
        BY <3>1, <4>1 DEF Mine
    <3>3. Cardinality(mine) = 1
      BY <3>2, FS_Singleton
    <3>4. Cfg.accounts # <<>>
      BY <2>2, <3>1, AccountsCounted DEF Range, Plans
    <3>5. DayMinutes - 1 \in Shown(Day) =>
            (Allowed(Cfg, Day, a) = <<>> <=> \A m \in Shown(Day) : ~AllowedAt(Cfg, a, m))
      BY <2>2, <3>1, <3>4, AllowedPeriods
    <3>6. \A m : AllowedAt(Cfg, a, m) <=> AllowedMinute(m, a)
      BY DEF AllowedAt, AllowedMinute
    <3>7. DayMinutes - 1 \in Shown(Day) =>
            \A o \in mine : o.missed = (\A m \in Shown(Day) : ~AllowedMinute(m, a))
      BY <3>2, <3>5, <3>6
    <3> HIDE DEF mine
    <3>8. /\ Cardinality(mine) = 1
          /\ DayMinutes - 1 \in Shown(Day) =>
               \A o \in mine : o.missed = (\A m \in Shown(Day) : ~AllowedMinute(m, a))
      BY <3>3, <3>7
    <3> QED
      BY <3>8 DEF mine
  <2> QED
    BY <2>1, <2>2 DEF PlanComplete
<1> QED
  BY <1>1, AnswersComputed, PTL
-----------------------------------------------------------------------------
(***************************************************************************)
(* The instants of a plan.                                                 *)
(***************************************************************************)

LEMMA Shares ==
  ASSUME NEW total \in Nat \ {0}, NEW n \in Nat \ {0}, NEW i \in 1 .. n
  PROVE  /\ ShareOffset(total, n, i) \in Nat
         /\ ShareOffset(total, n, i) < total
         /\ (2 * n) * ShareOffset(total, n, i) <= total * (2 * i - 1)
         /\ total * (2 * i - 1) < (2 * n) * (ShareOffset(total, n, i) + 1)
<1> DEFINE t == total * (2 * i - 1)
           g == 2 * n
           x == ShareOffset(total, n, i)
<1>1. t \in Nat /\ g \in Nat \ {0} /\ x = t \div g
  BY DEF ShareOffset
<1>2. t < g * total
  <2>1. 2 * i - 1 \in Nat /\ 2 * i - 1 < 2 * n /\ 2 * n \in Nat
    OBVIOUS
  <2> DEFINE k == 2 * i - 1
  <2> HIDE DEF k, g
  <2>2. k \in Nat /\ g \in Nat /\ k < g
    BY <2>1 DEF k, g
  <2>3. total * k < g * total
    BY <2>2
  <2> QED
    BY <2>3 DEF k
<1> HIDE DEF t, g, x
<1>3. x \in Nat /\ g * x <= t /\ t < g * x + g
  BY <1>1
<1>4. g * x + g = g * (x + 1)
  BY <1>1, <1>3
<1>5. x < total
  <2>1. g * x < g * total
    <3> DEFINE u == g * x
               v == g * total
    <3>1. u \in Int /\ v \in Int
      BY <1>1, <1>3
    <3>2. u <= t /\ t < v
      BY <1>2, <1>3
    <3> HIDE DEF u, v
    <3>3. u < v
      BY <1>1, <3>1, <3>2
    <3> QED
      BY <3>3 DEF u, v
  <2> QED
    BY <1>1, <1>3, <2>1
<1> QED
  BY <1>3, <1>4, <1>5 DEF t, g, x

\* A later share starts no earlier; and between two of them lies an n-th of the
\* total, but for what the division drops.
LEMMA SharesSpread ==
  ASSUME NEW total \in Nat \ {0}, NEW n \in Nat \ {0}, NEW i \in 1 .. n, NEW j \in 1 .. n
  PROVE  /\ i <= j => ShareOffset(total, n, i) <= ShareOffset(total, n, j)
         /\ i < j => (ShareOffset(total, n, j) - ShareOffset(total, n, i) + 1) * n > total
<1> DEFINE x == ShareOffset(total, n, i)
           y == ShareOffset(total, n, j)
           p == total * (2 * i - 1)
           q == total * (2 * j - 1)
<1>1. /\ x \in Nat /\ (2 * n) * x <= p
      /\ y \in Nat /\ q < (2 * n) * (y + 1)
  BY Shares
<1>2. /\ p \in Int /\ q \in Int
      /\ i <= j => p <= q
      /\ i < j => p + 2 * total <= q
  <2> DEFINE k == j - i
  <2>1. k \in Int /\ (i <= j => 0 <= k) /\ (i < j => 1 <= k)
    OBVIOUS
  <2>2. q - p = 2 * (total * k)
    OBVIOUS
  <2> HIDE DEF k
  <2>3. (0 <= k => 0 <= total * k) /\ (1 <= k => total <= total * k) /\ total * k \in Int
    BY <2>1
  <2>4. p \in Int /\ q \in Int
    OBVIOUS
  <2> HIDE DEF p, q
  <2> DEFINE z == total * k
  <2>5. z \in Int /\ q - p = 2 * z /\ (i <= j => 0 <= z) /\ (i < j => total <= z)
    BY <2>1, <2>2, <2>3
  <2> HIDE DEF z
  <2> QED
    BY <2>4, <2>5
<1> HIDE DEF x, y, p, q
<1>3. ASSUME i <= j PROVE x <= y
  <2> DEFINE u == (2 * n) * x
             v == (2 * n) * (y + 1)
  <2>1. u \in Int /\ v \in Int /\ u <= p /\ q < v
    BY <1>1
  <2> HIDE DEF u, v
  <2>2. u < v
    BY <1>2, <1>3, <2>1
  <2>3. (2 * n) * x < (2 * n) * (y + 1)
    BY <2>2 DEF u, v
  <2> DEFINE g == 2 * n
  <2>4. g \in Nat \ {0} /\ g * x < g * (y + 1)
    BY <2>3
  <2> HIDE DEF g
  <2>5. x < y + 1
    BY <1>1, <2>4
  <2> QED
    BY <1>1, <2>5
<1>4. ASSUME i < j PROVE (y - x + 1) * n > total
  <2> DEFINE u == n * x
             v == n * (y + 1)
  <2>1. u \in Int /\ v \in Int /\ 2 * u <= p /\ q < 2 * v
    BY <1>1
  <2>2. (y - x + 1) * n = v - u
    BY <1>1
  <2> HIDE DEF u, v
  <2>3. v - u > total
    BY <1>2, <1>4, <2>1
  <2> QED
    BY <2>2, <2>3
<1> QED
  BY <1>3, <1>4 DEF x, y

\* The instants of the offsets from x up to y.
Stretch(is, x, y) == {AtOffset(is, offset) : offset \in x .. y - 1}

LEMMA StretchCounted ==
  ASSUME NEW is, Apart(is), NEW x \in Nat, NEW y \in Nat, x <= y, y <= Duration(is)
  PROVE  Cardinality(Stretch(is, x, y)) = y - x
<1> DEFINE S == x .. y - 1
           T == Stretch(is, x, y)
           f == [offset \in S |-> AtOffset(is, offset)]
<1>1. Duration(is) \in Nat
  BY DurationCounts
<1>2. \A h, k \in S : h < k => AtOffset(is, h) < AtOffset(is, k)
  <2> SUFFICES ASSUME NEW h \in S, NEW k \in S, h < k PROVE AtOffset(is, h) < AtOffset(is, k)
    OBVIOUS
  <2>1. h \in Nat /\ k \in Nat /\ k < Duration(is)
    BY <1>1
  <2> QED
    BY <2>1, OffsetsRise
<1>3. \A h \in S : AtOffset(is, h) \in Nat
  <2> SUFFICES ASSUME NEW h \in S PROVE AtOffset(is, h) \in Nat
    OBVIOUS
  <2>1. h \in Nat /\ h < Duration(is)
    BY <1>1
  <2>2. PICK k \in 1 .. Len(is) : FallsIn(is, h, k)
    BY <2>1, OffsetFalls
  <2> QED
    BY <2>1, <2>2, OffsetInstant
<1>4. \A h, k \in S : AtOffset(is, h) = AtOffset(is, k) => h = k
  <2> SUFFICES ASSUME NEW h \in S, NEW k \in S, AtOffset(is, h) = AtOffset(is, k) PROVE h = k
    OBVIOUS
  <2>1. ~(AtOffset(is, h) < AtOffset(is, k)) /\ ~(AtOffset(is, k) < AtOffset(is, h))
    BY <1>3
  <2>2. ~(h < k) /\ ~(k < h)
    BY <1>2, <2>1
  <2> QED
    BY <2>2
<1>5. f \in [S -> T] /\ \A t \in T : \E h \in S : f[h] = t
  BY DEF Stretch
<1>6. \A h, k \in S : f[h] = f[k] => h = k
  BY <1>4
<1> HIDE DEF f, T
<1>7. ExistsBijection(S, T)
  BY <1>5, <1>6 DEF ExistsBijection, Bijection, Injection, Surjection, IsInjective
<1>8. IsFiniteSet(S) /\ Cardinality(S) = y - x
  <2>1. x \in Int /\ y - 1 \in Int
    OBVIOUS
  <2>2. /\ IsFiniteSet(x .. y - 1)
        /\ Cardinality(x .. y - 1) = IF x > y - 1 THEN 0 ELSE (y - 1) - x + 1
    BY <2>1, FS_Interval
  <2> QED
    BY <2>2
<1> HIDE DEF S
<1>9. Cardinality(T) = y - x
  BY <1>7, <1>8, FS_Bijection
<1> QED
  BY <1>9 DEF T
LEMMA OffsetHeld ==
  ASSUME NEW is, Apart(is), NEW x \in Nat, x < Duration(is)
  PROVE  AtOffset(is, x) \in Nat /\ AtOffset(is, x) \in Held(is)
<1>1. PICK k \in 1 .. Len(is) : FallsIn(is, x, k)
  BY OffsetFalls
<1>2. /\ AtOffset(is, x) \in Nat
      /\ is[k].start <= AtOffset(is, x) /\ AtOffset(is, x) < is[k].end
  BY <1>1, OffsetInstant
<1> QED
  BY <1>2 DEF Held

\* The instants held are those of all offsets, and those between two planned
\* instants are those of the offsets between.
LEMMA HeldStretch ==
  ASSUME NEW is, Apart(is)
  PROVE  /\ Held(is) = Stretch(is, 0, Duration(is))
         /\ \A x, y \in 0 .. Duration(is) - 1 :
              {t \in Held(is) : AtOffset(is, x) <= t /\ t < AtOffset(is, y)} = Stretch(is, x, y)
<1> DEFINE d == Duration(is)
<1>1. d \in Nat
  BY DurationCounts
<1>2. \A x \in 0 .. d - 1 : AtOffset(is, x) \in Nat /\ AtOffset(is, x) \in Held(is)
  BY <1>1, OffsetHeld
<1>3. \A t \in Held(is) : \E x \in 0 .. d - 1 : AtOffset(is, x) = t
  <2> SUFFICES ASSUME NEW t \in Held(is) PROVE \E x \in 0 .. d - 1 : AtOffset(is, x) = t
    OBVIOUS
  <2>1. PICK x \in Nat : x < d /\ AtOffset(is, x) = t
    BY OffsetsReach
  <2> QED
    BY <1>1, <2>1
<1>4. \A x, y \in 0 .. d - 1 : x < y => AtOffset(is, x) < AtOffset(is, y)
  BY <1>1, OffsetsRise
<1> HIDE DEF d
<1>5. Held(is) = Stretch(is, 0, d)
  BY <1>2, <1>3 DEF Stretch
<1>6. ASSUME NEW x \in 0 .. d - 1, NEW y \in 0 .. d - 1
      PROVE  {t \in Held(is) : AtOffset(is, x) <= t /\ t < AtOffset(is, y)} = Stretch(is, x, y)
  <2> DEFINE L == {t \in Held(is) : AtOffset(is, x) <= t /\ t < AtOffset(is, y)}
  <2>1. \A z \in 0 .. d - 1 :
          AtOffset(is, x) <= AtOffset(is, z) /\ AtOffset(is, z) < AtOffset(is, y) <=> x <= z /\ z < y
    <3> SUFFICES ASSUME NEW z \in 0 .. d - 1
                 PROVE  AtOffset(is, x) <= AtOffset(is, z) /\ AtOffset(is, z) < AtOffset(is, y)
                          <=> x <= z /\ z < y
      OBVIOUS
    <3> DEFINE a == AtOffset(is, x)
               b == AtOffset(is, y)
               c == AtOffset(is, z)
    <3>1. a \in Nat /\ b \in Nat /\ c \in Nat
      BY <1>2
    <3>2. /\ x < z => a < c
          /\ z < x => c < a
          /\ x = z => a = c
      BY <1>4
    <3>3. /\ z < y => c < b
          /\ y < z => b < c
          /\ y = z => b = c
      BY <1>4
    <3> HIDE DEF a, b, c
    <3>4. a <= c <=> x <= z
      BY <1>1, <3>1, <3>2
    <3>5. c < b <=> z < y
      BY <1>1, <3>1, <3>3
    <3> QED
      BY <3>4, <3>5 DEF a, b, c
  <2>2. ASSUME NEW t \in L PROVE t \in Stretch(is, x, y)
    <3>1. PICK z \in 0 .. d - 1 : AtOffset(is, z) = t
      BY <1>3
    <3>2. x <= z /\ z < y
      BY <2>1, <3>1
    <3>3. z \in x .. y - 1
      BY <1>1, <3>2
    <3> QED
      BY <3>1, <3>3 DEF Stretch
  <2>3. ASSUME NEW t \in Stretch(is, x, y) PROVE t \in L
    <3>1. PICK z \in x .. y - 1 : AtOffset(is, z) = t
      BY DEF Stretch
    <3>2. z \in 0 .. d - 1 /\ x <= z /\ z < y
      BY <1>1
    <3> QED
      BY <1>2, <2>1, <3>1, <3>2
  <2> QED
    BY <2>2, <2>3
<1> QED
  BY <1>5, <1>6 DEF d

LEMMA PlannedOffset ==
  ASSUME NEW cfg, NEW day, Plans(cfg, day), cfg.workday, cfg.accounts # <<>>,
         NEW a \in Anchors(cfg), NEW i \in 1 .. Len(cfg.accounts),
         ~Occurrence(cfg, day, a, i).missed
  PROVE  /\ Duration(Allowed(cfg, day, a)) \in Nat \ {0}
         /\ Len(cfg.accounts) \in Nat \ {0}
         /\ ShareOffset(Duration(Allowed(cfg, day, a)), Len(cfg.accounts), i)
              \in 0 .. Duration(Allowed(cfg, day, a)) - 1
         /\ Occurrence(cfg, day, a, i).plannedAt
              = AtOffset(Allowed(cfg, day, a),
                  ShareOffset(Duration(Allowed(cfg, day, a)), Len(cfg.accounts), i))
         /\ Occurrence(cfg, day, a, i).plannedAt \in Held(Allowed(cfg, day, a))
<1> DEFINE is == Allowed(cfg, day, a)
           d == Duration(is)
           n == Len(cfg.accounts)
           o == Occurrence(cfg, day, a, i)
<1>1. Apart(is)
  BY AllowedPeriods
<1>2. d # 0 /\ o.plannedAt = AtOffset(is, ShareOffset(d, n, i))
  <2>1. o.missed = (d = 0) /\ ~o.missed
    <3>1. o.missed = (d = 0)
      BY ONLY OccurrenceOf
    <3> QED
      BY <3>1
  <2>2. d # 0 => o.plannedAt = AtOffset(is, ShareOffset(d, n, i))
    BY ONLY OccurrenceOf
  <2> HIDE DEF o, d
  <2>3. d # 0
    BY <2>1
  <2> QED
    BY <2>2, <2>3
<1>3. d \in Nat \ {0}
  BY <1>1, <1>2, DurationCounts
<1>4. n \in Nat \ {0}
  <2>1. cfg.accounts \in Seq(Accounts)
    BY DraftNumbers DEF Plans
  <2> QED
    BY <2>1
<1> HIDE DEF d, n
<1>5. ShareOffset(d, n, i) \in Nat /\ ShareOffset(d, n, i) < d
  BY <1>3, <1>4, Shares DEF n
<1>6. AtOffset(is, ShareOffset(d, n, i)) \in Held(is)
  BY <1>1, <1>5, OffsetHeld DEF d
<1>7. ShareOffset(d, n, i) \in 0 .. d - 1
  BY <1>3, <1>5
<1> QED
  BY <1>2, <1>3, <1>4, <1>6, <1>7 DEF d, n

\* A planned instant shows a minute of its preheat window outside every blackout
\* (subtractBlackouts, resolveWindowBoundaries, instantAtOffset).
THEOREM PlansWhereAllowed == Spec => []PlannedWhereAllowed
<1>1. Answered => PlannedWhereAllowed
  <2> SUFFICES ASSUME Answered, Planned, ~Folded, NEW o \in answer.run.plan, ~o.missed
               PROVE  \E a \in Anchors(Cfg) :
                        Slot(Cfg, a) = o.slot /\ AllowedMinute(WallAt(o.plannedAt), a)
    BY DEF PlannedWhereAllowed
  <2>1. Plans(Cfg, Day) /\ answer.run.plan = PlanDay(Cfg, Day)
    BY AskedPlans
  <2>2. Cfg.workday /\ Cfg.accounts # <<>>
    BY <2>1, DayPlanned
  <2>3. PICK a \in Anchors(Cfg), i \in 1 .. Len(Cfg.accounts) : o = Occurrence(Cfg, Day, a, i)
    BY <2>1, DayPlanned
  <2>4. o.plannedAt \in Held(Allowed(Cfg, Day, a))
    BY <2>1, <2>2, <2>3, PlannedOffset
  <2>5. Once(Day)
    BY DEF Folded, Once
  <2>6. AllowedAt(Cfg, a, Day[1 + (o.plannedAt \div Grain)])
    BY <2>1, <2>2, <2>4, <2>5, AllowedPeriods
  <2>7. AllowedMinute(WallAt(o.plannedAt), a)
    BY <2>6 DEF AllowedAt, AllowedMinute, WallAt
  <2>8. Slot(Cfg, a) = o.slot
    BY <2>3, OccurrenceOf
  <2> QED
    BY <2>7, <2>8
<1> QED
  BY <1>1, AnswersComputed, PTL

\* Two occurrences of one slot, which may share an instant.
LEMMA SlotSpread ==
  ASSUME NEW cfg, NEW day, Plans(cfg, day), cfg.workday, cfg.accounts # <<>>,
         NEW a \in Anchors(cfg),
         NEW i \in 1 .. Len(cfg.accounts), ~Occurrence(cfg, day, a, i).missed,
         NEW j \in 1 .. Len(cfg.accounts), ~Occurrence(cfg, day, a, j).missed,
         i # j,
         NEW from, from = Occurrence(cfg, day, a, i).plannedAt,
         NEW to, to = Occurrence(cfg, day, a, j).plannedAt,
         from <= to
  PROVE  (Cardinality({t \in Held(Allowed(cfg, day, a)) : from <= t /\ t < to}) + 1)
           * Len(cfg.accounts) > Cardinality(Held(Allowed(cfg, day, a)))
<1> DEFINE is == Allowed(cfg, day, a)
           d == Duration(is)
           n == Len(cfg.accounts)
           x == ShareOffset(d, n, i)
           y == ShareOffset(d, n, j)
           between == {t \in Held(is) : from <= t /\ t < to}
<1>1. Apart(is)
  BY AllowedPeriods
<1>2. /\ d \in Nat \ {0} /\ n \in Nat \ {0}
      /\ x \in 0 .. d - 1 /\ from = AtOffset(is, x)
      /\ y \in 0 .. d - 1 /\ to = AtOffset(is, y)
  BY PlannedOffset
<1>3. /\ j <= i => y <= x
      /\ i < j => (y - x + 1) * n > d
      /\ i <= j => x <= y
      /\ j < i => (x - y + 1) * n > d
  <2> HIDE DEF d
  <2>1. /\ j <= i => y <= x
        /\ i < j => (y - x + 1) * n > d
    BY <1>2, SharesSpread
  <2>2. /\ i <= j => x <= y
        /\ j < i => (x - y + 1) * n > d
    BY <1>2, SharesSpread
  <2> QED
    BY <2>1, <2>2
<1> HIDE DEF is
<1>4. /\ Held(is) = Stretch(is, 0, d)
      /\ between = Stretch(is, x, y)
  <2>1. /\ Held(is) = Stretch(is, 0, d)
        /\ \A u, v \in 0 .. d - 1 :
             {t \in Held(is) : AtOffset(is, u) <= t /\ t < AtOffset(is, v)} = Stretch(is, u, v)
    BY <1>1, HeldStretch
  <2> HIDE DEF x, y, d
  <2> QED
    BY <1>2, <2>1
<1> HIDE DEF x, y, n, d
<1>5. x <= y
  <2> SUFFICES ASSUME y < x
               PROVE  FALSE
    BY <1>2
  <2>1. to < from
    BY <1>1, <1>2, OffsetsRise DEF d
  <2>2. to \in Nat /\ from \in Nat
    BY <1>1, <1>2, OffsetHeld DEF d
  <2> QED
    BY <2>1, <2>2
<1>6. (y - x + 1) * n > d
  <2>1. n \in Nat /\ i \in 1 .. n /\ j \in 1 .. n
    BY <1>2 DEF n
  <2>2. CASE i < j
    BY <1>3, <2>2
  <2>3. CASE j < i
    <3>1. y <= x
      BY <1>3, <2>1, <2>3
    <3>2. x = y
      BY <1>2, <1>5, <3>1
    <3> QED
      BY <1>3, <2>3, <3>2
  <2> QED
    BY <2>1, <2>2, <2>3
<1>7. Cardinality(Held(is)) = d
  <2>1. 0 <= d /\ d <= Duration(is) /\ d \in Nat /\ 0 \in Nat
    BY <1>2 DEF d
  <2>2. Cardinality(Stretch(is, 0, d)) = d - 0
    BY <1>1, <2>1, StretchCounted
  <2> QED
    BY <1>2, <1>4, <2>2
<1>8. Cardinality(between) = y - x
  <2>1. x \in Nat /\ y \in Nat /\ x <= y /\ y <= Duration(is)
    BY <1>2, <1>5 DEF d
  <2> QED
    BY <1>1, <1>4, <2>1, StretchCounted
<1> HIDE DEF between
<1>9. (Cardinality(between) + 1) * n > Cardinality(Held(is))
  BY <1>6, <1>7, <1>8
<1> QED
  BY <1>9 DEF between, is, n

\* Between any two accounts of a slot lies an equal share of the allowed time,
\* rounded down to a tick, also where that makes them share an instant
\* (planner.PlanDay's offsets).
THEOREM PlansStaggered == Spec => []PlanStaggered
<1>1. Answered => PlanStaggered
  <2> SUFFICES ASSUME Answered, Planned, NEW o \in answer.run.plan, NEW p \in answer.run.plan,
                      o # p, o.slot = p.slot, ~o.missed, ~p.missed, o.plannedAt <= p.plannedAt,
                      NEW a \in Anchors(Cfg), Slot(Cfg, a) = o.slot
               PROVE  LET time == TicksIn(Allowed(Cfg, Day, a))
                          between == {t \in time : o.plannedAt <= t /\ t < p.plannedAt}
                      IN (Cardinality(between) + 1) * Len(Cfg.accounts) > Cardinality(time)
    BY DEF PlanStaggered
  <2>1. Plans(Cfg, Day) /\ answer.run.plan = PlanDay(Cfg, Day)
    BY AskedPlans
  <2>2. Cfg.workday /\ Cfg.accounts # <<>>
    BY <2>1, DayPlanned
  <2>3. PICK i \in 1 .. Len(Cfg.accounts) : o = Occurrence(Cfg, Day, a, i)
    <3>1. PICK b \in Anchors(Cfg), i \in 1 .. Len(Cfg.accounts) : o = Occurrence(Cfg, Day, b, i)
      BY <2>1, DayPlanned
    <3>2. b = a
      BY <2>1, <3>1, OccurrenceOf, SlotsApart DEF Plans
    <3> QED
      BY <3>1, <3>2
  <2>4. PICK j \in 1 .. Len(Cfg.accounts) : p = Occurrence(Cfg, Day, a, j)
    <3>1. PICK b \in Anchors(Cfg), j \in 1 .. Len(Cfg.accounts) : p = Occurrence(Cfg, Day, b, j)
      BY <2>1, DayPlanned
    <3>2. b = a
      BY <2>1, <3>1, OccurrenceOf, SlotsApart DEF Plans
    <3> QED
      BY <3>1, <3>2
  <2> DEFINE is == Allowed(Cfg, Day, a)
             held == Held(is)
  <2>5. TicksIn(is) = held
    <3>1. Apart(is) /\ \A t \in held : t \in Ticks
      BY <2>1, <2>2, AllowedPeriods DEF Ticks
    <3>2. DOMAIN is = 1 .. Len(is) /\ Ticks \subseteq Nat
      <4>1. Grain \in Nat /\ Len(Day) \in Nat
        BY <2>1, DateNumbers DEF Plans
      <4> QED
        BY <3>1 DEF Apart, Ticks
    <3> HIDE DEF is
    <3> QED
      BY <3>1, <3>2 DEF TicksIn, Held
  <2> DEFINE x == o.plannedAt
             y == p.plannedAt
  <2>6. (Cardinality({t \in Held(is) : x <= t /\ t < y}) + 1) * Len(Cfg.accounts)
           > Cardinality(Held(is))
    <3>1. i # j
      BY <2>3, <2>4
    <3> QED
      BY <2>1, <2>2, <2>3, <2>4, <3>1, SlotSpread
  <2> QED
    BY <2>5, <2>6
<1> QED
  BY <1>1, AnswersComputed, PTL

=============================================================================
