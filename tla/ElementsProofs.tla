--------------------------- MODULE ElementsProofs ---------------------------
(***************************************************************************)
(* Proofs about the elements of MCElements: those that pace buffers by     *)
(* their time, tensor_rate behind a tensor_filter that it throttles and    *)
(* tensor_sink (TensorRate); tensor_sparse_enc, tensor_sparse_dec and      *)
(* tensor_decoder (TensorDecoder); and those that choose a pad, tensor_if  *)
(* (TensorIf), join (Join), tensor_demux and tensor_split                  *)
(* (TensorSplitMerge).  Every action of the composition touches one of     *)
(* them, so each has an invariant of its own.                              *)
(***************************************************************************)
EXTENDS MCElements, FiniteSetTheorems, WellFoundedInduction, TLAPS

-----------------------------------------------------------------------------
(* Lists of positions, and functions defined step by step                  *)

\* A set of positions has a list in order, that of the numbers of members up to each.
LEMMA AscendingIs ==
  ASSUME NEW N \in Nat, NEW S \in SUBSET (1..N)
  PROVE  /\ Ascending(S) \in Seq(S)
         /\ InOrder(Ascending(S)) /\ Members(Ascending(S)) = S
<1> DEFINE n == Cardinality(S)
           upto(x) == {y \in S : y <= x}
           rank == [x \in S |-> Cardinality(upto(x))]
<1>1. IsFiniteSet(S) /\ n \in Nat /\ IsFiniteSet(1..n) /\ Cardinality(1..n) = n
  <2>1. IsFiniteSet(1..N)
    BY FS_Interval
  <2>2. IsFiniteSet(S)
    BY <2>1, FS_Subset
  <2>3. Cardinality(S) \in Nat
    BY <2>2, FS_CardinalityType
  <2> DEFINE m == Cardinality(S)
  <2>4. IsFiniteSet(1..m) /\ Cardinality(1..m) = IF 1 > m THEN 0 ELSE m - 1 + 1
    BY <2>3, FS_Interval
  <2> QED
    BY <2>2, <2>3, <2>4
<1>2. \A x \in S : IsFiniteSet(upto(x)) /\ Cardinality(upto(x)) \in 1..n
  <2> SUFFICES ASSUME NEW x \in S
               PROVE  IsFiniteSet(upto(x)) /\ Cardinality(upto(x)) \in 1..n
    OBVIOUS
  <2> DEFINE U == upto(x)
  <2>1. U \in SUBSET S /\ x \in U
    <3>0. x \in 1..N
      OBVIOUS
    <3>1. x \in Int /\ x <= x
      BY <3>0
    <3> QED
      BY <3>1
  <2> HIDE DEF U
  <2>2. IsFiniteSet(U) /\ Cardinality(U) <= n /\ Cardinality(U) \in Nat
    BY <1>1, <2>1, FS_Subset, FS_CardinalityType
  <2>3. Cardinality(U) # 0
    BY <2>1, <2>2, FS_EmptySet
  <2> QED
    BY <1>1, <2>2, <2>3 DEF U
<1>3. \A x, y \in S : x < y => Cardinality(upto(x)) < Cardinality(upto(y))
  <2> SUFFICES ASSUME NEW x \in S, NEW y \in S, x < y
               PROVE  Cardinality(upto(x)) < Cardinality(upto(y))
    OBVIOUS
  <2> DEFINE U == upto(x)
             V == upto(y)
  <2>1. U \in SUBSET V /\ y \in V /\ y \notin U
    <3>1. \A z \in S : z \in Int
      <4>1. \A z \in S : z \in 1..N
        OBVIOUS
      <4> QED
        BY <4>1
    <3>2. x \in Int /\ y \in Int /\ y <= y /\ ~(y <= x)
      BY <3>1
    <3>3. \A z \in S : z <= x => z <= y
      BY <3>1, <3>2
    <3> QED
      BY <3>2, <3>3
  <2>2. IsFiniteSet(V) /\ Cardinality(U) \in 1..n /\ Cardinality(V) \in 1..n
    BY <1>2
  <2> HIDE DEF U, V
  <2>3. Cardinality(U) <= Cardinality(V) /\ Cardinality(U) # Cardinality(V)
    BY <2>1, <2>2, FS_Subset
  <2>4. Cardinality(U) < Cardinality(V)
    BY <1>1, <2>2, <2>3
  <2> QED
    BY <2>4 DEF U, V
<1>4. rank \in [S -> 1..n] /\ \A x, y \in S : x < y => rank[x] < rank[y]
  BY <1>2, <1>3
<1> HIDE DEF rank, upto, n
<1>5. rank \in Injection(S, 1..n)
  <2>1. ASSUME NEW x \in S, NEW y \in S, rank[x] = rank[y]
        PROVE  x = y
    <3>1. ~(x < y) /\ ~(y < x)
      BY <1>1, <1>4, <2>1
    <3> QED
      BY <3>1
  <2> QED
    BY <1>4, <2>1 DEF Injection, IsInjective
<1>6. rank \in Surjection(S, 1..n)
  BY <1>1, <1>5, FS_Injection DEF n
<1>7. \A k \in 1..n : \E x \in S : rank[x] = k
  BY <1>6 DEF Surjection
<1> DEFINE list == [k \in 1..n |-> CHOOSE x \in S : rank[x] = k]
<1>8. list \in [1..n -> S] /\ \A k \in 1..n : rank[list[k]] = k
  BY <1>7
<1> HIDE DEF list
<1>9. list \in Seq(S) /\ Len(list) = n
  BY <1>1, <1>8
<1>10. InOrder(list)
  <2> SUFFICES ASSUME NEW j \in 1..n, NEW k \in 1..n, j < k
               PROVE  list[j] < list[k]
    BY <1>9 DEF InOrder
  <2>1. list[j] \in S /\ list[k] \in S /\ rank[list[j]] = j /\ rank[list[k]] = k
    BY <1>8
  <2> DEFINE x == list[j]
             y == list[k]
  <2>2. x \in S /\ y \in S /\ rank[x] < rank[y] /\ rank[x] \in Nat /\ rank[y] \in Nat
    BY <1>1, <2>1
  <2> HIDE DEF x, y
  <2>3. x # y /\ ~(y < x)
    BY <1>4, <2>2
  <2>4. x < y
    BY <2>2, <2>3
  <2> QED
    BY <2>4 DEF x, y
<1>11. Members(list) = S
  <2>1. ASSUME NEW x \in S
        PROVE  \E k \in 1..n : list[k] = x
    <3>1. rank[x] \in 1..n
      BY <1>4
    <3> DEFINE k == rank[x]
    <3>2. list[k] \in S /\ rank[list[k]] = k
      BY <1>8, <3>1
    <3>3. list[k] = x
      BY <1>5, <3>2 DEF Injection, IsInjective
    <3> QED
      BY <3>1, <3>3
  <2>2. Members(list) = {list[k] : k \in 1..n}
    BY <1>9 DEF Members
  <2>3. \A k \in 1..n : list[k] \in S
    BY <1>8
  <2> QED
    BY <2>1, <2>2, <2>3
<1> DEFINE OfS(s) == s \in [1..n -> S] /\ InOrder(s) /\ Members(s) = S
<1>12. Ascending(S) = CHOOSE s \in [1..n -> S] : InOrder(s) /\ Members(s) = S
  <2>1. Cardinality(S) = n
    BY DEF n
  <2> QED
    BY <2>1 DEF Ascending
<1>13. OfS(Ascending(S))
  BY <1>8, <1>10, <1>11, <1>12
<1> QED
  BY <1>1, <1>13

\* A set of numbers has a least one.
LEMMA LeastOne ==
  ASSUME NEW S \in SUBSET Nat, S # {}
  PROVE  \E k \in S : \A j \in S : k <= j
<1>1. PICK k \in S : \A j \in S : <<j, k>> \notin OpToRel(<, Nat)
  BY NatLessThanWellFounded, WFMin, Zenon
<1>2. \A j \in S : j \in Nat /\ ~(j < k)
  BY <1>1 DEF OpToRel
<1> QED
  BY <1>2

\* The steps of a loop over 1..n, and what it computes, from its start
Steps(n, V) == [(1..n) \X V -> V]
Stepped(f, n, V, start, step) ==
  f \in [0..n -> V] /\ f[0] = start /\ \A i \in 1..n : f[i] = step[<<i, f[i - 1]>>]

\* A function that is defined from its value before is there.
LEMMA StepByStep ==
  ASSUME NEW n \in Nat, NEW V, NEW start \in V, NEW step \in Steps(n, V)
  PROVE  \E f : Stepped(f, n, V, start, step)
<1> DEFINE Upto(f, m) == f \in [0..m -> V] /\ f[0] = start /\ \A i \in 1..m : f[i] = step[<<i, f[i - 1]>>]
           S == {m \in 0..n : ~ \E f : Upto(f, m)}
<1>1. step \in [(1..n) \X V -> V]
  BY DEF Steps
<1>2. S = {}
  <2> SUFFICES ASSUME S # {}
               PROVE  FALSE
    OBVIOUS
  <2>1. S \in SUBSET Nat
    OBVIOUS
  <2>2. PICK m \in S : \A j \in S : m <= j
    BY <2>1, LeastOne
  <2>3. CASE m = 0
    <3> DEFINE f == [i \in 0..0 |-> start]
    <3>1. Upto(f, 0)
      OBVIOUS
    <3> QED
      BY <2>3, <3>1
  <2>4. CASE m # 0
    <3>1. m \in 1..n /\ m - 1 \in 0..n /\ ~(m <= m - 1)
      BY <2>4
    <3>2. m - 1 \notin S
      BY <2>2, <3>1
    <3>3. PICK f : Upto(f, m - 1)
      BY <3>1, <3>2
    <3> DEFINE g == [i \in 0..m |-> IF i = m THEN step[<<m, f[m - 1]>>] ELSE f[i]]
    <3>4. f \in [0..(m - 1) -> V] /\ f[m - 1] \in V
      BY <3>1, <3>3
    <3>5. step[<<m, f[m - 1]>>] \in V
      BY <1>1, <3>1, <3>4
    <3>6. g \in [0..m -> V] /\ g[0] = start
      BY <3>1, <3>3, <3>4, <3>5
    <3>7. ASSUME NEW i \in 1..m
          PROVE  g[i] = step[<<i, g[i - 1]>>]
      <4>1. CASE i = m
        <5>1. g[m - 1] = f[m - 1] /\ g[m] = step[<<m, f[m - 1]>>]
          BY <3>1
        <5> QED
          BY <4>1, <5>1
      <4>2. CASE i # m
        <5>1. i \in 1..(m - 1) /\ i \in 0..m /\ i - 1 \in 0..m /\ i - 1 # m
          BY <3>1, <4>2
        <5>2. g[i] = f[i] /\ g[i - 1] = f[i - 1]
          BY <4>2, <5>1
        <5>3. f[i] = step[<<i, f[i - 1]>>]
          BY <3>3, <5>1
        <5> QED
          BY <5>2, <5>3
      <4> QED
        BY <4>1, <4>2
    <3> HIDE DEF g
    <3> QED
      BY <3>6, <3>7
  <2> QED
    BY <2>3, <2>4
<1>3. PICK f : Upto(f, n)
  <2> HIDE DEF S
  <2>1. n \notin S /\ n \in 0..n
    BY <1>2
  <2>2. S = {m \in 0..n : ~ \E f : Upto(f, m)}
    BY DEF S
  <2> QED
    BY <2>1, <2>2
<1> QED
  BY <1>3 DEF Stepped

\* The positions from one to another, in order.
LEMMA AscendingFrom ==
  ASSUME NEW a \in Nat, NEW b \in Nat, a <= b
  PROVE  Len(Ascending((a + 1)..b)) = b - a /\ \A j \in 1..(b - a) : Ascending((a + 1)..b)[j] = a + j
<1> DEFINE s == Ascending((a + 1)..b)
<1>1. s \in Seq((a + 1)..b) /\ InOrder(s) /\ Members(s) = (a + 1)..b
  <2>1. (a + 1)..b \in SUBSET (1..b)
    OBVIOUS
  <2> QED
    BY <2>1, AscendingIs
<1> HIDE DEF s
<1> DEFINE n == Len(s)
<1>2. n \in Nat /\ (\A j \in 1..n : s[j] \in (a + 1)..b)
  BY <1>1
<1>3. \A j, k \in 1..n : j < k => s[j] < s[k]
  BY <1>1 DEF InOrder
<1>4. \A x \in (a + 1)..b : \E k \in 1..n : s[k] = x
  BY <1>1 DEF Members
<1> HIDE DEF n
<1>5. \A j \in 1..n : s[j] = a + j
  <2> DEFINE S == {j \in 1..n : s[j] # a + j}
  <2> SUFFICES ASSUME S # {}
               PROVE  FALSE
    OBVIOUS
  <2>1. S \in SUBSET Nat
    BY <1>2
  <2>2. PICK j \in S : \A i \in S : j <= i
    BY <2>1, LeastOne
  <2>3. \A i \in 1..n : i < j => s[i] = a + i
    BY <1>2, <2>2
  <2>4. s[j] > a + j
    <3>1. CASE j = 1
      BY <1>2, <2>2, <3>1
    <3>2. CASE j # 1
      <4>1. j - 1 \in 1..n /\ j - 1 < j /\ j \in 1..n
        BY <1>2, <2>2, <3>2
      <4>2. s[j - 1] = a + (j - 1) /\ s[j - 1] < s[j]
        BY <1>3, <2>3, <4>1
      <4>3. s[j] \in Int /\ s[j] # a + j
        BY <1>2, <2>2, <4>1
      <4> QED
        BY <4>1, <4>2, <4>3
    <3> QED
      BY <3>1, <3>2
  <2>5. a + j \in (a + 1)..b /\ j \in 1..n /\ s[j] \in Int
    BY <1>2, <2>2, <2>4
  <2>6. PICK k \in 1..n : s[k] = a + j
    BY <1>4, <2>5
  <2>7. ~(k < j)
    BY <2>3, <2>5, <2>6
  <2>8. ~(j < k)
    BY <1>3, <2>4, <2>5, <2>6
  <2>9. k = j
    BY <2>5, <2>7, <2>8
  <2> QED
    BY <2>4, <2>5, <2>6, <2>9
<1>6. n = b - a
  <2>1. n <= b - a
    <3>1. CASE n = 0
      BY <3>1
    <3>2. CASE n # 0
      <4>1. n \in 1..n
        BY <1>2, <3>2
      <4>2. s[n] = a + n /\ s[n] \in (a + 1)..b
        BY <1>2, <1>5, <4>1
      <4> QED
        BY <1>2, <4>2
    <3> QED
      BY <3>1, <3>2
  <2>2. b - a <= n
    <3>1. CASE a = b
      BY <1>2, <3>1
    <3>2. CASE a # b
      <4>1. b \in (a + 1)..b
        BY <3>2
      <4>2. PICK k \in 1..n : s[k] = b
        BY <1>4, <4>1
      <4>3. b = a + k
        BY <1>5, <4>2
      <4> QED
        BY <1>2, <4>3
    <3> QED
      BY <3>1, <3>2
  <2> QED
    BY <1>2, <2>1, <2>2
<1> QED
  BY <1>5, <1>6 DEF n, s

-----------------------------------------------------------------------------
(* tensor_rate                                                             *)

RateFields ==
  {"in", "out", "drop", "dup", "count", "base", "next", "last", "prev", "sentQos", "from", "to", "seg", "now",
   "total", "lost", "held", "pushes", "accepted", "lastOut", "lastPeriod", "ended", "delay", "accum", "prevTs",
   "invoked", "spaced"}

\* The time stamps pushed lie on a grid that starts at the first frame of the segment;
\* a renegotiation continues it with the new period.
RateGrid(r) ==
  /\ r.count \in Nat /\ r.base \in Int /\ r.next \in Int /\ r.to \in Nat /\ r.seg \in RateSegments
  /\ r.lastOut \in Int /\ r.lastPeriod \in Nat /\ r.prev \in Int
  /\ r.next # NoTime =>
       /\ r.next = r.seg.base + r.seg.start + r.base + r.count * r.to
       /\ r.next >= r.seg.base
  /\ r.prev # NoTime => r.next # NoTime
  /\ r.lastOut # NoTime => r.lastOut >= 0 /\ r.next = r.lastOut + r.lastPeriod

\* Where the frames are.
RateSum(r) ==
  /\ r.in \in Int /\ r.out \in Int /\ r.drop \in Int /\ r.dup \in Int /\ r.held \in Int /\ r.lost \in Int
  /\ r.ended # "empty" => r.in + r.dup = r.out + r.drop + r.held + r.lost
  /\ r.ended = "no" => r.held = (IF r.prev = NoTime THEN 0 ELSE 1)

\* The frame held is nearer to the next time stamp than all that came before it in
\* the segment; as the time stamps grow it is the nearest of them ever after.
RateHeld(r) ==
  /\ r.accepted \subseteq Int
  /\ r.prev = NoTime => r.accepted = {}
  /\ \A a \in r.accepted : a <= r.prev /\ (a < r.prev => 2 * r.next > a + r.prev)

\* What was pushed last.
RatePushed(r) ==
  \A p \in r.pushes : \A a \in r.accepted :
    LET d == RateAbs(p[2], p[1])
    IN d < RateAbs(a, p[1]) \/ (d = RateAbs(a, p[1]) /\ p[2] <= a)

\* The time summed up is what passed since the last invoke.
RateCalm(r) ==
  /\ r.delay \in Nat /\ r.accum \in Int /\ r.prevTs \in Int /\ r.invoked \in Int /\ r.spaced
  /\ r.delay = 0 => r.prevTs = NoTime
  /\ r.accum = (IF r.prevTs = NoTime THEN 0 ELSE 1000 * (r.prevTs - r.invoked))

RateKept(r) == DOMAIN r = RateFields /\ RateGrid(r) /\ RateSum(r) /\ RateHeld(r) /\ RatePushed(r) /\ RateCalm(r)

\* A step pushes nothing, or the next time stamp first.
RateFollows(s, t) == t.pushes = {} \/ (s.next # NoTime /\ \E p \in t.pushes : p[1] = s.next)

\* The time stamps to come are a period apart.
LEMMA NextTimes ==
  ASSUME NEW r, RateGrid(r), r.next # NoTime, NEW k \in Nat
  PROVE  NextTs(r, k) = r.next + k * r.to /\ NextTs(r, k) >= r.next
<1>1. r.count \in Nat /\ r.to \in Nat /\ r.base \in Int /\ r.seg.base \in Nat /\ r.seg.start \in Nat /\ r.next \in Int
  BY RateAssumption DEF RateGrid
<1>2. r.next = r.seg.base + r.seg.start + r.base + r.count * r.to
  BY DEF RateGrid
<1>3. (r.count + k) * r.to = r.count * r.to + k * r.to
  BY <1>1
<1>4. k * r.to \in Nat /\ r.count * r.to \in Nat
  BY <1>1
<1>5. k = 0 => k * r.to = 0
  BY <1>1
<1> QED
  BY <1>1, <1>2, <1>3, <1>4, <1>5 DEF NextTs

\* A number is divided.
LEMMA Divides ==
  ASSUME NEW a \in Nat, NEW d \in Nat \ {0}
  PROVE  \E q \in Nat : q * d <= a /\ a < (q + 1) * d
<1>1. a \div d \in Nat
  BY Z3
<1>2. (a \div d) * d <= a /\ a < ((a \div d) + 1) * d
  BY Z3
<1> QED
  BY <1>1, <1>2

\* The first multiple of a period that reaches a time.
LEMMA FirstReach ==
  ASSUME NEW x \in Int, NEW d \in Nat, NEW n \in Nat
  PROVE  \E k \in 0..n : (k = n \/ k * d >= x) /\ \A j \in 0..(k - 1) : j * d < x
<1>1. CASE x <= 0
  <2>1. 0 * d = 0
    OBVIOUS
  <2> QED
    BY <1>1, <2>1
<1>2. CASE x > 0 /\ d = 0
  <2>1. \A j \in 0..(n - 1) : j * d = 0
    BY <1>2
  <2> QED
    BY <1>2, <2>1
<1>3. CASE x > 0 /\ d # 0
  <2>1. PICK q \in Nat : q * d <= x - 1 /\ x - 1 < (q + 1) * d
    <3>1. x - 1 \in Nat /\ d \in Nat \ {0}
      BY <1>3
    <3> QED
      BY <3>1, Divides
  <2>2. ASSUME NEW j \in Nat, j <= q
        PROVE  j * d < x
    <3>1. j * d <= q * d /\ j * d \in Nat /\ q * d \in Nat
      BY <2>2
    <3> QED
      BY <2>1, <3>1
  <2>3. (q + 1) * d >= x
    <3>1. (q + 1) * d \in Nat
      OBVIOUS
    <3> QED
      BY <2>1, <3>1
  <2>4. CASE q + 1 <= n
    <3>1. q + 1 \in 0..n /\ \A j \in 0..((q + 1) - 1) : j \in Nat /\ j <= q
      BY <2>4
    <3> QED
      BY <2>2, <2>3, <3>1
  <2>5. CASE ~(q + 1 <= n)
    <3>1. n \in 0..n /\ \A j \in 0..(n - 1) : j \in Nat /\ j <= q
      BY <2>5
    <3> QED
      BY <2>2, <3>1
  <2> QED
    BY <2>4, <2>5
<1> QED
  BY <1>1, <1>2, <1>3

\* One period more.
LEMMA OneMore ==
  ASSUME NEW a \in Nat, NEW b \in Nat
  PROVE  (a + 1) * b = a * b + b /\ a * b \in Nat
OBVIOUS

\* The loop of transform_ip ends at the first time stamp to which the new frame is
\* nearer.
LEMMA PushCountDoes ==
  ASSUME NEW r, RateGrid(r), r.to # 0, r.prev # NoTime,
         NEW t \in Int, r.prev <= t, t <= r.seg.base + RateMaxTime
  PROVE  /\ PushCount(r, t) \in Nat
         /\ \A k \in 0..(PushCount(r, t) - 1) :
              RateAbs(r.prev, NextTs(r, k)) <= RateAbs(t, NextTs(r, k))
         /\ r.prev < t => 2 * NextTs(r, PushCount(r, t)) > r.prev + t
<1> DEFINE Near(k) == RateAbs(r.prev, NextTs(r, k))
           Far(k) == RateAbs(t, NextTs(r, k))
           Turns(k) == Near(k) >= Far(k) /\ \A j \in 0..(k - 1) : Near(j) < Far(j)
           turn == CHOOSE k \in 0..RateMaxTime : Turns(k)
           n == PushCount(r, t)
<1>1. r.to \in Nat \ {0} /\ r.prev \in Int /\ r.next \in Int /\ r.next # NoTime /\ RateMaxTime \in Nat /\ r.seg.base \in Nat
      /\ r.next >= r.seg.base
  BY RateAssumption DEF RateGrid
<1>2. \A k \in Nat : NextTs(r, k) = r.next + k * r.to /\ NextTs(r, k) \in Int
  <2>1. \A k \in Nat : k * r.to \in Nat
    BY <1>1
  <2> QED
    BY <1>1, <2>1, NextTimes
<1>3. \A k \in Nat : (Near(k) >= Far(k)) <=> (r.prev = t \/ 2 * NextTs(r, k) >= r.prev + t)
  <2> SUFFICES ASSUME NEW k \in Nat PROVE (Near(k) >= Far(k)) <=> (r.prev = t \/ 2 * NextTs(r, k) >= r.prev + t)
    OBVIOUS
  <2>1. NextTs(r, k) \in Int
    BY <1>2
  <2> QED
    BY <1>1, <2>1 DEF RateAbs
<1>4. \A k \in Nat : (Near(k) = Far(k)) <=> (r.prev = t \/ 2 * NextTs(r, k) = r.prev + t)
  <2> SUFFICES ASSUME NEW k \in Nat PROVE (Near(k) = Far(k)) <=> (r.prev = t \/ 2 * NextTs(r, k) = r.prev + t)
    OBVIOUS
  <2>1. NextTs(r, k) \in Int
    BY <1>2
  <2> QED
    BY <1>1, <2>1 DEF RateAbs
<1>5. \A k \in Nat : Near(k) \in Int /\ Far(k) \in Int
  BY <1>1, <1>2 DEF RateAbs
<1>6. Near(RateMaxTime) >= Far(RateMaxTime)
  <2>1. RateMaxTime * r.to >= RateMaxTime /\ RateMaxTime * r.to \in Nat
    BY <1>1
  <2>2. NextTs(r, RateMaxTime) = r.next + RateMaxTime * r.to
    BY <1>1, <1>2
  <2>3. NextTs(r, RateMaxTime) >= t
    BY <1>1, <2>1, <2>2
  <2>4. 2 * NextTs(r, RateMaxTime) >= r.prev + t
    BY <1>1, <1>2, <2>3
  <2> QED
    BY <1>1, <1>3, <2>4
<1>7. \E k \in 0..RateMaxTime : Turns(k)
  <2>1. CASE r.prev = t
    <3>1. 0 \in 0..RateMaxTime /\ Near(0) >= Far(0) /\ 0..(0 - 1) = {}
      BY <1>1, <1>3, <2>1
    <3> QED
      BY <3>1
  <2>2. CASE r.prev # t
    <3> DEFINE x == r.prev + t - 2 * r.next
               d == 2 * r.to
    <3>1. PICK k \in 0..RateMaxTime : (k = RateMaxTime \/ k * d >= x) /\ \A j \in 0..(k - 1) : j * d < x
      <4>1. x \in Int /\ d \in Nat /\ RateMaxTime \in Nat
        BY <1>1
      <4> HIDE DEF x, d
      <4> QED
        BY <4>1, FirstReach
    <3>2. ASSUME NEW j \in Nat
          PROVE  (Near(j) >= Far(j)) <=> j * d >= x
      <4>1. j * d = 2 * (j * r.to) /\ j * r.to \in Nat
        BY <1>1
      <4>2. NextTs(r, j) = r.next + j * r.to
        BY <1>2
      <4>3. (Near(j) >= Far(j)) <=> (2 * NextTs(r, j) >= r.prev + t)
        BY <1>3, <2>2
      <4> HIDE DEF Near, Far, d
      <4> QED
        BY <1>1, <4>1, <4>2, <4>3
    <3> HIDE DEF Near, Far, x, d
    <3>3. k \in Nat /\ Near(k) >= Far(k)
      BY <1>1, <1>6, <3>1, <3>2
    <3>4. ASSUME NEW j \in 0..(k - 1)
          PROVE  Near(j) < Far(j)
      <4>1. j \in Nat /\ j * d < x
        BY <3>1, <3>3
      <4>2. j * d \in Int /\ x \in Int
        BY <1>1, <4>1 DEF d, x
      <4>3. ~(Near(j) >= Far(j))
        BY <3>2, <4>1, <4>2
      <4> QED
        BY <1>5, <4>1, <4>3
    <3> QED
      BY <3>1, <3>3, <3>4
  <2> QED
    BY <2>1, <2>2
<1>8. turn \in 0..RateMaxTime /\ Turns(turn)
  BY <1>7
<1>9. n = turn + (IF Near(turn) = Far(turn) THEN 1 ELSE 0)
  BY DEF PushCount
<1> HIDE DEF turn, n
<1>10. turn \in Nat /\ n \in Nat /\ (n = turn \/ n = turn + 1)
  BY <1>1, <1>8, <1>9
<1>11. ASSUME NEW k \in 0..(n - 1)
       PROVE  Near(k) <= Far(k)
  <2>1. k \in Nat /\ (k = turn \/ k \in 0..(turn - 1))
    BY <1>10
  <2>2. CASE k = turn
    <3>1. Near(turn) = Far(turn)
      BY <1>9, <1>10, <1>11, <2>2
    <3> QED
      BY <1>5, <2>1, <2>2, <3>1
  <2>3. CASE k \in 0..(turn - 1)
    <3>1. Near(k) < Far(k)
      BY <1>8, <2>3
    <3> HIDE DEF Near, Far
    <3> QED
      BY <1>5, <2>1, <3>1
  <2> QED
    BY <2>1, <2>2, <2>3
<1>12. ASSUME r.prev < t
       PROVE  2 * NextTs(r, n) > r.prev + t
  <2>1. 2 * NextTs(r, turn) >= r.prev + t /\ NextTs(r, turn) \in Int
    BY <1>1, <1>2, <1>3, <1>8, <1>10, <1>12
  <2>2. CASE Near(turn) = Far(turn)
    <3>1. n = turn + 1
      BY <1>9, <2>2
    <3>2. (turn + 1) * r.to = turn * r.to + r.to /\ turn * r.to \in Nat
      <4> HIDE DEF Near, Far
      <4> QED
        BY <1>1, <1>10, OneMore
    <3>3. NextTs(r, n) = NextTs(r, turn) + r.to
      BY <1>1, <1>2, <1>10, <3>1, <3>2
    <3> DEFINE x == NextTs(r, turn)
               y == NextTs(r, n)
               d == r.to
               w == r.prev + t
    <3>4. y = x + d /\ d \in Nat \ {0} /\ x \in Int /\ 2 * x >= w /\ w \in Int
      BY <1>1, <2>1, <3>3
    <3> HIDE DEF x, y, d, w
    <3>5. 2 * y > w
      BY <3>4
    <3> QED
      BY <3>5 DEF y, w
  <2>3. CASE Near(turn) # Far(turn)
    <3>1. n = turn
      BY <1>9, <1>10, <2>3
    <3>2. 2 * NextTs(r, turn) # r.prev + t
      BY <1>4, <1>10, <2>3
    <3> QED
      BY <1>1, <2>1, <3>1, <3>2
  <2> QED
    BY <2>2, <2>3
<1> QED
  BY <1>10, <1>11, <1>12 DEF n

\* The loop that fills a segment ends.
LEMMA FillCountDoes ==
  ASSUME NEW r, RateGrid(r), r.next # NoTime, r.seg.stop # NoTime
  PROVE  FillCount(r) \in Nat
<1> DEFINE x == r.seg.stop + r.seg.base - r.next
<1>1. MagicLimit \in Nat /\ r.seg.base \in Nat /\ r.seg.stop \in Nat /\ r.next \in Int /\ r.to \in Nat
  BY RateAssumption DEF RateGrid
<1>2. ASSUME NEW k \in Nat
      PROVE  NextTs(r, k) - r.seg.base >= r.seg.stop <=> k * r.to >= x
  <2>1. k * r.to \in Nat
    BY <1>1
  <2>2. NextTs(r, k) = r.next + k * r.to
    BY NextTimes
  <2> QED
    BY <1>1, <2>1, <2>2
<1>3. ASSUME NEW k \in Nat
      PROVE  NextTs(r, k) - r.seg.base < r.seg.stop <=> k * r.to < x
  <2>1. k * r.to \in Nat
    BY <1>1
  <2>2. NextTs(r, k) = r.next + k * r.to
    BY NextTimes
  <2> QED
    BY <1>1, <2>1, <2>2
<1>4. PICK k \in 0..(MagicLimit + 1) : (k = MagicLimit + 1 \/ k * r.to >= x) /\ \A j \in 0..(k - 1) : j * r.to < x
  <2>1. x \in Int /\ MagicLimit + 1 \in Nat
    BY <1>1
  <2> HIDE DEF x
  <2> QED
    BY <1>1, <2>1, FirstReach
<1> HIDE DEF x
<1>5. k \in Nat /\ (k = MagicLimit + 1 \/ NextTs(r, k) - r.seg.base >= r.seg.stop)
  BY <1>1, <1>2, <1>4
<1>6. ASSUME NEW j \in 0..(k - 1)
      PROVE  NextTs(r, j) - r.seg.base < r.seg.stop
  <2>1. j \in Nat /\ j * r.to < x
    BY <1>4, <1>5
  <2> QED
    BY <1>3, <2>1
<1>7. FillCount(r) \in 0..(MagicLimit + 1)
  BY <1>4, <1>5, <1>6 DEF FillCount
<1> QED
  BY <1>1, <1>7

\* What n pushes do to the record.
RateFlushed(r, n, t) ==
  /\ DOMAIN t = RateFields
  /\ t.out = r.out + n /\ t.count = r.count + n /\ t.next = NextTs(r, n)
  /\ t.held = (IF n > 0 THEN 0 ELSE r.held)
  /\ t.pushes = {<<NextTs(r, k), r.prev>> : k \in 0..(n - 1)}
  /\ t.lastOut = (IF n > 0 THEN NextTs(r, n - 1) ELSE r.lastOut)
  /\ t.lastPeriod = (IF n > 0 THEN r.to ELSE r.lastPeriod)
  /\ \A x \in RateFields \ {"out", "count", "next", "held", "pushes", "lastOut", "lastPeriod"} : t[x] = r[x]

\* gst_tensor_rate_flush_prev.
LEMMA FlushDoes ==
  ASSUME NEW r, DOMAIN r = RateFields, NEW n
  PROVE  RateFlushed(r, n, FlushPrev(r, n))
<1> DEFINE t == FlushPrev(r, n)
<1>1. t = [r EXCEPT !.out = @ + n, !.count = @ + n, !.next = NextTs(r, n),
            !.held = IF n > 0 THEN 0 ELSE @,
            !.pushes = {<<NextTs(r, k), r.prev>> : k \in 0..(n - 1)},
            !.lastOut = IF n > 0 THEN NextTs(r, n - 1) ELSE @,
            !.lastPeriod = IF n > 0 THEN r.to ELSE @]
  BY DEF FlushPrev
<1> DEFINE ps == {<<NextTs(r, k), r.prev>> : k \in 0..(n - 1)}
           x0 == NextTs(r, n)
           x1 == NextTs(r, n - 1)
<1>2. ps = {<<NextTs(r, k), r.prev>> : k \in 0..(n - 1)} /\ x0 = NextTs(r, n) /\ x1 = NextTs(r, n - 1)
  OBVIOUS
<1>3. t = [r EXCEPT !.out = @ + n, !.count = @ + n, !.next = x0,
            !.held = IF n > 0 THEN 0 ELSE @,
            !.pushes = ps,
            !.lastOut = IF n > 0 THEN x1 ELSE @,
            !.lastPeriod = IF n > 0 THEN r.to ELSE @]
  BY <1>1
<1> HIDE DEF t, ps, x0, x1
<1>4. /\ DOMAIN t = RateFields
      /\ t.out = r.out + n /\ t.count = r.count + n /\ t.next = x0
      /\ t.held = (IF n > 0 THEN 0 ELSE r.held)
      /\ t.pushes = ps
      /\ t.lastOut = (IF n > 0 THEN x1 ELSE r.lastOut)
      /\ t.lastPeriod = (IF n > 0 THEN r.to ELSE r.lastPeriod)
      /\ \A x \in RateFields \ {"out", "count", "next", "held", "pushes", "lastOut", "lastPeriod"} : t[x] = r[x]
  BY <1>3 DEF RateFields
<1>5. RateFlushed(r, n, t)
  BY <1>2, <1>4 DEF RateFlushed
<1> QED
  BY <1>5 DEF t

\* After n pushes the grid goes on where they ended.
LEMMA FlushGrid ==
  ASSUME NEW r, RateGrid(r), r.next # NoTime, NEW n \in Nat, NEW t, RateFlushed(r, n, t)
  PROVE  /\ t.count \in Nat /\ t.next \in Int /\ t.next = t.seg.base + t.seg.start + t.base + t.count * t.to
         /\ t.next >= r.next /\ t.next # NoTime /\ t.lastOut \in Int /\ t.lastPeriod \in Nat
         /\ t.lastOut # NoTime => t.lastOut >= 0 /\ t.next = t.lastOut + t.lastPeriod
         /\ t.pushes = {} \/ \E p \in t.pushes : p[1] = r.next
         /\ t.base = r.base /\ t.seg = r.seg /\ t.to = r.to /\ t.prev = r.prev
<1>1. /\ r.count \in Nat /\ r.to \in Nat /\ r.base \in Int /\ r.seg.base \in Nat /\ r.seg.start \in Nat /\ r.next \in Int
      /\ r.next >= r.seg.base /\ r.lastOut \in Int /\ r.lastPeriod \in Nat
  BY RateAssumption DEF RateGrid
<1>2. /\ r.next = r.seg.base + r.seg.start + r.base + r.count * r.to
      /\ r.lastOut # NoTime => r.lastOut >= 0 /\ r.next = r.lastOut + r.lastPeriod
  BY DEF RateGrid
<1>3. /\ t.count = r.count + n /\ t.next = NextTs(r, n) /\ t.base = r.base /\ t.seg = r.seg /\ t.to = r.to /\ t.prev = r.prev
      /\ t.pushes = {<<NextTs(r, k), r.prev>> : k \in 0..(n - 1)}
      /\ t.lastOut = (IF n > 0 THEN NextTs(r, n - 1) ELSE r.lastOut)
      /\ t.lastPeriod = (IF n > 0 THEN r.to ELSE r.lastPeriod)
  BY DEF RateFlushed, RateFields
<1>4. NextTs(r, n) = r.next + n * r.to /\ NextTs(r, n) >= r.next
  BY NextTimes
<1>5. n * r.to \in Nat /\ (r.count + n) * r.to = r.count * r.to + n * r.to
  BY <1>1
<1>6. t.next = t.seg.base + t.seg.start + t.base + t.count * t.to
  BY <1>1, <1>2, <1>3, <1>4, <1>5
<1>7. CASE n = 0
  <2>1. t.pushes = {} /\ t.lastOut = r.lastOut /\ t.lastPeriod = r.lastPeriod /\ t.next = r.next
    BY <1>1, <1>3, <1>4, <1>7
  <2> QED
    BY <1>1, <1>2, <1>3, <1>6, <2>1 DEF NoTime
<1>8. CASE n # 0
  <2>1. n - 1 \in Nat /\ n > 0
    BY <1>8
  <2>2. NextTs(r, n - 1) = r.next + (n - 1) * r.to /\ NextTs(r, n - 1) >= r.next
    BY <2>1, NextTimes
  <2>3. n * r.to = (n - 1) * r.to + r.to /\ (n - 1) * r.to \in Nat
    BY <1>1, <2>1, OneMore
  <2>4. t.lastOut = NextTs(r, n - 1) /\ t.lastPeriod = r.to
    BY <1>3, <2>1
  <2>5. t.next = t.lastOut + t.lastPeriod /\ t.lastOut >= 0 /\ t.lastOut \in Int
    <3> DEFINE x == n * r.to
               y == (n - 1) * r.to
    <3>1. x = y + r.to /\ y \in Nat /\ t.next = r.next + x /\ t.lastOut = r.next + y /\ t.lastPeriod = r.to
      BY <1>3, <1>4, <2>1, <2>2, <2>3, <2>4
    <3> HIDE DEF x, y
    <3>2. r.next >= 0
      BY <1>1
    <3> QED
      BY <1>1, <3>1, <3>2
  <2>6. <<r.next, r.prev>> \in t.pushes
    <3>1. 0 \in 0..(n - 1) /\ NextTs(r, 0) = r.next
      BY <2>1 DEF NextTs
    <3> QED
      BY <1>3, <3>1
  <2>7. \E p \in t.pushes : p[1] = r.next
    BY <2>6
  <2>8. t.next # NoTime /\ t.next >= r.next /\ t.next \in Int
    BY <1>1, <1>3, <1>4, <1>5 DEF NoTime
  <2> QED
    BY <1>1, <1>3, <1>6, <2>4, <2>5, <2>7, <2>8
<1> QED
  BY <1>7, <1>8

\* All that is pushed of a frame that is nearest to the next time stamp is nearest.
LEMMA NearestLater ==
  ASSUME NEW a \in Int, NEW p \in Int, NEW x \in Int, NEW y \in Int, y >= x,
         a <= p, a < p => 2 * x > a + p
  PROVE  RateAbs(p, y) < RateAbs(a, y) \/ (RateAbs(p, y) = RateAbs(a, y) /\ p <= a)
BY DEF RateAbs

\* A frame goes through the loop of transform_ip: a is the record with the frame counted,
\* p after the pushes, c after they are counted, u at the end.
LEMMA AcceptKeeps ==
  ASSUME NEW a, DOMAIN a = RateFields, RateGrid(a), RateHeld(a), a.to # 0, a.prev # NoTime, a.held = 1,
         a.in \in Int, a.out \in Int, a.drop \in Int, a.dup \in Int, a.lost \in Int,
         a.in + a.dup = a.out + a.drop + a.lost + 2,
         NEW t \in Nat, a.prev <= t, t <= a.seg.base + RateMaxTime,
         NEW n, n = PushCount(a, t), NEW p, RateFlushed(a, n, p),
         NEW c, DOMAIN c = RateFields, c.dup \in Int, c.drop \in Int, c.dup - c.drop = p.dup - p.drop + n - 1,
         RateCalm(c), \A x \in RateFields \ {"dup", "drop", "delay"} : c[x] = p[x],
         NEW u, DOMAIN u = RateFields, u.prev = t, u.held = 1, u.accepted = c.accepted \cup {t},
         \A x \in RateFields \ {"prev", "held", "accepted"} : u[x] = c[x]
  PROVE  RateKept(u) /\ RateFollows(a, u)
<1>1. a.prev \in Int /\ a.next \in Int /\ a.next # NoTime /\ a.seg \in RateSegments /\ a.base \in Int /\ a.to \in Nat
      /\ a.next >= a.seg.base /\ a.seg.base \in Nat
  BY RateAssumption DEF RateGrid
<1>2. n \in Nat
      /\ (\A k \in 0..(n - 1) : RateAbs(a.prev, NextTs(a, k)) <= RateAbs(t, NextTs(a, k)))
      /\ (a.prev < t => 2 * NextTs(a, n) > a.prev + t)
  BY PushCountDoes
<1>3. /\ p.count \in Nat /\ p.next \in Int /\ p.next = p.seg.base + p.seg.start + p.base + p.count * p.to
      /\ p.next >= a.next /\ p.next # NoTime /\ p.lastOut \in Int /\ p.lastPeriod \in Nat
      /\ p.lastOut # NoTime => p.lastOut >= 0 /\ p.next = p.lastOut + p.lastPeriod
      /\ p.pushes = {} \/ \E q \in p.pushes : q[1] = a.next
      /\ p.base = a.base /\ p.seg = a.seg /\ p.to = a.to
  BY <1>1, <1>2, FlushGrid
<1>4. /\ u.count = p.count /\ u.next = p.next /\ u.seg = p.seg /\ u.base = p.base /\ u.to = p.to
      /\ u.lastOut = p.lastOut /\ u.lastPeriod = p.lastPeriod /\ u.pushes = p.pushes /\ u.ended = p.ended
      /\ u.in = p.in /\ u.out = p.out /\ u.lost = p.lost /\ u.dup = c.dup /\ u.drop = c.drop
      /\ u.accepted = p.accepted \cup {t}
  BY DEF RateFields
<1>5. /\ p.in = a.in /\ p.out = a.out + n /\ p.lost = a.lost /\ p.dup = a.dup /\ p.drop = a.drop
      /\ p.accepted = a.accepted /\ p.next = NextTs(a, n)
      /\ p.pushes = {<<NextTs(a, k), a.prev>> : k \in 0..(n - 1)}
  BY DEF RateFlushed, RateFields
<1>6. t # NoTime /\ t \in Int
  BY DEF NoTime
<1>7. RateGrid(u)
  BY <1>1, <1>3, <1>4, <1>6 DEF RateGrid
<1>8. RateSum(u)
  <2>1. u.in + u.dup = u.out + u.drop + u.held + u.lost
    BY <1>2, <1>4, <1>5
  <2> QED
    BY <1>2, <1>4, <1>5, <1>6, <2>1 DEF RateSum
<1>9. /\ a.accepted \subseteq Int /\ \A b \in a.accepted : b <= a.prev /\ (b < a.prev => 2 * a.next > b + a.prev)
  BY DEF RateHeld
<1>10. RateHeld(u)
  <2>1. ASSUME NEW b \in u.accepted
        PROVE  b <= t /\ (b < t => 2 * p.next > b + t)
    <3>1. CASE b = t
      BY <1>6, <3>1
    <3>2. CASE b \in a.accepted
      <4>1. b \in Int /\ b <= a.prev /\ (b < a.prev => 2 * a.next > b + a.prev)
        BY <1>9, <3>2
      <4>2. a.prev < t => 2 * p.next > a.prev + t
        BY <1>2, <1>5
      <4> QED
        BY <1>1, <1>3, <1>6, <4>1, <4>2
    <3> QED
      BY <1>4, <1>5, <3>1, <3>2
  <2> QED
    BY <1>4, <1>5, <1>6, <1>9, <2>1 DEF RateHeld
<1>11. RatePushed(u)
  <2> SUFFICES ASSUME NEW k \in 0..(n - 1), NEW b \in u.accepted
               PROVE  LET y == NextTs(a, k)
                      IN RateAbs(a.prev, y) < RateAbs(b, y) \/ (RateAbs(a.prev, y) = RateAbs(b, y) /\ a.prev <= b)
    BY <1>4, <1>5 DEF RatePushed
  <2> DEFINE y == NextTs(a, k)
  <2>1. k \in Nat /\ y \in Int /\ y >= a.next
    <3>1. k \in Nat
      BY <1>2
    <3>2. k * a.to \in Nat
      BY <1>1, <3>1
    <3> QED
      BY <1>1, <3>1, <3>2, NextTimes
  <2>2. RateAbs(a.prev, y) <= RateAbs(t, y)
    BY <1>2
  <2> HIDE DEF y
  <2>3. CASE b = t
    <3>1. RateAbs(a.prev, y) \in Int /\ RateAbs(t, y) \in Int
      BY <1>1, <1>6, <2>1 DEF RateAbs
    <3> QED
      BY <1>1, <1>6, <2>2, <2>3, <3>1 DEF y
  <2>4. CASE b \in a.accepted
    <3>1. b \in Int /\ b <= a.prev /\ (b < a.prev => 2 * a.next > b + a.prev)
      BY <1>9, <2>4
    <3>2. RateAbs(a.prev, y) < RateAbs(b, y) \/ (RateAbs(a.prev, y) = RateAbs(b, y) /\ a.prev <= b)
      BY <1>1, <2>1, <3>1, NearestLater
    <3> QED
      BY <3>2 DEF y
  <2> QED
    BY <1>4, <1>5, <2>3, <2>4
<1>12. RateCalm(u)
  <2>1. u.delay = c.delay /\ u.accum = c.accum /\ u.prevTs = c.prevTs /\ u.invoked = c.invoked /\ u.spaced = c.spaced
    BY DEF RateFields
  <2> QED
    BY <2>1 DEF RateCalm
<1>13. RateFollows(a, u)
  BY <1>1, <1>3, <1>4 DEF RateFollows
<1> QED
  BY <1>7, <1>8, <1>10, <1>11, <1>12, <1>13 DEF RateKept

\* A QoS event tightens the delay and never ends it.
LEMMA QosDoes ==
  ASSUME NEW r, DOMAIN r = RateFields, RateCalm(r), r.to \in Nat \ {0}
  PROVE  /\ DOMAIN SendQosThrottle(r) = RateFields /\ RateCalm(SendQosThrottle(r))
         /\ \A x \in RateFields \ {"delay"} : SendQosThrottle(r)[x] = r[x]
<1> DEFINE d == 999 * r.to
           e == IF r.delay # 0 /\ r.delay < d THEN r.delay ELSE d
           t == SendQosThrottle(r)
<1>1. t = [r EXCEPT !.delay = e]
  BY DEF SendQosThrottle, ThrottleEvent
<1>2. e \in Nat \ {0}
  BY DEF RateCalm
<1> HIDE DEF e, t
<1>3. DOMAIN t = RateFields /\ t.delay = e /\ \A x \in RateFields \ {"delay"} : t[x] = r[x]
  BY <1>1 DEF RateFields
<1>4. t.accum = r.accum /\ t.prevTs = r.prevTs /\ t.invoked = r.invoked /\ t.spaced = r.spaced
  BY <1>3 DEF RateFields
<1>5. RateCalm(t)
  BY <1>2, <1>3, <1>4 DEF RateCalm
<1> QED
  BY <1>3, <1>5 DEF t

\* gst_tensor_filter_check_throttling_delay: what is summed up, in w when the frame is
\* skipped and in v when it is invoked.
CheckPasses(r, skip, w, v) ==
  /\ skip => DOMAIN w = RateFields /\ RateCalm(w) /\ \A x \in RateFields \ {"prevTs", "accum"} : w[x] = r[x]
  /\ ~skip => /\ DOMAIN v = RateFields /\ RateCalm(v)
              /\ \A x \in RateFields \ {"prevTs", "accum", "invoked", "spaced"} : v[x] = r[x]

\* The same of the throttling of a frame of time ts, when invokes take lat.
CheckSpaces(r, ts, lat) ==
  CheckPasses(r, CheckThrottling(r, ts, lat).skip, CheckThrottling(r, ts, lat).r,
              [CheckThrottling(r, ts, lat).r EXCEPT
                 !.invoked = ts,
                 !.spaced = (r.invoked = NoTime \/ r.prevTs = NoTime \/ 1000 * (ts - r.invoked) >= r.delay)])

\* A frame is invoked only when the throttling delay has passed.
LEMMA CheckDoes ==
  ASSUME NEW r, DOMAIN r = RateFields, RateCalm(r), NEW ts \in Nat, NEW lat \in Nat
  PROVE  CheckSpaces(r, ts, lat)
<1> DEFINE skip == CheckThrottling(r, ts, lat).skip
           w == CheckThrottling(r, ts, lat).r
           sp == r.invoked = NoTime \/ r.prevTs = NoTime \/ 1000 * (ts - r.invoked) >= r.delay
           v == [w EXCEPT !.invoked = ts, !.spaced = sp]
<1> SUFFICES CheckPasses(r, skip, w, v)
  BY Zenon DEF CheckSpaces
<1>k. skip = CheckThrottling(r, ts, lat).skip
  BY Zenon
<1>w. w = CheckThrottling(r, ts, lat).r
  BY Zenon
<1>p. sp = (r.invoked = NoTime \/ r.prevTs = NoTime \/ 1000 * (ts - r.invoked) >= r.delay)
  BY Zenon
<1>v. v = [w EXCEPT !.invoked = ts, !.spaced = sp]
  BY Zenon
<1> HIDE DEF skip, w, sp, v
<1> DEFINE sum == r.accum + 1000 * (ts - r.prevTs)
           low == RateMax(1000 * lat, r.delay)
<1>0. skip = (r.delay # 0 /\ r.prevTs # NoTime /\ sum < low)
  BY <1>k, Zenon DEF CheckThrottling
<1>s. sp <=> (r.invoked = NoTime \/ r.prevTs = NoTime \/ 1000 * (ts - r.invoked) >= r.delay)
  BY <1>p, Zenon
<1> HIDE DEF low, sum
<1>1. skip <=> (r.delay # 0 /\ r.prevTs # NoTime /\ sum < low)
  BY <1>0, Zenon
<1> USE DEF low, sum
<1>2. w = IF r.delay = 0 THEN r
          ELSE [r EXCEPT !.prevTs = ts,
                         !.accum = IF r.prevTs = NoTime THEN @ ELSE IF skip THEN sum ELSE 0]
  <2> DEFINE B == r.delay # 0 /\ r.prevTs # NoTime /\ sum < low
  <2>1. w = IF r.delay = 0 THEN r
            ELSE [r EXCEPT !.prevTs = ts,
                           !.accum = IF r.prevTs = NoTime THEN @ ELSE IF B THEN sum ELSE 0]
    BY <1>w DEF CheckThrottling
  <2>2. skip <=> B
    BY <1>1
  <2> HIDE DEF B, sum
  <2> QED
    BY <2>1, <2>2
<1>3. /\ r.delay \in Nat /\ r.accum \in Int /\ r.prevTs \in Int /\ r.invoked \in Int /\ r.spaced
      /\ r.delay = 0 => r.prevTs = NoTime
      /\ r.accum = (IF r.prevTs = NoTime THEN 0 ELSE 1000 * (r.prevTs - r.invoked))
  BY DEF RateCalm
<1>4. low \in Int /\ low >= r.delay
  BY <1>3 DEF RateMax
<1>5. ts # NoTime
  BY DEF NoTime
<1> HIDE DEF low
<1>6. ASSUME skip
      PROVE  DOMAIN w = RateFields /\ RateCalm(w) /\ \A x \in RateFields \ {"prevTs", "accum"} : w[x] = r[x]
  <2> HIDE DEF sum
  <2>0. r.delay # 0 /\ r.prevTs # NoTime
    BY <1>1, <1>6, Zenon
  <2>1. w = [r EXCEPT !.prevTs = ts, !.accum = sum]
    BY <1>2, <1>6, <2>0
  <2>2. /\ DOMAIN w = RateFields /\ w.prevTs = ts /\ w.accum = sum
        /\ \A x \in RateFields \ {"prevTs", "accum"} : w[x] = r[x]
    BY <2>1 DEF RateFields
  <2>3. w.delay = r.delay /\ w.invoked = r.invoked /\ w.spaced = r.spaced
    BY <2>2 DEF RateFields
  <2>4. sum = 1000 * (ts - r.invoked) /\ r.delay # 0
    BY <1>1, <1>3, <1>6 DEF sum
  <2>5. RateCalm(w)
    BY <1>3, <1>5, <2>2, <2>3, <2>4 DEF RateCalm
  <2> QED
    BY <2>2, <2>5
<1>7. ASSUME ~skip
      PROVE  /\ DOMAIN v = RateFields /\ RateCalm(v)
             /\ \A x \in RateFields \ {"prevTs", "accum", "invoked", "spaced"} : v[x] = r[x]
  <2>1. sp
    <3>1. CASE r.prevTs = NoTime
      BY <1>s, <3>1
    <3>2. CASE r.prevTs # NoTime
      <4>1. sum = 1000 * (ts - r.invoked) /\ r.delay # 0
        BY <1>3, <3>2
      <4>2. sum >= low
        BY <1>1, <1>3, <1>4, <1>7, <3>2, <4>1
      <4> QED
        BY <1>3, <1>4, <1>s, <4>1, <4>2
    <3> QED
      BY <3>1, <3>2
  <2>2. CASE r.delay = 0
    <3>1. v = [r EXCEPT !.invoked = ts, !.spaced = sp]
      BY <1>2, <1>v, <2>2
    <3>2. /\ DOMAIN v = RateFields /\ v.invoked = ts /\ v.spaced = sp
          /\ \A x \in RateFields \ {"invoked", "spaced"} : v[x] = r[x]
      BY <3>1 DEF RateFields
    <3>3. v.delay = r.delay /\ v.accum = r.accum /\ v.prevTs = r.prevTs
      BY <3>2 DEF RateFields
    <3>4. RateCalm(v)
      BY <1>3, <2>1, <2>2, <3>2, <3>3 DEF RateCalm
    <3> QED
      BY <3>2, <3>4
  <2>3. CASE r.delay # 0
    <3>1. w = [r EXCEPT !.prevTs = ts, !.accum = 0]
      BY <1>2, <1>3, <1>7, <2>3 DEF RateFields
    <3>2. DOMAIN w = RateFields /\ w.prevTs = ts /\ w.accum = 0 /\ \A x \in RateFields \ {"prevTs", "accum"} : w[x] = r[x]
      BY <3>1 DEF RateFields
    <3>3. /\ DOMAIN v = RateFields /\ v.invoked = ts /\ v.spaced = sp
          /\ \A x \in RateFields \ {"invoked", "spaced"} : v[x] = w[x]
      BY <1>v, <3>2 DEF RateFields
    <3>4. v.delay = r.delay /\ v.accum = 0 /\ v.prevTs = ts
      BY <3>2, <3>3 DEF RateFields
    <3>5. RateCalm(v)
      BY <1>3, <1>5, <2>1, <2>3, <3>3, <3>4 DEF RateCalm
    <3> QED
      BY <3>2, <3>3, <3>5
  <2> QED
    BY <2>2, <2>3
<1> QED
  BY <1>6, <1>7 DEF CheckPasses

\* gst_tensor_rate_transform_ip.
LEMMA TransformKeeps ==
  ASSUME NEW r, RateKept(r), r.ended = "no", r.to # 0, NEW ts \in 0..RateMaxTime
  PROVE  RateKept(TransformIp(r, ts)) /\ RateFollows(r, TransformIp(r, ts))
<1> DEFINE t == ts + r.seg.base
           a == [r EXCEPT !.in = @ + 1, !.last = ts, !.pushes = {}]
           n == PushCount(a, t)
           p == FlushPrev(a, n)
           u == TransformIp(r, ts)
<1>1. /\ r.count \in Nat /\ r.base \in Int /\ r.next \in Int /\ r.to \in Nat \ {0} /\ r.seg \in RateSegments
      /\ r.lastOut \in Int /\ r.lastPeriod \in Nat /\ r.prev \in Int
      /\ r.seg.base \in Nat /\ r.seg.start \in Nat
  BY RateAssumption DEF RateKept, RateGrid
<1>2. ts \in Nat /\ ts <= RateMaxTime /\ RateMaxTime \in Nat /\ t \in Nat /\ t # NoTime
  BY <1>1, RateAssumption DEF NoTime
<1>3. /\ DOMAIN r = RateFields /\ DOMAIN a = RateFields /\ a.in = r.in + 1 /\ a.pushes = {}
      /\ \A x \in RateFields \ {"in", "last", "pushes"} : a[x] = r[x]
  BY DEF RateKept, RateFields
<1>4. u = CASE r.from = r.to ->
                 LET q == IF r.sentQos THEN a ELSE SendQosThrottle(a)
                 IN [q EXCEPT !.sentQos = TRUE, !.out = @ + 1, !.lastOut = NoTime]
            [] r.from # r.to /\ r.prev = NoTime ->
                 LET s == [SwapPrev(a, t, 1) EXCEPT !.accepted = @ \cup {t}]
                 IN IF r.next # NoTime THEN s
                    ELSE [s EXCEPT !.next = t, !.base = ts - r.seg.start, !.count = 0]
            [] r.from # r.to /\ r.prev # NoTime /\ t < r.prev ->
                 [a EXCEPT !.drop = @ + 1]
            [] r.from # r.to /\ r.prev # NoTime /\ t >= r.prev ->
                 LET c == CASE n > 1 -> [p EXCEPT !.dup = @ + n - 1]
                            [] n = 1 -> p
                            [] n = 0 -> SendQosThrottle([p EXCEPT !.drop = @ + 1])
                 IN [SwapPrev(c, t, 1) EXCEPT !.accepted = @ \cup {t}]
  BY DEF TransformIp
<1> HIDE DEF u, p, n, a, t
<1>5. /\ a.count = r.count /\ a.base = r.base /\ a.next = r.next /\ a.to = r.to /\ a.seg = r.seg /\ a.lastOut = r.lastOut
      /\ a.lastPeriod = r.lastPeriod /\ a.prev = r.prev /\ a.out = r.out /\ a.drop = r.drop /\ a.dup = r.dup
      /\ a.held = r.held /\ a.lost = r.lost /\ a.ended = r.ended /\ a.accepted = r.accepted
      /\ a.delay = r.delay /\ a.accum = r.accum /\ a.prevTs = r.prevTs /\ a.invoked = r.invoked /\ a.spaced = r.spaced
  BY <1>3 DEF RateFields
<1>6. RateGrid(a)
  BY <1>5 DEF RateKept, RateGrid
<1>7. RateHeld(a) /\ RateCalm(a)
  BY <1>5 DEF RateKept, RateHeld, RateCalm
<1>8. /\ r.in \in Int /\ r.out \in Int /\ r.drop \in Int /\ r.dup \in Int /\ r.held \in Int /\ r.lost \in Int
      /\ r.in + r.dup = r.out + r.drop + r.held + r.lost
      /\ r.held = (IF r.prev = NoTime THEN 0 ELSE 1)
  BY DEF RateKept, RateSum
<1>9. CASE r.from = r.to
  <2> DEFINE q == IF r.sentQos THEN a ELSE SendQosThrottle(a)
  <2>1. u = [q EXCEPT !.sentQos = TRUE, !.out = @ + 1, !.lastOut = NoTime]
    BY <1>4, <1>9
  <2>2. DOMAIN q = RateFields /\ RateCalm(q) /\ \A x \in RateFields \ {"delay"} : q[x] = a[x]
    BY <1>1, <1>3, <1>5, <1>7, QosDoes
  <2> HIDE DEF q
  <2>3. /\ DOMAIN u = RateFields /\ u.out = q.out + 1 /\ u.lastOut = NoTime
        /\ \A x \in RateFields \ {"sentQos", "out", "lastOut"} : u[x] = q[x]
    BY <2>1, <2>2 DEF RateFields
  <2>4. /\ u.out = r.out + 1 /\ u.in = r.in + 1 /\ u.pushes = {}
        /\ \A x \in RateFields \ {"sentQos", "out", "lastOut", "delay", "in", "last", "pushes"} : u[x] = r[x]
    BY <1>3, <1>5, <2>2, <2>3 DEF RateFields
  <2>5. RateGrid(u)
    <3>1. /\ u.count = r.count /\ u.base = r.base /\ u.next = r.next /\ u.to = r.to /\ u.seg = r.seg
          /\ u.lastPeriod = r.lastPeriod /\ u.prev = r.prev /\ u.lastOut = NoTime
      BY <2>3, <2>4 DEF RateFields
    <3> QED
      BY <3>1 DEF RateKept, RateGrid, NoTime
  <2>6. RateSum(u)
    <3>1. u.drop = r.drop /\ u.dup = r.dup /\ u.held = r.held /\ u.lost = r.lost /\ u.ended = r.ended /\ u.prev = r.prev
      BY <2>4 DEF RateFields
    <3> QED
      BY <1>8, <2>4, <3>1 DEF RateSum
  <2>7. RateHeld(u) /\ RatePushed(u)
    <3>1. u.accepted = r.accepted /\ u.prev = r.prev /\ u.next = r.next
      BY <2>4 DEF RateFields
    <3> QED
      BY <2>4, <3>1 DEF RateKept, RateHeld, RatePushed
  <2>8. RateCalm(u)
    <3>1. u.delay = q.delay /\ u.accum = q.accum /\ u.prevTs = q.prevTs /\ u.invoked = q.invoked /\ u.spaced = q.spaced
      BY <2>3 DEF RateFields
    <3> QED
      BY <2>2, <3>1 DEF RateCalm
  <2>9. RateFollows(r, u)
    BY <2>4 DEF RateFollows
  <2> QED
    BY <2>3, <2>5, <2>6, <2>7, <2>8, <2>9 DEF RateKept, u
<1>10. CASE r.from # r.to /\ r.prev = NoTime
  <2> DEFINE s == [SwapPrev(a, t, 1) EXCEPT !.accepted = @ \cup {t}]
  <2>1. u = IF r.next # NoTime THEN s
            ELSE [s EXCEPT !.next = t, !.base = ts - r.seg.start, !.count = 0]
    BY <1>4, <1>10
  <2>2. /\ DOMAIN s = RateFields /\ s.prev = t /\ s.held = 1 /\ s.accepted = a.accepted \cup {t}
        /\ \A x \in RateFields \ {"prev", "held", "accepted"} : s[x] = a[x]
    BY <1>3 DEF SwapPrev, RateFields
  <2> HIDE DEF s
  <2>3. /\ DOMAIN u = RateFields
        /\ \A x \in RateFields \ {"next", "base", "count"} : u[x] = s[x]
        /\ r.next # NoTime => u.next = s.next /\ u.base = s.base /\ u.count = s.count
        /\ r.next = NoTime => u.next = t /\ u.base = ts - r.seg.start /\ u.count = 0
    BY <2>1, <2>2 DEF RateFields
  <2>4. r.accepted = {} /\ (r.next = NoTime => r.lastOut = NoTime)
    BY <1>1, <1>10 DEF RateKept, RateHeld, RateGrid, NoTime
  <2>5. /\ u.prev = t /\ u.held = 1 /\ u.accepted = {t} /\ u.in = r.in + 1 /\ u.pushes = {}
        /\ u.out = r.out /\ u.drop = r.drop /\ u.dup = r.dup /\ u.lost = r.lost /\ u.ended = r.ended
        /\ u.to = r.to /\ u.seg = r.seg /\ u.lastOut = r.lastOut /\ u.lastPeriod = r.lastPeriod
        /\ u.delay = r.delay /\ u.accum = r.accum /\ u.prevTs = r.prevTs /\ u.invoked = r.invoked /\ u.spaced = r.spaced
        /\ r.next # NoTime => u.next = r.next /\ u.base = r.base /\ u.count = r.count
    BY <1>3, <1>5, <2>2, <2>3, <2>4 DEF RateFields
  <2>6. RateGrid(u)
    <3>1. CASE r.next # NoTime
      BY <1>1, <1>2, <2>5, <3>1 DEF RateKept, RateGrid
    <3>2. CASE r.next = NoTime
      <4>1. u.next = t /\ u.base = ts - r.seg.start /\ u.count = 0 /\ u.lastOut = NoTime
        BY <2>3, <2>4, <2>5, <3>2
      <4>2. u.count * u.to = 0
        BY <1>1, <2>5, <4>1
      <4>3. u.next = u.seg.base + u.seg.start + u.base + u.count * u.to /\ u.next >= u.seg.base
        BY <1>1, <1>2, <2>5, <4>1, <4>2 DEF t
      <4> QED
        BY <1>1, <1>2, <2>5, <4>1, <4>3 DEF RateGrid, NoTime
    <3> QED
      BY <3>1, <3>2
  <2>7. RateSum(u)
    BY <1>2, <1>8, <1>10, <2>5 DEF RateSum
  <2>8. RateHeld(u) /\ RatePushed(u)
    BY <1>2, <2>5 DEF RateHeld, RatePushed
  <2>9. RateCalm(u)
    BY <2>5 DEF RateKept, RateCalm
  <2>10. RateFollows(r, u)
    BY <2>5 DEF RateFollows
  <2> QED
    BY <2>3, <2>6, <2>7, <2>8, <2>9, <2>10 DEF RateKept, u
<1>11. CASE r.from # r.to /\ r.prev # NoTime /\ t < r.prev
  <2>1. u = [a EXCEPT !.drop = @ + 1]
    BY <1>1, <1>2, <1>4, <1>11
  <2>2. /\ DOMAIN u = RateFields /\ u.drop = r.drop + 1 /\ u.in = r.in + 1 /\ u.pushes = {}
        /\ \A x \in RateFields \ {"drop", "in", "last", "pushes"} : u[x] = r[x]
    BY <1>3, <1>5, <2>1 DEF RateFields
  <2>3. /\ u.count = r.count /\ u.base = r.base /\ u.next = r.next /\ u.to = r.to /\ u.seg = r.seg /\ u.lastOut = r.lastOut
        /\ u.lastPeriod = r.lastPeriod /\ u.prev = r.prev /\ u.out = r.out /\ u.dup = r.dup
        /\ u.held = r.held /\ u.lost = r.lost /\ u.ended = r.ended /\ u.accepted = r.accepted
        /\ u.delay = r.delay /\ u.accum = r.accum /\ u.prevTs = r.prevTs /\ u.invoked = r.invoked /\ u.spaced = r.spaced
    BY <2>2 DEF RateFields
  <2>4. RateGrid(u)
    BY <2>3 DEF RateKept, RateGrid
  <2>5. RateSum(u)
    BY <1>8, <2>2, <2>3 DEF RateSum
  <2>6. RateHeld(u) /\ RatePushed(u) /\ RateCalm(u)
    BY <2>2, <2>3 DEF RateKept, RateHeld, RatePushed, RateCalm
  <2>7. RateFollows(r, u)
    BY <2>2 DEF RateFollows
  <2> QED
    BY <2>2, <2>4, <2>5, <2>6, <2>7 DEF RateKept, u
<1>12. CASE r.from # r.to /\ r.prev # NoTime /\ ~(t < r.prev)
  <2> DEFINE d == [p EXCEPT !.drop = @ + 1]
             c == CASE n > 1 -> [p EXCEPT !.dup = @ + n - 1]
                    [] n = 1 -> p
                    [] n = 0 -> SendQosThrottle(d)
  <2>1. t >= r.prev
    BY <1>1, <1>2, <1>12
  <2>2. u = [SwapPrev(c, t, 1) EXCEPT !.accepted = @ \cup {t}]
    BY <1>4, <1>12, <2>1
  <2>3. RateFlushed(a, n, p)
    BY <1>3, FlushDoes DEF p
  <2>4. n \in Nat
    <3>1. a.prev # NoTime /\ a.to # 0 /\ a.prev <= t /\ t <= a.seg.base + RateMaxTime /\ t \in Int
      BY <1>1, <1>2, <1>5, <1>12, <2>1 DEF t
    <3> QED
      BY <1>6, <3>1, PushCountDoes DEF n
  <2>5. /\ DOMAIN p = RateFields /\ p.dup = r.dup /\ p.drop = r.drop /\ p.to = r.to
        /\ p.delay = a.delay /\ p.accum = a.accum /\ p.prevTs = a.prevTs /\ p.invoked = a.invoked /\ p.spaced = a.spaced
    BY <1>5, <2>3 DEF RateFlushed, RateFields
  <2>6. RateCalm(p)
    BY <1>7, <2>5 DEF RateCalm
  <2>7. /\ DOMAIN c = RateFields /\ c.dup \in Int /\ c.drop \in Int /\ c.dup - c.drop = p.dup - p.drop + n - 1
        /\ RateCalm(c) /\ \A x \in RateFields \ {"dup", "drop", "delay"} : c[x] = p[x]
    <3>1. CASE n > 1
      <4>1. c = [p EXCEPT !.dup = @ + n - 1]
        BY <2>4, <3>1
      <4> HIDE DEF c
      <4>2. DOMAIN c = RateFields /\ c.dup = p.dup + n - 1 /\ \A x \in RateFields \ {"dup"} : c[x] = p[x]
        BY <2>5, <4>1 DEF RateFields
      <4>3. /\ c.drop = p.drop /\ c.delay = p.delay /\ c.accum = p.accum /\ c.prevTs = p.prevTs /\ c.invoked = p.invoked
            /\ c.spaced = p.spaced
        BY <4>2 DEF RateFields
      <4>4. RateCalm(c)
        BY <2>6, <4>3 DEF RateCalm
      <4> QED
        BY <1>8, <2>4, <2>5, <4>2, <4>3, <4>4
    <3>2. CASE n = 1
      <4>1. c = p
        BY <3>2
      <4> HIDE DEF c
      <4> QED
        BY <1>8, <2>5, <2>6, <3>2, <4>1
    <3>3. CASE n = 0
      <4>1. c = SendQosThrottle(d)
        BY <3>3
      <4> HIDE DEF c
      <4>2. DOMAIN d = RateFields /\ d.drop = p.drop + 1 /\ \A x \in RateFields \ {"drop"} : d[x] = p[x]
        BY <2>5 DEF RateFields
      <4> HIDE DEF d
      <4>3. /\ d.delay = p.delay /\ d.accum = p.accum /\ d.prevTs = p.prevTs /\ d.invoked = p.invoked
            /\ d.spaced = p.spaced /\ d.to = p.to /\ d.dup = p.dup
        BY <4>2 DEF RateFields
      <4>4. RateCalm(d) /\ d.to \in Nat \ {0}
        BY <1>1, <2>5, <2>6, <4>3 DEF RateCalm
      <4>5. DOMAIN c = RateFields /\ RateCalm(c) /\ \A x \in RateFields \ {"delay"} : c[x] = d[x]
        BY <4>1, <4>2, <4>4, QosDoes
      <4>6. c.drop = p.drop + 1 /\ c.dup = p.dup
        BY <4>2, <4>3, <4>5 DEF RateFields
      <4> QED
        BY <1>8, <2>5, <3>3, <4>2, <4>5, <4>6
    <3> QED
      BY <2>4, <3>1, <3>2, <3>3
  <2> HIDE DEF c
  <2>8. /\ DOMAIN u = RateFields /\ u.prev = t /\ u.held = 1 /\ u.accepted = c.accepted \cup {t}
        /\ \A x \in RateFields \ {"prev", "held", "accepted"} : u[x] = c[x]
    BY <2>2, <2>7 DEF SwapPrev, RateFields
  <2>9. /\ a.to # 0 /\ a.prev # NoTime /\ a.held = 1 /\ a.in \in Int /\ a.out \in Int /\ a.drop \in Int /\ a.dup \in Int
        /\ a.lost \in Int /\ a.in + a.dup = a.out + a.drop + a.lost + 2
        /\ a.prev <= t /\ t <= a.seg.base + RateMaxTime
    BY <1>1, <1>2, <1>3, <1>5, <1>8, <1>12, <2>1 DEF t
  <2>10. n = PushCount(a, t)
    BY DEF n
  <2>11. RateKept(u) /\ RateFollows(a, u)
    BY <1>2, <1>3, <1>6, <1>7, <2>3, <2>7, <2>8, <2>9, <2>10, AcceptKeeps
  <2>12. RateFollows(r, u)
    BY <1>5, <2>11 DEF RateFollows
  <2> QED
    BY <2>11, <2>12 DEF u
<1> QED
  BY <1>9, <1>10, <1>11, <1>12

\* A buffer comes: the throttling first, then transform_ip.
LEMMA RateBufferKeeps ==
  ASSUME RateKept(rate), RateBuffer
  PROVE  RateKept(rate') /\ RateFollows(rate, rate')
<1> DEFINE r0(ts) == [rate EXCEPT !.now = RateMax(@, ts), !.pushes = {}, !.total = @ + 1]
           Spaced(ts) == rate.invoked = NoTime \/ rate.prevTs = NoTime \/ 1000 * (ts - rate.invoked) >= rate.delay
<1>1. PICK gap \in RateGaps, lat \in RateLatencies :
        LET ts == rate.now + gap
            check == CheckThrottling([rate EXCEPT !.now = RateMax(@, ts), !.pushes = {},
                                                  !.total = @ + 1], ts, lat)
            spaced == rate.invoked = NoTime \/ rate.prevTs = NoTime
                      \/ 1000 * (ts - rate.invoked) >= rate.delay
        IN /\ rate.to # 0 /\ rate.ended = "no"
           /\ ts \in 0..RateMaxTime /\ rate.total < RateMaxIn
           /\ rate' = IF check.skip THEN check.r
                      ELSE TransformIp([check.r EXCEPT !.invoked = ts, !.spaced = spaced], ts)
  BY Zenon DEF RateBuffer
<1> DEFINE ts == rate.now + gap
           r == r0(ts)
           check == CheckThrottling(r, ts, lat)
           w == check.r
           skip == check.skip
           sp == Spaced(ts)
           v == [w EXCEPT !.invoked = ts, !.spaced = sp]
<1>2. /\ rate.to # 0 /\ rate.ended = "no" /\ ts \in 0..RateMaxTime
      /\ rate' = IF skip THEN w ELSE TransformIp(v, ts)
  BY <1>1, Zenon
<1>3. lat \in Nat /\ ts \in Nat
  BY <1>2, RateAssumption
<1> HIDE DEF ts
<1>4. /\ DOMAIN r = RateFields /\ r.pushes = {} /\ \A x \in RateFields \ {"now", "pushes", "total"} : r[x] = rate[x]
  BY DEF RateKept, RateFields
<1> HIDE DEF r, r0
<1>5. /\ r.delay = rate.delay /\ r.accum = rate.accum /\ r.prevTs = rate.prevTs /\ r.invoked = rate.invoked
      /\ r.spaced = rate.spaced
  BY <1>4 DEF RateFields
<1>6. RateCalm(r)
  BY <1>5 DEF RateKept, RateCalm
<1> DEFINE sq == r.invoked = NoTime \/ r.prevTs = NoTime \/ 1000 * (ts - r.invoked) >= r.delay
<1>7. sp = sq
  BY <1>5
<1> HIDE DEF sp
<1>s. CheckPasses(r, skip, w, [w EXCEPT !.invoked = ts, !.spaced = sq])
  <2>1. CheckSpaces(r, ts, lat)
    <3> HIDE DEF skip, w, check, sq
    <3> QED
      BY <1>3, <1>4, <1>6, CheckDoes, Zenon
  <2> QED
    BY <2>1, Zenon DEF CheckSpaces
<1>8. CheckPasses(r, skip, w, v)
  <2> HIDE DEF w, skip, sq
  <2> QED
    BY <1>7, <1>s
<1> HIDE DEF w, skip, v, check, sq
<1>9. ASSUME NEW u, DOMAIN u = RateFields, RateCalm(u),
             \A x \in RateFields \ {"prevTs", "accum", "invoked", "spaced"} : u[x] = r[x]
      PROVE  /\ RateKept(u) /\ u.pushes = {}
             /\ u.ended = rate.ended /\ u.to = rate.to /\ u.next = rate.next /\ u.lastOut = rate.lastOut
  <2>1. /\ u.count = rate.count /\ u.base = rate.base /\ u.next = rate.next /\ u.to = rate.to /\ u.seg = rate.seg
        /\ u.lastOut = rate.lastOut /\ u.lastPeriod = rate.lastPeriod /\ u.prev = rate.prev /\ u.in = rate.in
        /\ u.out = rate.out /\ u.drop = rate.drop /\ u.dup = rate.dup /\ u.held = rate.held /\ u.lost = rate.lost
        /\ u.ended = rate.ended /\ u.accepted = rate.accepted /\ u.pushes = {}
    BY <1>4, <1>9 DEF RateFields
  <2>2. RateGrid(u)
    BY <2>1 DEF RateKept, RateGrid
  <2>3. RateSum(u)
    BY <2>1 DEF RateKept, RateSum
  <2>4. RateHeld(u) /\ RatePushed(u)
    BY <2>1 DEF RateKept, RateHeld, RatePushed
  <2> QED
    BY <1>9, <2>1, <2>2, <2>3, <2>4 DEF RateKept
<1>10. CASE skip
  <2>1. RateKept(w) /\ w.pushes = {}
    BY <1>8, <1>9, <1>10 DEF CheckPasses
  <2> QED
    BY <1>2, <1>10, <2>1 DEF RateFollows
<1>11. CASE ~skip
  <2>1. RateKept(v) /\ v.ended = "no" /\ v.to # 0 /\ v.next = rate.next
    BY <1>2, <1>8, <1>9, <1>11 DEF CheckPasses
  <2>2. RateKept(TransformIp(v, ts)) /\ RateFollows(v, TransformIp(v, ts))
    BY <1>2, <2>1, TransformKeeps
  <2> QED
    BY <1>2, <1>11, <2>1, <2>2 DEF RateFollows
<1> QED
  BY <1>10, <1>11

\* gst_tensor_rate_set_caps: the grid goes on with the new period.
LEMMA RateCapsKeeps ==
  ASSUME RateKept(rate), RateCaps
  PROVE  RateKept(rate') /\ RateFollows(rate, rate')
<1>1. PICK from \in RatePeriods, to \in RatePeriods : rate.ended = "no" /\ rate' = SetCapsRate(rate, from, to)
  BY DEF RateCaps
<1> DEFINE u == SetCapsRate(rate, from, to)
           p == rate.to * rate.count
<1>2. u = [[rate EXCEPT !.from = from, !.base = @ + p, !.count = 0,
                        !.to = to, !.last = NoTime, !.lost = @ + rate.held,
                        !.pushes = {}, !.accepted = {}] EXCEPT !.prev = NoTime, !.held = 0]
  BY DEF SetCapsRate, SwapPrev
<1>3. /\ rate.count \in Nat /\ rate.base \in Int /\ rate.next \in Int /\ rate.to \in Nat /\ rate.seg \in RateSegments
      /\ rate.lastOut \in Int /\ rate.lastPeriod \in Nat /\ rate.prev \in Int
      /\ rate.seg.base \in Nat /\ rate.seg.start \in Nat /\ to \in Nat
  BY RateAssumption DEF RateKept, RateGrid
<1>4. p \in Nat /\ p = rate.count * rate.to /\ 0 * to = 0
  BY <1>3
<1> HIDE DEF u, p
<1>5. /\ DOMAIN u = RateFields /\ u.base = rate.base + p /\ u.count = 0 /\ u.to = to
      /\ u.lost = rate.lost + rate.held /\ u.pushes = {} /\ u.accepted = {} /\ u.prev = NoTime /\ u.held = 0
      /\ \A x \in RateFields \ {"from", "base", "count", "to", "last", "lost", "pushes", "accepted", "prev", "held"} :
           u[x] = rate[x]
  BY <1>2 DEF RateKept, RateFields
<1>6. /\ u.next = rate.next /\ u.seg = rate.seg /\ u.lastOut = rate.lastOut /\ u.lastPeriod = rate.lastPeriod
      /\ u.in = rate.in /\ u.out = rate.out /\ u.drop = rate.drop /\ u.dup = rate.dup /\ u.ended = rate.ended
      /\ u.delay = rate.delay /\ u.accum = rate.accum /\ u.prevTs = rate.prevTs /\ u.invoked = rate.invoked
      /\ u.spaced = rate.spaced
  BY <1>5 DEF RateFields
<1>7. RateGrid(u)
  <2>1. u.next # NoTime => u.next = u.seg.base + u.seg.start + u.base + u.count * u.to /\ u.next >= u.seg.base
    BY <1>3, <1>4, <1>5, <1>6 DEF RateKept, RateGrid
  <2>2. u.lastOut # NoTime => u.lastOut >= 0 /\ u.next = u.lastOut + u.lastPeriod
    BY <1>6 DEF RateKept, RateGrid
  <2>3. u.base \in Int /\ u.count \in Nat /\ u.to \in Nat /\ u.prev \in Int /\ u.next \in Int
    BY <1>3, <1>4, <1>5, <1>6 DEF NoTime
  <2> QED
    BY <1>3, <1>5, <1>6, <2>1, <2>2, <2>3 DEF RateGrid
<1>8. RateSum(u)
  BY <1>1, <1>5, <1>6 DEF RateKept, RateSum
<1>9. RateHeld(u) /\ RatePushed(u)
  BY <1>5 DEF RateHeld, RatePushed
<1>10. RateCalm(u)
  BY <1>6 DEF RateKept, RateCalm
<1>11. RateFollows(rate, u)
  BY <1>5 DEF RateFollows
<1> QED
  BY <1>1, <1>5, <1>7, <1>8, <1>9, <1>10, <1>11 DEF RateKept, u

\* A segment is closed up and the next begins.
LEMMA RateSegmentKeeps ==
  ASSUME RateKept(rate), RateSegment
  PROVE  RateKept(rate') /\ RateFollows(rate, rate')
<1> DEFINE n == IF rate.seg.stop = NoTime THEN 1 ELSE RateMax(1, FillCount(rate))
           p == FlushPrev(rate, n)
           closed == IF rate.prev = NoTime THEN [rate EXCEPT !.pushes = {}]
                     ELSE SwapPrev([p EXCEPT !.dup = @ + n - 1], NoTime, 0)
<1>1. PICK s \in RateSegments :
        /\ rate.to # 0 /\ rate.ended = "no"
        /\ rate' = [closed EXCEPT !.base = 0, !.count = 0, !.next = NoTime, !.seg = s,
                                  !.accepted = {}, !.lastOut = NoTime]
  BY DEF RateSegment
<1>2. DOMAIN rate = RateFields /\ RateGrid(rate) /\ RateSum(rate) /\ RateCalm(rate)
  BY DEF RateKept
<1>3. /\ rate.to \in Nat /\ rate.lastPeriod \in Nat /\ rate.prev \in Int
      /\ rate.prev # NoTime => rate.next # NoTime
  BY <1>2 DEF RateGrid
<1>4. /\ rate.in \in Int /\ rate.out \in Int /\ rate.drop \in Int /\ rate.dup \in Int /\ rate.lost \in Int
      /\ rate.in + rate.dup = rate.out + rate.drop + (IF rate.prev = NoTime THEN 0 ELSE 1) + rate.lost
      /\ rate.held = (IF rate.prev = NoTime THEN 0 ELSE 1)
  BY <1>1, <1>2 DEF RateSum
<1> HIDE DEF p
<1>5. /\ DOMAIN closed = RateFields /\ closed.prev = NoTime /\ closed.held = 0
      /\ closed.dup - closed.out = rate.dup - rate.out - rate.held /\ closed.dup \in Int /\ closed.out \in Int
      /\ closed.lastPeriod \in Nat /\ RateFollows(rate, closed)
      /\ \A x \in {"in", "drop", "lost", "to", "delay", "accum", "prevTs", "invoked", "spaced", "ended"} :
           closed[x] = rate[x]
  <2>1. CASE rate.prev = NoTime
    <3>1. closed = [rate EXCEPT !.pushes = {}]
      BY <2>1
    <3> HIDE DEF closed
    <3>2. DOMAIN closed = RateFields /\ closed.pushes = {} /\ \A x \in RateFields \ {"pushes"} : closed[x] = rate[x]
      BY <1>2, <3>1 DEF RateFields
    <3>3. /\ closed.prev = rate.prev /\ closed.held = rate.held /\ closed.dup = rate.dup /\ closed.out = rate.out
          /\ closed.lastPeriod = rate.lastPeriod
          /\ \A x \in {"in", "drop", "lost", "to", "delay", "accum", "prevTs", "invoked", "spaced", "ended"} :
               closed[x] = rate[x]
      BY <3>2 DEF RateFields
    <3> QED
      BY <1>3, <1>4, <2>1, <3>2, <3>3 DEF RateFollows
  <2>2. CASE rate.prev # NoTime
    <3>1. n \in Nat /\ n >= 1
      <4>1. CASE rate.seg.stop = NoTime
        BY <4>1
      <4>2. CASE rate.seg.stop # NoTime
        <5>1. FillCount(rate) \in Nat
          BY <1>2, <1>3, <2>2, <4>2, FillCountDoes
        <5> QED
          BY <4>2, <5>1 DEF RateMax
      <4> QED
        BY <4>1, <4>2
    <3> HIDE DEF n
    <3>2. RateFlushed(rate, n, p)
      BY <1>2, FlushDoes DEF p
    <3>3. p.lastPeriod \in Nat /\ (p.pushes = {} \/ \E q \in p.pushes : q[1] = rate.next)
      BY <1>2, <1>3, <2>2, <3>1, <3>2, FlushGrid
    <3>4. closed = [[p EXCEPT !.dup = @ + n - 1] EXCEPT !.prev = NoTime, !.held = 0]
      BY <2>2 DEF SwapPrev
    <3> HIDE DEF closed
    <3>5. DOMAIN p = RateFields /\ p.out = rate.out + n /\ p.dup = rate.dup
          /\ \A x \in {"in", "drop", "lost", "to", "delay", "accum", "prevTs", "invoked", "spaced", "ended"} :
               p[x] = rate[x]
      BY <3>2 DEF RateFlushed, RateFields
    <3>6. /\ DOMAIN closed = RateFields /\ closed.prev = NoTime /\ closed.held = 0 /\ closed.dup = p.dup + n - 1
          /\ \A x \in RateFields \ {"prev", "held", "dup"} : closed[x] = p[x]
      BY <3>4, <3>5 DEF RateFields
    <3>7. closed.out = p.out /\ closed.lastPeriod = p.lastPeriod /\ closed.pushes = p.pushes
          /\ \A x \in {"in", "drop", "lost", "to", "delay", "accum", "prevTs", "invoked", "spaced", "ended"} :
               closed[x] = rate[x]
      BY <3>5, <3>6 DEF RateFields
    <3>8. RateFollows(rate, closed)
      BY <1>3, <2>2, <3>3, <3>7 DEF RateFollows
    <3> QED
      BY <1>4, <2>2, <3>1, <3>3, <3>5, <3>6, <3>7, <3>8
  <2> QED
    BY <2>1, <2>2
<1> DEFINE u == [closed EXCEPT !.base = 0, !.count = 0, !.next = NoTime, !.seg = s, !.accepted = {}, !.lastOut = NoTime]
<1>6. rate' = u
  BY <1>1
<1> HIDE DEF closed
<1>7. /\ DOMAIN u = RateFields /\ u.base = 0 /\ u.count = 0 /\ u.next = NoTime /\ u.seg = s /\ u.accepted = {}
      /\ u.lastOut = NoTime
      /\ \A x \in RateFields \ {"base", "count", "next", "seg", "accepted", "lastOut"} : u[x] = closed[x]
  BY <1>5 DEF RateFields
<1> HIDE DEF u
<1>8. /\ u.prev = NoTime /\ u.held = 0 /\ u.dup = closed.dup /\ u.out = closed.out /\ u.lastPeriod = closed.lastPeriod
      /\ u.pushes = closed.pushes /\ u.in = rate.in /\ u.drop = rate.drop /\ u.lost = rate.lost /\ u.to = rate.to
      /\ u.delay = rate.delay /\ u.accum = rate.accum /\ u.prevTs = rate.prevTs /\ u.invoked = rate.invoked
      /\ u.spaced = rate.spaced /\ u.ended = rate.ended
  BY <1>5, <1>7 DEF RateFields
<1>9. RateGrid(u)
  BY <1>3, <1>5, <1>7, <1>8 DEF RateGrid, NoTime
<1>10. RateSum(u)
  <2>1. u.held \in Int /\ rate.held \in Int
    BY <1>4, <1>8
  <2>2. rate.in + rate.dup = rate.out + rate.drop + rate.held + rate.lost
    BY <1>4
  <2>3. u.in + u.dup = u.out + u.drop + u.held + u.lost
    BY <1>4, <1>5, <1>8, <2>1, <2>2
  <2> QED
    BY <1>4, <1>5, <1>8, <2>1, <2>3 DEF RateSum
<1>11. RateHeld(u) /\ RatePushed(u)
  BY <1>7 DEF RateHeld, RatePushed
<1>12. RateCalm(u)
  BY <1>2, <1>8 DEF RateCalm
<1>13. RateFollows(rate, u)
  BY <1>5, <1>8 DEF RateFollows
<1> QED
  BY <1>6, <1>7, <1>9, <1>10, <1>11, <1>12, <1>13 DEF RateKept

\* The end of the stream: the frame held is pushed as often as the segment needs.
LEMMA RateEosKeeps ==
  ASSUME RateKept(rate), RateEos
  PROVE  RateKept(rate') /\ RateFollows(rate, rate')
<1> DEFINE n == IF rate.seg.stop # NoTime
                THEN IF rate.next = NoTime THEN 0 ELSE FillCount(rate)
                ELSE IF rate.prev = NoTime THEN 0 ELSE 1
           dup == IF n > 1 THEN n - 1 ELSE 0
           p == FlushPrev(rate, n)
           more == IF n > 0 THEN MagicLimit ELSE 0
           end == IF n = 0 THEN "yes" ELSE "empty"
<1>1. /\ rate.to # 0 /\ rate.ended = "no"
      /\ rate' = IF rate.prev # NoTime
                 THEN [p EXCEPT !.dup = @ + dup, !.ended = "yes"]
                 ELSE [rate EXCEPT !.pushes = {}, !.dup = @ + more, !.ended = end]
  BY DEF RateEos
<1>2. DOMAIN rate = RateFields /\ RateGrid(rate) /\ RateSum(rate) /\ RateHeld(rate) /\ RateCalm(rate)
  BY DEF RateKept
<1>3. /\ rate.to \in Nat /\ rate.prev \in Int /\ rate.next \in Int /\ rate.base \in Int /\ rate.seg \in RateSegments
      /\ rate.lastPeriod \in Nat /\ rate.lastOut \in Int /\ rate.count \in Nat
      /\ rate.prev # NoTime => rate.next # NoTime
      /\ rate.next # NoTime => rate.next >= rate.seg.base
      /\ rate.seg.base \in Nat /\ MagicLimit \in Nat
  BY <1>2, RateAssumption DEF RateGrid
<1>4. /\ rate.in \in Int /\ rate.out \in Int /\ rate.drop \in Int /\ rate.dup \in Int /\ rate.lost \in Int
      /\ rate.held = (IF rate.prev = NoTime THEN 0 ELSE 1) /\ rate.held \in Int
      /\ rate.in + rate.dup = rate.out + rate.drop + rate.held + rate.lost
  BY <1>1, <1>2 DEF RateSum
<1>5. n \in Nat
  <2>1. CASE rate.seg.stop # NoTime /\ rate.next # NoTime
    <3>1. FillCount(rate) \in Nat
      BY <1>2, <2>1, FillCountDoes
    <3> QED
      BY <2>1, <3>1
  <2>2. CASE ~(rate.seg.stop # NoTime /\ rate.next # NoTime)
    BY <2>2
  <2> QED
    BY <2>1, <2>2
<1> HIDE DEF n, p
<1>6. CASE rate.prev = NoTime
  <2> DEFINE u == [rate EXCEPT !.pushes = {}, !.dup = @ + more, !.ended = end]
  <2>1. rate' = u
    BY <1>1, <1>6
  <2>2. more \in Int /\ (end = "yes" => more = 0) /\ end \in {"yes", "empty"}
    BY <1>3, <1>5
  <2> HIDE DEF more, end
  <2>3. /\ DOMAIN u = RateFields /\ u.pushes = {} /\ u.dup = rate.dup + more /\ u.ended = end
        /\ \A x \in RateFields \ {"pushes", "dup", "ended"} : u[x] = rate[x]
    BY <1>2 DEF RateFields
  <2> HIDE DEF u
  <2>4. /\ u.count = rate.count /\ u.base = rate.base /\ u.next = rate.next /\ u.to = rate.to /\ u.seg = rate.seg
        /\ u.lastOut = rate.lastOut /\ u.lastPeriod = rate.lastPeriod /\ u.prev = rate.prev /\ u.in = rate.in
        /\ u.out = rate.out /\ u.drop = rate.drop /\ u.held = rate.held /\ u.lost = rate.lost
        /\ u.accepted = rate.accepted /\ u.delay = rate.delay /\ u.accum = rate.accum /\ u.prevTs = rate.prevTs
        /\ u.invoked = rate.invoked /\ u.spaced = rate.spaced
    BY <2>3 DEF RateFields
  <2>5. RateGrid(u)
    BY <1>2, <2>4 DEF RateGrid
  <2>6. RateSum(u)
    BY <1>4, <2>2, <2>3, <2>4 DEF RateSum
  <2>7. RateHeld(u) /\ RatePushed(u) /\ RateCalm(u)
    BY <1>2, <2>3, <2>4 DEF RateHeld, RatePushed, RateCalm
  <2>8. RateFollows(rate, u)
    BY <2>3 DEF RateFollows
  <2> QED
    BY <2>1, <2>3, <2>5, <2>6, <2>7, <2>8 DEF RateKept
<1>7. CASE rate.prev # NoTime
  <2> DEFINE u == [p EXCEPT !.dup = @ + dup, !.ended = "yes"]
  <2>1. rate' = u
    BY <1>1, <1>7
  <2>2. dup \in Nat /\ dup + (IF n > 0 THEN 0 ELSE 1) = n - (IF n > 0 THEN 1 ELSE 0) + (IF n > 0 THEN 0 ELSE 1)
    BY <1>5
  <2> HIDE DEF dup
  <2>3. RateFlushed(rate, n, p)
    BY <1>2, FlushDoes DEF p
  <2>4. /\ p.count \in Nat /\ p.next \in Int /\ p.next = p.seg.base + p.seg.start + p.base + p.count * p.to
        /\ p.next >= rate.next /\ p.next # NoTime /\ p.lastOut \in Int /\ p.lastPeriod \in Nat
        /\ p.lastOut # NoTime => p.lastOut >= 0 /\ p.next = p.lastOut + p.lastPeriod
        /\ p.pushes = {} \/ \E q \in p.pushes : q[1] = rate.next
        /\ p.base = rate.base /\ p.seg = rate.seg /\ p.to = rate.to /\ p.prev = rate.prev
    BY <1>2, <1>3, <1>5, <1>7, <2>3, FlushGrid
  <2>5. /\ DOMAIN p = RateFields /\ p.out = rate.out + n /\ p.held = (IF n > 0 THEN 0 ELSE rate.held)
        /\ p.pushes = {<<NextTs(rate, k), rate.prev>> : k \in 0..(n - 1)}
        /\ p.in = rate.in /\ p.drop = rate.drop /\ p.dup = rate.dup /\ p.lost = rate.lost /\ p.accepted = rate.accepted
        /\ p.delay = rate.delay /\ p.accum = rate.accum /\ p.prevTs = rate.prevTs
        /\ p.invoked = rate.invoked /\ p.spaced = rate.spaced
    BY <2>3 DEF RateFlushed, RateFields
  <2>6. /\ DOMAIN u = RateFields /\ u.dup = p.dup + dup /\ u.ended = "yes"
        /\ \A x \in RateFields \ {"dup", "ended"} : u[x] = p[x]
    BY <2>5 DEF RateFields
  <2> HIDE DEF u
  <2>7. /\ u.count = p.count /\ u.base = p.base /\ u.next = p.next /\ u.to = p.to /\ u.seg = p.seg
        /\ u.lastOut = p.lastOut /\ u.lastPeriod = p.lastPeriod /\ u.prev = p.prev /\ u.in = p.in
        /\ u.out = p.out /\ u.drop = p.drop /\ u.held = p.held /\ u.lost = p.lost /\ u.pushes = p.pushes
        /\ u.accepted = p.accepted /\ u.delay = p.delay /\ u.accum = p.accum /\ u.prevTs = p.prevTs
        /\ u.invoked = p.invoked /\ u.spaced = p.spaced
    BY <2>6 DEF RateFields
  <2>8. RateGrid(u)
    <3>1. u.next >= u.seg.base
      BY <1>3, <1>7, <2>4, <2>7
    <3> QED
      BY <1>3, <2>4, <2>7, <3>1 DEF RateGrid
  <2>9. RateSum(u)
    <3>1. u.held \in Int /\ rate.held = 1
      BY <1>4, <1>7, <2>5, <2>7
    <3>2. u.in + u.dup = u.out + u.drop + u.held + u.lost
      <4>1. CASE n > 0
        <5>1. u.held = 0 /\ u.out = rate.out + n /\ u.dup = rate.dup + dup /\ dup = n - 1
          BY <1>5, <2>2, <2>5, <2>6, <2>7, <4>1
        <5>2. u.in = rate.in /\ u.drop = rate.drop /\ u.lost = rate.lost
          BY <2>5, <2>7
        <5>3. /\ rate.in + rate.dup = rate.out + rate.drop + 1 + rate.lost
              /\ rate.in \in Int /\ rate.out \in Int /\ rate.drop \in Int /\ rate.dup \in Int /\ rate.lost \in Int
          BY <1>4, <3>1
        <5>4. u.in + u.dup = rate.in + rate.dup + n - 1
          BY <1>5, <5>1, <5>2, <5>3
        <5>5. u.out + u.drop + u.held + u.lost = rate.out + rate.drop + rate.lost + n
          BY <1>5, <5>1, <5>2, <5>3
        <5> QED
          BY <1>5, <5>3, <5>4, <5>5
      <4>2. CASE ~(n > 0)
        BY <1>4, <1>5, <2>2, <2>5, <2>6, <2>7, <3>1, <4>2
      <4> QED
        BY <4>1, <4>2
    <3> QED
      BY <1>4, <1>5, <2>2, <2>5, <2>6, <2>7, <3>1, <3>2 DEF RateSum
  <2>10. rate.accepted \subseteq Int /\ \A b \in rate.accepted : b <= rate.prev /\ (b < rate.prev => 2 * rate.next > b + rate.prev)
    BY <1>2 DEF RateHeld
  <2>11. RateHeld(u)
    <3>1. ASSUME NEW b \in rate.accepted
          PROVE  b <= rate.prev /\ (b < rate.prev => 2 * p.next > b + rate.prev)
      <4>1. b \in Int /\ b <= rate.prev /\ (b < rate.prev => 2 * rate.next > b + rate.prev)
        BY <2>10
      <4> QED
        BY <1>3, <2>4, <4>1
    <3> QED
      BY <1>7, <2>4, <2>5, <2>7, <2>10, <3>1 DEF RateHeld
  <2>12. RatePushed(u)
    <3> SUFFICES ASSUME NEW k \in 0..(n - 1), NEW b \in rate.accepted
                 PROVE  LET y == NextTs(rate, k)
                        IN \/ RateAbs(rate.prev, y) < RateAbs(b, y)
                           \/ RateAbs(rate.prev, y) = RateAbs(b, y) /\ rate.prev <= b
      BY <2>5, <2>7 DEF RatePushed
    <3> DEFINE y == NextTs(rate, k)
    <3>1. k \in Nat /\ y \in Int /\ y >= rate.next
      <4>1. k \in Nat
        BY <1>5
      <4>2. k * rate.to \in Nat
        BY <1>3, <4>1
      <4> QED
        BY <1>2, <1>3, <1>7, <4>1, <4>2, NextTimes
    <3> HIDE DEF y
    <3>2. b \in Int /\ b <= rate.prev /\ (b < rate.prev => 2 * rate.next > b + rate.prev)
      BY <2>10
    <3>3. \/ RateAbs(rate.prev, y) < RateAbs(b, y)
          \/ RateAbs(rate.prev, y) = RateAbs(b, y) /\ rate.prev <= b
      BY <1>3, <3>1, <3>2, NearestLater
    <3> QED
      BY <3>3 DEF y
  <2>13. RateCalm(u)
    BY <1>2, <2>5, <2>7 DEF RateCalm
  <2>14. RateFollows(rate, u)
    BY <1>3, <1>7, <2>4, <2>7 DEF RateFollows
  <2> QED
    BY <2>1, <2>6, <2>8, <2>9, <2>11, <2>12, <2>13, <2>14 DEF RateKept
<1> QED
  BY <1>6, <1>7

\* gst_tensor_rate_reset begins anew; what the filter summed up stays.
LEMMA ResetKeeps ==
  ASSUME NEW r, DOMAIN r = RateFields, RateCalm(r), r.to \in Nat, r.seg \in RateSegments
  PROVE  RateKept(RateReset(r)) /\ RateFollows(r, RateReset(r))
<1> DEFINE u == RateReset(r)
<1>1. u = [r EXCEPT !.in = 0, !.out = 0, !.drop = 0, !.dup = 0, !.count = 0,
                    !.base = 0, !.next = NoTime, !.last = NoTime, !.prev = NoTime,
                    !.sentQos = FALSE, !.lost = 0, !.held = 0, !.pushes = {},
                    !.accepted = {}, !.lastOut = NoTime, !.lastPeriod = 0, !.ended = "no"]
  BY DEF RateReset
<1> HIDE DEF u
<1>2. /\ DOMAIN u = RateFields /\ u.in = 0 /\ u.out = 0 /\ u.drop = 0 /\ u.dup = 0 /\ u.count = 0 /\ u.base = 0
      /\ u.next = NoTime /\ u.prev = NoTime /\ u.lost = 0 /\ u.held = 0 /\ u.pushes = {} /\ u.accepted = {}
      /\ u.lastOut = NoTime /\ u.lastPeriod = 0 /\ u.ended = "no"
      /\ u.to = r.to /\ u.seg = r.seg /\ u.delay = r.delay /\ u.accum = r.accum /\ u.prevTs = r.prevTs
      /\ u.invoked = r.invoked /\ u.spaced = r.spaced
  BY <1>1 DEF RateFields
<1>3. RateGrid(u)
  BY <1>2 DEF RateGrid, NoTime
<1>4. RateSum(u) /\ RateHeld(u) /\ RatePushed(u)
  BY <1>2 DEF RateSum, RateHeld, RatePushed, NoTime
<1>5. RateCalm(u)
  BY <1>2 DEF RateCalm
<1>6. RateFollows(r, u)
  BY <1>2 DEF RateFollows
<1> QED
  BY <1>2, <1>3, <1>4, <1>5, <1>6 DEF RateKept, u

\* The invariant of tensor_rate holds at first.
LEMMA RateInitKept ==
  ASSUME RateInit
  PROVE  RateKept(rate)
<1>1. PICK s \in RateSegments : rate = RateReset(
        [in |-> 0, out |-> 0, drop |-> 0, dup |-> 0, count |-> 0, base |-> 0,
         next |-> NoTime, last |-> NoTime, prev |-> NoTime, sentQos |-> FALSE,
         from |-> 0, to |-> 0, seg |-> s, now |-> 0, total |-> 0,
         lost |-> 0, held |-> 0, pushes |-> {}, accepted |-> {},
         lastOut |-> NoTime, lastPeriod |-> 0, ended |-> "no",
         delay |-> 0, accum |-> 0, prevTs |-> NoTime,
         invoked |-> NoTime, spaced |-> TRUE])
  BY DEF RateInit
<1> DEFINE r == [in |-> 0, out |-> 0, drop |-> 0, dup |-> 0, count |-> 0, base |-> 0,
                 next |-> NoTime, last |-> NoTime, prev |-> NoTime, sentQos |-> FALSE,
                 from |-> 0, to |-> 0, seg |-> s, now |-> 0, total |-> 0,
                 lost |-> 0, held |-> 0, pushes |-> {}, accepted |-> {},
                 lastOut |-> NoTime, lastPeriod |-> 0, ended |-> "no",
                 delay |-> 0, accum |-> 0, prevTs |-> NoTime,
                 invoked |-> NoTime, spaced |-> TRUE]
<1>2. DOMAIN r = RateFields
  BY DEF RateFields
<1>3. /\ r.delay = 0 /\ r.accum = 0 /\ r.prevTs = NoTime /\ r.invoked = NoTime /\ r.spaced /\ r.to = 0 /\ r.seg = s
  OBVIOUS
<1>4. rate = RateReset(r)
  BY <1>1
<1> HIDE DEF r
<1>5. RateCalm(r)
  BY <1>3 DEF RateCalm, NoTime
<1>6. r.to \in Nat /\ r.seg \in RateSegments
  BY <1>3
<1> QED
  BY <1>2, <1>4, <1>5, <1>6, ResetKeeps

\* Every step of tensor_rate keeps the invariant and goes on with the next time stamp.
LEMMA RateStep ==
  ASSUME RateKept(rate), RateNext
  PROVE  RateKept(rate') /\ RateFollows(rate, rate')
<1>1. CASE RateFlush
  <2>1. DOMAIN rate = RateFields /\ RateCalm(rate) /\ rate.to \in Nat /\ rate.seg \in RateSegments
    BY DEF RateKept, RateGrid
  <2> QED
    BY <1>1, <2>1, ResetKeeps DEF RateFlush
<1> QED
  BY <1>1, RateBufferKeeps, RateCapsKeeps, RateSegmentKeeps, RateEosKeeps DEF RateNext

\* What the invariant says of tensor_rate at rest.
LEMMA RateImplies ==
  ASSUME rate # Absent => RateKept(rate)
  PROVE  RateCorrect
<1>1. RateAccounts
  BY DEF RateAccounts, RateKept, RateSum
<1>2. RateNearest
  BY DEF RateNearest, RateKept, RatePushed
<1>3. RateThrottled
  BY DEF RateThrottled, RateKept, RateCalm
<1> QED
  BY <1>1, <1>2, <1>3 DEF RateCorrect

-----------------------------------------------------------------------------
(* tensor_sink                                                             *)

SinkFields ==
  {"signal_rate", "emit_signal", "last_render_time", "clock", "time", "pc", "rate", "now", "notify", "sent", "signal"}

\* The numbers of tensor_sink.
SinkNumbers(s) ==
  /\ s.signal_rate \in Nat /\ s.rate \in Nat /\ s.time \in Nat
  /\ s.last_render_time \in Nat \cup {NoRender} /\ s.sent \in Nat \cup {NoRender}

\* The time kept is not before the last signal of a limited buffer.
SinkBehind(s) == s.sent # NoRender => s.last_render_time # NoRender /\ s.last_render_time >= s.sent

\* A buffer that is to be signalled carries the time kept, an interval after the last.
SinkDue(s) ==
  /\ s.rate = 0 => s.now = NoRender
  /\ s.rate # 0 => /\ s.now = s.last_render_time /\ s.now \in Nat
                   /\ s.sent # NoRender => s.now >= s.sent + SinkSecond \div s.rate

SinkInv ==
  /\ DOMAIN snk = SinkFields /\ SinkNumbers(snk)
  /\ snk.clock \in BOOLEAN /\ snk.emit_signal \in BOOLEAN /\ snk.notify \in BOOLEAN
  /\ IF snk.pc = "emit" /\ snk.notify THEN SinkDue(snk) ELSE SinkBehind(snk)

\* A signal comes an interval after the last.
SinkApart ==
  snk'.signal /\ snk.sent # NoRender /\ snk'.sent # NoRender => snk'.sent - snk.sent >= SinkSecond \div snk.rate

\* The invariant of tensor_sink holds at first.
LEMMA SinkInitInv ==
  ASSUME SinkInit
  PROVE  SinkInv
<1>1. PICK clock \in BOOLEAN :
        snk = [signal_rate |-> 0, emit_signal |-> TRUE, last_render_time |-> NoRender,
               clock |-> clock, time |-> 0, pc |-> "idle", rate |-> 0, now |-> NoRender,
               notify |-> FALSE, sent |-> NoRender, signal |-> FALSE]
  BY DEF SinkInit
<1>2. DOMAIN snk = SinkFields
  BY <1>1 DEF SinkFields
<1>3. /\ snk.signal_rate = 0 /\ snk.rate = 0 /\ snk.time = 0 /\ snk.last_render_time = NoRender /\ snk.sent = NoRender
      /\ snk.pc = "idle"
  BY <1>1
<1>4. snk.emit_signal = TRUE /\ snk.clock = clock /\ snk.notify = FALSE
  BY <1>1, Zenon
<1>5. snk.emit_signal \in BOOLEAN /\ snk.clock \in BOOLEAN /\ snk.notify \in BOOLEAN
  BY <1>1, <1>4, Zenon
<1>6. SinkNumbers(snk) /\ SinkBehind(snk) /\ snk.pc # "emit"
  BY <1>3 DEF SinkNumbers, SinkBehind
<1> QED
  BY <1>2, <1>5, <1>6, Zenon DEF SinkInv

\* Every step of tensor_sink, and of the application that changes its properties, keeps
\* the invariant and the distance of the signals.
LEMMA SinkStep ==
  ASSUME SinkInv, SinkNext
  PROVE  SinkInv' /\ SinkApart
<1> DEFINE s == snk
           t == snk'
<1>1. DOMAIN s = SinkFields /\ SinkNumbers(s)
  BY DEF SinkInv
<1>2. s.emit_signal \in BOOLEAN /\ s.clock \in BOOLEAN /\ s.notify \in BOOLEAN
  BY DEF SinkInv
<1>3. IF s.pc = "emit" /\ s.notify THEN SinkDue(s) ELSE SinkBehind(s)
  BY DEF SinkInv
<1>4. SinkSecond \in Nat /\ SinkRates \subseteq Nat
  BY RateAssumption
<1>q. ASSUME DOMAIN t = SinkFields, SinkNumbers(t), t.clock \in BOOLEAN, t.emit_signal \in BOOLEAN, t.notify \in BOOLEAN,
             IF t.pc = "emit" /\ t.notify THEN SinkDue(t) ELSE SinkBehind(t), SinkApart
      PROVE  SinkInv' /\ SinkApart
  BY <1>q, Zenon DEF SinkInv
<1>5. ASSUME DOMAIN t = SinkFields, ~t.signal, SinkNumbers(t), t.emit_signal \in BOOLEAN,
             \A x \in SinkFields \ {"signal_rate", "emit_signal", "time", "signal"} : t[x] = s[x]
      PROVE  SinkInv' /\ SinkApart
  <2>1. /\ t.last_render_time = s.last_render_time /\ t.sent = s.sent /\ t.pc = s.pc /\ t.clock = s.clock
        /\ t.rate = s.rate /\ t.now = s.now /\ t.notify = s.notify
    BY <1>5 DEF SinkFields
  <2> HIDE DEF s, t
  <2>2. (SinkDue(s) => SinkDue(t)) /\ (SinkBehind(s) => SinkBehind(t))
    BY <2>1 DEF SinkDue, SinkBehind
  <2>3. t.clock \in BOOLEAN /\ t.notify \in BOOLEAN
    BY <1>2, <2>1, Zenon
  <2>4. IF t.pc = "emit" /\ t.notify THEN SinkDue(t) ELSE SinkBehind(t)
    BY <1>3, <2>1, <2>2, Zenon
  <2>5. SinkApart
    BY <1>5, Zenon DEF SinkApart, t
  <2> QED
    BY <1>5, <1>q, <2>3, <2>4, <2>5, Zenon
<1>6. CASE SinkTick
  <2>1. t = [s EXCEPT !.time = @ + 1, !.signal = FALSE]
    BY <1>6 DEF SinkTick
  <2> HIDE DEF s, t
  <2>2. /\ DOMAIN t = SinkFields /\ t.time = s.time + 1 /\ t.signal_rate = s.signal_rate /\ t.rate = s.rate
        /\ t.last_render_time = s.last_render_time /\ t.sent = s.sent
        /\ \A x \in SinkFields \ {"signal_rate", "emit_signal", "time", "signal"} : t[x] = s[x]
    BY <1>1, <2>1 DEF SinkFields
  <2>3. t.emit_signal = s.emit_signal /\ t.signal = FALSE
    BY <1>1, <2>1 DEF SinkFields
  <2>4. t.emit_signal \in BOOLEAN /\ ~t.signal
    BY <1>2, <2>3, Zenon
  <2>5. SinkNumbers(t)
    BY <1>1, <2>2 DEF SinkNumbers
  <2> QED
    BY <1>5, <2>2, <2>4, <2>5, Zenon
<1>7. CASE SetSignalRate
  <2>1. PICK r \in SinkRates : t = [s EXCEPT !.signal_rate = r, !.signal = FALSE]
    BY <1>7 DEF SetSignalRate
  <2> HIDE DEF s, t
  <2>2. /\ DOMAIN t = SinkFields /\ t.time = s.time /\ t.signal_rate = r /\ t.rate = s.rate
        /\ t.last_render_time = s.last_render_time /\ t.sent = s.sent
        /\ \A x \in SinkFields \ {"signal_rate", "emit_signal", "time", "signal"} : t[x] = s[x]
    BY <1>1, <2>1 DEF SinkFields
  <2>3. t.emit_signal = s.emit_signal /\ t.signal = FALSE
    BY <1>1, <2>1 DEF SinkFields
  <2>4. t.emit_signal \in BOOLEAN /\ ~t.signal
    BY <1>2, <2>3, Zenon
  <2>5. SinkNumbers(t)
    BY <1>1, <1>4, <2>2 DEF SinkNumbers
  <2> QED
    BY <1>5, <2>2, <2>4, <2>5, Zenon
<1>8. CASE SetEmitSignal
  <2> DEFINE e == ~s.emit_signal
  <2>1. t = [s EXCEPT !.emit_signal = e, !.signal = FALSE]
    BY <1>8 DEF SetEmitSignal
  <2>2. e \in BOOLEAN
    BY Zenon
  <2> HIDE DEF s, t, e
  <2>3. /\ DOMAIN t = SinkFields /\ t.time = s.time /\ t.signal_rate = s.signal_rate /\ t.rate = s.rate
        /\ t.last_render_time = s.last_render_time /\ t.sent = s.sent
        /\ \A x \in SinkFields \ {"signal_rate", "emit_signal", "time", "signal"} : t[x] = s[x]
    BY <1>1, <2>1 DEF SinkFields
  <2>4. t.emit_signal = e /\ t.signal = FALSE
    BY <1>1, <2>1 DEF SinkFields
  <2>5. t.emit_signal \in BOOLEAN /\ ~t.signal
    BY <2>2, <2>4, Zenon
  <2>6. SinkNumbers(t)
    BY <1>1, <2>3 DEF SinkNumbers
  <2> QED
    BY <1>5, <2>3, <2>5, <2>6, Zenon
<1>9. CASE RenderRate
  <2>1. s.pc = "idle" /\ t = [s EXCEPT !.pc = "time", !.rate = snk.signal_rate, !.now = NoRender,
                                       !.notify = FALSE, !.signal = FALSE]
    BY <1>9 DEF RenderRate
  <2>2. t = [s EXCEPT !.pc = "time", !.rate = s.signal_rate, !.now = NoRender, !.notify = FALSE, !.signal = FALSE]
    BY <2>1
  <2> HIDE DEF s, t
  <2>3. /\ DOMAIN t = SinkFields /\ t.time = s.time /\ t.signal_rate = s.signal_rate /\ t.rate = s.signal_rate
        /\ t.last_render_time = s.last_render_time /\ t.sent = s.sent /\ t.pc = "time"
    BY <1>1, <2>2 DEF SinkFields
  <2>4. t.emit_signal = s.emit_signal /\ t.clock = s.clock /\ t.notify = FALSE /\ t.signal = FALSE
    BY <1>1, <2>2 DEF SinkFields
  <2>5. t.emit_signal \in BOOLEAN /\ t.clock \in BOOLEAN /\ t.notify \in BOOLEAN /\ ~t.signal /\ ~t.notify
    BY <1>2, <2>4, Zenon
  <2>6. SinkNumbers(t)
    BY <1>1, <2>3 DEF SinkNumbers
  <2>7. s.pc # "emit" /\ (SinkBehind(s) => SinkBehind(t))
    BY <2>1, <2>3 DEF SinkBehind
  <2>8. SinkApart
    BY <2>5, Zenon DEF SinkApart, t
  <2> QED
    BY <1>3, <1>q, <2>3, <2>5, <2>6, <2>7, <2>8, Zenon
<1>10. CASE RenderTime
  <2> DEFINE now == IF s.rate > 0 /\ s.clock THEN s.time ELSE NoRender
             late == s.last_render_time = NoRender \/ now >= s.last_render_time + SinkSecond \div s.rate
             notify == s.rate = 0 \/ (s.clock /\ late)
             last == IF notify THEN now ELSE s.last_render_time
  <2>1. s.pc = "time" /\ t = [s EXCEPT !.pc = "emit", !.now = now, !.notify = notify, !.signal = FALSE,
                                       !.last_render_time = IF notify THEN now ELSE @]
    BY <1>10 DEF RenderTime
  <2>n. notify \in BOOLEAN /\ notify = (s.rate = 0 \/ (s.clock /\ late))
    BY Zenon
  <2>b. SinkBehind(s)
    BY <1>3, <2>1, Zenon
  <2> HIDE DEF s, t, notify
  <2>2. t = [s EXCEPT !.pc = "emit", !.now = now, !.notify = notify, !.signal = FALSE, !.last_render_time = last]
    BY <2>1
  <2>3. /\ s.rate # 0 /\ s.clock => now = s.time
        /\ s.rate = 0 => now = NoRender
    BY <1>1 DEF SinkNumbers
  <2>4. now \in Nat \cup {NoRender}
    BY <1>1 DEF SinkNumbers
  <2> HIDE DEF now
  <2>5. last = (IF notify THEN now ELSE s.last_render_time)
    BY Zenon
  <2> HIDE DEF last, late
  <2>6. /\ DOMAIN t = SinkFields /\ t.time = s.time /\ t.signal_rate = s.signal_rate /\ t.rate = s.rate
        /\ t.last_render_time = last /\ t.sent = s.sent /\ t.pc = "emit" /\ t.now = now
    BY <1>1, <2>2 DEF SinkFields
  <2>7. t.emit_signal = s.emit_signal /\ t.clock = s.clock /\ t.notify = notify /\ t.signal = FALSE
    BY <1>1, <2>2 DEF SinkFields
  <2>8. t.emit_signal \in BOOLEAN /\ t.clock \in BOOLEAN /\ t.notify \in BOOLEAN /\ ~t.signal
    BY <1>2, <2>7, <2>n, Zenon
  <2>9. last \in Nat \cup {NoRender}
    BY <1>1, <2>4, <2>5 DEF SinkNumbers
  <2>10. SinkNumbers(t)
    BY <1>1, <2>6, <2>9 DEF SinkNumbers
  <2>11. SinkApart
    BY <2>8, Zenon DEF SinkApart, t
  <2>12. ASSUME notify
         PROVE  SinkDue(t)
    <3>1. last = now
      BY <2>5, <2>12, Zenon
    <3>2. CASE s.rate = 0
      BY <2>3, <2>6, <3>2 DEF SinkDue
    <3>3. CASE s.rate # 0
      <4>1. s.clock /\ late
        BY <2>n, <2>12, <3>3, Zenon
      <4>2. now = s.time /\ now \in Nat
        <5>1. now = s.time
          BY <2>3, <3>3, <4>1, Zenon
        <5> QED
          BY <1>1, <5>1 DEF SinkNumbers
      <4>3. s.last_render_time = NoRender \/ now >= s.last_render_time + SinkSecond \div s.rate
        BY <4>1 DEF late
      <4>4. SinkSecond \div s.rate \in Int
        BY <1>1, <1>4, <3>3 DEF SinkNumbers
      <4> DEFINE gap == SinkSecond \div s.rate
      <4> HIDE DEF gap
      <4>5. s.sent # NoRender => now >= s.sent + gap
        BY <1>1, <2>b, <4>2, <4>3, <4>4 DEF SinkBehind, SinkNumbers, gap
      <4> QED
        BY <2>6, <3>1, <3>3, <4>2, <4>5 DEF SinkDue, gap
    <3> QED
      BY <3>2, <3>3
  <2>13. ASSUME ~notify
         PROVE  SinkBehind(t)
    <3>1. last = s.last_render_time
      BY <2>5, <2>13, Zenon
    <3> QED
      BY <2>6, <2>b, <3>1 DEF SinkBehind
  <2>14. IF t.pc = "emit" /\ t.notify THEN SinkDue(t) ELSE SinkBehind(t)
    BY <2>6, <2>7, <2>12, <2>13, Zenon
  <2> QED
    BY <1>q, <2>6, <2>8, <2>10, <2>11, <2>14, Zenon
<1>11. CASE RenderEmit
  <2> DEFINE emit == s.notify /\ s.emit_signal
             clear == s.notify /\ s.rate = 0
             sent == IF emit \/ clear THEN s.now ELSE s.sent
  <2>1. s.pc = "emit" /\ t = [s EXCEPT !.pc = "idle", !.signal = emit,
                                       !.sent = IF emit \/ (s.notify /\ s.rate = 0) THEN s.now ELSE @]
    BY <1>11 DEF RenderEmit
  <2>2. t = [s EXCEPT !.pc = "idle", !.signal = emit, !.sent = sent]
    BY <2>1
  <2>e. emit = (s.notify /\ s.emit_signal)
    BY Zenon
  <2>c. clear = (s.notify /\ s.rate = 0)
    BY Zenon
  <2> HIDE DEF s, t, emit, clear
  <2>3. sent = (IF emit \/ clear THEN s.now ELSE s.sent)
    BY Zenon
  <2> HIDE DEF sent
  <2>4. /\ DOMAIN t = SinkFields /\ t.time = s.time /\ t.signal_rate = s.signal_rate /\ t.rate = s.rate
        /\ t.last_render_time = s.last_render_time /\ t.sent = sent /\ t.pc = "idle"
    BY <1>1, <2>2 DEF SinkFields
  <2>5. t.emit_signal = s.emit_signal /\ t.clock = s.clock /\ t.notify = s.notify /\ t.signal = emit
    BY <1>1, <2>2 DEF SinkFields
  <2>6. t.emit_signal \in BOOLEAN /\ t.clock \in BOOLEAN /\ t.notify \in BOOLEAN
    BY <1>2, <2>5, Zenon
  <2>7. s.notify => SinkDue(s)
    BY <1>3, <2>1, Zenon
  <2>8. ~s.notify => SinkBehind(s)
    BY <1>3, <2>1, Zenon
  <2>9. ~s.notify => sent = s.sent /\ ~emit
    BY <2>3, <2>e, <2>c, Zenon
  <2>10. s.notify /\ s.rate = 0 => sent = s.now
    BY <2>3, <2>c, Zenon
  <2>11. s.notify /\ emit => sent = s.now
    BY <2>3, Zenon
  <2>12. s.notify /\ s.rate # 0 /\ ~emit => sent = s.sent
    BY <2>3, <2>c, Zenon
  <2>13. CASE ~s.notify
    <3>1. SinkNumbers(t) /\ SinkBehind(t)
      <4>1. sent = s.sent /\ SinkBehind(s)
        BY <2>8, <2>9, <2>13, Zenon
      <4> QED
        BY <1>1, <2>4, <4>1 DEF SinkNumbers, SinkBehind
    <3>2. ~t.signal
      BY <2>5, <2>9, <2>13, Zenon
    <3>3. SinkApart
      BY <3>2, Zenon DEF SinkApart, t
    <3>4. t.pc # "emit"
      BY <2>4
    <3> QED
      BY <1>q, <2>4, <2>6, <3>1, <3>3, <3>4, Zenon
  <2>14. CASE s.notify
    <3>1. SinkDue(s)
      BY <2>7, <2>14, Zenon
    <3>2. CASE s.rate = 0
      <4>1. sent = NoRender
        <5>1. sent = s.now
          BY <2>10, <2>14, <3>2, Zenon
        <5> QED
          BY <3>1, <3>2, <5>1 DEF SinkDue
      <4>2. SinkNumbers(t) /\ SinkBehind(t) /\ t.pc # "emit"
        BY <1>1, <2>4, <4>1 DEF SinkNumbers, SinkBehind
      <4>3. SinkApart
        BY <2>4, <4>1 DEF SinkApart, t
      <4> QED
        BY <1>q, <2>4, <2>6, <4>2, <4>3, Zenon
    <3>3. CASE s.rate # 0
      <4> DEFINE gap == SinkSecond \div s.rate
      <4>1. gap \in Nat
        BY <1>1, <1>4, <3>3 DEF SinkNumbers
      <4>2. /\ s.now = s.last_render_time /\ s.now \in Nat /\ (s.sent # NoRender => s.now >= s.sent + gap)
            /\ s.sent \in Nat \cup {NoRender}
        BY <1>1, <3>1, <3>3 DEF SinkDue, SinkNumbers
      <4> HIDE DEF gap
      <4>3. sent \in {s.now, s.sent}
        BY <2>3
      <4>4. SinkNumbers(t) /\ SinkBehind(t) /\ t.pc # "emit"
        BY <1>1, <2>4, <4>1, <4>2, <4>3 DEF SinkNumbers, SinkBehind, NoRender
      <4>5. SinkApart
        <5>1. CASE emit
          <6>1. sent = s.now
            BY <2>11, <2>14, <5>1, Zenon
          <6>2. s.sent # NoRender => sent - s.sent >= gap
            BY <4>1, <4>2, <6>1 DEF NoRender
          <6> QED
            BY <2>4, <6>2 DEF SinkApart, t, s, gap
        <5>2. CASE ~emit
          BY <2>5, <5>2, Zenon DEF SinkApart, t
        <5> QED
          BY <5>1, <5>2
      <4> QED
        BY <1>q, <2>4, <2>6, <4>4, <4>5, Zenon
    <3> QED
      BY <3>2, <3>3
  <2> QED
    BY <2>13, <2>14
<1> QED
  BY <1>6, <1>7, <1>8, <1>9, <1>10, <1>11 DEF SinkNext

-----------------------------------------------------------------------------
(* tensor_sparse_enc and tensor_sparse_dec                                 *)

\* What is encoded is decoded as it was, zeros without their sign.
LEMMA DenseAgain ==
  ASSUME NEW type, NEW data
  PROVE  \A i \in 1..SparseCount :
           ToDense(FromDense(type, data))[i] = IF data[i] = NegZero THEN 0 ELSE data[i]
<1> DEFINE S == {i \in 1..SparseCount : data[i] \notin {0, NegZero}}
           nonzero == Ascending(S)
           s == FromDense(type, data)
<1>1. S \in SUBSET (1..SparseCount) /\ SparseCount \in Nat
  BY SparseAssumption
<1>2. nonzero \in Seq(S) /\ Members(nonzero) = S
  BY <1>1, AscendingIs
<1>3. /\ s.nnz = Len(nonzero)
      /\ s.values = [k \in 1..Len(nonzero) |-> data[nonzero[k]]]
      /\ s.indices = [k \in 1..Len(nonzero) |-> nonzero[k]]
  BY DEF FromDense
<1> HIDE DEF nonzero, s
<1>4. ASSUME NEW i \in 1..SparseCount
      PROVE  (IF \E k \in 1..s.nnz : s.indices[k] = i
              THEN s.values[CHOOSE k \in 1..s.nnz : s.indices[k] = i] ELSE 0)
             = (IF data[i] = NegZero THEN 0 ELSE data[i])
  <2>1. CASE i \in S
    <3>1. \E k \in 1..s.nnz : s.indices[k] = i
      <4>1. i \in Members(nonzero)
        BY <1>2, <2>1
      <4>2. PICK k \in 1..Len(nonzero) : nonzero[k] = i
        BY <4>1 DEF Members
      <4> QED
        BY <1>3, <4>2
    <3> DEFINE c == CHOOSE k \in 1..s.nnz : s.indices[k] = i
    <3>2. c \in 1..s.nnz /\ s.indices[c] = i
      BY <3>1
    <3> HIDE DEF c
    <3>3. s.values[c] = data[i]
      BY <1>3, <3>2
    <3>4. data[i] # NegZero
      BY <2>1
    <3> QED
      BY <3>1, <3>3, <3>4 DEF c
  <2>2. CASE i \notin S
    <3>1. ~\E k \in 1..s.nnz : s.indices[k] = i
      BY <1>2, <1>3, <2>2 DEF Members
    <3>2. data[i] \in {0, NegZero}
      BY <2>2
    <3> QED
      BY <3>1, <3>2
  <2> QED
    BY <2>1, <2>2
<1> HIDE DEF S
<1> QED
  BY <1>4 DEF ToDense, s

SparseFields == {"type", "peer", "in", "encoded", "out", "flow", "count"}

\* What is on its way was made of the tensor that came last.
SparseInv ==
  /\ DOMAIN sparse = SparseFields
  /\ sparse.encoded # NoBuffer => sparse.encoded = FromDense(sparse.in.type, sparse.in.data)
  /\ sparse.out # NoBuffer =>
       sparse.out = [type |-> sparse.in.type, data |-> ToDense(FromDense(sparse.in.type, sparse.in.data))]

\* A tensor is encoded, and what was encoded is decoded, as it came last.
LEMMA SparseStep ==
  ASSUME SparseInv, SparseNext
  PROVE  SparseInv'
<1> DEFINE s == sparse
           t == sparse'
<1>1. CASE SparseEncChain
  <2>1. PICK data \in SparseTensors(s.type) :
          LET ok == s.type # "float16"
          IN s.encoded = NoBuffer /\ 
             t = [s EXCEPT !.in = [type |-> s.type, data |-> data],
                           !.encoded = IF ok THEN FromDense(s.type, data) ELSE NoBuffer,
                           !.out = NoBuffer, !.flow = IF ok THEN "ok" ELSE "error",
                           !.count = @ + 1]
    BY <1>1 DEF SparseEncChain
  <2>2. /\ DOMAIN t = SparseFields /\ t.in = [type |-> s.type, data |-> data] /\ t.out = NoBuffer
        /\ t.encoded \in {FromDense(s.type, data), NoBuffer}
    BY <2>1 DEF SparseInv, SparseFields
  <2> QED
    BY <2>2 DEF SparseInv
<1>2. CASE SparseDecChain
  <2> DEFINE e == s.encoded
  <2>1. /\ e # NoBuffer
        /\ t = [s EXCEPT !.encoded = NoBuffer,
                         !.out = IF s.peer \in {"any", e.type} THEN [type |-> e.type, data |-> ToDense(e)]
                                 ELSE NoBuffer]
    BY <1>2 DEF SparseDecChain
  <2>2. e = FromDense(s.in.type, s.in.data)
    BY <2>1 DEF SparseInv
  <2>3. e.type = s.in.type
    BY <2>2 DEF FromDense
  <2> HIDE DEF e
  <2>4. /\ DOMAIN t = SparseFields /\ t.in = s.in /\ t.encoded = NoBuffer
        /\ t.out \in {[type |-> e.type, data |-> ToDense(e)], NoBuffer}
    BY <2>1 DEF SparseInv, SparseFields
  <2> QED
    BY <2>2, <2>3, <2>4 DEF SparseInv
<1> QED
  BY <1>1, <1>2 DEF SparseNext

\* So what comes out is the tensor that went in.
LEMMA SparseImplies ==
  ASSUME sparse # Absent => SparseInv
  PROVE  SparseRoundTrip
<1> SUFFICES ASSUME SparseInv, sparse.out # NoBuffer
             PROVE  /\ sparse.out.type = sparse.in.type
                    /\ \A i \in 1..SparseCount :
                         sparse.out.data[i] = IF sparse.in.data[i] = NegZero THEN 0 ELSE sparse.in.data[i]
  BY DEF SparseRoundTrip
<1> DEFINE in == sparse.in
<1>1. sparse.out = [type |-> in.type, data |-> ToDense(FromDense(in.type, in.data))]
  BY DEF SparseInv
<1>2. \A i \in 1..SparseCount :
        ToDense(FromDense(in.type, in.data))[i] = IF in.data[i] = NegZero THEN 0 ELSE in.data[i]
  BY DenseAgain
<1> QED
  BY <1>1, <1>2

-----------------------------------------------------------------------------
(* tensor_decoder                                                          *)

DecFields ==
  {"decoder", "is_custom", "func", "registered", "option", "data", "config", "negotiated", "incaps", "outcaps",
   "renewed", "decoded", "crashed", "steps"}

\* What the sub-plugin was told, and the configuration of the caps, whether or not a
\* buffer is decoded.
DecTold(d) == d.data = NoData \/ d.data = d.option
DecFits(d) == d.outcaps = Media(d.incaps) => d.config = d.incaps
DecInv ==
  /\ DOMAIN dec = DecFields
  /\ dec.renewed \/ dec.decoder = NoDecoder \/ DecTold(dec)
  /\ dec.negotiated => DecFits(dec)
  /\ dec.decoded => dec.negotiated /\ (dec.is_custom \/ dec.decoder # NoDecoder)

\* The steps of tensor_decoder keep its invariant, in whatever order properties, caps and
\* buffers come.
LEMMA DecStepKeeps ==
  ASSUME DecInv, DecNext
  PROVE  DecInv'
<1> DEFINE d == dec
           t == dec'
<1>1. /\ DOMAIN d = DecFields /\ (d.renewed \/ d.decoder = NoDecoder \/ DecTold(d))
      /\ (d.negotiated => DecFits(d))
  BY DEF DecInv
<1>2. ASSUME DOMAIN t = DecFields, ~t.decoded, t.renewed \/ t.decoder = NoDecoder \/ DecTold(t),
             t.negotiated => DecFits(t)
      PROVE  DecInv'
  BY <1>2, Zenon DEF DecInv, DecTold, DecFits
<1>3. ASSUME t.negotiated = d.negotiated, t.incaps = d.incaps, t.outcaps = d.outcaps, t.config = d.config
      PROVE  t.negotiated => DecFits(t)
  BY <1>1, <1>3, Zenon DEF DecFits
<1>4. CASE SetMode
  <2>1. PICK mode \in DecModes \cup {"custom-code", "unknown"}, ok \in BOOLEAN :
          t = [d EXCEPT !.is_custom = @ \/ mode = "custom-code",
                        !.decoder = IF mode = "custom-code" THEN @
                                    ELSE IF mode = "unknown" THEN NoDecoder ELSE mode,
                        !.data = IF mode = "custom-code" THEN @
                                 ELSE IF mode = "unknown" THEN NoData
                                 ELSE WithOptions(mode, ok),
                        !.renewed = IF mode \in DecModes THEN FALSE ELSE @,
                        !.decoded = FALSE, !.steps = @ + 1]
    BY <1>4 DEF SetMode
  <2>2. WithOptions(mode, ok) \in {d.option, NoData}
    BY DEF WithOptions
  <2> DEFINE w == WithOptions(mode, ok)
             custom == d.is_custom \/ mode = "custom-code"
  <2>3. t = [d EXCEPT !.is_custom = custom,
                      !.decoder = IF mode = "custom-code" THEN @
                                  ELSE IF mode = "unknown" THEN NoDecoder ELSE mode,
                      !.data = IF mode = "custom-code" THEN @
                               ELSE IF mode = "unknown" THEN NoData
                               ELSE w,
                      !.renewed = IF mode \in DecModes THEN FALSE ELSE @,
                      !.decoded = FALSE, !.steps = @ + 1]
    BY <2>1
  <2> HIDE DEF d, t, w, custom
  <2>4. /\ DOMAIN t = DecFields /\ t.option = d.option /\ t.negotiated = d.negotiated
        /\ t.incaps = d.incaps /\ t.outcaps = d.outcaps /\ t.config = d.config /\ t.decoded = FALSE
        /\ t.decoder = (IF mode = "custom-code" THEN d.decoder ELSE IF mode = "unknown" THEN NoDecoder ELSE mode)
        /\ t.data = (IF mode = "custom-code" THEN d.data ELSE IF mode = "unknown" THEN NoData ELSE w)
        /\ t.renewed = (IF mode \in DecModes THEN FALSE ELSE d.renewed)
    BY <1>1, <2>3 DEF DecFields
  <2>5. t.renewed \/ t.decoder = NoDecoder \/ DecTold(t)
    <3>1. CASE mode = "custom-code"
      <4>1. mode \notin DecModes
        BY <3>1, DecAssumption
      <4> QED
        BY <1>1, <2>4, <3>1, <4>1, Zenon DEF DecTold
    <3>2. CASE mode # "custom-code"
      <4>1. w \in {d.option, NoData}
        BY <2>2 DEF w, d
      <4> QED
        BY <2>4, <3>2, <4>1 DEF DecTold
    <3> QED
      BY <3>1, <3>2
  <2> QED
    BY <1>2, <1>3, <2>4, <2>5, Zenon
<1>5. CASE SetDecOption
  <2>1. PICK o \in DecOptions :
          t = [d EXCEPT !.option = @ \cup {o},
                        !.data = IF d.decoder = NoDecoder \/ @ = NoData THEN @ ELSE @ \cup {o},
                        !.decoded = FALSE, !.steps = @ + 1]
    BY <1>5 DEF SetDecOption
  <2> HIDE DEF d, t
  <2>2. /\ DOMAIN t = DecFields /\ t.option = d.option \cup {o} /\ t.negotiated = d.negotiated
        /\ t.incaps = d.incaps /\ t.outcaps = d.outcaps /\ t.config = d.config /\ t.decoded = FALSE
        /\ t.decoder = d.decoder /\ t.renewed = d.renewed
        /\ t.data = (IF d.decoder = NoDecoder \/ d.data = NoData THEN d.data ELSE d.data \cup {o})
    BY <1>1, <2>1 DEF DecFields
  <2>3. t.renewed \/ t.decoder = NoDecoder \/ DecTold(t)
    <3>1. DecTold(d) /\ d.decoder # NoDecoder => DecTold(t)
      BY <2>2 DEF DecTold
    <3> QED
      BY <1>1, <2>2, <3>1, Zenon
  <2> QED
    BY <1>2, <1>3, <2>2, <2>3, Zenon
<1>6. CASE CustomRegister
  <2> DEFINE r == ~d.registered
  <2>1. t = [d EXCEPT !.registered = r, !.decoded = FALSE, !.steps = @ + 1]
    BY <1>6 DEF CustomRegister
  <2> HIDE DEF d, t, r
  <2>2. /\ DOMAIN t = DecFields /\ t.option = d.option /\ t.negotiated = d.negotiated
        /\ t.incaps = d.incaps /\ t.outcaps = d.outcaps /\ t.config = d.config /\ t.decoded = FALSE
        /\ t.decoder = d.decoder /\ t.renewed = d.renewed /\ t.data = d.data
    BY <1>1, <2>1 DEF DecFields
  <2>3. t.renewed \/ t.decoder = NoDecoder \/ DecTold(t)
    BY <1>1, <2>2, Zenon DEF DecTold
  <2> QED
    BY <1>2, <1>3, <2>2, <2>3, Zenon
<1>7. CASE DecSetCaps
  <2>1. PICK c \in DecConfigs, peers \in (SUBSET DecMedia) \ {{}} :
          LET out == IF Media(c) \in peers THEN Media(c) ELSE CHOOSE m \in peers : TRUE
              conf == Configured(c, out)
              fits == conf.ok /\ out = Media(c)
              ready == dec.decoder # NoDecoder \/ CustomFunc
          IN /\ DecStep /\ ready
             /\ dec' = [dec EXCEPT !.func = IF dec.is_custom THEN CustomFunc ELSE @,
                              !.crashed = conf.crash, !.config = conf.config,
                              !.data = IF conf.renew THEN {} ELSE @,
                              !.renewed = @ \/ conf.renew,
                              !.negotiated = @ \/ fits,
                              !.incaps = IF dec.negotiated \/ fits THEN c ELSE @,
                              !.outcaps = IF dec.negotiated \/ fits THEN out ELSE @,
                              !.decoded = FALSE, !.steps = @ + 1]
    BY <1>7 DEF DecSetCaps
  <2> DEFINE out == IF Media(c) \in peers THEN Media(c) ELSE CHOOSE m \in peers : TRUE
             conf == Configured(c, out)
             fits == conf.ok /\ out = Media(c)
             func == IF d.is_custom THEN CustomFunc ELSE d.func
             renewed == d.renewed \/ conf.renew
             negotiated == d.negotiated \/ fits
  <2>2. t = [d EXCEPT !.func = func, !.crashed = conf.crash, !.config = conf.config,
                      !.data = IF conf.renew THEN {} ELSE @, !.renewed = renewed,
                      !.negotiated = negotiated,
                      !.incaps = IF negotiated THEN c ELSE @,
                      !.outcaps = IF negotiated THEN out ELSE @,
                      !.decoded = FALSE, !.steps = @ + 1]
    BY <2>1
  <2>3. /\ out = Media(c) => conf.ok
        /\ conf.config = IF conf.ok THEN c ELSE d.config
    <3>1. d.decoder # NoDecoder \/ d.is_custom
      BY <2>1, Zenon DEF CustomFunc
    <3> HIDE DEF out
    <3> QED
      BY <3>1, Zenon DEF Configured
  <2>r. renewed = (d.renewed \/ conf.renew) /\ negotiated = (d.negotiated \/ (conf.ok /\ out = Media(c)))
    BY Zenon
  <2> HIDE DEF d, t, out, conf, fits, func, renewed, negotiated
  <2>4. /\ DOMAIN t = DecFields /\ t.option = d.option /\ t.negotiated = negotiated
        /\ t.incaps = (IF negotiated THEN c ELSE d.incaps) /\ t.outcaps = (IF negotiated THEN out ELSE d.outcaps)
        /\ t.config = conf.config /\ t.decoded = FALSE
        /\ t.decoder = d.decoder /\ t.renewed = renewed /\ t.data = (IF conf.renew THEN {} ELSE d.data)
    BY <1>1, <2>2 DEF DecFields
  <2>5. t.renewed \/ t.decoder = NoDecoder \/ DecTold(t)
    BY <1>1, <2>4, <2>r, Zenon DEF DecTold
  <2>6. t.negotiated => DecFits(t)
    BY <2>3, <2>4, Zenon DEF DecFits
  <2> QED
    BY <1>2, <2>4, <2>5, <2>6, Zenon
<1>8. CASE DecTransform
  <2> DEFINE decoded == (d.is_custom /\ d.func) \/ (~d.is_custom /\ d.decoder # NoDecoder)
  <2>1. d.negotiated /\ t = [d EXCEPT !.decoded = decoded]
    BY <1>8 DEF DecTransform
  <2>2. decoded => d.is_custom \/ d.decoder # NoDecoder
    BY Zenon
  <2> HIDE DEF d, t, decoded
  <2>3. /\ DOMAIN t = DecFields /\ t.option = d.option /\ t.negotiated = d.negotiated
        /\ t.incaps = d.incaps /\ t.outcaps = d.outcaps /\ t.config = d.config /\ t.decoded = decoded
        /\ t.decoder = d.decoder /\ t.renewed = d.renewed /\ t.data = d.data /\ t.is_custom = d.is_custom
    BY <1>1, <2>1 DEF DecFields
  <2>4. t.renewed \/ t.decoder = NoDecoder \/ DecTold(t)
    BY <1>1, <2>3, Zenon DEF DecTold
  <2>5. t.decoded => t.negotiated /\ (t.is_custom \/ t.decoder # NoDecoder)
    BY <2>1, <2>2, <2>3, Zenon
  <2>6. t.negotiated => DecFits(t)
    BY <1>3, <2>3, Zenon
  <2> QED
    BY <2>3, <2>4, <2>5, <2>6, Zenon DEF DecInv, DecTold, DecFits, t
<1> QED
  BY <1>4, <1>5, <1>6, <1>7, <1>8 DEF DecNext

\* A buffer is decoded after a negotiation, so by what both parts of it say.
LEMMA DecImplies ==
  ASSUME dec # Absent => DecInv
  PROVE  DecoderOptions /\ DecoderConfig
<1>1. DecoderOptions
  BY Zenon DEF DecoderOptions, DecInv, DecTold
<1>2. DecoderConfig
  BY Zenon DEF DecoderConfig, DecInv, DecFits
<1> QED
  BY <1>1, <1>2

-----------------------------------------------------------------------------
(* tensor_if                                                               *)

\* The fields of the element's state
IfFields ==
  {"op", "sv", "cv", "act", "pick", "type", "linked", "config", "caps", "ret", "count", "buf", "branch", "pushed",
   "flow"}

\* The records of tensor_if; the properties keep their values.
IfTyped(f) ==
  /\ DOMAIN f = IfFields
  /\ f.op \in IfOps /\ f.sv \in Int \X Int /\ f.act \in [Pads -> IfActs] /\ f.pick \in IfPicks
  /\ DOMAIN f.config = Pads /\ DOMAIN f.caps = Pads /\ DOMAIN f.ret = Pads

\* What an action takes, for the properties of f.
IfTakes(f, p) == IF f.act[p] = "PASSTHROUGH" THEN <<1, 2>> ELSE f.pick

\* A pad that was made has the caps of what its action takes, and the flow of its link;
\* the configuration of one that was not is still empty.
IfPad(f, p) ==
  /\ f.act[p] = "PASSTHROUGH" => f.config[p] \in {<< >>, <<1, 2>>}
  /\ (f.caps[p] = NoPad /\ f.config[p] = << >>) \/ f.caps[p] = IfTakes(f, p)
  /\ f.caps[p] # NoPad => f.ret[p] = (IF p \in f.linked THEN "ok" ELSE "not-linked")

\* What the last buffer did.
IfTook(f) ==
  /\ f.branch \in Pads \cup {NoPad}
  /\ f.branch # NoPad /\ f.act[f.branch] # "SKIP" =>
       Len(f.pushed) = Len(IfTakes(f, f.branch)) /\ f.caps[f.branch] = IfTakes(f, f.branch)
  /\ f.flow = "not-linked" => \A p \in Pads : f.caps[p] # NoPad => p \notin f.linked

\* The condition, for the properties of f.
IfHolds(f, b) ==
  IF f.cv = "CUSTOM" THEN b \in IfCustom
  ELSE OperatorFunc(f.op, IF f.cv = "A_VALUE" THEN b[1][2] ELSE TensorAverage(b[1]),
                    Typecast(f.sv[1], f.type), Typecast(f.sv[2], f.type))

\* What holds of tensor_if between any two steps
IfInv ==
  /\ IfTyped(tif) /\ IfTook(tif) /\ \A p \in Pads : IfPad(tif, p)
  /\ tif.branch # NoPad =>
       tif.buf \in IfBuffers /\ tif.branch = (IF IfHolds(tif, tif.buf) THEN "then" ELSE "else")

\* What an action takes is a list of tensors; NoPad is none.
LEMMA IfTakesSeq ==
  ASSUME NEW f, IfTyped(f), NEW p \in Pads
  PROVE  IfTakes(f, p) \in Seq(1..2)
<1>1. f.pick \in Seq(1..2)
  BY IfAssumption DEF IfTyped
<1>2. <<1, 2>> \in Seq(1..2)
  OBVIOUS
<1> QED
  BY <1>1, <1>2 DEF IfTakes

\* The element that was just made has no pads.
LEMMA IfInitInv ==
  ASSUME IfInit
  PROVE  IfInv
<1>1. PICK op \in IfOps, sv \in IfSupplied, cv \in {"A_VALUE", "AVERAGE", "CUSTOM"},
           then \in IfActs, else \in IfActs, pick \in IfPicks, type \in IfTypes, linked \in SUBSET Pads :
        /\ cv = "CUSTOM" => op = "EQ" /\ type = "int64"
        /\ tif = [op |-> op, sv |-> sv, cv |-> cv, act |-> [p \in Pads |-> IF p = "then" THEN then ELSE else],
               pick |-> pick, type |-> type, linked |-> linked,
               config |-> [p \in Pads |-> << >>],
               caps |-> [p \in Pads |-> NoPad], ret |-> [p \in Pads |-> "ok"],
               count |-> 0, buf |-> << >>, branch |-> NoPad, pushed |-> << >>, flow |-> "ok"]
  BY DEF IfInit
<1>2. IfTyped(tif)
  BY <1>1, IfAssumption DEF IfTyped, IfFields
<1>3. IfTook(tif)
  BY <1>1 DEF IfTook
<1>4. \A p \in Pads : tif.caps[p] = NoPad /\ tif.config[p] = << >>
  BY <1>1
<1>5. tif.branch = NoPad
  BY <1>1
<1> QED
  BY <1>2, <1>3, <1>4, <1>5 DEF IfInv, IfPad

\* The condition depends on nothing but the properties and the buffer.
LEMMA IfHoldsIs ==
  ASSUME NEW b
  PROVE  CheckCondition(b) <=> IfHolds(tif, b)
BY DEF CheckCondition, CalculateCv, IfHolds

\* The pad a buffer takes, and what becomes of it.
LEMMA IfStep ==
  ASSUME IfInv, IfNext
  PROVE  IfInv'
<1> DEFINE f == tif
           t == tif'
<1>1. PICK b \in IfBuffers :
        LET pad == IF CheckCondition(b) THEN "then" ELSE "else"
            act == tif.act[pad]
            config == ConfigOf(pad, act)
            caps == IF tif.caps[pad] = NoPad THEN config ELSE tif.caps[pad]
            ret == IF pad \in tif.linked THEN "ok" ELSE "not-linked"
            took == [tif EXCEPT !.count = @ + 1, !.buf = b, !.branch = pad]
        IN /\ tif.count < IfMaxBuffers /\ tif.flow = "ok"
           /\ tif' = IF act = "SKIP"
                     THEN [took EXCEPT !.pushed = << >>]
                     ELSE [took EXCEPT !.config[pad] = config, !.caps[pad] = caps,
                                       !.ret[pad] = ret, !.flow = CombineFlows(pad, ret),
                                       !.pushed = [k \in 1..Len(TensorsOf(act)) |->
                                                     b[TensorsOf(act)[k]]]]
  BY DEF IfNext, IfChain
<1> DEFINE pad == IF CheckCondition(b) THEN "then" ELSE "else"
           act == f.act[pad]
           config == ConfigOf(pad, act)
           caps == IF f.caps[pad] = NoPad THEN config ELSE f.caps[pad]
           ret == IF pad \in f.linked THEN "ok" ELSE "not-linked"
           flow == CombineFlows(pad, ret)
           pushed == [k \in 1..Len(TensorsOf(act)) |-> b[TensorsOf(act)[k]]]
<1>2. /\ f.flow = "ok"
      /\ act = "SKIP" => t = [f EXCEPT !.count = @ + 1, !.buf = b, !.branch = pad, !.pushed = << >>]
      /\ act # "SKIP" =>
           t = [f EXCEPT !.count = @ + 1, !.buf = b, !.branch = pad, !.config[pad] = config, !.caps[pad] = caps,
                         !.ret[pad] = ret, !.flow = flow, !.pushed = pushed]
  BY <1>1
<1>3. pad \in Pads
  BY DEF Pads
<1>4. IfTyped(f) /\ IfTook(f) /\ \A p \in Pads : IfPad(f, p)
  BY DEF IfInv
<1>5. ConfigOf(pad, act) = (IF act = "PASSTHROUGH" /\ f.config[pad] # << >> THEN f.config[pad]
                            ELSE IF act = "TENSORPICK" /\ f.config[pad] # << >> THEN << >> ELSE TensorsOf(act))
  BY DEF ConfigOf
<1>6. TensorsOf(act) = IfTakes(f, pad)
  BY DEF TensorsOf, IfTakes
<1>7. pushed = [k \in 1..Len(IfTakes(f, pad)) |-> b[IfTakes(f, pad)[k]]] /\ Len(pushed) = Len(IfTakes(f, pad))
  <2>1. IfTakes(f, pad) \in Seq(1..2)
    BY <1>3, <1>4, IfTakesSeq
  <2>2. Len(IfTakes(f, pad)) \in Nat
    BY <2>1
  <2> DEFINE T == TensorsOf(act)
  <2>3. pushed = [k \in 1..Len(T) |-> b[T[k]]] /\ Len(T) \in Nat
    BY <1>6, <2>2
  <2> HIDE DEF T
  <2>4. Len(pushed) = Len(T)
    BY <2>3
  <2> QED
    BY <1>6, <2>3, <2>4 DEF T
<1>8. flow = (IF ret = "not-linked" /\ {p \in Pads \ {pad} : f.caps[p] # NoPad /\ f.ret[p] # "not-linked"} # {}
              THEN "ok" ELSE ret)
  BY DEF CombineFlows
<1>c. pad = (IF IfHolds(f, b) THEN "then" ELSE "else")
  BY IfHoldsIs, Zenon
<1> HIDE DEF f, t, pad, act, config, flow, pushed
<1>9. ASSUME IfTyped(t), IfTook(t), \A p \in Pads : IfPad(t, p), t.branch = pad, t.buf = b,
             t.cv = f.cv, t.op = f.op, t.sv = f.sv, t.type = f.type
      PROVE  IfInv'
  <2>1. IfHolds(t, b) <=> IfHolds(f, b)
    BY <1>9, Zenon DEF IfHolds
  <2>2. t.branch = (IF IfHolds(t, t.buf) THEN "then" ELSE "else")
    BY <1>9, <1>c, <2>1, Zenon
  <2> QED
    BY <1>9, <2>2, Zenon DEF IfInv, t
<1>10. CASE act = "SKIP"
  <2>1. t = [f EXCEPT !.count = @ + 1, !.buf = b, !.branch = pad, !.pushed = << >>]
    BY <1>2, <1>10
  <2>2. /\ DOMAIN t = IfFields /\ t.buf = b /\ t.branch = pad
        /\ \A x \in IfFields \ {"count", "buf", "branch", "pushed"} : t[x] = f[x]
    BY <1>4, <2>1 DEF IfTyped, IfFields
  <2>3. /\ t.cv = f.cv /\ t.op = f.op /\ t.sv = f.sv /\ t.type = f.type /\ t.act = f.act /\ t.pick = f.pick
        /\ t.linked = f.linked /\ t.config = f.config /\ t.caps = f.caps /\ t.ret = f.ret /\ t.flow = f.flow
    BY <2>2 DEF IfFields
  <2>4. IfTyped(t)
    BY <1>4, <2>2, <2>3 DEF IfTyped
  <2>5. \A p \in Pads : IfPad(t, p)
    BY <1>4, <2>3 DEF IfPad, IfTakes
  <2>6. IfTook(t)
    BY <1>2, <1>3, <1>10, <2>2, <2>3 DEF IfTook, act
  <2> QED
    BY <1>9, <2>2, <2>3, <2>4, <2>5, <2>6
<1>11. CASE act # "SKIP"
  <2>1. t = [f EXCEPT !.count = @ + 1, !.buf = b, !.branch = pad, !.config[pad] = config, !.caps[pad] = caps,
                      !.ret[pad] = ret, !.flow = flow, !.pushed = pushed]
    BY <1>2, <1>11
  <2> HIDE DEF caps, ret
  <2>2. /\ DOMAIN t = IfFields /\ t.buf = b /\ t.branch = pad /\ t.flow = flow /\ t.pushed = pushed
        /\ t.config = [f.config EXCEPT ![pad] = config] /\ t.caps = [f.caps EXCEPT ![pad] = caps]
        /\ t.ret = [f.ret EXCEPT ![pad] = ret]
        /\ \A x \in IfFields \ {"count", "buf", "branch", "pushed", "flow", "config", "caps", "ret"} : t[x] = f[x]
    BY <1>4, <2>1 DEF IfTyped, IfFields
  <2>3. /\ t.cv = f.cv /\ t.op = f.op /\ t.sv = f.sv /\ t.type = f.type /\ t.act = f.act /\ t.pick = f.pick
        /\ t.linked = f.linked
    BY <2>2 DEF IfFields
  <2>4. IfTyped(t)
    BY <1>4, <2>2, <2>3 DEF IfTyped
  <2>5. /\ t.config[pad] = config /\ t.caps[pad] = caps /\ t.ret[pad] = ret
        /\ \A p \in Pads \ {pad} : t.config[p] = f.config[p] /\ t.caps[p] = f.caps[p] /\ t.ret[p] = f.ret[p]
    BY <1>3, <1>4, <2>2 DEF IfTyped
  <2>6. act \in {"PASSTHROUGH", "TENSORPICK"}
    BY <1>3, <1>4, <1>11 DEF IfTyped, IfActs, act
  <2>7. /\ caps = IfTakes(f, pad)
        /\ act = "PASSTHROUGH" => config \in {<< >>, <<1, 2>>}
    <3>1. IfPad(f, pad)
      BY <1>3, <1>4
    <3>2. CASE act = "PASSTHROUGH"
      <4>1. IfTakes(f, pad) = <<1, 2>> /\ f.config[pad] \in {<< >>, <<1, 2>>}
        BY <3>1, <3>2 DEF IfTakes, IfPad, act
      <4>2. config = <<1, 2>>
        BY <1>5, <1>6, <3>2, <4>1 DEF config
      <4>3. f.caps[pad] = NoPad \/ f.caps[pad] = <<1, 2>>
        BY <3>1, <4>1 DEF IfPad
      <4> QED
        BY <4>1, <4>2, <4>3 DEF caps
    <3>3. CASE act = "TENSORPICK"
      <4>1. IfTakes(f, pad) = f.pick /\ f.pick # NoPad
        BY <1>4, <3>3, IfAssumption DEF IfTakes, IfTyped, act
      <4>2. (f.caps[pad] = NoPad /\ f.config[pad] = << >>) \/ f.caps[pad] = f.pick
        BY <3>1, <4>1 DEF IfPad
      <4>3. f.config[pad] = << >> => config = f.pick
        BY <1>5, <1>6, <3>3, <4>1 DEF config
      <4> QED
        BY <3>3, <4>1, <4>2, <4>3 DEF caps
    <3> QED
      BY <2>6, <3>2, <3>3
  <2>8. \A p \in Pads : IfPad(t, p)
    <3> SUFFICES ASSUME NEW p \in Pads
                 PROVE  IfPad(t, p)
      OBVIOUS
    <3>1. CASE p = pad
      <4>1. IfTakes(t, p) = IfTakes(f, pad) /\ t.act[p] = act
        BY <2>3, <3>1 DEF IfTakes, act
      <4> QED
        BY <2>3, <2>5, <2>7, <3>1, <4>1 DEF IfPad, ret
    <3>2. CASE p # pad
      BY <1>4, <2>3, <2>5, <3>2 DEF IfPad, IfTakes
    <3> QED
      BY <3>1, <3>2
  <2>9. IfTook(t)
    <3>1. Len(t.pushed) = Len(IfTakes(t, pad)) /\ t.caps[pad] = IfTakes(t, pad)
      <4>1. IfTakes(t, pad) = IfTakes(f, pad)
        BY <2>3 DEF IfTakes
      <4> QED
        BY <1>7, <2>2, <2>5, <2>7, <4>1
    <3>2. ASSUME flow = "not-linked", NEW p \in Pads, t.caps[p] # NoPad
          PROVE  p \notin t.linked
      <4>1. ret = "not-linked" /\ \A q \in Pads \ {pad} : f.caps[q] = NoPad \/ f.ret[q] = "not-linked"
        BY <1>8, <3>2 DEF ret
      <4>2. CASE p = pad
        BY <2>3, <4>1, <4>2 DEF ret
      <4>3. CASE p # pad
        <5>1. f.caps[p] # NoPad /\ f.ret[p] = "not-linked"
          BY <2>5, <3>2, <4>1, <4>3
        <5> QED
          BY <1>4, <2>3, <5>1 DEF IfPad
      <4> QED
        BY <4>2, <4>3
    <3> QED
      BY <1>3, <2>2, <3>1, <3>2 DEF IfTook
  <2> QED
    BY <1>9, <2>2, <2>3, <2>4, <2>8, <2>9
<1> QED
  BY <1>10, <1>11

\* The operators the documentation and the code agree on.
LEMMA OperatorsAgree ==
  ASSUME NEW op \in IfOps \ {"NOT_IN_RANGE_INCLUSIVE", "NOT_IN_RANGE_EXCLUSIVE"},
         NEW cv \in Int, NEW s1 \in Int, NEW s2 \in Int
  PROVE  /\ OperatorFunc(op, cv, s1, s2) <=> Documented(op, cv, s1, s2)
         /\ Documented(op, cv, s1, s2) \in BOOLEAN
<1>1. CASE op = "EQ"
  BY <1>1 DEF OperatorFunc, Documented
<1>2. CASE op = "NE"
  BY <1>2 DEF OperatorFunc, Documented
<1>3. CASE op = "GT"
  BY <1>3 DEF OperatorFunc, Documented
<1>4. CASE op = "GE"
  BY <1>4 DEF OperatorFunc, Documented
<1>5. CASE op = "LT"
  BY <1>5 DEF OperatorFunc, Documented
<1>6. CASE op = "LE"
  BY <1>6 DEF OperatorFunc, Documented
<1>7. CASE op = "RANGE_INCLUSIVE"
  BY <1>7 DEF OperatorFunc, Documented
<1>8. CASE op = "RANGE_EXCLUSIVE"
  BY <1>8 DEF OperatorFunc, Documented
<1> QED
  BY <1>1, <1>2, <1>3, <1>4, <1>5, <1>6, <1>7, <1>8 DEF IfOps

\* The branch is the one the documentation says, and what its pad gets is what its caps say.
LEMMA IfImplies ==
  ASSUME tif # Absent => IfInv
  PROVE  IfDecides /\ IfBranches
<1>1. IfDecides
  <2> SUFFICES ASSUME IfInv, tif.branch # NoPad, tif.cv # "CUSTOM", Representable,
                      tif.op \notin {"NOT_IN_RANGE_INCLUSIVE", "NOT_IN_RANGE_EXCLUSIVE"}
               PROVE  AsDocumented
    BY DEF IfDecides, Decided
  <2> DEFINE v == CalculateCv(tif.buf)
  <2>1. tif.buf \in IfBuffers /\ tif.branch = (IF CheckCondition(tif.buf) THEN "then" ELSE "else")
    BY IfHoldsIs, Zenon DEF IfInv
  <2>2. tif.op \in IfOps /\ tif.sv \in Int \X Int
    BY DEF IfInv, IfTyped
  <2>3. v \in Int
    <3>1. PICK u \in IfValues \X IfValues : tif.buf = <<u, <<0, 1>>>>
      BY <2>1 DEF IfBuffers
    <3>2. u[1] \in Int /\ u[2] \in Int /\ tif.buf[1] = u
      <4>1. IfValues \subseteq Int
        BY IfAssumption
      <4>2. u[1] \in IfValues /\ u[2] \in IfValues
        OBVIOUS
      <4>3. u[1] \in Int /\ u[2] \in Int
        BY <4>1, <4>2, Zenon
      <4>4. tif.buf[1] = u
        BY <3>1
      <4> QED
        BY <4>3, <4>4
    <3>3. (u[1] + u[2]) \div 2 \in Int
      BY <3>2
    <3> QED
      BY <3>2, <3>3 DEF CalculateCv, TensorAverage
  <2>4. Typecast(tif.sv[1], tif.type) = tif.sv[1] /\ Typecast(tif.sv[2], tif.type) = tif.sv[2]
    BY DEF Representable
  <2> HIDE DEF v
  <2>5. CheckCondition(tif.buf) <=> OperatorFunc(tif.op, v, tif.sv[1], tif.sv[2])
    BY <2>4 DEF CheckCondition, v
  <2>6. /\ OperatorFunc(tif.op, v, tif.sv[1], tif.sv[2]) <=> Documented(tif.op, v, tif.sv[1], tif.sv[2])
        /\ Documented(tif.op, v, tif.sv[1], tif.sv[2]) \in BOOLEAN
    BY <2>2, <2>3, OperatorsAgree
  <2>7. (tif.branch = "then") <=> CheckCondition(tif.buf)
    BY <2>1
  <2> DEFINE said == Documented(tif.op, v, tif.sv[1], tif.sv[2])
             took == tif.branch = "then"
  <2>8. (took <=> said) /\ said \in BOOLEAN /\ took \in BOOLEAN
    BY <2>5, <2>6, <2>7, Zenon
  <2> HIDE DEF said, took
  <2>9. took = said
    BY <2>8, Zenon
  <2> QED
    BY <2>9, Zenon DEF AsDocumented, v, said, took
<1>2. IfBranches
  BY Zenon DEF IfBranches, IfInv, IfTook
<1> QED
  BY <1>1, <1>2

-----------------------------------------------------------------------------
(* join                                                                    *)

JoinFields == {"active", "sticky", "count", "buffers", "pc", "ended", "src", "last", "raced"}
JoinTyped(j) ==
  /\ DOMAIN j = JoinFields /\ DOMAIN j.sticky = JoinPads /\ DOMAIN j.pc = JoinPads
  /\ DOMAIN j.src = {"of", "sticky", "eos"} /\ j.active \in JoinPads \cup {NoJoinPad}

\* The events pushed last are those of pad p.
JoinOwn(j, p) == j.src.of = p /\ j.src.sticky = j.sticky[p]

\* One thread at a time is between its lock and its push, the active pad's; what it is
\* about to push decides whether its events are those pushed last. A pad that became
\* active for an event of another has no caps yet.
JoinAlone(j) ==
  /\ \A p, q \in JoinPads : p # q => j.pc[p] = "idle" \/ j.pc[q] = "idle"
  /\ \A p \in JoinPads : j.pc[p] # "idle" => j.active = p
  /\ \A p \in JoinPads : j.pc[p] = "buffer" => JoinOwn(j, p)
  /\ \A p \in JoinPads : j.active = p /\ j.pc[p] \in {"idle", "eos"} =>
       JoinOwn(j, p) \/ j.sticky[p].caps = "none"
  /\ j.active = NoJoinPad => \A p \in JoinPads : j.sticky[p].caps = "none"
  /\ j.last # NoJoinPad => JoinOwn(j, j.last)

JoinInv == JoinTyped(join) /\ (join.raced \/ JoinAlone(join))

\* No pad is active at first, and no thread is anywhere.
LEMMA JoinInitInv ==
  ASSUME JoinInit
  PROVE  JoinInv
<1>1. JoinTyped(join)
  BY DEF JoinInit, JoinTyped, JoinFields
<1>2. JoinAlone(join)
  BY JoinAssumption DEF JoinInit, JoinAlone, NoSticky
<1> QED
  BY <1>1, <1>2 DEF JoinInv

\* After a lock, the other threads are not between theirs and their push.
LEMMA JoinLocked ==
  ASSUME JoinInv, NEW p \in JoinPads, ~Racing(p), join.pc[p] = "idle"
  PROVE  JoinAlone(join) /\ \A q \in JoinPads : join.pc[q] = "idle"
<1>1. ~join.raced /\ \A q \in JoinPads \ {p} : join.pc[q] = "idle"
  BY Zenon DEF Racing
<1>2. JoinAlone(join)
  BY <1>1, Zenon DEF JoinInv
<1>3. \A q \in JoinPads : join.pc[q] = "idle"
  BY <1>1
<1> QED
  BY <1>2, <1>3, Zenon

\* An event of pad p that is kept, and pushed when p is the active pad.
LEMMA JoinEventKeeps ==
  ASSUME JoinInv, NEW p \in JoinPads, join.pc[p] = "idle", NEW t, JoinTyped(t),
         NEW pc, pc \in {"event", "eos"}, t.active = ActiveSinkpad,
         \A q \in JoinPads \ {p} : t.sticky[q] = join.sticky[q] /\ t.pc[q] = join.pc[q],
         t.pc[p] = (IF p = ActiveSinkpad THEN pc ELSE "idle"),
         pc = "eos" => t.sticky = join.sticky,
         t.src = join.src, t.last = NoJoinPad, t.raced = Racing(p)
  PROVE  t.raced \/ JoinAlone(t)
<1> SUFFICES ASSUME ~Racing(p)
             PROVE  JoinAlone(t)
  BY Zenon
<1>1. JoinAlone(join) /\ \A q \in JoinPads : join.pc[q] = "idle"
  BY JoinLocked
<1> DEFINE a == ActiveSinkpad
<1>2. /\ a \in JoinPads
      /\ join.active = NoJoinPad \/ join.active = a
  BY DEF ActiveSinkpad, FirstPad, JoinInv, JoinTyped
<1> HIDE DEF a
<1>3. t.active = a /\ t.pc[p] = (IF p = a THEN pc ELSE "idle")
  BY DEF a
<1>4. \A q \in JoinPads : t.pc[q] # "idle" => q = p /\ p = a
  BY <1>1, <1>3
<1>5. \A q \in JoinPads : t.pc[q] # "buffer"
  BY <1>1, <1>3
<1>6. JoinOwn(join, a) \/ join.sticky[a].caps = "none"
  BY <1>1, <1>2 DEF JoinAlone
<1>7. ASSUME t.pc[a] \in {"idle", "eos"}
      PROVE  JoinOwn(t, a) \/ t.sticky[a].caps = "none"
  <2>1. t.sticky[a] = join.sticky[a]
    <3>1. CASE a = p
      BY <1>3, <1>7, <3>1
    <3>2. CASE a # p
      BY <1>2, <3>2
    <3> QED
      BY <3>1, <3>2
  <2> QED
    BY <1>6, <2>1 DEF JoinOwn
<1>8. t.active # NoJoinPad
  BY <1>2, <1>3, JoinAssumption
<1> QED
  BY <1>3, <1>4, <1>5, <1>7, <1>8 DEF JoinAlone

\* The steps of a thread on its pad keep the invariant; a thread that meets another between
\* its lock and its push raises raced.
LEMMA JoinStep ==
  ASSUME JoinInv, JoinNext
  PROVE  JoinInv'
<1> DEFINE s == join
           t == join'
<1>1. JoinTyped(s)
  BY DEF JoinInv
<1>2. ASSUME JoinTyped(t), t.raced \/ JoinAlone(t)
      PROVE  JoinInv'
  BY <1>2, Zenon DEF JoinInv, JoinTyped, JoinAlone, JoinOwn
<1>3. CASE CapsEvent
  <2>1. PICK p \in JoinPads, c \in JoinCaps :
          LET active == join.sticky[ActiveSinkpad].caps
              ok == active = "none" \/ active = c \/ p = ActiveSinkpad
          IN /\ join.pc[p] = "idle" /\ p \notin join.ended /\ join.count[p] < JoinMaxEvents
             /\ join' = [join EXCEPT !.active = ActiveSinkpad, !.count[p] = @ + 1,
                                     !.sticky[p].caps = IF ok THEN c ELSE @,
                                     !.pc[p] = IF p = ActiveSinkpad THEN "event" ELSE "idle",
                                     !.last = NoJoinPad, !.raced = Racing(p)]
    BY <1>3 DEF CapsEvent
  <2> DEFINE active == join.sticky[ActiveSinkpad].caps
             ok == active = "none" \/ active = c \/ p = ActiveSinkpad
             a == ActiveSinkpad
             pc == IF p = a THEN "event" ELSE "idle"
             raced == Racing(p)
  <2>2. s.pc[p] = "idle" /\ t = [s EXCEPT !.active = a, !.count[p] = @ + 1, !.sticky[p].caps = IF ok THEN c ELSE @,
                                          !.pc[p] = pc, !.last = NoJoinPad, !.raced = raced]
    BY <2>1
  <2>3. a \in JoinPads \cup {NoJoinPad}
    BY <1>1 DEF ActiveSinkpad, FirstPad, JoinTyped
  <2> HIDE DEF s, t, ok, a, pc, raced
  <2>4. /\ DOMAIN t = JoinFields /\ t.active = a /\ t.src = s.src /\ t.last = NoJoinPad /\ t.raced = raced
        /\ t.pc = [s.pc EXCEPT ![p] = pc]
        /\ DOMAIN t.sticky = JoinPads /\ \A q \in JoinPads \ {p} : t.sticky[q] = s.sticky[q]
    BY <1>1, <2>2 DEF JoinTyped, JoinFields
  <2>5. t.pc[p] = pc /\ DOMAIN t.pc = JoinPads /\ \A q \in JoinPads \ {p} : t.pc[q] = s.pc[q]
    BY <1>1, <2>4 DEF JoinTyped
  <2>6. JoinTyped(t)
    BY <1>1, <2>3, <2>4, <2>5 DEF JoinTyped
  <2>7. t.raced \/ JoinAlone(t)
    <3> DEFINE e == "event"
    <3>1. e \in {"event", "eos"} /\ (e = "eos" => t.sticky = s.sticky)
      OBVIOUS
    <3> QED
      BY <2>2, <2>4, <2>5, <2>6, <3>1, JoinEventKeeps DEF s, pc, a, raced
  <2> QED
    BY <1>2, <2>6, <2>7
<1>4. CASE SegmentEvent
  <2>1. PICK p \in JoinPads :
          /\ join.pc[p] = "idle" /\ p \notin join.ended /\ join.count[p] < JoinMaxEvents
          /\ join' = [join EXCEPT !.active = ActiveSinkpad, !.count[p] = @ + 1,
                                  !.sticky[p].segment = @ + 1,
                                  !.pc[p] = IF p = ActiveSinkpad THEN "event" ELSE "idle",
                                  !.last = NoJoinPad, !.raced = Racing(p)]
    BY <1>4 DEF SegmentEvent
  <2> DEFINE a == ActiveSinkpad
             pc == IF p = a THEN "event" ELSE "idle"
             raced == Racing(p)
  <2>2. s.pc[p] = "idle" /\ t = [s EXCEPT !.active = a, !.count[p] = @ + 1, !.sticky[p].segment = @ + 1,
                                          !.pc[p] = pc, !.last = NoJoinPad, !.raced = raced]
    BY <2>1
  <2>3. a \in JoinPads \cup {NoJoinPad}
    BY <1>1 DEF ActiveSinkpad, FirstPad, JoinTyped
  <2> HIDE DEF s, t, a, pc, raced
  <2>4. /\ DOMAIN t = JoinFields /\ t.active = a /\ t.src = s.src /\ t.last = NoJoinPad /\ t.raced = raced
        /\ t.pc = [s.pc EXCEPT ![p] = pc]
        /\ DOMAIN t.sticky = JoinPads /\ \A q \in JoinPads \ {p} : t.sticky[q] = s.sticky[q]
    BY <1>1, <2>2 DEF JoinTyped, JoinFields
  <2>5. t.pc[p] = pc /\ DOMAIN t.pc = JoinPads /\ \A q \in JoinPads \ {p} : t.pc[q] = s.pc[q]
    BY <1>1, <2>4 DEF JoinTyped
  <2>6. JoinTyped(t)
    BY <1>1, <2>3, <2>4, <2>5 DEF JoinTyped
  <2>7. t.raced \/ JoinAlone(t)
    <3> DEFINE e == "event"
    <3>1. e \in {"event", "eos"} /\ (e = "eos" => t.sticky = s.sticky)
      OBVIOUS
    <3> QED
      BY <2>2, <2>4, <2>5, <2>6, <3>1, JoinEventKeeps DEF s, pc, a, raced
  <2> QED
    BY <1>2, <2>6, <2>7
<1>5. CASE JoinEos
  <2>1. PICK p \in JoinPads :
          /\ join.pc[p] = "idle" /\ p \notin join.ended
          /\ join' = [join EXCEPT !.active = ActiveSinkpad, !.ended = @ \cup {p},
                                  !.pc[p] = IF p = ActiveSinkpad THEN "eos" ELSE "idle",
                                  !.last = NoJoinPad, !.raced = Racing(p)]
    BY <1>5 DEF JoinEos
  <2> DEFINE a == ActiveSinkpad
             pc == IF p = a THEN "eos" ELSE "idle"
             raced == Racing(p)
  <2>2. s.pc[p] = "idle" /\ t = [s EXCEPT !.active = a, !.ended = @ \cup {p},
                                          !.pc[p] = pc, !.last = NoJoinPad, !.raced = raced]
    BY <2>1
  <2>3. a \in JoinPads \cup {NoJoinPad}
    BY <1>1 DEF ActiveSinkpad, FirstPad, JoinTyped
  <2> HIDE DEF s, t, a, pc, raced
  <2>4. /\ DOMAIN t = JoinFields /\ t.active = a /\ t.src = s.src /\ t.last = NoJoinPad /\ t.raced = raced
        /\ t.pc = [s.pc EXCEPT ![p] = pc] /\ t.sticky = s.sticky
    BY <1>1, <2>2 DEF JoinTyped, JoinFields
  <2>5. t.pc[p] = pc /\ DOMAIN t.pc = JoinPads /\ \A q \in JoinPads \ {p} : t.pc[q] = s.pc[q]
    BY <1>1, <2>4 DEF JoinTyped
  <2>6. JoinTyped(t)
    BY <1>1, <2>3, <2>4, <2>5 DEF JoinTyped
  <2>7. t.raced \/ JoinAlone(t)
    <3> DEFINE e == "eos"
    <3>1. e \in {"event", "eos"} /\ (e = "eos" => t.sticky = s.sticky)
      BY <2>4
    <3>2. \A q \in JoinPads \ {p} : t.sticky[q] = s.sticky[q] /\ t.pc[q] = s.pc[q]
      BY <2>4, <2>5
    <3>3. s.pc[p] = "idle" /\ t.active = a /\ t.src = s.src /\ t.last = NoJoinPad /\ t.raced = raced
      BY <2>2, <2>4
    <3>4. t.pc[p] = (IF p = a THEN e ELSE "idle")
      BY <2>5 DEF pc
    <3> HIDE DEF e
    <3> QED
      BY <2>6, <3>1, <3>2, <3>3, <3>4, JoinEventKeeps DEF s, a, raced
  <2> QED
    BY <1>2, <2>6, <2>7
<1>6. CASE PushEvent
  <2>1. PICK p \in JoinPads :
          /\ join.pc[p] \in {"event", "eos"}
          /\ join' = [join EXCEPT !.src = IF join.pc[p] = "eos" THEN [@ EXCEPT !.eos = TRUE]
                                         ELSE [@ EXCEPT !.of = p, !.sticky = join.sticky[p]],
                                  !.pc[p] = "idle", !.last = NoJoinPad]
    BY <1>6 DEF PushEvent
  <2> DEFINE src == IF s.pc[p] = "eos" THEN [s.src EXCEPT !.eos = TRUE]
                    ELSE [s.src EXCEPT !.of = p, !.sticky = s.sticky[p]]
  <2>2. s.pc[p] \in {"event", "eos"} /\ t = [s EXCEPT !.src = src, !.pc[p] = "idle", !.last = NoJoinPad]
    BY <2>1
  <2> HIDE DEF s, t
  <2>3. /\ DOMAIN src = {"of", "sticky", "eos"}
        /\ s.pc[p] = "eos" => src.of = s.src.of /\ src.sticky = s.src.sticky
        /\ s.pc[p] = "event" => src.of = p /\ src.sticky = s.sticky[p]
    BY <1>1, <2>2 DEF JoinTyped
  <2> HIDE DEF src
  <2>4. /\ DOMAIN t = JoinFields /\ t.active = s.active /\ t.src = src /\ t.last = NoJoinPad /\ t.sticky = s.sticky
        /\ t.pc = [s.pc EXCEPT ![p] = "idle"]
        /\ \A x \in JoinFields \ {"src", "pc", "last"} : t[x] = s[x]
    BY <1>1, <2>2 DEF JoinTyped, JoinFields
  <2>5. t.pc[p] = "idle" /\ DOMAIN t.pc = JoinPads /\ \A q \in JoinPads \ {p} : t.pc[q] = s.pc[q]
    BY <1>1, <2>4 DEF JoinTyped
  <2>6. JoinTyped(t)
    BY <1>1, <2>3, <2>4, <2>5 DEF JoinTyped
  <2>7. ASSUME JoinAlone(s)
        PROVE  JoinAlone(t)
    <3>1. s.active = p /\ \A q \in JoinPads : t.pc[q] = "idle"
      BY <2>2, <2>5, <2>7 DEF JoinAlone
    <3>2. JoinOwn(t, p) \/ t.sticky[p].caps = "none"
      <4>1. CASE s.pc[p] = "eos"
        BY <2>3, <2>4, <2>7, <3>1, <4>1 DEF JoinAlone, JoinOwn
      <4>2. CASE s.pc[p] = "event"
        BY <2>3, <2>4, <4>2 DEF JoinOwn
      <4> QED
        BY <2>2, <4>1, <4>2
    <3>3. t.active = p /\ p # NoJoinPad
      BY <2>4, <3>1, JoinAssumption
    <3> QED
      BY <2>4, <3>1, <3>2, <3>3 DEF JoinAlone
  <2>8. t.raced = s.raced
    BY <2>4 DEF JoinFields
  <2>9. t.raced \/ JoinAlone(t)
    BY <2>7, <2>8, Zenon DEF JoinInv, s
  <2> QED
    BY <1>2, <2>6, <2>9
<1>7. CASE \E p \in JoinPads : ChainLock(p)
  <2>1. PICK p \in JoinPads : ChainLock(p)
    BY <1>7
  <2> DEFINE pc == IF s.active = p THEN "buffer" ELSE "sticky"
             raced == Racing(p)
  <2>2. /\ s.pc[p] = "idle" /\ s.sticky[p].caps # "none"
        /\ t = [s EXCEPT !.active = p, !.buffers[p] = @ + 1, !.pc[p] = pc, !.last = NoJoinPad, !.raced = raced]
    BY <2>1 DEF ChainLock
  <2> HIDE DEF s, t, pc, raced
  <2>3. /\ DOMAIN t = JoinFields /\ t.active = p /\ t.src = s.src /\ t.last = NoJoinPad /\ t.raced = raced
        /\ t.pc = [s.pc EXCEPT ![p] = pc] /\ t.sticky = s.sticky
    BY <1>1, <2>2 DEF JoinTyped, JoinFields
  <2>4. t.pc[p] = pc /\ DOMAIN t.pc = JoinPads /\ \A q \in JoinPads \ {p} : t.pc[q] = s.pc[q]
    BY <1>1, <2>3 DEF JoinTyped
  <2>5. JoinTyped(t)
    BY <1>1, <2>3, <2>4 DEF JoinTyped
  <2>6. ASSUME ~raced
        PROVE  JoinAlone(t)
    <3>1. JoinAlone(s) /\ \A q \in JoinPads : s.pc[q] = "idle"
      BY <2>2, <2>6, JoinLocked DEF raced, s
    <3>2. \A q \in JoinPads \ {p} : t.pc[q] = "idle"
      BY <2>4, <3>1
    <3>3. t.pc[p] = "buffer" => JoinOwn(t, p)
      <4>1. t.pc[p] = "buffer" => s.active = p
        BY <2>4 DEF pc
      <4> QED
        BY <2>2, <2>3, <3>1, <4>1 DEF JoinAlone, JoinOwn
    <3>4. t.pc[p] \in {"buffer", "sticky"} /\ p # NoJoinPad
      BY <2>4, JoinAssumption DEF pc
    <3> QED
      BY <2>3, <3>2, <3>3, <3>4 DEF JoinAlone
  <2>7. t.raced \/ JoinAlone(t)
    BY <2>3, <2>6, Zenon
  <2> QED
    BY <1>2, <2>5, <2>7
<1>8. CASE ForwardStickyEvents
  <2>1. PICK p \in JoinPads :
          s.pc[p] = "sticky" /\ t = [s EXCEPT !.src.of = p, !.src.sticky = s.sticky[p],
                                              !.pc[p] = "buffer", !.last = NoJoinPad]
    BY <1>8 DEF ForwardStickyEvents
  <2> HIDE DEF s, t
  <2>2. /\ DOMAIN t = JoinFields /\ t.active = s.active /\ t.last = NoJoinPad /\ t.sticky = s.sticky
        /\ DOMAIN t.src = {"of", "sticky", "eos"} /\ t.src.of = p /\ t.src.sticky = s.sticky[p]
        /\ t.pc = [s.pc EXCEPT ![p] = "buffer"]
        /\ \A x \in JoinFields \ {"src", "pc", "last"} : t[x] = s[x]
    BY <1>1, <2>1 DEF JoinTyped, JoinFields
  <2>3. t.pc[p] = "buffer" /\ DOMAIN t.pc = JoinPads /\ \A q \in JoinPads \ {p} : t.pc[q] = s.pc[q]
    BY <1>1, <2>2 DEF JoinTyped
  <2>4. JoinTyped(t)
    BY <1>1, <2>2, <2>3 DEF JoinTyped
  <2>5. ASSUME JoinAlone(s)
        PROVE  JoinAlone(t)
    <3>1. s.active = p /\ \A q \in JoinPads \ {p} : t.pc[q] = "idle"
      BY <2>1, <2>3, <2>5 DEF JoinAlone
    <3>2. JoinOwn(t, p) /\ t.active = p /\ p # NoJoinPad
      BY <2>2, <3>1, JoinAssumption DEF JoinOwn
    <3> QED
      BY <2>2, <2>3, <3>1, <3>2 DEF JoinAlone
  <2>6. t.raced = s.raced
    BY <2>2 DEF JoinFields
  <2>7. t.raced \/ JoinAlone(t)
    BY <2>5, <2>6, Zenon DEF JoinInv, s
  <2> QED
    BY <1>2, <2>4, <2>7
<1>9. CASE ChainPush
  <2>1. PICK p \in JoinPads :
          s.pc[p] = "buffer" /\ t = [s EXCEPT !.pc[p] = "idle", !.last = IF join.src.eos THEN NoJoinPad ELSE p]
    BY <1>9 DEF ChainPush
  <2> DEFINE last == IF join.src.eos THEN NoJoinPad ELSE p
  <2>2. t = [s EXCEPT !.pc[p] = "idle", !.last = last] /\ last \in {NoJoinPad, p}
    BY <2>1
  <2> HIDE DEF s, t, last
  <2>3. /\ DOMAIN t = JoinFields /\ t.active = s.active /\ t.last = last /\ t.sticky = s.sticky /\ t.src = s.src
        /\ t.pc = [s.pc EXCEPT ![p] = "idle"]
        /\ \A x \in JoinFields \ {"pc", "last"} : t[x] = s[x]
    BY <1>1, <2>2 DEF JoinTyped, JoinFields
  <2>4. t.pc[p] = "idle" /\ DOMAIN t.pc = JoinPads /\ \A q \in JoinPads \ {p} : t.pc[q] = s.pc[q]
    BY <1>1, <2>3 DEF JoinTyped
  <2>5. JoinTyped(t)
    BY <1>1, <2>3, <2>4 DEF JoinTyped
  <2>6. ASSUME JoinAlone(s)
        PROVE  JoinAlone(t)
    <3>1. s.active = p /\ JoinOwn(s, p) /\ \A q \in JoinPads : t.pc[q] = "idle"
      BY <2>1, <2>4, <2>6 DEF JoinAlone
    <3>2. JoinOwn(t, p) /\ t.active = p /\ p # NoJoinPad
      BY <2>3, <3>1, JoinAssumption DEF JoinOwn
    <3> QED
      BY <2>2, <2>3, <3>1, <3>2 DEF JoinAlone
  <2>7. t.raced = s.raced
    BY <2>3 DEF JoinFields
  <2>8. t.raced \/ JoinAlone(t)
    BY <2>6, <2>7, Zenon DEF JoinInv, s
  <2> QED
    BY <1>2, <2>5, <2>8
<1> QED
  BY <1>3, <1>4, <1>5, <1>6, <1>7, <1>8, <1>9 DEF JoinNext
\* A buffer that was pushed comes after the events of its own pad.
LEMMA JoinImplies ==
  ASSUME join # Absent => JoinInv
  PROVE  JoinOwnSegment
BY Zenon DEF JoinOwnSegment, JoinInv, JoinAlone, JoinOwn

-----------------------------------------------------------------------------
(* tensor_demux and tensor_split                                           *)

\* Where a segment starts, and what it has
OffsetOf(segs, nth) ==
  LET Sum[i \in 0..nth] == IF i = 0 THEN 0 ELSE Sum[i - 1] + segs[i]
  IN Sum[nth - 1]

\* A segment starts where the one before it ends.
LEMMA OffsetsFollow ==
  ASSUME NEW segs \in Seq(Nat)
  PROVE  /\ \A nth \in 1..Len(segs) : OffsetOf(segs, nth) \in Nat
         /\ Len(segs) > 0 => OffsetOf(segs, 1) = 0
         /\ \A nth \in 1..(Len(segs) - 1) :
              OffsetOf(segs, nth + 1) = OffsetOf(segs, nth) + segs[nth]
<1> DEFINE Sum(n) == CHOOSE f : f = [i \in 0..n |-> IF i = 0 THEN 0 ELSE f[i - 1] + segs[i]]
<1>1. ASSUME NEW n \in 1..Len(segs)
      PROVE  /\ Sum(n) \in [0..n -> Nat] /\ Sum(n)[0] = 0
             /\ \A i \in 1..n : Sum(n)[i] = Sum(n)[i - 1] + segs[i]
             /\ OffsetOf(segs, n) = Sum(n)[n - 1]
  <2> DEFINE step == [p \in (1..n) \X Nat |-> p[2] + segs[p[1]]]
  <2>1. step \in [(1..n) \X Nat -> Nat] /\ n \in Nat
    OBVIOUS
  <2> HIDE DEF step
  <2>2. PICK f : Stepped(f, n, Nat, 0, step)
    <3>1. 0 \in Nat /\ step \in Steps(n, Nat)
      BY <2>1 DEF Steps
    <3> QED
      BY <2>1, <3>1, StepByStep
  <2>3. f \in [0..n -> Nat] /\ f[0] = 0 /\ \A i \in 1..n : f[i] = step[<<i, f[i - 1]>>]
    BY <2>2 DEF Stepped
  <2>4. f = [i \in 0..n |-> IF i = 0 THEN 0 ELSE f[i - 1] + segs[i]]
    <3> DEFINE g == [i \in 0..n |-> IF i = 0 THEN 0 ELSE f[i - 1] + segs[i]]
    <3>1. ASSUME NEW i \in 0..n
          PROVE  f[i] = g[i]
      <4>1. CASE i = 0
        BY <2>3, <4>1
      <4>2. CASE i # 0
        <5>1. i \in 1..n /\ f[i - 1] \in Nat /\ <<i, f[i - 1]>> \in (1..n) \X Nat
          BY <2>1, <2>3, <4>2
        <5>2. step[<<i, f[i - 1]>>] = f[i - 1] + segs[i]
          BY <5>1 DEF step
        <5>3. f[i] = step[<<i, f[i - 1]>>]
          BY <2>3, <5>1
        <5> QED
          BY <4>2, <5>2, <5>3
      <4> QED
        BY <4>1, <4>2
    <3> QED
      BY <2>3, <3>1
  <2>5. Sum(n) = [i \in 0..n |-> IF i = 0 THEN 0 ELSE Sum(n)[i - 1] + segs[i]]
    BY <2>4
  <2>6. OffsetOf(segs, n) = Sum(n)[n - 1]
    BY DEF OffsetOf
  <2> DEFINE h == Sum(n)
  <2>7. h = [i \in 0..n |-> IF i = 0 THEN 0 ELSE h[i - 1] + segs[i]]
    BY <2>5
  <2> HIDE DEF h
  <2>8. DOMAIN h = 0..n /\ h[0] = 0 /\ \A i \in 1..n : h[i] = h[i - 1] + segs[i]
    BY <2>1, <2>7
  <2>9. \A i \in 0..n : h[i] \in Nat
    <3> DEFINE S == {i \in 0..n : h[i] \notin Nat}
    <3> SUFFICES ASSUME S # {}
                 PROVE  FALSE
      OBVIOUS
    <3>1. S \in SUBSET Nat
      OBVIOUS
    <3>2. PICK i \in S : \A j \in S : i <= j
      BY <3>1, LeastOne
    <3>3. i # 0
      BY <2>8, <3>2
    <3>4. i \in 1..n /\ i - 1 \in 0..n /\ ~(i <= i - 1)
      BY <3>3
    <3>5. h[i - 1] \in Nat
      BY <3>2, <3>4
    <3>6. segs[i] \in Nat
      BY <3>4
    <3>7. h[i] = h[i - 1] + segs[i]
      BY <2>8, <3>4
    <3>8. h[i] \notin Nat
      BY <3>2
    <3> DEFINE x == h[i - 1]
               y == segs[i]
    <3>9. x \in Nat /\ y \in Nat /\ h[i] = x + y
      BY <3>5, <3>6, <3>7
    <3> HIDE DEF x, y
    <3>10. h[i] \in Nat
      BY <3>9
    <3> QED
      BY <3>8, <3>10
  <2>10. h \in [0..n -> Nat]
    BY <2>7, <2>8, <2>9
  <2> QED
    BY <2>6, <2>8, <2>10 DEF h
<1> HIDE DEF Sum
<1>2. ASSUME NEW n \in 1..(Len(segs) - 1)
      PROVE  \A i \in 0..n : Sum(n + 1)[i] = Sum(n)[i]
  <2>1. n \in 1..Len(segs) /\ n + 1 \in 1..Len(segs)
    OBVIOUS
  <2> DEFINE S == {i \in 0..n : Sum(n + 1)[i] # Sum(n)[i]}
  <2> SUFFICES ASSUME S # {}
               PROVE  FALSE
    OBVIOUS
  <2>2. S \in SUBSET Nat
    OBVIOUS
  <2>3. PICK i \in S : \A j \in S : i <= j
    BY <2>2, LeastOne
  <2>4. i # 0
    BY <1>1, <2>1, <2>3
  <2>5. i \in 1..n /\ i \in 1..(n + 1) /\ i - 1 \in 0..n /\ ~(i <= i - 1)
    BY <2>4
  <2>6. Sum(n + 1)[i - 1] = Sum(n)[i - 1]
    BY <2>3, <2>5
  <2>7. Sum(n + 1)[i] = Sum(n + 1)[i - 1] + segs[i]
    BY <1>1, <2>1, <2>5
  <2>8. Sum(n)[i] = Sum(n)[i - 1] + segs[i]
    BY <1>1, <2>1, <2>5
  <2> QED
    BY <2>3, <2>6, <2>7, <2>8
<1>3. ASSUME NEW n \in 1..Len(segs)
      PROVE  OffsetOf(segs, n) \in Nat /\ (n = 1 => OffsetOf(segs, n) = 0)
  <2>1. n - 1 \in 0..n
    OBVIOUS
  <2> QED
    BY <1>1, <2>1
<1>4. ASSUME NEW n \in 1..(Len(segs) - 1)
      PROVE  OffsetOf(segs, n + 1) = OffsetOf(segs, n) + segs[n]
  <2>1. n \in 1..Len(segs) /\ n + 1 \in 1..Len(segs) /\ n \in 1..n /\ n \in 0..n /\ n \in 1..(n + 1) /\ n - 1 \in 0..n /\ (n + 1) - 1 = n
    OBVIOUS
  <2>2. OffsetOf(segs, n + 1) = Sum(n + 1)[n] /\ OffsetOf(segs, n) = Sum(n)[n - 1]
    BY <1>1, <2>1
  <2>3. Sum(n)[n] = Sum(n)[n - 1] + segs[n]
    BY <1>1, <2>1
  <2>4. Sum(n + 1)[n] = Sum(n)[n]
    BY <1>2, <2>1
  <2> QED
    BY <2>2, <2>3, <2>4
<1> QED
  BY <1>3, <1>4

CutOf(segs, nth) == [k \in 1..segs[nth] |-> OffsetOf(segs, nth) + k]

\* What is picked for a pad, of tensor_demux and of tensor_split
PickOf(pick, k) == IF pick = << >> THEN <<k>> ELSE pick[k]
DemuxedOf(pick, n) == IF pick = << >> THEN [i \in 1..n |-> <<i>>] ELSE pick
SplitOf(num, spick) == Ascending({i \in 1..num : spick = {} \/ i \in spick})
UnderCaps(caps, list) == [j \in 1..Len(list) |-> <<caps, list[j]>>]

\* What a call of chain pushes, of the fields it depends on
SourcesOf(kind, caps, pick, num, spick, segs) ==
  LET demuxed == DemuxedOf(pick, caps[2])
      split == SplitOf(num, spick)
  IN IF kind = "demux"
     THEN [k \in 1..Len(demuxed) |->
             [nth |-> k, ok |-> \A j \in 1..Len(demuxed[k]) : demuxed[k][j] <= caps[2],
              data |-> UnderCaps(caps, demuxed[k])]]
     ELSE [k \in 1..Len(split) |-> [nth |-> split[k], ok |-> TRUE, data |-> CutOf(segs, split[k])]]

\* The sources are those of the fields.
LEMMA SourcesSame ==
  Sources = SourcesOf(dmx.kind, dmx.caps, dmx.pick, dmx.num, dmx.spick, dmx.segs)
BY DEF Sources, SourcesOf, GetSplitted, SplitOffset, CutOf, OffsetOf, DemuxedOf, SplitOf, UnderCaps

\* Each source has a pad number of its own.
LEMMA SourcesAre ==
  ASSUME NEW kind \in {"demux", "split"}, NEW caps \in Nat \X Nat, NEW pick \in Seq(Seq(Nat)),
         NEW num \in Nat, NEW spick, NEW segs,
         NEW src, src = SourcesOf(kind, caps, pick, num, spick, segs)
  PROVE  /\ Len(src) \in Nat /\ DOMAIN src = 1..Len(src)
         /\ \A k \in 1..Len(src) :
              /\ src[k].nth \in Nat
              /\ kind = "demux" => src[k].nth = k /\ src[k].data = UnderCaps(caps, PickOf(pick, k))
              /\ kind = "split" => src[k].ok /\ src[k].data = CutOf(segs, src[k].nth)
              /\ kind = "split" /\ spick \in {{}, 1..1, 1..2, 1..3} => src[k].nth = k
         /\ \A j, k \in 1..Len(src) : j # k => src[j].nth # src[k].nth
         /\ kind = "split" /\ spick = {} => Len(src) = num
<1>1. CASE kind = "demux"
  <2> DEFINE demuxed == DemuxedOf(pick, caps[2])
  <2>1. Len(demuxed) \in Nat /\ \A k \in 1..Len(demuxed) : demuxed[k] = PickOf(pick, k)
    <3>1. caps[2] \in Nat
      OBVIOUS
    <3>2. CASE pick = << >>
      <4> DEFINE n == caps[2]
                 ones == [i \in 1..n |-> <<i>>]
      <4>1. n \in Nat /\ demuxed = ones
        BY <3>1, <3>2 DEF DemuxedOf
      <4> HIDE DEF n, demuxed
      <4>2. ones \in [1..n -> Seq(1..n)]
        BY <4>1
      <4>3. Len(ones) = n /\ \A k \in 1..n : ones[k] = <<k>>
        BY <4>1, <4>2
      <4> QED
        BY <3>2, <4>1, <4>3 DEF PickOf
    <3>3. CASE pick # << >>
      BY <3>3 DEF DemuxedOf, PickOf
    <3> QED
      BY <3>2, <3>3
  <2> DEFINE fits(k) == \A j \in 1..Len(demuxed[k]) : demuxed[k][j] <= caps[2]
             entry(k) == [nth |-> k, ok |-> fits(k), data |-> UnderCaps(caps, demuxed[k])]
  <2>2. src = [k \in 1..Len(demuxed) |-> entry(k)]
    BY <1>1 DEF SourcesOf
  <2> HIDE DEF demuxed, fits
  <2>3. \A k \in 1..Len(demuxed) : entry(k).nth = k /\ entry(k).data = UnderCaps(caps, demuxed[k])
    OBVIOUS
  <2> HIDE DEF entry
  <2> DEFINE n == Len(demuxed)
  <2>4. n \in Nat /\ DOMAIN src = 1..n
    BY <2>1, <2>2
  <2>5. \A k \in 1..n : src[k].nth = k /\ src[k].data = UnderCaps(caps, demuxed[k])
    BY <2>2, <2>3
  <2>6. Len(src) = n
    BY <2>2, <2>4
  <2> HIDE DEF n
  <2>7. kind # "split"
    BY <1>1
  <2>8. \A k \in 1..n : src[k].nth = k /\ src[k].data = UnderCaps(caps, PickOf(pick, k))
    <3>1. \A k \in 1..n : demuxed[k] = PickOf(pick, k)
      BY <2>1, Zenon DEF n
    <3> QED
      BY <2>5, <3>1, Zenon
  <2> QED
    BY <2>4, <2>6, <2>7, <2>8
<1>2. CASE kind = "split"
  <2> DEFINE split == SplitOf(num, spick)
             S == {i \in 1..num : spick = {} \/ i \in spick}
  <2>1. S \in SUBSET (1..num)
    OBVIOUS
  <2>2. split \in Seq(S) /\ InOrder(split)
    BY <2>1, AscendingIs DEF SplitOf
  <2>3. src = [k \in 1..Len(split) |-> [nth |-> split[k], ok |-> TRUE, data |-> CutOf(segs, split[k])]]
    BY <1>2 DEF SourcesOf
  <2>4. ASSUME spick \in {{}, 1..1, 1..2, 1..3}
        PROVE  (\A k \in 1..Len(split) : split[k] = k) /\ (spick = {} => Len(split) = num)
    <3>1. PICK m \in Nat : S = (0 + 1)..m /\ (spick = {} => m = num)
      <4>1. CASE spick = {}
        <5>1. S = (0 + 1)..num
          BY <4>1
        <5> QED
          BY <5>1
      <4>2. ASSUME NEW l \in 1..3, spick = 1..l
            PROVE  \E m \in Nat : S = (0 + 1)..m /\ (spick = {} => m = num)
        <5>1. spick # {}
          <6>1. 1 \in 1..l
            OBVIOUS
          <6> QED
            BY <4>2, <6>1
        <5>2. CASE num <= l
          <6>1. S = (0 + 1)..num
            BY <4>2, <5>1, <5>2
          <6> QED
            BY <6>1
        <5>3. CASE ~(num <= l)
          <6>1. \A i \in 1..num : (spick = {} \/ i \in spick) <=> i \in 1..l
            BY <4>2, <5>1
          <6>2. S = {i \in 1..num : i \in 1..l}
            BY <6>1
          <6>3. S = (0 + 1)..l
            <7> HIDE DEF S
            <7> QED
              BY <5>3, <6>2
          <6> HIDE DEF S
          <6> QED
            BY <5>1, <6>3
        <5> QED
          BY <5>2, <5>3
      <4> HIDE DEF S
      <4>3. spick = {} \/ spick = 1..1 \/ spick = 1..2 \/ spick = 1..3
        BY <2>4
      <4>4. 1 \in 1..3 /\ 2 \in 1..3 /\ 3 \in 1..3
        OBVIOUS
      <4> QED
        BY <4>1, <4>2, <4>3, <4>4
    <3>2. Len(split) = m /\ \A j \in 1..m : split[j] = j
      <4>1. Ascending((0 + 1)..m) = split
        BY <3>1 DEF SplitOf
      <4>2. 0 \in Nat /\ 0 <= m
        OBVIOUS
      <4>3. Len(Ascending((0 + 1)..m)) = m - 0 /\ \A j \in 1..(m - 0) : Ascending((0 + 1)..m)[j] = 0 + j
        BY <4>2, AscendingFrom
      <4> QED
        BY <4>1, <4>3
    <3> QED
      BY <3>1, <3>2
  <2> HIDE DEF split
  <2> DEFINE n == Len(split)
  <2>5. n \in Nat /\ DOMAIN src = 1..n /\ \A k \in 1..n : split[k] \in Nat
    <3>1. \A k \in 1..n : split[k] \in S
      BY <2>2
    <3>2. \A x \in S : x \in Nat
      OBVIOUS
    <3> HIDE DEF S
    <3> QED
      BY <2>2, <2>3, <3>1, <3>2
  <2>6. \A k \in 1..n : src[k].nth = split[k] /\ src[k].data = CutOf(segs, split[k])
    BY <2>3
  <2>7. \A k \in 1..n : src[k].ok
    <3>1. \A k \in 1..n : src[k].ok = TRUE
      BY <2>3
    <3> QED
      BY <3>1
  <2>8. Len(src) = n
    BY <2>3, <2>5
  <2>9. \A j, k \in 1..n : j # k => split[j] # split[k]
    BY <2>2, <2>5 DEF InOrder
  <2>10. kind # "demux"
    BY <1>2
  <2> HIDE DEF n, S
  <2>11. spick \in {{}, 1..1, 1..2, 1..3} => \A k \in 1..n : src[k].nth = k
    BY <2>4, <2>6 DEF n
  <2>12. spick = {} => n = num
    BY <2>4 DEF n
  <2> QED
    BY <2>5, <2>6, <2>7, <2>8, <2>9, <2>10, <2>11, <2>12
<1> QED
  BY <1>1, <1>2

\* What a push on the pad at a place returns
RetOf(linked, i) == IF i \in linked THEN "ok" ELSE "not-linked"

\* The segments picked are the first ones, or all.
Plain(spick) == spick \in {{}, 1..1, 1..2, 1..3}

DemuxFields ==
  {"kind", "pick", "spick", "segs", "num", "linked", "pads", "caps", "out", "flow", "steps"}
DemuxTyped(d) ==
  /\ DOMAIN d = DemuxFields /\ d.kind \in {"demux", "split"}
  /\ d.pick \in Seq(Seq(Nat)) /\ d.segs \in Seq(Nat)
  /\ d.num \in {0, Len(d.segs)} /\ d.caps \in Nat \X Nat /\ d.steps \in Nat

\* The pads have numbers of their own, and the flow of the place they are at.
PadsListed(pads, linked) ==
  /\ \E T : pads \in Seq(T)
  /\ \A i \in 1..Len(pads) :
       DOMAIN pads[i] = {"nth", "ret", "caps"} /\ pads[i].nth \in Nat /\ pads[i].ret = RetOf(linked, i)
  /\ \A i, j \in 1..Len(pads) : i # j => pads[i].nth # pads[j].nth

\* What one call of chain may make of the pads when it handles k sources: it keeps
\* the pads that are there, and makes one for each source that has none.
PadsGrown(pads, linked, src, k, more) ==
  /\ PadsListed(more, linked) /\ Len(pads) <= Len(more)
  /\ \A i \in 1..Len(pads) : more[i].nth = pads[i].nth /\ more[i].caps = pads[i].caps
  /\ \A i \in (Len(pads) + 1)..Len(more) :
       \E j \in 1..k : more[i].nth = src[j].nth /\ more[i].caps = PadConfig(i, src[j])
  /\ \A j \in 1..k : \E i \in 1..Len(more) : more[i].nth = src[j].nth
  /\ (\A i \in 1..Len(pads) : pads[i].nth = i) /\ (\A j \in 1..k : src[j].nth = j) =>
       \A i \in 1..Len(more) : more[i].nth = i

\* The pads made by a call of chain get the places after those that are there, in the order
\* of their sources.
LEMMA PadsAfterGrown ==
  ASSUME PadsListed(dmx.pads, dmx.linked), NEW k \in Nat, NEW src, src = Sources,
         \A j \in 1..k : src[j].nth \in Nat,
         \A i, j \in 1..k : i # j => src[i].nth # src[j].nth
  PROVE  PadsGrown(dmx.pads, dmx.linked, src, k, PadsAfter(k))
<1> DEFINE pads == dmx.pads
           old == Len(pads)
           S == {j \in 1..k : \A i \in 1..old : pads[i].nth # src[j].nth}
           made == Ascending(S)
           n == Len(made)
           more == PadsAfter(k)
           ret(i) == IF \E j \in 1..k : src[j].nth = pads[i].nth THEN RetOf(dmx.linked, i) ELSE pads[i].ret
           kept(i) == [pads[i] EXCEPT !.ret = ret(i)]
           new(i) == [nth |-> src[made[i - old]].nth, ret |-> RetOf(dmx.linked, i),
                      caps |-> PadConfig(i, src[made[i - old]])]
<1>1. more = [i \in 1..(old + n) |-> IF i <= old THEN kept(i) ELSE new(i)]
  BY DEF PadsAfter, RetOf
<1>2. old \in Nat /\ DOMAIN pads = 1..old
  BY DEF PadsListed
<1>3. n \in Nat /\ (\A i \in 1..n : made[i] \in S) /\ (\A i, j \in 1..n : i < j => made[i] < made[j])
      /\ \A j \in S : \E i \in 1..n : made[i] = j
  <2>1. S \in SUBSET (1..k)
    OBVIOUS
  <2> HIDE DEF S
  <2>2. made \in Seq(S) /\ InOrder(made) /\ Members(made) = S
    BY <2>1, AscendingIs
  <2> HIDE DEF made
  <2>3. n \in Nat /\ \A i \in 1..n : made[i] \in S
    BY <2>2
  <2>4. \A i, j \in 1..n : i < j => made[i] < made[j]
    BY <2>2 DEF InOrder
  <2>5. \A j \in S : \E i \in 1..n : made[i] = j
    BY <2>2 DEF Members
  <2> QED
    BY <2>3, <2>4, <2>5
<1>4. \A i \in 1..old : /\ DOMAIN pads[i] = {"nth", "ret", "caps"} /\ pads[i].nth \in Nat
                        /\ pads[i].ret = RetOf(dmx.linked, i) /\ \A j \in 1..old : i # j => pads[i].nth # pads[j].nth
  BY DEF PadsListed
<1> HIDE DEF more, n, made, pads, old
<1>5. ASSUME NEW i \in 1..old
      PROVE  /\ DOMAIN more[i] = {"nth", "ret", "caps"} /\ more[i].nth = pads[i].nth
             /\ more[i].caps = pads[i].caps /\ more[i].ret = RetOf(dmx.linked, i)
  <2>1. i \in 1..(old + n) /\ i <= old
    BY <1>2, <1>3
  <2>2. more[i] = kept(i)
    BY <1>1, <2>1
  <2>3. ret(i) = RetOf(dmx.linked, i)
    BY <1>4
  <2> HIDE DEF ret
  <2> QED
    BY <1>4, <2>2, <2>3
<1>6. ASSUME NEW i \in 1..n
      PROVE  /\ DOMAIN more[old + i] = {"nth", "ret", "caps"} /\ more[old + i].nth = src[made[i]].nth
             /\ more[old + i].caps = PadConfig(old + i, src[made[i]])
             /\ more[old + i].ret = RetOf(dmx.linked, old + i) /\ made[i] \in S
  <2>1. old + i \in 1..(old + n) /\ ~(old + i <= old) /\ (old + i) - old = i
    BY <1>2, <1>3
  <2>2. more[old + i] = new(old + i)
    BY <1>1, <2>1
  <2> QED
    BY <1>3, <2>1, <2>2
<1>7. \A x \in S : x \in 1..k /\ \A i \in 1..old : pads[i].nth # src[x].nth
  OBVIOUS
<1>8. \A j \in 1..k : j \in S \/ \E i \in 1..old : pads[i].nth = src[j].nth
  OBVIOUS
<1> HIDE DEF S
<1>9. \A i \in 1..(old + n) : i \in 1..old \/ (i - old \in 1..n /\ old + (i - old) = i)
  BY <1>2, <1>3
<1>10. (\E T : more \in Seq(T)) /\ Len(more) = old + n /\ old + n \in Nat
  <2> DEFINE m == old + n
             T == {more[i] : i \in 1..m}
  <2>1. m \in Nat
    BY <1>2, <1>3
  <2>2. more \in [1..m -> T]
    BY <1>1
  <2> HIDE DEF m, T
  <2>3. more \in Seq(T) /\ Len(more) = m
    BY <2>1, <2>2
  <2> QED
    BY <2>1, <2>3 DEF m
<1>11. \A i \in 1..(old + n) : DOMAIN more[i] = {"nth", "ret", "caps"} /\ more[i].nth \in Nat /\ more[i].ret = RetOf(dmx.linked, i)
  <2> SUFFICES ASSUME NEW i \in 1..(old + n)
               PROVE  DOMAIN more[i] = {"nth", "ret", "caps"} /\ more[i].nth \in Nat /\ more[i].ret = RetOf(dmx.linked, i)
    OBVIOUS
  <2>1. CASE i \in 1..old
    BY <1>4, <1>5, <2>1
  <2>2. CASE i - old \in 1..n /\ old + (i - old) = i
    <3> DEFINE e == i - old
    <3>1. e \in 1..n /\ old + e = i
      BY <2>2
    <3> HIDE DEF e
    <3>2. src[made[e]].nth \in Nat
      BY <1>6, <1>7, <3>1
    <3> QED
      BY <1>6, <3>1, <3>2
  <2> QED
    BY <1>9, <2>1, <2>2
<1>12. \A i, j \in 1..(old + n) : i # j => more[i].nth # more[j].nth
  <2>1. ASSUME NEW i \in 1..old, NEW j \in 1..old, i # j
        PROVE  more[i].nth # more[j].nth
    BY <1>4, <1>5, <2>1
  <2>2. ASSUME NEW i \in 1..old, NEW j \in 1..n
        PROVE  more[i].nth # more[old + j].nth
    BY <1>5, <1>6, <1>7
  <2>3. ASSUME NEW i \in 1..n, NEW j \in 1..n, i # j
        PROVE  more[old + i].nth # more[old + j].nth
    <3>1. made[i] \in 1..k /\ made[j] \in 1..k
      BY <1>6, <1>7
    <3>2. i \in Int /\ j \in Int /\ made[i] \in Int /\ made[j] \in Int
      BY <1>3, <3>1
    <3>3. i < j \/ j < i
      BY <2>3, <3>2
    <3>4. made[i] # made[j]
      BY <1>3, <3>2, <3>3
    <3> QED
      BY <1>6, <3>1, <3>4
  <2> QED
    <3> SUFFICES ASSUME NEW i \in 1..(old + n), NEW j \in 1..(old + n), i # j
                 PROVE  more[i].nth # more[j].nth
      OBVIOUS
    <3> DEFINE e == i - old
               f == j - old
    <3>1. (i \in 1..old \/ (e \in 1..n /\ old + e = i)) /\ (j \in 1..old \/ (f \in 1..n /\ old + f = j))
      BY <1>9
    <3> HIDE DEF e, f
    <3>2. CASE i \in 1..old /\ j \in 1..old
      BY <2>1, <3>2
    <3>3. CASE i \in 1..old /\ f \in 1..n /\ old + f = j
      BY <2>2, <3>3
    <3>4. CASE e \in 1..n /\ old + e = i /\ j \in 1..old
      BY <2>2, <3>4
    <3>5. CASE e \in 1..n /\ old + e = i /\ f \in 1..n /\ old + f = j
      <4>1. e # f
        BY <3>5
      <4> QED
        BY <2>3, <3>5, <4>1
    <3> QED
      BY <3>1, <3>2, <3>3, <3>4, <3>5
<1>13. PadsListed(more, dmx.linked)
  BY <1>10, <1>11, <1>12 DEF PadsListed
<1>14. ASSUME NEW i \in (old + 1)..(old + n)
       PROVE  \E j \in 1..k : more[i].nth = src[j].nth /\ more[i].caps = PadConfig(i, src[j])
  <2> DEFINE e == i - old
  <2>1. e \in 1..n /\ old + e = i
    BY <1>2, <1>3
  <2> HIDE DEF e
  <2> QED
    BY <1>6, <1>7, <2>1
<1>15. ASSUME NEW j \in 1..k
       PROVE  \E i \in 1..(old + n) : more[i].nth = src[j].nth
  <2>1. CASE j \in S
    <3>1. PICK i \in 1..n : made[i] = j
      BY <1>3, <2>1
    <3>2. old + i \in 1..(old + n)
      BY <1>2, <1>3
    <3> QED
      BY <1>6, <3>1, <3>2
  <2>2. CASE \E i \in 1..old : pads[i].nth = src[j].nth
    <3>1. PICK i \in 1..old : pads[i].nth = src[j].nth
      BY <2>2
    <3>2. i \in 1..(old + n)
      BY <1>2, <1>3
    <3> QED
      BY <1>5, <3>1, <3>2
  <2> QED
    BY <1>8, <2>1, <2>2
<1>16. ASSUME \A i \in 1..old : pads[i].nth = i, \A j \in 1..k : src[j].nth = j
       PROVE  \A i \in 1..(old + n) : more[i].nth = i
  <2>1. \A x \in 1..k : x \in S <=> x \in (old + 1)..k
    <3> SUFFICES ASSUME NEW x \in 1..k
                 PROVE  x \in S <=> x \in (old + 1)..k
      OBVIOUS
    <3>1. x \in S <=> \A i \in 1..old : pads[i].nth # src[x].nth
      BY DEF S
    <3>2. src[x].nth = x
      BY <1>16
    <3>3. (\A i \in 1..old : pads[i].nth # src[x].nth) <=> \A i \in 1..old : i # x
      BY <1>16, <3>2
    <3>4. (\A i \in 1..old : i # x) <=> x \in (old + 1)..k
      BY <1>2
    <3> QED
      BY <3>1, <3>3, <3>4
  <2>2. CASE old <= k
    <3>1. S = (old + 1)..k
      <4>1. \A x \in (old + 1)..k : x \in 1..k
        BY <1>2
      <4> QED
        BY <1>7, <2>1, <4>1
    <3>2. n = k - old /\ \A j \in 1..(k - old) : made[j] = old + j
      BY <1>2, <2>2, <3>1, AscendingFrom DEF made, n
    <3>3. \A j \in 1..n : more[old + j].nth = old + j
      <4> SUFFICES ASSUME NEW j \in 1..n
                   PROVE  more[old + j].nth = old + j
        OBVIOUS
      <4>1. made[j] = old + j
        BY <3>2
      <4>2. more[old + j].nth = src[made[j]].nth /\ made[j] \in 1..k
        BY <1>6, <1>7
      <4> QED
        BY <1>16, <4>1, <4>2
    <3> QED
      BY <1>5, <1>9, <1>16, <3>3
  <2>3. CASE ~(old <= k)
    <3>1. S = {}
      <4>1. \A x \in 1..k : x \notin (old + 1)..k
        BY <1>2, <2>3
      <4> QED
        BY <1>7, <2>1, <4>1
    <3>2. n = 0
      <4>1. \A i \in 1..n : FALSE
        BY <1>3, <3>1
      <4> QED
        BY <1>3, <4>1
    <3> QED
      BY <1>2, <1>5, <1>16, <3>2
  <2> QED
    BY <2>2, <2>3
<1> QED
  BY <1>2, <1>3, <1>5, <1>10, <1>13, <1>14, <1>15, <1>16 DEF PadsGrown, more, pads, old

\* The sources of a state
SourcesIn(d) == SourcesOf(d.kind, d.caps, d.pick, d.num, d.spick, d.segs)

\* A pad has the caps of the tensors picked for it, or of the segment of its place;
\* only a pad made for what could not be pushed has not, and it gets nothing.
PadGood(d, p, i) ==
  /\ d.kind = "demux" =>
       \/ \E c : p.caps = UnderCaps(c, PickOf(d.pick, p.nth))
       \/ d.flow = "error" /\ \A j \in 1..Len(d.out) : d.out[j].nth # p.nth
  /\ d.kind = "split" /\ Plain(d.spick) => p.nth = i /\ p.caps = CutOf(d.segs, i)

\* What was pushed are the first sources, all of them where nothing failed.
OutGood(d) ==
  /\ \E T : d.out \in Seq(T)
  /\ \A j \in 1..Len(d.out) :
       /\ j \in 1..Len(SourcesIn(d)) /\ d.out[j] = SourcesIn(d)[j]
       /\ \E i \in 1..Len(d.pads) : d.pads[i].nth = d.out[j].nth
  /\ d.flow = "ok" /\ d.out # << >> => Len(d.out) = Len(SourcesIn(d))

\* What holds of the element between any two steps
DemuxKept(d) ==
  /\ DemuxTyped(d) /\ PadsListed(d.pads, d.linked) /\ OutGood(d)
  /\ \A i \in 1..Len(d.pads) : PadGood(d, d.pads[i], i)
  /\ d.flow = "not-linked" => Unlinked(d.pads)

\* How far a call of chain gets
ChainGot(d, src, k, m, flow) ==
  /\ k \in 0..Len(src) /\ m \in 0..k /\ \A j \in 1..m : src[j].ok
  /\ \/ flow = "ok" /\ k = Len(src) /\ m = k
     \/ flow = "not-linked" /\ m = k /\ Unlinked(PadsAfter(k))
     \/ flow = "error" /\ k = m + 1

\* What it leaves
ChainMade(d, t, src, k, m, flow) ==
  t = [d EXCEPT !.steps = @ + 1, !.pads = PadsAfter(k), !.out = SubSeq(src, 1, m), !.flow = flow]

\* A call of chain pushes the sources in order, up to the first that fails or after which no
\* pad is linked.
LEMMA DemuxChainGets ==
  ASSUME DemuxKept(dmx), DemuxChain, NEW src, src = Sources
  PROVE  /\ dmx.flow = "ok"
         /\ \E k, m, flow : ChainGot(dmx, src, k, m, flow) /\ ChainMade(dmx, dmx', src, k, m, flow)
<1> DEFINE n == Len(Sources)
           stop == ChainStop
           last == IF stop = {} THEN n ELSE CHOOSE k \in stop : TRUE
           pushed == SubSeq(Sources, 1, IF stop # {} /\ ~Sources[last].ok THEN last - 1 ELSE last)
           ends == IF stop = {} THEN "ok" ELSE IF Sources[last].ok THEN "not-linked" ELSE "error"
<1>1. /\ dmx.caps[2] > 0 /\ dmx.steps < DemuxMaxSteps /\ dmx.flow = "ok"
      /\ dmx' = [dmx EXCEPT !.steps = @ + 1, !.pads = PadsAfter(last), !.out = pushed, !.flow = ends]
  BY DEF DemuxChain
<1>2. n \in Nat
  BY SourcesSame, SourcesAre DEF DemuxKept, DemuxTyped
<1>3. \A k \in 1..n : StopsAt(k) => ~Sources[k].ok \/ Unlinked(PadsAfter(k))
  BY DEF StopsAt
<1>4. \A k \in 1..n : ~StopsAt(k) => Sources[k].ok
  BY DEF StopsAt
<1> HIDE DEF stop, last, pushed, n, ends
<1>5. src = Sources /\ n = Len(src)
  BY DEF n
<1>6. stop = {k \in 1..n : StopsAt(k) /\ \A j \in 1..(k - 1) : ~StopsAt(j)}
  BY DEF stop, ChainStop, n
<1>7. ASSUME NEW m, ChainGot(dmx, src, last, m, ends), pushed = SubSeq(src, 1, m)
      PROVE  \E k, m_1, flow : ChainGot(dmx, src, k, m_1, flow) /\ ChainMade(dmx, dmx', src, k, m_1, flow)
  <2>1. ChainMade(dmx, dmx', src, last, m, ends)
    BY <1>1, <1>7 DEF ChainMade
  <2> QED
    BY <1>7, <2>1
<1>8. CASE stop = {}
  <2>1. \A k \in 1..n : ~StopsAt(k)
    <3> DEFINE S == {k \in 1..n : StopsAt(k)}
    <3> SUFFICES ASSUME S # {}
                 PROVE  FALSE
      OBVIOUS
    <3>1. S \in SUBSET Nat
      BY <1>2
    <3>2. PICK k \in S : \A j \in S : k <= j
      BY <3>1, LeastOne
    <3>3. k \in 1..n /\ StopsAt(k)
      OBVIOUS
    <3>4. \A j \in 1..(k - 1) : j \in 1..n /\ ~(k <= j)
      BY <1>2, <3>3
    <3>5. \A j \in 1..(k - 1) : ~StopsAt(j)
      BY <3>2, <3>4
    <3> QED
      BY <1>8, <1>6, <3>3, <3>5
  <2>2. last = n /\ pushed = SubSeq(src, 1, n)
    BY <1>8, <1>5 DEF last, pushed
  <2>3. \A j \in 1..n : src[j].ok
    BY <1>4, <1>5, <2>1
  <2>4. ends = "ok"
    BY <1>8 DEF ends
  <2>5. ChainGot(dmx, src, last, n, ends)
    BY <1>2, <1>5, <2>2, <2>3, <2>4 DEF ChainGot
  <2> QED
    BY <1>1, <1>7, <2>2, <2>5
<1>9. CASE stop # {}
  <2>1. last \in stop
    BY <1>9 DEF last
  <2>2. last \in 1..n /\ StopsAt(last) /\ \A j \in 1..(last - 1) : ~StopsAt(j)
    BY <1>6, <2>1
  <2>3. \A j \in 1..(last - 1) : j \in 1..n /\ src[j].ok
    BY <1>2, <1>4, <1>5, <2>2
  <2>4. CASE Sources[last].ok
    <3>1. pushed = SubSeq(src, 1, last)
      BY <1>5, <2>4 DEF pushed
    <3>2. \A j \in 1..last : j = last \/ j \in 1..(last - 1)
      BY <1>2, <2>2
    <3>3. \A j \in 1..last : src[j].ok
      BY <1>5, <2>3, <2>4, <3>2
    <3>4. Unlinked(PadsAfter(last))
      BY <1>3, <2>2, <2>4
    <3>5. last \in 0..Len(src) /\ last \in 0..last
      BY <1>2, <1>5, <2>2
    <3>6. ends = "not-linked"
      BY <1>9, <2>4 DEF ends
    <3>7. ChainGot(dmx, src, last, last, ends)
      BY <3>3, <3>4, <3>5, <3>6 DEF ChainGot
    <3> QED
      BY <1>1, <1>7, <3>1, <3>7
  <2>5. CASE ~Sources[last].ok
    <3>1. pushed = SubSeq(src, 1, last - 1)
      BY <1>9, <1>5, <2>5 DEF pushed
    <3>2. last \in 0..Len(src) /\ last - 1 \in 0..last /\ last = (last - 1) + 1
      BY <1>2, <1>5, <2>2
    <3>3. ends = "error"
      BY <1>9, <2>5 DEF ends
    <3>4. ChainGot(dmx, src, last, last - 1, ends)
      BY <2>3, <3>2, <3>3 DEF ChainGot
    <3> QED
      BY <1>1, <1>7, <3>1, <3>4
  <2> QED
    BY <2>4, <2>5, Zenon
<1> QED
  BY <1>8, <1>9

\* What a new pad gets fits its caps.
LEMMA NewPadGood ==
  ASSUME NEW d, NEW p, NEW i, NEW j \in Nat, NEW s, NEW caps,
         d.kind = dmx.kind, d.segs = dmx.segs, d.pick = dmx.pick, d.spick = dmx.spick,
         d.kind \in {"demux", "split"}, p.nth = s.nth, p.caps = PadConfig(i, s),
         d.kind = "demux" => s.nth = j /\ s.data = UnderCaps(caps, PickOf(d.pick, j)),
         d.kind = "split" /\ Plain(d.spick) => p.nth = i,
         s.ok \/ (d.flow = "error" /\ \A x \in 1..Len(d.out) : d.out[x].nth # s.nth)
  PROVE  PadGood(d, p, i)
<1>1. CASE d.kind = "demux"
  <2>1. CASE s.ok
    BY <1>1, <2>1 DEF PadGood, PadConfig
  <2>2. CASE ~s.ok
    BY <1>1, <2>2 DEF PadGood
  <2> QED
    BY <2>1, <2>2
<1>2. CASE d.kind = "split"
  <2>1. p.caps = CutOf(d.segs, i)
    BY <1>2 DEF PadConfig, SplitOffset, OffsetOf, CutOf
  <2> QED
    BY <1>2, <2>1 DEF PadGood
<1> QED
  BY <1>1, <1>2

\* What the rest of the fields says of the sources.
SourcesGood(d, src) ==
  /\ Len(src) \in Nat /\ src \in Seq({src[k] : k \in 1..Len(src)})
  /\ \A k \in 1..Len(src) :
       /\ src[k].nth \in Nat
       /\ d.kind = "demux" => src[k].nth = k /\ src[k].data = UnderCaps(d.caps, PickOf(d.pick, k))
       /\ d.kind = "split" => src[k].ok /\ src[k].data = CutOf(d.segs, src[k].nth)
       /\ d.kind = "split" /\ Plain(d.spick) => src[k].nth = k
  /\ \A j, k \in 1..Len(src) : j # k => src[j].nth # src[k].nth
  /\ d.kind = "split" /\ d.spick = {} => Len(src) = d.num

\* They are so in every state of the right type.
LEMMA SourcesKept ==
  ASSUME NEW d, DemuxTyped(d), NEW src, src = SourcesIn(d)
  PROVE  SourcesGood(d, src)
<1> DEFINE kind == d.kind
           caps == d.caps
           pick == d.pick
           num == d.num
           spick == d.spick
           segs == d.segs
<1>1. kind \in {"demux", "split"} /\ caps \in Nat \X Nat /\ pick \in Seq(Seq(Nat)) /\ num \in Nat
  BY DEF DemuxTyped
<1>2. src = SourcesOf(kind, caps, pick, num, spick, segs)
  BY DEF SourcesIn
<1> HIDE DEF kind, caps, pick, num, spick, segs
<1>3. /\ Len(src) \in Nat /\ DOMAIN src = 1..Len(src)
      /\ \A k \in 1..Len(src) :
           /\ src[k].nth \in Nat
           /\ kind = "demux" => src[k].nth = k /\ src[k].data = UnderCaps(caps, PickOf(pick, k))
           /\ kind = "split" => src[k].ok /\ src[k].data = CutOf(segs, src[k].nth)
           /\ kind = "split" /\ spick \in {{}, 1..1, 1..2, 1..3} => src[k].nth = k
      /\ \A j, k \in 1..Len(src) : j # k => src[j].nth # src[k].nth
      /\ kind = "split" /\ spick = {} => Len(src) = num
  BY <1>1, <1>2, SourcesAre
<1>4. src \in Seq({src[k] : k \in 1..Len(src)})
  <2> DEFINE n == Len(src)
             T == {src[k] : k \in 1..n}
             f == [k \in 1..n |-> src[k]]
  <2>1. src = f
    <3>1. src = [k \in DOMAIN src |-> src[k]]
      BY <1>1, <1>2 DEF SourcesOf
    <3> QED
      BY <1>3, <3>1
  <2>2. f \in [1..n -> T]
    OBVIOUS
  <2> HIDE DEF n, T, f
  <2>3. f \in Seq(T)
    BY <1>3, <2>2 DEF n
  <2> QED
    BY <2>1, <2>3 DEF n, T
<1> QED
  BY <1>3, <1>4 DEF kind, caps, pick, num, spick, segs, Plain, SourcesGood

\* The first m of a list
LEMMA FirstOnes ==
  ASSUME NEW T, NEW s \in Seq(T), NEW m \in 0..Len(s)
  PROVE  SubSeq(s, 1, m) \in Seq(T) /\ Len(SubSeq(s, 1, m)) = m /\ \A j \in 1..m : SubSeq(s, 1, m)[j] = s[j]
<1>1. Len(s) \in Nat /\ m \in Nat /\ m <= Len(s)
  OBVIOUS
<1>2. \A j \in 1..m : j \in 1..Len(s) /\ 1 + j - 1 = j
  BY <1>1
<1>3. SubSeq(s, 1, m) \in Seq(T) /\ Len(SubSeq(s, 1, m)) = m
  BY <1>1
<1> QED
  BY <1>1, <1>2, <1>3

\* A call of chain keeps the invariant.
LEMMA DemuxChainKeeps ==
  ASSUME DemuxKept(dmx), DemuxChain
  PROVE  DemuxKept(dmx')
<1> DEFINE d == dmx
           t == dmx'
           src == Sources
           old == Len(d.pads)
<1>1. src = SourcesIn(d) /\ DemuxTyped(d) /\ PadsListed(d.pads, d.linked)
  BY SourcesSame DEF SourcesIn, DemuxKept
<1>2. PICK k, m, flow : ChainGot(d, src, k, m, flow) /\ ChainMade(d, t, src, k, m, flow)
  BY DemuxChainGets
<1>3. d.flow = "ok"
  BY DemuxChainGets
<1> DEFINE more == PadsAfter(k)
<1>4. k \in 0..Len(src) /\ m \in 0..k /\ \A j \in 1..m : src[j].ok
  BY <1>2 DEF ChainGot
<1>5. (k = m /\ flow # "error") \/ (flow = "error" /\ k = m + 1)
  BY <1>2 DEF ChainGot
<1>6. (flow = "ok" => m = Len(src)) /\ (flow = "not-linked" => Unlinked(more))
  BY <1>2 DEF ChainGot
<1> HIDE DEF src, more
<1>7. SourcesGood(d, src)
  BY <1>1, SourcesKept
<1>8. Len(src) \in Nat
  BY <1>7 DEF SourcesGood
<1>9. /\ t.pads = more /\ t.out = SubSeq(src, 1, m) /\ t.flow = flow /\ t.steps = d.steps + 1
      /\ DOMAIN t = DemuxFields /\ \A x \in DemuxFields \ {"pads", "out", "flow", "steps"} : t[x] = d[x]
  BY <1>1, <1>2 DEF ChainMade, DemuxTyped, DemuxFields, more
<1>10. /\ t.kind = d.kind /\ t.pick = d.pick /\ t.spick = d.spick /\ t.segs = d.segs /\ t.num = d.num
      /\ t.linked = d.linked /\ t.caps = d.caps
  BY <1>9 DEF DemuxFields
<1>11. t.pads = more /\ t.out = SubSeq(src, 1, m) /\ t.flow = flow
  BY <1>9
<1>12. k \in Nat /\ m \in Nat /\ (\A j \in 1..k : j \in 1..Len(src)) /\ \A j \in 1..m : j \in 1..k
  BY <1>4, <1>8
<1>13. PadsGrown(d.pads, d.linked, src, k, more)
  <2>1. (\A j \in 1..k : src[j].nth \in Nat) /\ \A i, j \in 1..k : i # j => src[i].nth # src[j].nth
    BY <1>7, <1>12 DEF SourcesGood
  <2>2. src = Sources
    BY DEF src
  <2> QED
    BY <1>1, <1>12, <2>1, <2>2, PadsAfterGrown DEF more
<1> HIDE DEF d, t
<1>14. DemuxTyped(t)
  BY <1>1, <1>9, <1>10 DEF DemuxTyped
<1>15. PadsListed(t.pads, t.linked)
  BY <1>9, <1>10, <1>13 DEF PadsGrown
<1>16. SourcesIn(t) = src
  BY <1>1, <1>10 DEF SourcesIn
<1>17. (\E T : t.out \in Seq(T)) /\ Len(t.out) = m /\ \A j \in 1..m : t.out[j] = src[j]
  <2> DEFINE T == {src[j] : j \in 1..Len(src)}
  <2>1. src \in Seq(T) /\ m \in 0..Len(src)
    BY <1>4, <1>8, <1>7 DEF SourcesGood
  <2> HIDE DEF T
  <2>2. SubSeq(src, 1, m) \in Seq(T) /\ Len(SubSeq(src, 1, m)) = m /\ \A j \in 1..m : SubSeq(src, 1, m)[j] = src[j]
    BY <2>1, FirstOnes
  <2> QED
    BY <1>11, <2>2
<1>18. OutGood(t)
  <2>1. ASSUME NEW j \in 1..m
        PROVE  /\ j \in 1..Len(src) /\ t.out[j] = src[j]
               /\ \E i \in 1..Len(t.pads) : t.pads[i].nth = t.out[j].nth
    <3>1. j \in 1..k /\ j \in 1..Len(src) /\ t.out[j] = src[j]
      BY <1>12, <1>17
    <3>2. \E i \in 1..Len(more) : more[i].nth = src[j].nth
      BY <1>13, <3>1 DEF PadsGrown
    <3> QED
      BY <1>11, <3>1, <3>2
  <2>2. t.flow = "ok" => Len(t.out) = Len(src)
    BY <1>6, <1>11, <1>17
  <2> QED
    BY <1>16, <1>17, <2>1, <2>2 DEF OutGood
<1>19. ASSUME NEW i \in 1..Len(t.pads)
       PROVE  PadGood(t, t.pads[i], i)
  <2>1. CASE i \in 1..old
    <3>1. t.pads[i].nth = d.pads[i].nth /\ t.pads[i].caps = d.pads[i].caps
      BY <1>9, <1>13, <2>1 DEF PadsGrown
    <3>2. PadGood(d, d.pads[i], i)
      BY <2>1 DEF DemuxKept, d
    <3> QED
      BY <1>10, <1>3, <3>1, <3>2 DEF PadGood
  <2>2. CASE i \notin 1..old
    <3>1. i \in (old + 1)..Len(more) /\ t.pads = more
      BY <1>1, <1>11, <1>13, <2>2 DEF PadsGrown, PadsListed
    <3>2. PICK j \in 1..k : more[i].nth = src[j].nth /\ more[i].caps = PadConfig(i, src[j])
      BY <1>13, <3>1 DEF PadsGrown
    <3>3. d.kind = "split" /\ Plain(d.spick) => more[i].nth = i
      <4> SUFFICES ASSUME d.kind = "split", Plain(d.spick)
                   PROVE  more[i].nth = i
        OBVIOUS
      <4>1. \A x \in 1..old : d.pads[x].nth = x
        BY DEF DemuxKept, PadGood, d
      <4>2. \A x \in 1..k : src[x].nth = x
        BY <1>7, <1>12 DEF SourcesGood
      <4> QED
        BY <1>9, <1>13, <4>1, <4>2 DEF PadsGrown
    <3>4. src[j].ok \/ (t.flow = "error" /\ \A x \in 1..Len(t.out) : t.out[x].nth # src[j].nth)
      <4>1. CASE j \in 1..m
        BY <1>4, <4>1
      <4>2. CASE j \notin 1..m
        <5>1. flow = "error" /\ k = m + 1
          BY <1>5, <4>2
        <5>2. j = m + 1 /\ j \in 1..Len(src)
          BY <1>12, <4>2, <5>1
        <5>3. \A x \in 1..m : x \in 1..Len(src) /\ x # j
          BY <1>12, <4>2
        <5> QED
          BY <1>7, <1>11, <1>17, <5>1, <5>2, <5>3 DEF SourcesGood
      <4> QED
        BY <4>1, <4>2, Zenon
    <3>5. j \in Nat /\ (t.kind = "demux" => src[j].nth = j /\ src[j].data = UnderCaps(d.caps, PickOf(t.pick, j)))
      BY <1>7, <1>10, <1>12 DEF SourcesGood
    <3> DEFINE s == src[j]
               p == more[i]
    <3>6. /\ j \in Nat /\ t.kind = dmx.kind /\ t.segs = dmx.segs /\ t.pick = dmx.pick /\ t.spick = dmx.spick
          /\ t.kind \in {"demux", "split"} /\ p.nth = s.nth /\ p.caps = PadConfig(i, s)
          /\ t.kind = "demux" => s.nth = j /\ s.data = UnderCaps(d.caps, PickOf(t.pick, j))
          /\ t.kind = "split" /\ Plain(t.spick) => p.nth = i
      BY <1>10, <1>14, <3>2, <3>3, <3>5 DEF d, DemuxTyped
    <3>7. s.ok \/ (t.flow = "error" /\ \A x \in 1..Len(t.out) : t.out[x].nth # s.nth)
      BY <3>4
    <3> HIDE DEF s, p
    <3>8. PadGood(t, p, i)
      BY <3>6, <3>7, NewPadGood
    <3> QED
      BY <3>1, <3>8 DEF p
  <2> QED
    BY <2>1, <2>2
<1>20. t.flow = "not-linked" => Unlinked(t.pads)
  BY <1>6, <1>11
<1>21. DemuxKept(t)
  BY <1>14, <1>15, <1>18, <1>19, <1>20 DEF DemuxKept
<1> QED
  BY <1>21 DEF t

\* There are no pads at first.
LEMMA DemuxInitKept ==
  ASSUME DemuxInit
  PROVE  DemuxKept(dmx)
<1>1. PICK linked \in SUBSET (1..3), kind \in {"demux", "split"}, segs \in SplitSegs,
           pick \in DemuxPicks, spick \in SplitPicks :
        /\ kind = "demux" => segs = CHOOSE s \in SplitSegs : TRUE
        /\ kind = "demux" => spick = {}
        /\ kind = "split" => pick = << >>
        /\ dmx = [kind |-> kind, pick |-> pick, spick |-> spick, segs |-> segs,
                  num |-> Len(segs), linked |-> linked, pads |-> << >>,
                  caps |-> <<0, 0>>, out |-> << >>, flow |-> "ok", steps |-> 0]
  BY DEF DemuxInit
<1>2. segs \in Seq(Nat) /\ pick \in Seq(Seq(Nat))
  BY DemuxAssumption
<1>3. /\ DOMAIN dmx = DemuxFields /\ dmx.kind \in {"demux", "split"} /\ dmx.pick = pick /\ dmx.segs = segs
      /\ dmx.num = Len(segs) /\ dmx.pads = << >> /\ dmx.caps = <<0, 0>> /\ dmx.out = << >> /\ dmx.flow = "ok"
      /\ dmx.steps = 0
  BY <1>1 DEF DemuxFields
<1>4. DemuxTyped(dmx)
  BY <1>2, <1>3 DEF DemuxTyped
<1>5. PadsListed(dmx.pads, dmx.linked) /\ \A i \in 1..Len(dmx.pads) : FALSE
  BY <1>3 DEF PadsListed
<1>6. OutGood(dmx)
  BY <1>3 DEF OutGood
<1> QED
  BY <1>3, <1>4, <1>5, <1>6 DEF DemuxKept

\* The other steps push nothing.
LEMMA DemuxQuietKeeps ==
  ASSUME DemuxKept(dmx), NEW t, DemuxTyped(t), t.out = << >>, t.kind = dmx.kind, t.pick = dmx.pick,
         t.spick = dmx.spick, t.segs = dmx.segs, t.linked = dmx.linked,
         \/ t.pads = dmx.pads /\ dmx.flow = "ok" /\ t.flow # "not-linked"
         \/ t.pads = dmx.pads /\ t.flow = dmx.flow /\ t.kind = "split"
         \/ t.pads = << >> /\ t.flow = "ok"
  PROVE  DemuxKept(t)
<1>1. OutGood(t)
  BY DEF OutGood
<1>2. PadsListed(t.pads, t.linked)
  <2>1. CASE t.pads = dmx.pads
    <3>1. PadsListed(dmx.pads, dmx.linked)
      BY DEF DemuxKept
    <3> QED
      BY <2>1, <3>1
  <2>2. CASE t.pads = << >>
    <3>1. \E T : t.pads \in Seq(T)
      BY <2>2
    <3>2. \A i \in 1..Len(t.pads) : FALSE
      BY <2>2
    <3> QED
      BY <3>1, <3>2 DEF PadsListed
  <2> QED
    BY <2>1, <2>2
<1>3. \A i \in 1..Len(t.pads) : PadGood(t, t.pads[i], i)
  <2>1. CASE t.pads = << >>
    BY <2>1
  <2>2. CASE t.pads = dmx.pads /\ dmx.flow = "ok"
    BY <2>2 DEF DemuxKept, PadGood
  <2>3. CASE t.pads = dmx.pads /\ t.kind = "split"
    BY <2>3 DEF DemuxKept, PadGood
  <2> QED
    BY <2>1, <2>2, <2>3
<1>4. t.flow = "not-linked" => Unlinked(t.pads)
  BY DEF DemuxKept
<1> QED
  BY <1>1, <1>2, <1>3, <1>4 DEF DemuxKept

\* So do caps, the end of the stream, a restart and the property.
LEMMA DemuxStep ==
  ASSUME DemuxKept(dmx), DemuxNext
  PROVE  DemuxKept(dmx')
<1> DEFINE d == dmx
           t == dmx'
<1>1. /\ DOMAIN d = DemuxFields /\ d.kind \in {"demux", "split"} /\ d.pick \in Seq(Seq(Nat)) /\ d.segs \in Seq(Nat)
      /\ d.num \in {0, Len(d.segs)} /\ d.caps \in Nat \X Nat /\ d.steps \in Nat
  BY DEF DemuxKept, DemuxTyped
<1>2. CASE DemuxCaps
  <2>1. PICK n \in DemuxTensors :
          /\ dmx.steps < DemuxMaxSteps /\ dmx.flow = "ok"
          /\ dmx' = [dmx EXCEPT !.caps = <<dmx.steps + 1, n>>, !.out = << >>, !.steps = @ + 1]
    BY <1>2, Zenon DEF DemuxCaps
  <2>2. n \in Nat /\ <<d.steps + 1, n>> \in Nat \X Nat /\ d.steps + 1 \in Nat
    BY <1>1, DemuxAssumption
  <2>3. /\ DOMAIN t = DemuxFields /\ t.caps = <<d.steps + 1, n>> /\ t.out = << >> /\ t.steps = d.steps + 1
        /\ \A x \in DemuxFields \ {"caps", "out", "steps"} : t[x] = d[x]
    BY <1>1, <2>1 DEF DemuxFields
  <2>4. /\ t.kind = d.kind /\ t.pick = d.pick /\ t.spick = d.spick /\ t.segs = d.segs /\ t.num = d.num
        /\ t.linked = d.linked /\ t.pads = d.pads /\ t.flow = "ok" /\ d.flow = "ok"
    BY <2>1, <2>3 DEF DemuxFields
  <2>5. DemuxTyped(t)
    BY <1>1, <2>2, <2>3, <2>4 DEF DemuxTyped
  <2> QED
    BY <2>3, <2>4, <2>5, DemuxQuietKeeps
<1>3. CASE DemuxChain
  BY <1>3, DemuxChainKeeps
<1>4. CASE DemuxEos
  <2> DEFINE flow == IF d.pads = << >> THEN "error" ELSE "eos"
  <2>1. d.flow = "ok" /\ t = [d EXCEPT !.flow = flow, !.out = << >>]
    BY <1>4 DEF DemuxEos
  <2>2. flow # "not-linked"
    OBVIOUS
  <2> HIDE DEF flow
  <2>3. /\ DOMAIN t = DemuxFields /\ t.out = << >> /\ t.flow = flow
        /\ \A x \in DemuxFields \ {"flow", "out"} : t[x] = d[x]
    BY <1>1, <2>1 DEF DemuxFields
  <2>4. /\ t.kind = d.kind /\ t.pick = d.pick /\ t.spick = d.spick /\ t.segs = d.segs /\ t.num = d.num
        /\ t.linked = d.linked /\ t.pads = d.pads /\ t.caps = d.caps /\ t.steps = d.steps
    BY <2>3 DEF DemuxFields
  <2>5. DemuxTyped(t)
    BY <1>1, <2>3, <2>4 DEF DemuxTyped
  <2> QED
    BY <2>1, <2>3, <2>4, <2>5, <2>2, DemuxQuietKeeps
<1>5. CASE DemuxRestart
  <2>1. t = [d EXCEPT !.pads = << >>, !.caps = <<0, 0>>, !.out = << >>, !.flow = "ok", !.num = 0, !.steps = @ + 1]
    BY <1>5 DEF DemuxRestart
  <2>2. /\ DOMAIN t = DemuxFields /\ t.pads = << >> /\ t.caps = <<0, 0>> /\ t.out = << >> /\ t.flow = "ok"
        /\ t.num = 0 /\ t.steps = d.steps + 1
        /\ \A x \in DemuxFields \ {"pads", "caps", "out", "flow", "num", "steps"} : t[x] = d[x]
    BY <1>1, <2>1 DEF DemuxFields
  <2>3. t.kind = d.kind /\ t.pick = d.pick /\ t.spick = d.spick /\ t.segs = d.segs /\ t.linked = d.linked
    BY <2>2 DEF DemuxFields
  <2>4. DemuxTyped(t)
    BY <1>1, <2>2, <2>3 DEF DemuxTyped
  <2> QED
    BY <2>2, <2>3, <2>4, DemuxQuietKeeps
<1>6. CASE SetTensorseg
  <2>1. d.kind = "split" /\ t = [d EXCEPT !.num = Len(d.segs), !.out = << >>]
    BY <1>6 DEF SetTensorseg
  <2>2. /\ DOMAIN t = DemuxFields /\ t.out = << >> /\ t.num = Len(d.segs)
        /\ \A x \in DemuxFields \ {"num", "out"} : t[x] = d[x]
    BY <1>1, <2>1 DEF DemuxFields
  <2>3. /\ t.kind = d.kind /\ t.pick = d.pick /\ t.spick = d.spick /\ t.segs = d.segs /\ t.flow = d.flow
        /\ t.linked = d.linked /\ t.pads = d.pads /\ t.caps = d.caps /\ t.steps = d.steps
    BY <2>2 DEF DemuxFields
  <2>4. DemuxTyped(t)
    BY <1>1, <2>2, <2>3 DEF DemuxTyped
  <2> QED
    BY <2>1, <2>2, <2>3, <2>4, DemuxQuietKeeps
<1> QED
  BY <1>2, <1>3, <1>4, <1>5, <1>6 DEF DemuxNext

\* The pad of a number is the one that has it.
LEMMA PadFound ==
  ASSUME NEW nth, \E y \in 1..Len(dmx.pads) : dmx.pads[y].nth = nth
  PROVE  \E x \in 1..Len(dmx.pads) : dmx.pads[x].nth = nth /\ PadOf(nth) = dmx.pads[x]
<1> DEFINE x == CHOOSE i \in 1..Len(dmx.pads) : dmx.pads[i].nth = nth
<1>1. x \in 1..Len(dmx.pads) /\ dmx.pads[x].nth = nth
  OBVIOUS
<1>2. PadOf(nth) = dmx.pads[x]
  BY DEF PadOf
<1> HIDE DEF x
<1> QED
  BY <1>1, <1>2

\* So every pad gets what its caps announce.
LEMMA MatchesImplied ==
  ASSUME dmx # Absent => DemuxKept(dmx)
  PROVE  DemuxMatches
<1> SUFFICES ASSUME DemuxKept(dmx), NEW i \in 1..Len(dmx.out),
                    ~Picked, LET caps == PadOf(dmx.out[i].nth).caps
                             IN ~(dmx.kind = "demux" /\ caps # << >> /\ caps[1][1] # dmx.caps)
             PROVE  dmx.out[i].data = PadOf(dmx.out[i].nth).caps
  BY DEF DemuxMatches
<1> DEFINE d == dmx
           src == SourcesIn(d)
           e == dmx.out[i]
<1>1. PICK x \in 1..Len(d.pads) : d.pads[x].nth = e.nth /\ PadOf(e.nth) = d.pads[x]
  <2>1. \E y \in 1..Len(dmx.pads) : dmx.pads[y].nth = e.nth
    BY DEF DemuxKept, OutGood
  <2> HIDE DEF e
  <2> QED
    BY <2>1, PadFound
<1> DEFINE p == d.pads[x]
<1>2. PadGood(d, p, x) /\ p.nth = e.nth
  BY <1>1 DEF DemuxKept
<1>3. i \in 1..Len(src) /\ e = src[i]
  BY DEF DemuxKept, OutGood
<1>4. SourcesGood(d, src)
  BY SourcesKept DEF DemuxKept
<1>5. dmx.kind \in {"demux", "split"}
  BY DEF DemuxKept, DemuxTyped
<1>6. ~(d.kind = "demux" /\ p.caps # << >> /\ p.caps[1][1] # d.caps)
  BY <1>1
<1>7. d.kind = "split" => Plain(d.spick)
  BY DEF Picked, Plain
<1>8. PadOf(dmx.out[i].nth).caps = p.caps
  BY <1>1
<1> HIDE DEF src, p, e
<1>9. e.data = p.caps
  <2>1. CASE d.kind = "demux"
    <3>1. e.nth = i /\ e.data = UnderCaps(d.caps, PickOf(d.pick, i))
      BY <1>3, <1>4, <2>1 DEF SourcesGood
    <3>2. ~ \A j \in 1..Len(d.out) : d.out[j].nth # p.nth
      BY <1>2 DEF e
    <3>3. PICK c : p.caps = UnderCaps(c, PickOf(d.pick, i))
      BY <1>2, <2>1, <3>1, <3>2 DEF PadGood
    <3> DEFINE list == PickOf(d.pick, i)
    <3>4. list \in Seq(Nat)
      <4>1. d.pick \in Seq(Seq(Nat)) /\ i \in Nat
        BY <1>3, <1>4 DEF DemuxKept, DemuxTyped, SourcesGood
      <4>2. CASE d.pick = << >>
        BY <4>1, <4>2 DEF PickOf
      <4>3. CASE d.pick # << >>
        <5>1. i \in 1..Len(d.pick)
          <6>1. DemuxedOf(d.pick, d.caps[2]) = d.pick
            BY <4>3 DEF DemuxedOf
          <6>2. src = [k \in 1..Len(d.pick) |->
                        [nth |-> k, ok |-> \A j \in 1..Len(d.pick[k]) : d.pick[k][j] <= d.caps[2],
                         data |-> UnderCaps(d.caps, d.pick[k])]]
            BY <2>1, <6>1 DEF src, SourcesIn, SourcesOf
          <6>3. DOMAIN src = 1..Len(d.pick)
            BY <6>2
          <6>4. DOMAIN src = 1..Len(src)
            BY <1>4 DEF SourcesGood
          <6> QED
            BY <1>3, <6>3, <6>4
        <5> QED
          BY <4>1, <4>3, <5>1 DEF PickOf
      <4> QED
        BY <4>2, <4>3
    <3> HIDE DEF list
    <3>5. p.caps = [j \in 1..Len(list) |-> <<c, list[j]>>] /\ e.data = [j \in 1..Len(list) |-> <<d.caps, list[j]>>]
      BY <3>1, <3>3 DEF UnderCaps, list
    <3>6. CASE Len(list) = 0
      BY <3>5, <3>6
    <3>7. CASE Len(list) # 0
      <4>1. 1 \in 1..Len(list)
        BY <3>4, <3>7
      <4>2. p.caps[1] = <<c, list[1]>> /\ DOMAIN p.caps # {}
        BY <3>5, <4>1
      <4>3. p.caps # << >> /\ p.caps[1][1] = c
        BY <4>2
      <4>4. c = d.caps
        BY <1>6, <2>1, <4>3
      <4> QED
        BY <3>5, <4>4
    <3> QED
      BY <3>6, <3>7
  <2>2. CASE d.kind = "split"
    <3>1. e.data = CutOf(d.segs, e.nth)
      BY <1>3, <1>4, <2>2 DEF SourcesGood
    <3> QED
      BY <1>2, <1>7, <2>2, <3>1 DEF PadGood
  <2> QED
    BY <1>5, <2>1, <2>2
<1> QED
  BY <1>8, <1>9 DEF e

\* A first pad that is linked keeps the stream going.
LEMMA LinkedImplied ==
  ASSUME dmx # Absent => DemuxKept(dmx)
  PROVE  DemuxLinked
<1> SUFFICES ASSUME DemuxKept(dmx), 1 \in dmx.linked, dmx.pads # << >>
             PROVE  /\ dmx.flow # "not-linked"
                    /\ dmx.out # << >> /\ dmx.flow = "ok" => Len(dmx.out) = Len(Sources)
  BY DEF DemuxLinked
<1>1. SourcesIn(dmx) = Sources
  BY SourcesSame DEF SourcesIn
<1>2. dmx.out # << >> /\ dmx.flow = "ok" => Len(dmx.out) = Len(Sources)
  BY <1>1 DEF DemuxKept, OutGood
<1>3. 1 \in 1..Len(dmx.pads)
  <2>1. PICK T : dmx.pads \in Seq(T)
    BY DEF DemuxKept, PadsListed
  <2> QED
    BY <2>1
<1>4. dmx.pads[1].ret = "ok"
  BY <1>3 DEF DemuxKept, PadsListed, RetOf
<1>5. dmx.flow # "not-linked"
  BY <1>3, <1>4 DEF DemuxKept, Unlinked
<1> QED
  BY <1>2, <1>5

\* Two lists, one after the other
LEMMA Appended ==
  ASSUME NEW s \in Seq(Nat), NEW t \in Seq(Nat)
  PROVE  /\ s \o t \in Seq(Nat) /\ Len(s \o t) = Len(s) + Len(t)
         /\ \A k \in 1..(Len(s) + Len(t)) : (s \o t)[k] = IF k <= Len(s) THEN s[k] ELSE t[k - Len(s)]
OBVIOUS

\* Numbers that go on where the others ended
LEMMA GoesOn ==
  ASSUME NEW a \in Nat, NEW b \in Nat
  PROVE  [k \in 1..a |-> k] \o [k \in 1..b |-> a + k] = [k \in 1..(a + b) |-> k]
<1> DEFINE s == [k \in 1..a |-> k]
           t == [k \in 1..b |-> a + k]
           u == [k \in 1..(a + b) |-> k]
<1>1. s \in Seq(Nat) /\ t \in Seq(Nat) /\ Len(s) = a /\ Len(t) = b
  OBVIOUS
<1>2. (\A k \in 1..a : s[k] = k) /\ (\A k \in 1..b : t[k] = a + k) /\ u \in [1..(a + b) -> Nat]
      /\ \A k \in 1..(a + b) : u[k] = k
  OBVIOUS
<1> HIDE DEF s, t, u
<1>3. s \o t \in [1..(a + b) -> Nat]
  <2>1. s \o t \in Seq(Nat) /\ Len(s \o t) = a + b
    BY <1>1, Appended
  <2> DEFINE w == s \o t
             n == a + b
  <2>2. w \in Seq(Nat) /\ Len(w) = n
    BY <2>1
  <2> HIDE DEF w, n
  <2>3. w \in [1..n -> Nat]
    BY <2>2
  <2> QED
    BY <2>3 DEF w, n
<1>4. ASSUME NEW k \in 1..(a + b)
      PROVE  (s \o t)[k] = u[k]
  <2>1. CASE k <= a
    <3>1. k \in 1..a
      BY <2>1
    <3> QED
      BY <1>1, <1>2, <2>1, <3>1, Appended
  <2>2. CASE ~(k <= a)
    <3>1. k - a \in 1..b /\ a + (k - a) = k
      BY <2>2
    <3>2. (s \o t)[k] = t[k - a]
      BY <1>1, <2>2, Appended
    <3> QED
      BY <1>2, <3>1, <3>2
  <2> QED
    BY <2>1, <2>2
<1>5. s \o t = u
  <2> DEFINE w == s \o t
             n == a + b
  <2>1. w \in [1..n -> Nat] /\ u \in [1..n -> Nat] /\ n \in Nat /\ \A k \in 1..n : w[k] = u[k]
    BY <1>2, <1>3, <1>4
  <2> HIDE DEF w, n
  <2>2. w = u
    BY <2>1
  <2> QED
    BY <2>2 DEF w
<1> QED
  BY <1>5 DEF s, t, u

\* Where a segment ends
EndOf(segs, i) == IF i = 0 THEN 0 ELSE OffsetOf(segs, i) + segs[i]

\* A loop that puts n segments one after the other
Appends(f, n, data) == f = [i \in 0..n |-> IF i = 0 THEN << >> ELSE f[i - 1] \o data[i]]

\* The loop has a result after each of its rounds.
LEMMA WholeThere ==
  ASSUME NEW segs \in Seq(Nat), NEW n, n = Len(segs), NEW data, \A i \in 1..n : data[i] = CutOf(segs, i)
  PROVE  \E f : Appends(f, n, data)
<1> DEFINE V == Seq(Nat)
           step == [p \in (1..n) \X V |-> p[2] \o CutOf(segs, p[1])]
<1>1. n \in Nat /\ \A i \in 1..n : segs[i] \in Nat
  OBVIOUS
<1>2. \A i \in 1..n : OffsetOf(segs, i) \in Nat
  BY OffsetsFollow
<1>3. \A i \in 1..n : CutOf(segs, i) \in V
  <2> SUFFICES ASSUME NEW i \in 1..n
               PROVE  CutOf(segs, i) \in V
    OBVIOUS
  <2> DEFINE a == OffsetOf(segs, i)
             b == segs[i]
  <2>1. a \in Nat /\ b \in Nat /\ CutOf(segs, i) = [k \in 1..b |-> a + k]
    BY <1>1, <1>2 DEF CutOf
  <2> HIDE DEF a, b
  <2>2. [k \in 1..b |-> a + k] \in Seq(Nat)
    BY <2>1
  <2> QED
    BY <2>1, <2>2
<1>4. PICK f : Stepped(f, n, V, << >>, step)
  <2>1. << >> \in V
    OBVIOUS
  <2>2. \A p \in (1..n) \X V : p[2] \o CutOf(segs, p[1]) \in V
    <3> SUFFICES ASSUME NEW i \in 1..n, NEW s \in V
                 PROVE  s \o CutOf(segs, i) \in V
      OBVIOUS
    <3> QED
      BY <1>3, Appended
  <2>3. step \in Steps(n, V)
    BY <2>2 DEF Steps
  <2> HIDE DEF V, step
  <2> QED
    BY <1>1, <2>1, <2>3, StepByStep
<1>5. f \in [0..n -> V] /\ f[0] = << >> /\ \A i \in 1..n : f[i] = step[<<i, f[i - 1]>>]
  BY <1>4 DEF Stepped
<1>6. f = [i \in 0..n |-> IF i = 0 THEN << >> ELSE f[i - 1] \o data[i]]
  <2> DEFINE more(i) == f[i - 1] \o data[i]
             g == [i \in 0..n |-> IF i = 0 THEN << >> ELSE more(i)]
  <2> HIDE DEF more
  <2>1. ASSUME NEW i \in 0..n
        PROVE  f[i] = g[i]
    <3>1. CASE i = 0
      BY <1>5, <3>1
    <3>2. CASE i # 0
      <4>1. i \in 1..n /\ i - 1 \in 0..n
        BY <1>1, <3>2
      <4>2. f[i - 1] \in V /\ f[i] = step[<<i, f[i - 1]>>]
        BY <1>5, <4>1
      <4>3. step[<<i, f[i - 1]>>] = f[i - 1] \o CutOf(segs, i)
        BY <4>1, <4>2
      <4>4. g[i] = more(i)
        BY <3>2
      <4>5. more(i) = f[i - 1] \o CutOf(segs, i)
        BY <4>1 DEF more
      <4> QED
        BY <4>2, <4>3, <4>4, <4>5
    <3> QED
      BY <3>1, <3>2
  <2> HIDE DEF V
  <2>2. f = g
    BY <1>5, <2>1
  <2> QED
    BY <2>2 DEF more
<1> QED
  BY <1>6 DEF Appends

\* The segments, one after the other, are the whole.
LEMMA WholeIs ==
  ASSUME NEW segs \in Seq(Nat), NEW n, n = Len(segs), NEW whole, whole[0] = << >>,
         \A i \in 1..n : whole[i] = whole[i - 1] \o CutOf(segs, i)
  PROVE  whole[n] = [k \in 1..EndOf(segs, n) |-> k] /\ EndOf(segs, n) \in Nat
<1>1. n \in Nat /\ \A i \in 1..n : segs[i] \in Nat
  OBVIOUS
<1>2. \A i \in 1..n : OffsetOf(segs, i) \in Nat
  BY OffsetsFollow
<1>3. \A i \in 0..n : EndOf(segs, i) \in Nat
  <2> SUFFICES ASSUME NEW i \in 0..n
               PROVE  EndOf(segs, i) \in Nat
    OBVIOUS
  <2>1. CASE i = 0
    BY <2>1 DEF EndOf
  <2>2. CASE i # 0
    <3>1. i \in 1..n
      BY <1>1, <2>2
    <3> DEFINE x == OffsetOf(segs, i)
               y == segs[i]
    <3>2. x \in Nat /\ y \in Nat /\ EndOf(segs, i) = x + y
      BY <1>1, <1>2, <2>2, <3>1 DEF EndOf
    <3> HIDE DEF x, y
    <3> QED
      BY <3>2
  <2> QED
    BY <2>1, <2>2
<1>4. \A i \in 1..n : OffsetOf(segs, i) = EndOf(segs, i - 1)
  <2> SUFFICES ASSUME NEW i \in 1..n
               PROVE  OffsetOf(segs, i) = EndOf(segs, i - 1)
    OBVIOUS
  <2>1. CASE i = 1
    BY <1>1, <2>1, OffsetsFollow DEF EndOf
  <2>2. CASE i # 1
    <3> DEFINE j == i - 1
    <3>1. j \in 1..(n - 1) /\ j + 1 = i /\ j # 0
      BY <1>1, <2>2
    <3> HIDE DEF j
    <3>2. OffsetOf(segs, j + 1) = OffsetOf(segs, j) + segs[j]
      BY <3>1, OffsetsFollow
    <3> QED
      BY <3>1, <3>2 DEF EndOf, j
  <2> QED
    BY <2>1, <2>2
<1> DEFINE S == {i \in 0..n : whole[i] # [k \in 1..EndOf(segs, i) |-> k]}
<1>5. S = {}
  <2> SUFFICES ASSUME S # {}
               PROVE  FALSE
    OBVIOUS
  <2>1. S \in SUBSET Nat
    BY <1>1
  <2>2. PICK i \in S : \A j \in S : i <= j
    BY <2>1, LeastOne
  <2>3. i \in 0..n /\ whole[i] # [k \in 1..EndOf(segs, i) |-> k]
    OBVIOUS
  <2>4. CASE i = 0
    <3>1. [k \in 1..EndOf(segs, 0) |-> k] = << >>
      BY DEF EndOf
    <3> QED
      BY <2>3, <2>4, <3>1
  <2>5. CASE i # 0
    <3>1. i \in 1..n /\ i - 1 \in 0..n /\ ~(i <= i - 1)
      BY <1>1, <2>3, <2>5
    <3>2. i - 1 \notin S
      BY <2>2, <3>1
    <3>3. whole[i - 1] = [k \in 1..EndOf(segs, i - 1) |-> k]
      BY <3>1, <3>2
    <3> DEFINE a == EndOf(segs, i - 1)
               b == segs[i]
    <3>4. a \in Nat /\ b \in Nat /\ OffsetOf(segs, i) = a /\ EndOf(segs, i) = a + b
      BY <1>1, <1>3, <1>4, <2>5, <3>1 DEF EndOf
    <3>5. CutOf(segs, i) = [k \in 1..b |-> a + k]
      BY <3>4 DEF CutOf
    <3>6. whole[i] = whole[i - 1] \o CutOf(segs, i)
      BY <3>1
    <3>7. whole[i - 1] = [k \in 1..a |-> k]
      BY <3>3
    <3> HIDE DEF a, b
    <3>8. whole[i] = [k \in 1..(a + b) |-> k]
      BY <3>4, <3>5, <3>6, <3>7, GoesOn
    <3> QED
      BY <2>3, <3>4, <3>8
  <2> QED
    BY <2>4, <2>5
<1>6. n \in 0..n /\ n \notin S
  <2> HIDE DEF S
  <2> QED
    BY <1>1, <1>5
<1> QED
  BY <1>3, <1>6

\* So the segments that were pushed make up the tensor.
LEMMA WholeImplied ==
  ASSUME dmx # Absent => DemuxKept(dmx)
  PROVE  SplitWhole
<1> DEFINE n == Len(dmx.out)
           whole == CHOOSE f : f = [i \in 0..n |-> IF i = 0 THEN << >> ELSE f[i - 1] \o dmx.out[i].data]
           all == whole[n]
<1> SUFFICES ASSUME DemuxKept(dmx), dmx.kind = "split", dmx.out # << >>, dmx.spick = {}, dmx.flow = "ok"
             PROVE  n = Len(dmx.segs) /\ all = [k \in 1..Len(all) |-> k]
  BY DEF SplitWhole
<1> DEFINE segs == dmx.segs
           src == SourcesIn(dmx)
<1>1. SourcesGood(dmx, src)
  BY SourcesKept DEF DemuxKept
<1>2. n = Len(src) /\ n = dmx.num /\ n # 0 /\ n \in Nat
  <2>1. PICK T : dmx.out \in Seq(T)
    BY DEF DemuxKept, OutGood
  <2>2. n # 0 /\ n \in Nat
    BY <2>1
  <2>3. n = Len(src)
    BY DEF DemuxKept, OutGood
  <2>4. Len(src) = dmx.num
    BY <1>1 DEF SourcesGood
  <2> QED
    BY <2>2, <2>3, <2>4
<1>3. n = Len(segs) /\ segs \in Seq(Nat)
  BY <1>2 DEF DemuxKept, DemuxTyped
<1>4. \A i \in 1..n : dmx.out[i].data = CutOf(segs, i)
  <2> SUFFICES ASSUME NEW i \in 1..n
               PROVE  dmx.out[i].data = CutOf(segs, i)
    OBVIOUS
  <2>1. i \in 1..Len(src) /\ dmx.out[i] = src[i]
    BY DEF DemuxKept, OutGood
  <2>2. Plain(dmx.spick)
    BY DEF Plain
  <2> HIDE DEF src
  <2> QED
    BY <1>1, <2>1, <2>2 DEF SourcesGood
<1> HIDE DEF whole, segs, src
<1> DEFINE made == CHOOSE f : f = [i \in 0..n |-> IF i = 0 THEN << >> ELSE f[i - 1] \o dmx.out[i].data]
<1>5. made = [i \in 0..n |-> IF i = 0 THEN << >> ELSE made[i - 1] \o dmx.out[i].data]
  <2> DEFINE data == [i \in 1..n |-> dmx.out[i].data]
  <2>1. \A i \in 1..n : data[i] = CutOf(segs, i)
    BY <1>4
  <2> HIDE DEF data, n, made
  <2>2. PICK f : Appends(f, n, data)
    BY <1>3, <2>1, WholeThere
  <2>3. f = [i \in 0..n |-> IF i = 0 THEN << >> ELSE f[i - 1] \o dmx.out[i].data]
    <3> DEFINE more(i) == f[i - 1] \o data[i]
               like(i) == f[i - 1] \o dmx.out[i].data
    <3>1. \A i \in 1..n : more(i) = like(i)
      BY DEF data
    <3>2. f = [i \in 0..n |-> IF i = 0 THEN << >> ELSE more(i)]
      BY <2>2 DEF Appends
    <3>3. \A i \in 0..n : i = 0 \/ i \in 1..n
      BY <1>2
    <3> HIDE DEF more, like
    <3>4. f = [i \in 0..n |-> IF i = 0 THEN << >> ELSE like(i)]
      BY <3>1, <3>2, <3>3
    <3> QED
      BY <3>4 DEF like
  <2> QED
    BY <2>3, Zenon DEF made
<1>6. whole = made
  BY DEF whole
<1> HIDE DEF made, n
<1>7. whole[0] = << >> /\ \A i \in 1..n : whole[i] = whole[i - 1] \o CutOf(segs, i)
  <2> DEFINE more(i) == whole[i - 1] \o dmx.out[i].data
  <2>1. whole = [i \in 0..n |-> IF i = 0 THEN << >> ELSE more(i)]
    BY <1>5, <1>6
  <2>2. \A i \in 1..n : more(i) = whole[i - 1] \o CutOf(segs, i)
    BY <1>4
  <2>3. 0 \in 0..n /\ \A i \in 1..n : i \in 0..n /\ i # 0
    BY <1>2
  <2> HIDE DEF more
  <2> QED
    BY <2>1, <2>2, <2>3
<1>8. whole[n] = [k \in 1..EndOf(segs, n) |-> k] /\ EndOf(segs, n) \in Nat
  BY <1>3, <1>7, WholeIs
<1> DEFINE g == EndOf(segs, n)
<1>9. all = [k \in 1..g |-> k] /\ g \in Nat
  BY <1>8
<1> HIDE DEF g, all
<1>10. Len(all) = g
  BY <1>9
<1> QED
  BY <1>3, <1>9, <1>10 DEF segs, n, all

-----------------------------------------------------------------------------
(* The theorems                                                            *)

\* Whatever sequence of buffers, caps, segments, flushes and ends comes to tensor_rate:
\* every frame is accounted for, each frame pushed is nearest in time to the time stamp
\* it is pushed with, and the filter that is throttled keeps its distance.
THEOREM ElementsRate == ElementsSpec => []RateCorrect
<1> DEFINE I == rate # Absent => RateKept(rate)
<1>1. ElementsInit => I
  BY RateInitKept DEF ElementsInit
<1>2. I /\ [ElementsNext]_vars => I'
  <2> SUFFICES ASSUME I, [ElementsNext]_vars, rate' # Absent
               PROVE  RateKept(rate')
    OBVIOUS
  <2>1. CASE rate # Absent /\ RateNext
    BY <2>1, RateStep
  <2>2. CASE UNCHANGED rate
    BY <2>2
  <2> QED
    BY <2>1, <2>2 DEF ElementsNext, vars
<1>3. I => RateCorrect
  BY RateImplies
<1> QED
  BY <1>1, <1>2, <1>3, PTL DEF ElementsSpec

\* Over changes of the rate, two time stamps that tensor_rate pushes in a row are a
\* period apart, and two signals of tensor_sink an interval.
THEOREM ElementsPaced == ElementsSpec => Paced
<1> DEFINE I == (rate # Absent => RateKept(rate)) /\ (snk # Absent => SinkInv)
           Even == rate # Absent /\ rate'.pushes # {} /\ rate.lastOut # NoTime =>
                     \E p \in rate'.pushes : p[1] = rate.lastOut + rate.lastPeriod
           Apart == snk # Absent /\ snk'.signal /\ snk.sent # NoRender /\ snk'.sent # NoRender =>
                      snk'.sent - snk.sent >= SinkSecond \div snk.rate
<1>1. ElementsInit => I
  BY RateInitKept, SinkInitInv DEF ElementsInit
<1>2. I /\ [ElementsNext]_vars => I' /\ [Even]_rate /\ [Apart]_snk
  <2> SUFFICES ASSUME I, [ElementsNext]_vars
               PROVE  I' /\ [Even]_rate /\ [Apart]_snk
    OBVIOUS
  <2>1. (rate # Absent => RateKept(rate))' /\ [Even]_rate
    <3>1. CASE rate # Absent /\ RateNext
      <4>1. RateKept(rate') /\ RateFollows(rate, rate') /\ RateKept(rate)
        BY <3>1, RateStep
      <4>2. ASSUME rate'.pushes # {}, rate.lastOut # NoTime
            PROVE  \E p \in rate'.pushes : p[1] = rate.lastOut + rate.lastPeriod
        BY <4>1, <4>2 DEF RateFollows, RateKept, RateGrid
      <4> QED
        BY <4>1, <4>2
    <3>2. CASE UNCHANGED rate
      BY <3>2
    <3> QED
      BY <3>1, <3>2 DEF ElementsNext, vars
  <2>2. (snk # Absent => SinkInv)' /\ [Apart]_snk
    <3>1. CASE snk # Absent /\ SinkNext
      BY <3>1, SinkStep DEF SinkApart
    <3>2. CASE UNCHANGED snk
      BY <3>2 DEF SinkInv
    <3> QED
      BY <3>1, <3>2 DEF ElementsNext, vars
  <2> QED
    BY <2>1, <2>2
<1>3. (ElementsSpec => [][Even]_rate) /\ (ElementsSpec => [][Apart]_snk)
  BY <1>1, <1>2, PTL DEF ElementsSpec
<1> QED
  BY <1>3 DEF Paced, RateEven, SinkSpacing

\* What tensor_sparse_enc makes of a tensor tensor_sparse_dec makes the tensor again,
\* and a buffer is decoded with the options and the configuration that are in force,
\* whatever the order of properties, caps and buffers.
THEOREM ElementsCoded == ElementsSpec => []Coded
<1> DEFINE I == (sparse # Absent => SparseInv) /\ (dec # Absent => DecInv)
<1>1. ElementsInit => I
  <2>1. SparseInit => SparseInv
    BY DEF SparseInit, SparseInv, SparseFields
  <2>2. DecInit => DecInv
    <3> SUFFICES ASSUME DecInit
                 PROVE  DecInv
      OBVIOUS
    <3>1. DOMAIN dec = DecFields /\ dec.decoder = NoDecoder
      BY DEF DecInit, DecFields
    <3>2. dec.negotiated = FALSE /\ dec.decoded = FALSE
      BY DEF DecInit
    <3> QED
      BY <3>1, <3>2, Zenon DEF DecInv
  <2> QED
    BY <2>1, <2>2 DEF ElementsInit
<1>2. I /\ [ElementsNext]_vars => I'
  <2> SUFFICES ASSUME I, [ElementsNext]_vars
               PROVE  I'
    OBVIOUS
  <2>1. (sparse # Absent => SparseInv)'
    <3>1. CASE sparse # Absent /\ SparseNext
      BY <3>1, SparseStep
    <3>2. CASE UNCHANGED sparse
      BY <3>2 DEF SparseInv
    <3> QED
      BY <3>1, <3>2 DEF ElementsNext, vars
  <2>2. (dec # Absent => DecInv)'
    <3>1. CASE dec # Absent /\ DecNext
      BY <3>1, DecStepKeeps
    <3>2. CASE UNCHANGED dec
      BY <3>2, Zenon DEF DecInv
    <3> QED
      BY <3>1, <3>2 DEF ElementsNext, vars
  <2> QED
    BY <2>1, <2>2
<1>3. I => Coded
  BY SparseImplies, DecImplies DEF Coded
<1> QED
  BY <1>1, <1>2, <1>3, PTL DEF ElementsSpec

\* tensor_if decides as it is documented and pushes what the caps of the pad say; a buffer
\* of join comes after its own pad's events unless two threads raced for it; the pads of
\* tensor_demux and tensor_split get what their caps announce, the segments make up the
\* tensor, and a linked pad keeps the stream going.
THEOREM ElementsRouted == ElementsSpec => []Routed
<1> DEFINE I == /\ tif # Absent => IfInv
                /\ join # Absent => JoinInv
                /\ dmx # Absent => DemuxKept(dmx)
<1>1. ElementsInit => I
  BY IfInitInv, JoinInitInv, DemuxInitKept DEF ElementsInit
<1>2. I /\ [ElementsNext]_vars => I'
  <2> SUFFICES ASSUME I, [ElementsNext]_vars
               PROVE  I'
    OBVIOUS
  <2>1. (tif # Absent => IfInv)'
    <3>1. CASE tif # Absent /\ IfNext
      BY <3>1, IfStep
    <3>2. CASE UNCHANGED tif
      <4>1. IfInv => IfInv'
        BY <3>2, Zenon DEF IfInv
      <4> QED
        BY <3>2, <4>1
    <3> QED
      BY <3>1, <3>2 DEF ElementsNext, vars
  <2>2. (join # Absent => JoinInv)'
    <3>1. CASE join # Absent /\ JoinNext
      BY <3>1, JoinStep
    <3>2. CASE UNCHANGED join
      BY <3>2, Zenon DEF JoinInv
    <3> QED
      BY <3>1, <3>2 DEF ElementsNext, vars
  <2>3. (dmx # Absent => DemuxKept(dmx))'
    <3>1. CASE dmx # Absent /\ DemuxNext
      BY <3>1, DemuxStep
    <3>2. CASE UNCHANGED dmx
      BY <3>2
    <3> QED
      BY <3>1, <3>2 DEF ElementsNext, vars
  <2> QED
    BY <2>1, <2>2, <2>3
<1>3. I => Routed
  BY IfImplies, JoinImplies, MatchesImplied, WholeImplied, LinkedImplied DEF Routed
<1> QED
  BY <1>1, <1>2, <1>3, PTL DEF ElementsSpec
=============================================================================
