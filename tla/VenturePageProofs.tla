-------------------------- MODULE VenturePageProofs --------------------------
(***************************************************************************)
(* Proofs about what a member is shown of a venture, and does there, for   *)
(* any members, payments, settings and calendar, any number of panels on   *)
(* the screen, and any interleaving of their loads with everybody else.    *)
(***************************************************************************)
EXTENDS VenturePage, TenantDbProofs, WellFoundedInduction, SequenceTheorems

(***************************************************************************)
(* Least elements                                                          *)
(***************************************************************************)

LEMMA LeastNumber ==
    ASSUME NEW T \in SUBSET Nat, T # {}
    PROVE  \E n \in T : \A m \in T : n <= m
<1> DEFINE R == OpToRel(<, Nat)
<1>1. \A m, n \in Nat : m < n => <<m, n>> \in R
    BY DEF OpToRel
<1>2. IsWellFoundedOn(R, Nat)
    BY NatLessThanWellFounded
<1> HIDE DEF R
<1>3. PICK n \in T : \A m \in T : ~(<<m, n>> \in R)
    BY <1>2, WFMin
<1>4. ASSUME NEW m \in T  PROVE n <= m
    <2>1. m \in Nat /\ n \in Nat
        OBVIOUS
    <2>2. ~(m < n)
        BY <1>1, <1>3, <2>1
    <2> QED  BY <2>1, <2>2
<1> QED  BY <1>4

(***************************************************************************)
(* Sets of periods in order                                                *)
(***************************************************************************)

Rising(s, n) == \A i, j \in 1..n : i < j => Lt(s[i], s[j])

\* A period goes into its place among those in order.
LEMMA Inserted ==
    ASSUME NEW n \in Nat, NEW K \in SUBSET Period, NEW x \in Period, x \notin K,
           NEW s \in [1..n -> K], Rising(s, n)
    PROVE  \E t \in [1..(n + 1) -> K \cup {x}] : Rising(t, n + 1)
<1> DEFINE T == {i \in 1..(n + 1) : i = n + 1 \/ Lt(x, s[i])}
<1>1. PICK m \in T : \A i \in T : m <= i
    <2>1. T \in SUBSET Nat /\ n + 1 \in T
        OBVIOUS
    <2> QED  BY <2>1, LeastNumber
<1> DEFINE t == [i \in 1..(n + 1) |-> IF i < m THEN s[i] ELSE IF i = m THEN x ELSE s[i - 1]]
<1>2. m \in 1..(n + 1)
    OBVIOUS
<1>3. \A i \in 1..n : s[i] \in K /\ s[i] \in Period /\ s[i] # x
    OBVIOUS
<1>4. ASSUME NEW i \in 1..n, i < m  PROVE Lt(s[i], x)
    <2>1. ~Lt(x, s[i])
        BY <1>1, <1>2, <1>4
    <2> QED  BY <1>3, <2>1, LtTotal
<1>5. ASSUME NEW i \in 1..n, m <= i  PROVE Lt(x, s[i])
    <2>1. Lt(x, s[m]) /\ m \in 1..n
        BY <1>1, <1>2, <1>5
    <2>2. m = i \/ Lt(s[m], s[i])
        BY <1>5, <2>1 DEF Rising
    <2> QED  BY <1>3, <2>1, <2>2, LtTransitive
<1>6. t \in [1..(n + 1) -> K \cup {x}]
    BY <1>2, <1>3
<1>7. ASSUME NEW i \in 1..(n + 1), NEW j \in 1..(n + 1), i < j  PROVE Lt(t[i], t[j])
    <2>1. CASE j < m
        BY <1>2, <1>7, <2>1 DEF Rising
    <2>2. CASE j = m
        BY <1>2, <1>4, <1>7, <2>2
    <2>3. CASE i < m /\ m < j
        <3>1. t[i] = s[i] /\ t[j] = s[j - 1] /\ i \in 1..n /\ j - 1 \in 1..n /\ m <= j - 1
            BY <1>2, <2>3
        <3>2. Lt(s[i], x) /\ Lt(x, s[j - 1])
            BY <1>4, <1>5, <2>3, <3>1
        <3> QED  BY <1>3, <3>1, <3>2, LtTransitive
    <2>4. CASE i = m
        <3>1. t[i] = x /\ t[j] = s[j - 1] /\ j - 1 \in 1..n /\ m <= j - 1
            BY <1>2, <1>7, <2>4
        <3> QED  BY <1>5, <3>1
    <2>5. CASE m < i
        <3>1. t[i] = s[i - 1] /\ t[j] = s[j - 1] /\ i - 1 \in 1..n /\ j - 1 \in 1..n /\ i - 1 < j - 1
            BY <1>2, <1>7, <2>5
        <3> QED  BY <3>1 DEF Rising
    <2> QED  BY <1>2, <1>7, <2>1, <2>2, <2>3, <2>4, <2>5
<1> HIDE DEF t
<1>8. Rising(t, n + 1)
    BY <1>7 DEF Rising
<1> QED  BY <1>6, <1>8

\* Every finite set of periods can be put in order.
LEMMA OrderExists ==
    ASSUME NEW K \in SUBSET Period, IsFiniteSet(K)
    PROVE  \E s \in [1..Cardinality(K) -> K] : Rising(s, Cardinality(K))
<1> DEFINE Ordered(X) == \E s \in [1..Cardinality(X) -> X] : Rising(s, Cardinality(X))
           Bad == {n \in Nat : \E X \in SUBSET K : Cardinality(X) = n /\ ~Ordered(X)}
<1>1. SUFFICES ASSUME ~Ordered(K) PROVE FALSE
    OBVIOUS
<1>2. Bad # {}
    BY <1>1, FS_CardinalityType
<1>3. PICK n \in Bad : \A m \in Bad : n <= m
    BY <1>2, LeastNumber
<1>4. PICK X \in SUBSET K : Cardinality(X) = n /\ ~Ordered(X)
    BY <1>3
<1>5. IsFiniteSet(X) /\ n \in Nat
    BY <1>3, FS_Subset
<1>6. X # {}
    <2>1. SUFFICES ASSUME X = {} PROVE FALSE
        OBVIOUS
    <2>2. Cardinality(X) = 0
        BY <2>1, FS_EmptySet
    <2>3. [i \in 1..0 |-> i] \in [1..0 -> X] /\ Rising([i \in 1..0 |-> i], 0)
        BY DEF Rising
    <2> QED  BY <1>4, <2>2, <2>3
<1>7. PICK x \in X : TRUE
    BY <1>6
<1> DEFINE Y == X \ {x}
<1>8. Cardinality(Y) = n - 1 /\ n - 1 \in Nat /\ IsFiniteSet(Y)
    BY <1>4, <1>5, <1>6, FS_RemoveElement, FS_EmptySet, FS_CardinalityType
<1>9. Ordered(Y)
    <2>1. n - 1 \notin Bad
        BY <1>3, <1>5
    <2> QED  BY <1>8, <2>1
<1>10. \E t \in [1..((n - 1) + 1) -> Y \cup {x}] : Rising(t, (n - 1) + 1)
    <2>1. Y \in SUBSET Period /\ x \in Period /\ x \notin Y
        OBVIOUS
    <2>2. PICK s \in [1..(n - 1) -> Y] : Rising(s, n - 1)
        BY <1>8, <1>9
    <2> HIDE DEF Y
    <2> QED  BY <1>8, <2>1, <2>2, Inserted
<1>11. (n - 1) + 1 = n /\ Y \cup {x} = X
    BY <1>5
<1> QED  BY <1>4, <1>10, <1>11

\* The periods of a finite set in ascending order: each once, and all of them.
LEMMA InOrderIs ==
    ASSUME NEW K \in SUBSET Period, IsFiniteSet(K)
    PROVE  /\ Cardinality(K) \in Nat
           /\ InOrder(K) \in [1..Cardinality(K) -> K]
           /\ Rising(InOrder(K), Cardinality(K))
           /\ \A k \in K : \E i \in 1..Cardinality(K) : InOrder(K)[i] = k
<1> DEFINE n == Cardinality(K)
           s == InOrder(K)
<1>1. n \in Nat
    BY FS_CardinalityType
<1>2. s \in [1..n -> K] /\ Rising(s, n)
    BY OrderExists DEF InOrder, Rising
<1>3. s \in Injection(1..n, K)
    <2>1. ASSUME NEW i \in 1..n, NEW j \in 1..n, i # j  PROVE s[i] # s[j]
        <3>1. Lt(s[i], s[j]) \/ Lt(s[j], s[i])
            BY <1>1, <1>2, <2>1 DEF Rising
        <3>2. s[i] \in Period /\ s[j] \in Period
            BY <1>2
        <3> QED  BY <3>1, <3>2, LtIrreflexive
    <2> QED  BY <1>2, <2>1 DEF Injection, IsInjective
<1>4. Cardinality(1..n) = n
    BY <1>1, FS_Interval
<1>5. s \in Surjection(1..n, K)
    BY <1>3, <1>4, FS_Injection
<1> QED  BY <1>1, <1>2, <1>5 DEF Surjection

-----------------------------------------------------------------------------
(***************************************************************************)
(* The accumulation                                                        *)
(***************************************************************************)

\* f starts at b and adds the steps c one by one.
Runs(f, n, b, c) == f = [i \in 0..n |-> IF i = 0 THEN b ELSE f[i - 1] + c[i]]

\* A running total is what its steps say.
LEMMA RunningUnique ==
    ASSUME NEW n \in Nat, NEW b, NEW c, NEW f, Runs(f, n, b, c), NEW g, Runs(g, n, b, c)
    PROVE  f = g
<1> USE DEF Runs
<1> DEFINE Bad == {i \in 0..n : f[i] # g[i]}
<1>1. SUFFICES ASSUME Bad # {} PROVE FALSE
    <2>1. (\A i \in 0..n : f[i] = g[i]) => f = g
        OBVIOUS
    <2> QED  BY <2>1
<1>2. PICK i \in Bad : \A j \in Bad : i <= j
    <2>1. Bad \in SUBSET Nat
        OBVIOUS
    <2> QED  BY <1>1, <2>1, LeastNumber
<1>3. CASE i = 0
    BY <1>3
<1>4. CASE i # 0
    <2>1. i - 1 \in 0..n /\ i - 1 \notin Bad
        BY <1>2, <1>4
    <2>2. f[i - 1] = g[i - 1]
        BY <2>1
    <2>3. f[i] = f[i - 1] + c[i] /\ g[i] = g[i - 1] + c[i]
        BY <1>4
    <2> QED  BY <2>2, <2>3
<1> QED  BY <1>3, <1>4

\* Payments of which the history is made.
AreTimed(points) ==
    IsFiniteSet(points) /\ \A p \in points : p.at \in Instants /\ p.amount \in Nat

\* What has come in by the i-th bucket of s.
UpTo(points, mode, s, i) == IF i = 0 THEN {} ELSE {p \in points : ~Lt(s[i], Bucket(p, mode))}

LEMMA KeysAre ==
    ASSUME NEW points, AreTimed(points), NEW mode \in Cadences
    PROVE  /\ Keys(points, mode) \in SUBSET Period
           /\ Keys(points, mode) \in SUBSET KnownPeriods
           /\ IsFiniteSet(Keys(points, mode))
           /\ \A p \in points : Bucket(p, mode) \in Period
<1>1. \A p \in points : Bucket(p, mode) \in Period /\ Bucket(p, mode) \in KnownPeriods
    BY CalendarTypes DEF AreTimed, Bucket, UtcPeriod, KnownPeriods
<1>2. [p \in points |-> Bucket(p, mode)] \in Surjection(points, Keys(points, mode))
    BY DEF Surjection, Keys
<1>3. IsFiniteSet(Keys(points, mode))
    BY <1>2, FS_Surjection DEF AreTimed
<1> QED  BY <1>1, <1>3 DEF Keys

\* A bucket adds its own payments, each once.
LEMMA UpToGrows ==
    ASSUME NEW points, AreTimed(points), NEW mode \in Cadences, NEW n \in Nat,
           NEW s \in [1..n -> Period], Rising(s, n),
           \A p \in points : \E i \in 1..n : s[i] = Bucket(p, mode),
           NEW i \in 1..n
    PROVE  /\ Total(UpTo(points, mode, s, i)) =
                 Total(UpTo(points, mode, s, i - 1)) + CentsOf(points, mode, s[i])
           /\ Total(UpTo(points, mode, s, i)) \in Nat
           /\ Total(UpTo(points, mode, s, i - 1)) \in Nat
           /\ CentsOf(points, mode, s[i]) \in Nat
           /\ i = n => UpTo(points, mode, s, i) = points
<1> DEFINE now_ == UpTo(points, mode, s, i)
           old == UpTo(points, mode, s, i - 1)
           own == {p \in points : Bucket(p, mode) = s[i]}
<1>0. /\ \A j \in 1..n : s[j] \in Period
      /\ \A p \in points : Bucket(p, mode) \in Period
      /\ i \in 1..n /\ i \in Nat /\ i # 0
    BY KeysAre
<1>1. now_ = {p \in points : ~Lt(s[i], Bucket(p, mode))}
    BY <1>0 DEF UpTo
<1>2. ASSUME NEW p \in points  PROVE p \in now_ <=> (p \in old \/ p \in own)
    <2>1. PICK j \in 1..n : s[j] = Bucket(p, mode)
        OBVIOUS
    <2>2. p \in now_ <=> j <= i
        <3>1. CASE j <= i
            <4>1. j = i \/ Lt(s[j], s[i])
                BY <3>1 DEF Rising
            <4>2. ~Lt(s[i], s[j])
                BY <1>0, <4>1, LtIrreflexive, LtTransitive
            <4> QED  BY <1>1, <2>1, <3>1, <4>2
        <3>2. CASE i < j
            BY <1>1, <2>1, <3>2 DEF Rising
        <3> QED  BY <3>1, <3>2
    <2>3. p \in own <=> j = i
        <3>1. j = i \/ Lt(s[j], s[i]) \/ Lt(s[i], s[j])
            BY DEF Rising
        <3> QED  BY <1>0, <2>1, <3>1, LtIrreflexive
    <2>4. p \in old <=> j <= i - 1
        <3>1. CASE i = 1
            BY <3>1 DEF UpTo
        <3>2. CASE i # 1
            <4>0. i - 1 \in 1..n /\ i - 1 # 0
                BY <1>0, <3>2
            <4>1. p \in old <=> ~Lt(s[i - 1], s[j])
                BY <2>1, <4>0 DEF UpTo
            <4>2. CASE j <= i - 1
                <5>1. j = i - 1 \/ Lt(s[j], s[i - 1])
                    BY <4>0, <4>2 DEF Rising
                <5> QED  BY <1>0, <4>0, <4>1, <4>2, <5>1, LtIrreflexive, LtTransitive
            <4>3. CASE i - 1 < j
                BY <4>0, <4>1, <4>3 DEF Rising
            <4> QED  BY <4>2, <4>3
        <3> QED  BY <3>1, <3>2
    <2> QED  BY <2>2, <2>3, <2>4
<1>3. ASSUME NEW p \in old  PROVE p \in points /\ p \notin own
    <2>1. p \in points /\ i - 1 # 0
        BY DEF UpTo
    <2>2. i - 1 \in 1..n /\ ~Lt(s[i - 1], Bucket(p, mode)) /\ Lt(s[i - 1], s[i])
        BY <1>0, <2>1 DEF UpTo, Rising
    <2> QED  BY <2>1, <2>2
<1>4. now_ = old \cup own /\ old \cap own = {} /\ old \in SUBSET points /\ own \in SUBSET points
    BY <1>1, <1>2, <1>3
<1> HIDE DEF now_, old, own
<1>5. /\ IsFiniteSet(old) /\ IsFiniteSet(own) /\ IsFiniteSet(now_)
      /\ \A p \in old \cup own : p.amount \in Nat
    BY <1>4, FS_Subset, FS_Union DEF AreTimed
<1>6. Total(now_) = Total(old) + Total(own) /\ Total(now_) \in Nat /\ Total(old) \in Nat /\ Total(own) \in Nat
    BY <1>4, <1>5, TotalUnion, TotalNat
<1>7. CentsOf(points, mode, s[i]) = Total(own)
    BY DEF CentsOf, own
<1>8. ASSUME i = n, NEW p \in points  PROVE p \in now_
    <2>1. PICK j \in 1..n : s[j] = Bucket(p, mode)
        OBVIOUS
    <2>2. j = i \/ Lt(s[j], s[i])
        BY <1>8, <2>1 DEF Rising
    <2>3. ~Lt(s[i], s[j])
        BY <1>0, <2>2, LtIrreflexive, LtTransitive
    <2> QED  BY <1>1, <2>1, <2>3 DEF now_
<1>9. i = n => now_ = points
    BY <1>4, <1>8
<1> QED  BY <1>6, <1>7, <1>9 DEF now_, old

\* What the chart's buckets are: one for each period with a payment, in order,
\* with its own cents and all that has come in by then.
LEMMA SeriesIs ==
    ASSUME NEW points, AreTimed(points), NEW mode \in {"yearly", "monthly"}, NEW seed \in Nat
    PROVE  LET series == BucketSeries(points, mode, seed)
               s == InOrder(Keys(points, mode))
           IN  /\ series \in Seq(SeriesEntry)
               /\ Len(series) \in Nat
               /\ DOMAIN series = 1..Len(series)
               /\ s \in [1..Len(series) -> Keys(points, mode)]
               /\ Rising(s, Len(series))
               /\ \A p \in points : \E i \in 1..Len(series) : s[i] = Bucket(p, mode)
               /\ \A i \in 1..Len(series) :
                     /\ series[i].bucket = s[i]
                     /\ series[i].cents = CentsOf(points, mode, s[i])
                     /\ series[i].total = seed + Total(UpTo(points, mode, s, i))
<1> DEFINE K == Keys(points, mode)
           s == InOrder(K)
           n == Cardinality(K)
           R(f) == f = [i \in 0..n |-> IF i = 0 THEN seed ELSE f[i - 1] + CentsOf(points, mode, s[i])]
           g == [i \in 0..n |-> seed + Total(UpTo(points, mode, s, i))]
           entry(i) == [bucket |-> s[i], cents |-> CentsOf(points, mode, s[i]), total |-> g[i]]
<1>0. mode \in Cadences
    BY DEF Cadences
<1>1. /\ K \in SUBSET Period /\ K \in SUBSET KnownPeriods /\ IsFiniteSet(K)
      /\ \A p \in points : Bucket(p, mode) \in K
    BY <1>0, KeysAre DEF Keys
<1>2. /\ n \in Nat /\ s \in [1..n -> K] /\ Rising(s, n)
      /\ \A k \in K : \E i \in 1..n : s[i] = k
    BY <1>1, InOrderIs
<1>3. \A p \in points : \E i \in 1..n : s[i] = Bucket(p, mode)
    BY <1>1, <1>2
<1>4. s \in [1..n -> Period] /\ Len(s) = n
    BY <1>1, <1>2
<1> HIDE DEF K, s, n
<1>5. ASSUME NEW i \in 1..n
      PROVE  /\ Total(UpTo(points, mode, s, i)) =
                    Total(UpTo(points, mode, s, i - 1)) + CentsOf(points, mode, s[i])
             /\ Total(UpTo(points, mode, s, i)) \in Nat
             /\ Total(UpTo(points, mode, s, i - 1)) \in Nat
             /\ CentsOf(points, mode, s[i]) \in Nat
    BY <1>0, <1>2, <1>3, <1>4, UpToGrows
<1>6. R(g)
    <2>1. ASSUME NEW i \in 0..n
          PROVE  g[i] = IF i = 0 THEN seed ELSE g[i - 1] + CentsOf(points, mode, s[i])
        <3>1. CASE i = 0
            <4>1. Total(UpTo(points, mode, s, i)) = 0
                BY <3>1, TotalEmpty DEF UpTo
            <4> QED  BY <3>1, <4>1
        <3>2. CASE i # 0
            <4>1. i \in 1..n /\ i - 1 \in 0..n
                BY <1>2, <3>2
            <4>2. g[i] = seed + Total(UpTo(points, mode, s, i))
                OBVIOUS
            <4>3. g[i - 1] = seed + Total(UpTo(points, mode, s, i - 1))
                BY <4>1
            <4>4. g[i] = g[i - 1] + CentsOf(points, mode, s[i])
                BY <1>5, <4>1, <4>2, <4>3
            <4> QED  BY <3>2, <4>4
        <3> QED  BY <3>1, <3>2
    <2>2. g = [i \in 0..n |-> g[i]]
        OBVIOUS
    <2> HIDE DEF g
    <2> QED  BY <2>1, <2>2
<1>7. (CHOOSE f : R(f)) = g
    <2> HIDE DEF R
    <2>1. PICK f : f = CHOOSE x : R(x)
        OBVIOUS
    <2>2. R(f)
        BY <1>6, <2>1
    <2> DEFINE c == [i \in 1..n |-> CentsOf(points, mode, s[i])]
    <2>3. ASSUME NEW h, R(h)
          PROVE  h = [i \in 0..n |-> IF i = 0 THEN seed ELSE h[i - 1] + c[i]]
        <3>1. \A i \in 0..n : i # 0 => c[i] = CentsOf(points, mode, s[i])
            BY <1>2
        <3> HIDE DEF c
        <3> QED  BY <2>3, <3>1 DEF R
    <2> HIDE DEF g, c
    <2>5. Runs(f, n, seed, c)
        BY <2>2, <2>3 DEF Runs
    <2>6. Runs(g, n, seed, c)
        BY <1>6, <2>3 DEF Runs
    <2>4. f = g
        BY <1>2, <2>5, <2>6, RunningUnique
    <2> QED  BY <2>1, <2>4
<1>8. BucketSeries(points, mode, seed) = [i \in 1..n |-> entry(i)]
    BY <1>4, <1>7 DEF BucketSeries, s, K
<1>9. ASSUME NEW i \in 1..n  PROVE entry(i) \in SeriesEntry
    <2>1. s[i] \in KnownPeriods
        BY <1>1, <1>2
    <2>2. g[i] \in Nat
        <3>1. i \in 0..n
            BY <1>2
        <3> QED  BY <1>5, <3>1
    <2> HIDE DEF g
    <2> QED  BY <1>5, <2>1, <2>2 DEF SeriesEntry
<1>10. \A i \in 1..n : i \in 0..n /\ g[i] = seed + Total(UpTo(points, mode, s, i))
    BY <1>2
<1> HIDE DEF g
<1> DEFINE series == [i \in 1..n |-> entry(i)]
<1>11. /\ series \in Seq(SeriesEntry)
       /\ Len(series) = n
       /\ DOMAIN series = 1..n
    BY <1>2, <1>9, IsASeq
<1>12. ASSUME NEW i \in 1..n
       PROVE  /\ series[i].bucket = s[i]
              /\ series[i].cents = CentsOf(points, mode, s[i])
              /\ series[i].total = seed + Total(UpTo(points, mode, s, i))
    BY <1>10
<1> HIDE DEF series
<1> QED  BY <1>2, <1>3, <1>8, <1>11, <1>12 DEF s, K, series

\* Every payment is in its bucket, the buckets rise, and the last total is all
\* there is.
BucketsAddUp(points, mode, seed, series) ==
    /\ \A i \in 1..Len(series) :
          /\ series[i].cents = Total({p \in points : Bucket(p, mode) = series[i].bucket})
          /\ series[i].total = seed + Total({p \in points : ~Lt(series[i].bucket, Bucket(p, mode))})
          /\ i > 1 => Lt(series[i - 1].bucket, series[i].bucket)
    /\ points # {} => series[Len(series)].total = seed + Total(points)

\* The buckets add up, of whatever payments, by the month or the year.
LEMMA SeriesAddsUp ==
    ASSUME NEW points, AreTimed(points), NEW mode \in {"yearly", "monthly"}, NEW seed \in Nat
    PROVE  /\ BucketsAddUp(points, mode, seed, BucketSeries(points, mode, seed))
           /\ BucketSeries(points, mode, seed) \in Seq(SeriesEntry)
           /\ (BucketSeries(points, mode, seed) = <<>>) <=> (points = {})
<1> DEFINE s == InOrder(Keys(points, mode))
<1>0. mode \in Cadences
    BY DEF Cadences
<1>1. PICK series : series = BucketSeries(points, mode, seed)
    OBVIOUS
<1>2. PICK n : n = Len(series)
    OBVIOUS
<1>3. /\ series \in Seq(SeriesEntry)
      /\ n \in Nat
      /\ s \in [1..n -> Keys(points, mode)]
      /\ Rising(s, n)
      /\ \A p \in points : \E i \in 1..n : s[i] = Bucket(p, mode)
      /\ \A i \in 1..n : /\ series[i].bucket = s[i]
                         /\ series[i].cents = CentsOf(points, mode, s[i])
                         /\ series[i].total = seed + Total(UpTo(points, mode, s, i))
    BY <1>1, <1>2, SeriesIs
<1>4. s \in [1..n -> Period]
    BY <1>0, <1>3, KeysAre
<1> HIDE DEF s
<1>5. ASSUME NEW i \in 1..n
      PROVE  /\ series[i].cents = Total({p \in points : Bucket(p, mode) = series[i].bucket})
             /\ series[i].total = seed + Total({p \in points : ~Lt(series[i].bucket, Bucket(p, mode))})
             /\ i > 1 => Lt(series[i - 1].bucket, series[i].bucket)
    <2>1. i # 0
        BY <1>3
    <2>2. series[i].total = seed + Total({p \in points : ~Lt(series[i].bucket, Bucket(p, mode))})
        BY <1>3, <2>1 DEF UpTo
    <2>3. i > 1 => i - 1 \in 1..n
        BY <1>3
    <2>4. series[i].cents = Total({p \in points : Bucket(p, mode) = s[i]})
        BY <1>3 DEF CentsOf
    <2>5. i > 1 => Lt(s[i - 1], s[i])
        BY <1>3, <2>3 DEF Rising
    <2> QED  BY <1>3, <2>2, <2>3, <2>4, <2>5
<1>6. ASSUME points # {}  PROVE series # <<>> /\ series[n].total = seed + Total(points)
    <2>1. n \in 1..n /\ n # 0
        BY <1>3, <1>6
    <2>2. UpTo(points, mode, s, n) = points
        BY <1>0, <1>3, <1>4, <2>1, UpToGrows
    <2>3. series # <<>>
        BY <1>2, <2>1
    <2> QED  BY <1>3, <2>1, <2>2, <2>3
<1>7. ASSUME points = {}  PROVE series = <<>>
    <2>1. Keys(points, mode) = {}
        BY <1>7 DEF Keys
    <2>2. \A i \in 1..n : s[i] \in {}
        BY <1>3, <2>1
    <2>3. n = 0
        BY <1>3, <2>2
    <2>4. series # <<>> => Len(series) \in Nat \ {0}
        BY <1>3, EmptySeq
    <2> QED  BY <1>2, <2>3, <2>4
<1>8. BucketsAddUp(points, mode, seed, series)
    BY <1>2, <1>5, <1>6 DEF BucketsAddUp
<1> QED  BY <1>1, <1>3, <1>6, <1>7, <1>8

\* bucket_series, over the samples.
LEMMA SamplesDoAddUp == SamplesAddUp
<1>1. \A points \in Samples : AreTimed(points)
    BY VenturePageAssumption DEF AreTimed
<1>2. 0 \in Nat /\ Opening \in Nat
    BY ReportsAssumption
<1>3. \A points \in Samples, mode \in {"yearly", "monthly"}, seed \in {0, Opening} :
         BucketsAddUp(points, mode, seed, BucketSeries(points, mode, seed))
    BY <1>1, <1>2, SeriesAddsUp
<1> QED  BY <1>3 DEF SamplesAddUp, BucketsAddUp

\* What the holding says came in over the venture's life.
LEMMA LifetimeIs ==
    ASSUME NEW points, AreTimed(points), NEW mode \in {"yearly", "monthly"},
           NEW seed \in {Opening, None}
    PROVE  /\ Lifetime(History(points, mode, seed)) = Total(points) + (IF seed = None THEN 0 ELSE seed)
           /\ History(points, mode, seed).series \in Seq(SeriesEntry)
<1> DEFINE initial == IF seed = None THEN 0 ELSE seed
           series == BucketSeries(points, mode, initial)
           a == History(points, mode, seed)
<1>1. initial \in Nat
    BY ReportsAssumption
<1>2. a.series = series /\ a.seed = seed
    BY DEF History
<1>3. /\ series \in Seq(SeriesEntry)
      /\ points # {} => series # <<>> /\ series[Len(series)].total = initial + Total(points)
      /\ points = {} => series = <<>>
    <2> HIDE DEF initial
    <2>1. /\ BucketsAddUp(points, mode, initial, series)
          /\ series \in Seq(SeriesEntry)
          /\ (series = <<>>) <=> (points = {})
        BY <1>1, SeriesAddsUp
    <2> HIDE DEF series
    <2> QED  BY <2>1 DEF BucketsAddUp
<1>4. Total(points) \in Nat /\ (points = {} => Total(points) = 0)
    BY TotalNat, TotalEmpty DEF AreTimed
<1> HIDE DEF a, series
<1>5. CASE points = {}
    <2>1. Lifetime(a) = initial
        BY <1>2, <1>3, <1>5 DEF Lifetime
    <2> HIDE DEF initial
    <2>2. initial = Total(points) + initial
        BY <1>1, <1>4, <1>5
    <2> QED  BY <1>2, <1>3, <2>1, <2>2 DEF a, initial
<1>6. CASE points # {}
    <2>1. Lifetime(a) = initial + Total(points)
        BY <1>2, <1>3, <1>6 DEF Lifetime
    <2> HIDE DEF initial
    <2>2. Lifetime(a) = Total(points) + initial
        BY <1>1, <1>4, <2>1
    <2> QED  BY <1>2, <1>3, <2>2 DEF a, initial
<1> QED  BY <1>5, <1>6

-----------------------------------------------------------------------------
(***************************************************************************)
(* What everybody does to the venture                                      *)
(***************************************************************************)

\* What is in the database is what the payment endpoint lets in.
LedgerOK ==
    /\ TypeOK
    /\ members \subseteq Users
    /\ \A r \in contribution : r.user \in members /\ r.period.cadence = r.cadence
    /\ submitted \in [RowIds -> Instants]
    /\ carry \in {Opening, None}

IdsOf(rows) == {r.id : r \in rows}

\* The table gets a row of a new id, or one of its rows is voided.
TableMoves(rows, later) ==
    \/ later = rows
    \/ \E row \in Contribution : row.id \notin IdsOf(rows) /\ later = rows \cup {row}
    \/ \E r \in rows :
          r.status # "rejected" /\ Voided(r) \in Contribution /\ later = (rows \ {r}) \cup {Voided(r)}

\* What can happen to a venture while its pages are open.
LedgerMoves ==
    /\ LedgerOK'
    /\ TableMoves(contribution, contribution')
    /\ members \subseteq members'
    /\ carry' = carry \/ carry = None

\* What is left of a row that is voided.
LEMMA VoidedIs ==
    ASSUME NEW r \in Contribution
    PROVE  /\ Voided(r).id = r.id /\ Voided(r).user = r.user /\ Voided(r).cadence = r.cadence
           /\ Voided(r).period = r.period /\ Voided(r).amount = r.amount
           /\ Voided(r).status = "rejected"
           /\ Voided(Voided(r)) = Voided(r)
BY DEF Voided, Contribution

\* A payment that was let in.
LEMMA RecordMoves ==
    ASSUME LedgerOK, NEW u, NEW amount, NEW row \in Payments(u, amount), Record(row)
    PROVE  LedgerMoves /\ row.id \in RowIds /\ row.id \notin UsedIds /\ row.user = u
           /\ contribution' = contribution \cup {row}
<1>1. PICK s \in SettingsChoices, t \in 0..now :
         /\ row.cadence = s.cadence /\ s.timezone \in Zones /\ row.user = u
         /\ row.period = LocalPeriod(s.timezone, s.cadence, t)
    BY DEF Payments
<1>2. s.cadence \in Cadences /\ t \in Instants
    BY TenantDbAssumption, CalendarTypes DEF LedgerOK, TypeOK, Instants
<1>3. row.period.cadence = row.cadence
    BY <1>1, <1>2, CalendarTypes DEF LocalPeriod
<1>4. /\ row \in Contribution /\ row.id \notin UsedIds /\ row.user \in members
      /\ contribution' = contribution \cup {row}
      /\ submitted' = [submitted EXCEPT ![row.id] = now]
      /\ UNCHANGED <<now, settings, members, carry>>
    BY DEF Record, CreateContribution, UsedIds
<1>5. row.id \in RowIds
    BY <1>4, RowTypes
<1>6. TypeOK'
    <2>1. Next
        BY <1>4 DEF Record, Next
    <2> QED  BY <2>1, TypeNext DEF LedgerOK
<1>7. LedgerOK'
    BY <1>3, <1>4, <1>5, <1>6 DEF LedgerOK, TypeOK
<1>8. TableMoves(contribution, contribution')
    BY <1>4 DEF TableMoves, IdsOf, UsedIds
<1> QED  BY <1>1, <1>4, <1>5, <1>7, <1>8 DEF LedgerMoves

\* A void.
LEMMA VoidMoves ==
    ASSUME LedgerOK, NEW r \in Counts(contribution), Void(r)
    PROVE  LedgerMoves
<1>1. /\ r \in contribution /\ r.status # "rejected" /\ r \in Contribution
    BY DEF Counts, LedgerOK, TypeOK
<1>2. /\ Voided(r) \in Contribution
      /\ contribution' = (contribution \ {r}) \cup {Voided(r)}
      /\ UNCHANGED <<now, settings, members, submitted, carry>>
    BY DEF Void, UpdateContribution, Replaced
<1>3. TypeOK'
    <2>1. Next
        BY <1>1, <1>2 DEF Void, Next
    <2> QED  BY <2>1, TypeNext DEF LedgerOK
<1>4. Voided(r).user = r.user /\ Voided(r).period = r.period /\ Voided(r).cadence = r.cadence
    BY <1>1, VoidedIs
<1>5. LedgerOK'
    BY <1>1, <1>2, <1>3, <1>4 DEF LedgerOK
<1>6. TableMoves(contribution, contribution')
    BY <1>1, <1>2 DEF TableMoves
<1> QED  BY <1>2, <1>5, <1>6 DEF LedgerMoves

\* Whatever anybody else does.
LEMMA WorldMoves ==
    ASSUME LedgerOK, WorldStep
    PROVE  LedgerMoves
<1>1. ASSUME NEW u \in Users, NEW amount \in OthersPay, OtherPays(u, amount)  PROVE LedgerMoves
    BY <1>1, RecordMoves DEF OtherPays
<1>2. ASSUME NEW r \in Counts(contribution), Void(r)  PROVE LedgerMoves
    BY <1>2, VoidMoves
<1>3. ASSUME [Next]_vars, UNCHANGED <<contribution, submitted>>,
             members \subseteq members', members' \subseteq Users,
             carry' \in {Opening, None}, carry' = carry \/ carry = None
      PROVE  LedgerMoves
    <2>1. TypeOK'
        BY <1>3, TypeNext DEF LedgerOK
    <2> QED  BY <1>3, <2>1 DEF LedgerMoves, LedgerOK, TableMoves
<1>4. ASSUME NEW s \in SettingsChoices, PatchSettings(s)  PROVE LedgerMoves
    BY <1>3, <1>4 DEF PatchSettings, Next, UpdateSettings, LedgerOK
<1>5. ASSUME NEW u \in Users, Join(u)  PROVE LedgerMoves
    BY <1>3, <1>5 DEF Join, vars, LedgerOK
<1>6. CASE SeedCarry
    BY <1>3, <1>6 DEF SeedCarry, vars, LedgerOK
<1>7. CASE Clock
    BY <1>3, <1>7 DEF Clock, Next, Tick, LedgerOK
<1> QED  BY <1>1, <1>2, <1>4, <1>5, <1>6, <1>7 DEF WorldStep

\* Nothing.
LEMMA LedgerRests ==
    ASSUME LedgerOK, UNCHANGED ledgerVars
    PROVE  LedgerMoves
<1>1. TypeOK'
    BY TypeNext DEF LedgerOK, ledgerVars, vars
<1> QED  BY <1>1 DEF LedgerMoves, LedgerOK, TableMoves, ledgerVars

-----------------------------------------------------------------------------
(***************************************************************************)
(* The type invariant: a report that waits knows what it needs             *)
(***************************************************************************)

\* What the handler of report q holds at each of its reads.
ReaderOK(q, r) ==
    /\ r \in ReaderState(q)
    /\ IsFiniteSet(r.rows)
    /\ r.pc = "idle" => r = Quiet
    /\ r.pc = "clock" => r.period = None /\ r.zone \in Timezones /\ r.cadence \in Cadences
    /\ (r.pc \in {"rows", "dues", "amounts", "members"} /\ q # "history") => r.period \in KnownPeriods
    /\ r.pc # "answered" => r.answer = None

PanelOK(q, p) ==
    p \in [open : BOOLEAN, chosen : ChoicesOf[q], shown : AnswersOf[q] \cup {Error, None}]

\* PageTypeOK, and what makes it inductive.
PageInv ==
    /\ LedgerOK
    /\ moves \in Nat
    /\ reader = [q \in Reports |-> reader[q]]
    /\ panel = [q \in Reports |-> panel[q]]
    /\ \A q \in Reports :
          /\ ReaderOK(q, reader[q])
          /\ PanelOK(q, panel[q])
          /\ ~panel[q].open => panel[q] = Closed /\ reader[q] = Quiet
    /\ form \in FormState
    /\ ~panel["mine"].open => form = Blank

\* The reads of report q.
OwnRead(q) ==
    \/ ReadSettings(q) \/ ReadClock(q) \/ Fail(q)
    \/ q = "mine" /\ (ListMine \/ ReadDues \/ SumMine)
    \/ q = "pool" /\ ReadPool
    \/ q = "periods" /\ ListPeriods
    \/ q = "history" /\ (ListPoints \/ ReadCarry)

\* What can happen to report q and its panel in a step: nothing; it is asked
\* for; it is closed; its answer is shown; it does one of its reads.
PanelMoves(q) ==
    \/ reader'[q] = reader[q] /\ panel'[q] = panel[q]
    \/ /\ UNCHANGED <<ledgerVars, moves>>
       /\ \/ \E choice \in ChoicesOf[q] :
                /\ reader'[q] = Ask(q, choice)
                /\ panel'[q] = [open |-> TRUE, chosen |-> choice, shown |-> panel[q].shown]
          \/ reader'[q] = Quiet /\ panel'[q] = Closed
          \/ /\ reader[q].pc = "answered"
             /\ reader'[q] = Quiet
             /\ panel'[q] = [panel[q] EXCEPT !.shown = reader[q].answer]
          \/ /\ panel'[q] = panel[q]
             /\ panel[q].open
             /\ OwnRead(q)

\* None is among the choices; the panel of the own payments has no other.
LEMMA ChoicesAre ==
    /\ \A q \in Reports : None \in ChoicesOf[q]
    /\ ChoicesOf["mine"] = {None}
BY DEF ChoicesOf, Reports

LEMMA ReadsOfOthers ==
    ASSUME PageInv, NEW p \in Reports, OwnRead(p), NEW q \in Reports, q # p
    PROVE  reader'[q] = reader[q]
<1>1. \E held : reader' = [reader EXCEPT ![p] = held]
    BY DEF OwnRead, ReadSettings, ReadClock, Fail, ListMine, ReadDues, SumMine, ReadPool, ListPeriods,
           ListPoints, ReadCarry, Answers, Holds
<1> QED  BY <1>1 DEF PageInv

LEMMA ReadsHold ==
    ASSUME PageInv, NEW p \in Reports, OwnRead(p)
    PROVE  /\ UNCHANGED ledgerVars
           /\ reader[p].pc # "idle"
           /\ reader' = [reader EXCEPT ![p] = reader'[p]]
           /\ reader' = [q \in Reports |-> reader'[q]]
<1>1. PICK held : reader' = [reader EXCEPT ![p] = held]
    BY DEF OwnRead, ReadSettings, ReadClock, Fail, ListMine, ReadDues, SumMine, ReadPool, ListPeriods,
           ListPoints, ReadCarry, Answers, Holds
<1>2. reader = [q \in Reports |-> reader[q]]
    BY DEF PageInv
<1>3. reader'[p] = held /\ reader' = [q \in Reports |-> reader'[q]]
    BY <1>1, <1>2
<1>4. UNCHANGED ledgerVars /\ reader[p].pc # "idle"
    BY DEF OwnRead, ReadSettings, ReadClock, Fail, ListMine, ReadDues, SumMine, ReadPool, ListPeriods,
           ListPoints, ReadCarry, Reads
<1> QED  BY <1>1, <1>3, <1>4

\* Every step, seen from report q.
LEMMA EveryPanelMoves ==
    ASSUME PageInv, [PageNext]_allVars, NEW q \in Reports
    PROVE  /\ PanelMoves(q)
           /\ reader' = [p \in Reports |-> reader'[p]]
           /\ panel' = [p \in Reports |-> panel'[p]]
<1> DEFINE Same == reader'[q] = reader[q] /\ panel'[q] = panel[q]
           Shaped == reader' = [p \in Reports |-> reader'[p]] /\ panel' = [p \in Reports |-> panel'[p]]
<1>0. /\ reader = [p \in Reports |-> reader[p]]
      /\ panel = [p \in Reports |-> panel[p]]
      /\ \A p \in Reports : panel[p] = [open |-> panel[p].open, chosen |-> panel[p].chosen, shown |-> panel[p].shown]
      /\ \A p \in Reports : ~panel[p].open => panel[p] = Closed /\ reader[p] = Quiet
    BY DEF PageInv, PanelOK
<1>1. ASSUME NEW p \in Reports, Open(p)  PROVE PanelMoves(q) /\ Shaped
    <2>1. CASE p # q
        BY <1>0, <1>1, <2>1 DEF Open, Holds, PanelMoves
    <2>2. CASE p = q
        <3>1. /\ panel'[q] = [panel[q] EXCEPT !.open = TRUE] /\ reader'[q] = Ask(q, None)
              /\ UNCHANGED <<ledgerVars, moves>>
            BY <1>0, <1>1, <2>2 DEF Open, Holds
        <3>2. panel[q] = Closed
            BY <1>0, <1>1, <2>2 DEF Open
        <3>6. panel[q].chosen = None
            BY <3>2 DEF Closed
        <3>3. panel'[q] = [open |-> TRUE, chosen |-> None, shown |-> panel[q].shown]
            BY <1>0, <3>1, <3>6
        <3>4. PanelMoves(q)
            BY <3>1, <3>3, ChoicesAre DEF PanelMoves
        <3>5. Shaped
            BY <1>0, <1>1 DEF Open, Holds
        <3> QED  BY <3>4, <3>5
    <2> QED  BY <2>1, <2>2
<1>2. ASSUME NEW p \in Reports, Close(p)  PROVE PanelMoves(q) /\ Shaped
    BY <1>0, <1>2 DEF Close, Holds, PanelMoves
<1>3. ASSUME NEW p \in Reports, Loaded(p)  PROVE PanelMoves(q) /\ Shaped
    BY <1>0, <1>3 DEF Loaded, Holds, PanelMoves
<1>4. ASSUME NEW p \in {"pool", "history"}, NEW choice \in ChoicesOf[p], Choose(p, choice)
      PROVE  PanelMoves(q) /\ Shaped
    <2>0. p \in Reports
        BY DEF Reports
    <2>1. CASE p # q
        BY <1>0, <1>4, <2>0, <2>1 DEF Choose, Holds, PanelMoves
    <2>2. CASE p = q
        <3>1. /\ panel'[q] = [panel[q] EXCEPT !.chosen = choice] /\ reader'[q] = Ask(q, choice)
              /\ UNCHANGED <<ledgerVars, moves>>
            BY <1>0, <1>4, <2>2 DEF Choose, Holds
        <3>2. panel[q].open
            BY <1>0, <1>4, <2>2 DEF Choose, Closed, IsData
        <3>3. panel[q].open = TRUE
            BY <3>2 DEF PageInv, PanelOK
        <3>4. panel'[q] = [open |-> TRUE, chosen |-> choice, shown |-> panel[q].shown]
            BY <1>0, <3>1, <3>3
        <3>5. PanelMoves(q)
            BY <1>4, <2>2, <3>1, <3>4 DEF PanelMoves
        <3>6. Shaped
            BY <1>0, <1>4 DEF Choose, Holds
        <3> QED  BY <3>5, <3>6
    <2> QED  BY <2>1, <2>2
<1>5. ASSUME UNCHANGED <<reader, panel>>  PROVE PanelMoves(q) /\ Shaped
    BY <1>0, <1>5 DEF PanelMoves
<1>6. ASSUME NEW f \in Files, PickFile(f) \/ FileRead(f) \/ FileUnreadable(f)  PROVE PanelMoves(q) /\ Shaped
    BY <1>5, <1>6 DEF PickFile, FileRead, FileUnreadable, pageVars
<1>7. ASSUME Unstage \/ \E amount \in Amounts : Press(amount)  PROVE PanelMoves(q) /\ Shaped
    BY <1>5, <1>7 DEF Unstage, Press, pageVars
<1>8. ASSUME FormStep  PROVE PanelMoves(q) /\ Shaped
    <2>1. CASE Acknowledged
        <3>1. panel["mine"].open
            BY <2>1 DEF Acknowledged, PageInv, Blank
        <3>2. /\ reader' = [reader EXCEPT !["mine"] = Ask("mine", None)] /\ panel' = panel
              /\ UNCHANGED <<ledgerVars, moves>>
            BY <2>1 DEF Acknowledged, Holds
        <3>3. CASE q # "mine"
            BY <1>0, <3>2, <3>3 DEF PanelMoves
        <3>4. CASE q = "mine"
            <4>1. panel[q].open = TRUE /\ panel[q].chosen = None
                BY <3>1, <3>4, ChoicesAre DEF PageInv, PanelOK
            <4>2. panel'[q] = [open |-> TRUE, chosen |-> None, shown |-> panel[q].shown]
                BY <1>0, <3>2, <4>1
            <4>3. reader'[q] = Ask(q, None)
                BY <1>0, <3>2, <3>4
            <4>4. PanelMoves(q)
                BY <3>2, <4>2, <4>3, ChoicesAre DEF PanelMoves
            <4> QED  BY <1>0, <3>2, <4>4
        <3>5. Shaped
            BY <1>0, <3>2
        <3> QED  BY <3>3, <3>4, <3>5
    <2>2. CASE ProofUploaded \/ UploadFailed \/ PaymentFiled \/ NotAcknowledged
        BY <1>5, <2>2 DEF ProofUploaded, UploadFailed, PaymentFiled, NotAcknowledged, pageVars
    <2> QED  BY <1>8, <2>1, <2>2 DEF FormStep
<1>9. ASSUME NEW p \in Reports, p # q, OwnRead(p), UNCHANGED <<moves, panel, form>>
      PROVE  PanelMoves(q) /\ Shaped
    <2>1. Shaped
        BY <1>0, <1>9, ReadsHold
    <2>2. reader'[q] = reader[q] /\ panel'[q] = panel[q]
        BY <1>9, ReadsOfOthers
    <2> QED  BY <2>1, <2>2 DEF PanelMoves
<1>10. ASSUME OwnRead(q), UNCHANGED <<moves, panel, form>>  PROVE PanelMoves(q) /\ Shaped
    <2>1. Shaped
        BY <1>0, <1>10, ReadsHold
    <2>2. panel[q].open /\ UNCHANGED <<ledgerVars, moves>> /\ panel'[q] = panel[q]
        BY <1>0, <1>10, ReadsHold DEF Quiet
    <2> QED  BY <1>10, <2>1, <2>2 DEF PanelMoves
<1>14. ASSUME ReportStep \/ \E p \in Reports : Fail(p)
       PROVE  OwnRead(q) \/ \E p \in Reports : p # q /\ OwnRead(p)
    <2>1. ASSUME NEW p \in Reports, ReadSettings(p) \/ ReadClock(p) \/ Fail(p)
          PROVE  OwnRead(q) \/ (p # q /\ OwnRead(p))
        <3>1. CASE p # q
            BY <2>1, <3>1 DEF OwnRead
        <3>2. CASE p = q
            <4>1. ReadSettings(q) \/ ReadClock(q) \/ Fail(q)
                BY <2>1, <3>2 DEF ReadSettings, ReadClock, Fail, Answers, Holds
            <4> QED  BY <4>1 DEF OwnRead
        <3> QED  BY <3>1, <3>2
    <2>2. ASSUME ListMine \/ ReadDues \/ SumMine
          PROVE  OwnRead(q) \/ (q # "mine" /\ OwnRead("mine"))
        BY <2>2 DEF OwnRead
    <2>3. ASSUME ReadPool  PROVE OwnRead(q) \/ (q # "pool" /\ OwnRead("pool"))
        BY <2>3 DEF OwnRead
    <2>4. ASSUME ListPeriods  PROVE OwnRead(q) \/ (q # "periods" /\ OwnRead("periods"))
        BY <2>4 DEF OwnRead
    <2>5. ASSUME ListPoints \/ ReadCarry  PROVE OwnRead(q) \/ (q # "history" /\ OwnRead("history"))
        BY <2>5 DEF OwnRead
    <2> QED  BY <1>14, <2>1, <2>2, <2>3, <2>4, <2>5 DEF ReportStep, Reports
<1>11. ASSUME EverybodyElse  PROVE PanelMoves(q) /\ Shaped
    <2>1. UNCHANGED <<reader, panel>>
        BY <1>11 DEF EverybodyElse, WorldStep, OtherPays, Void, PatchSettings, Join, SeedCarry, Clock
    <2> QED  BY <1>5, <2>1
<1>12. ASSUME UNCHANGED allVars  PROVE PanelMoves(q) /\ Shaped
    BY <1>5, <1>12 DEF allVars
<1> HIDE DEF Shaped
<1>15. ASSUME (ReportStep \/ \E p \in Reports : Fail(p)) /\ UNCHANGED <<moves, panel, form>>
       PROVE  PanelMoves(q) /\ Shaped
    BY <1>9, <1>10, <1>14, <1>15
<1>16. ASSUME \E p \in Reports : Open(p) \/ Close(p) \/ Loaded(p)  PROVE PanelMoves(q) /\ Shaped
    BY <1>1, <1>2, <1>3, <1>16
<1>17. ASSUME \E p \in {"pool", "history"} : \E choice \in ChoicesOf[p] : Choose(p, choice)
       PROVE  PanelMoves(q) /\ Shaped
    BY <1>4, <1>17
<1>18. ASSUME \E f \in Files : PickFile(f) \/ FileRead(f) \/ FileUnreadable(f)  PROVE PanelMoves(q) /\ Shaped
    BY <1>6, <1>18
<1>13. PanelMoves(q) /\ Shaped
    BY <1>7, <1>8, <1>11, <1>12, <1>15, <1>16, <1>17, <1>18 DEF PageNext
<1> QED  BY <1>13 DEF Shaped

(***************************************************************************)
(* The reads keep the reports in order                                     *)
(***************************************************************************)

LEMMA QuietIsOK ==
    ASSUME NEW q \in Reports
    PROVE  ReaderOK(q, Quiet)
<1>1. Quiet \in ReaderState(q)
    BY DEF Quiet, ReaderState, Reads, Rows
<1>2. IsFiniteSet(Quiet.rows) /\ Quiet.answer = None /\ Quiet.pc = "idle"
    BY FS_EmptySet DEF Quiet
<1> QED  BY <1>1, <1>2 DEF ReaderOK

LEMMA AskIs ==
    ASSUME NEW q \in Reports, NEW choice \in ChoicesOf[q]
    PROVE  /\ ReaderOK(q, Ask(q, choice))
           /\ Ask(q, choice).pc = "settings" /\ Ask(q, choice).answer = None
           /\ Ask(q, choice).rows = {}
           /\ Ask(q, choice).period = IF q = "pool" THEN choice ELSE None
<1>1. choice \in KnownPeriods \cup {None} \/ q # "pool"
    BY DEF ChoicesOf, Reports
<1>2. choice \in {"yearly", "monthly", None} \/ q # "history"
    <2>1. Modes \subseteq {"yearly", "monthly"}
        BY VenturePageAssumption
    <2>2. ChoicesOf["history"] = Modes \cup {None}
        BY DEF ChoicesOf
    <2> QED  BY <2>1, <2>2
<1>3. PICK p \in KnownPeriods \cup {None} : p = IF q = "pool" THEN choice ELSE None
    BY <1>1
<1>4. PICK m \in {"yearly", "monthly", None} : m = IF q = "history" THEN choice ELSE None
    BY <1>2
<1>5. Ask(q, choice) = [pc |-> "settings", period |-> p, mode |-> m, zone |-> None, cadence |-> None,
                        dues |-> 0, rows |-> {}, count |-> 0, answer |-> None]
    <2>1. Ask(q, choice) = [Quiet EXCEPT !.pc = "settings", !.period = p, !.mode = m]
        BY <1>3, <1>4 DEF Ask
    <2> QED  BY <2>1 DEF Quiet
<1>6. PICK r : r = Ask(q, choice)
    OBVIOUS
<1>7. r \in ReaderState(q) /\ r.pc = "settings" /\ r.answer = None /\ r.rows = {} /\ r.period = p
    BY <1>5, <1>6 DEF ReaderState, Reads, Rows
<1> QED  BY <1>3, <1>6, <1>7, FS_EmptySet DEF ReaderOK

LEMMA AnsweredIsOK ==
    ASSUME NEW q \in Reports, NEW a \in AnswersOf[q] \cup {Error}
    PROVE  /\ ReaderOK(q, [Quiet EXCEPT !.pc = "answered", !.answer = a])
           /\ [Quiet EXCEPT !.pc = "answered", !.answer = a].pc = "answered"
           /\ [Quiet EXCEPT !.pc = "answered", !.answer = a].answer = a
<1>1. PICK r : r = [Quiet EXCEPT !.pc = "answered", !.answer = a]
    OBVIOUS
<1>2. r \in ReaderState(q) /\ r.pc = "answered" /\ r.answer = a /\ r.rows = {}
    BY <1>1 DEF Quiet, ReaderState, Reads, Rows
<1> QED  BY <1>1, <1>2, FS_EmptySet DEF ReaderOK

LEMMA RemainingIsNat ==
    ASSUME NEW dues \in Nat, NEW paid \in Nat
    PROVE  Remaining(dues, paid) \in Nat
BY DEF Remaining

\* Some of the table.
LEMMA SomeRows ==
    ASSUME LedgerOK, NEW some \in SUBSET contribution
    PROVE  /\ some \in Rows /\ IsFiniteSet(some)
           /\ \A r \in some : r.amount \in Nat /\ r.period \in KnownPeriods /\ r.id \in RowIds
           /\ Total(some) \in Nat
<1>1. some \in Rows /\ IsFiniteSet(some)
    BY FS_Subset DEF LedgerOK, TypeOK, Rows
<1>2. \A r \in some : r.amount \in Nat /\ r.period \in KnownPeriods /\ r.id \in RowIds
    BY <1>1, RowTypes DEF Rows
<1> QED  BY <1>1, <1>2, TotalNat

\* Some rows of a report.
LEMMA RowsAddUp ==
    ASSUME NEW rows \in Rows, IsFiniteSet(rows)
    PROVE  /\ Total(rows) \in Nat
           /\ \A r \in rows : r.amount \in Nat
           /\ Counts(rows) \in Rows /\ IsFiniteSet(Counts(rows)) /\ Total(Counts(rows)) \in Nat
           /\ IsFiniteSet(Payers(rows)) /\ Cardinality(Payers(rows)) \in Nat
           /\ \A dues : /\ Settled(rows, dues) \subseteq Payers(rows)
                        /\ Cardinality(Settled(rows, dues)) \in Nat
                        /\ Cardinality(Settled(rows, dues)) <= Cardinality(Payers(rows))
<1>1. \A r \in rows : r.amount \in Nat
    BY RowTypes DEF Rows
<1>2. Counts(rows) \in SUBSET rows /\ IsFiniteSet(Counts(rows)) /\ Counts(rows) \in Rows
    BY FS_Subset DEF Counts, Rows
<1>3. [r \in Counts(rows) |-> r.user] \in Surjection(Counts(rows), Payers(rows))
    BY DEF Surjection, Payers
<1>4. IsFiniteSet(Payers(rows)) /\ Cardinality(Payers(rows)) \in Nat
    BY <1>2, <1>3, FS_Surjection, FS_CardinalityType
<1>5. \A dues : Settled(rows, dues) \subseteq Payers(rows)
    BY DEF Settled
<1>6. ASSUME NEW dues
      PROVE  Cardinality(Settled(rows, dues)) \in Nat
             /\ Cardinality(Settled(rows, dues)) <= Cardinality(Payers(rows))
    BY <1>4, <1>5, FS_Subset, FS_CardinalityType
<1>7. Total(rows) \in Nat /\ Total(Counts(rows)) \in Nat
    BY <1>1, <1>2, TotalNat
<1> QED  BY <1>1, <1>2, <1>4, <1>5, <1>6, <1>7

\* The own payments.
LEMMA MineIsOK ==
    ASSUME LedgerOK, NEW r, ReaderOK("mine", r), r.pc = "amounts", NEW paid \in Nat
    PROVE  /\ Mine(r, paid) \in AnswersOf["mine"]
           /\ Mine(r, paid).rows = r.rows /\ Mine(r, paid).period = r.period
           /\ Mine(r, paid).paid = paid /\ Mine(r, paid).dues = r.dues
           /\ Mine(r, paid).remaining = Remaining(r.dues, paid)
<1>1. r.period \in KnownPeriods /\ r.rows \in Rows /\ r.dues \in Nat
    BY DEF ReaderOK, ReaderState
<1>2. Remaining(r.dues, paid) \in Nat
    BY <1>1, RemainingIsNat
<1> QED  BY <1>1, <1>2 DEF Mine, AnswersOf, MineAnswers

\* The pool.
LEMMA PoolIsOK ==
    ASSUME NEW r, r.period \in KnownPeriods, r.rows \in Rows, IsFiniteSet(r.rows), r.dues \in Nat,
           r.count \in Nat
    PROVE  /\ Pool(r) \in AnswersOf["pool"]
           /\ Pool(r).rows = r.rows /\ Pool(r).period = r.period /\ Pool(r).count = r.count
           /\ Pool(r).settled = Cardinality(Settled(r.rows, r.dues))
<1>1. Total(Counts(r.rows)) \in Nat /\ Cardinality(Settled(r.rows, r.dues)) \in Nat
    BY RowsAddUp
<1>2. r.dues * r.count \in Nat
    OBVIOUS
<1>3. Remaining(r.dues * r.count, Total(Counts(r.rows))) \in Nat
    BY <1>1, <1>2, RemainingIsNat
<1>4. PICK c \in Nat, t \in Nat, m \in Nat :
         /\ c = Cardinality(Settled(r.rows, r.dues)) /\ t = Total(Counts(r.rows))
         /\ m = Remaining(r.dues * r.count, Total(Counts(r.rows)))
    BY <1>1, <1>3
<1>5. Pool(r) = [period |-> r.period, rows |-> r.rows, dues |-> r.dues, count |-> r.count,
                 paid |-> t, settled |-> c, remaining |-> m]
    BY <1>4 DEF Pool
<1> QED  BY <1>4, <1>5 DEF AnswersOf, PoolAnswers

\* The history.
LEMMA HistoryIsOK ==
    ASSUME LedgerOK, NEW rows \in Rows, IsFiniteSet(rows), NEW mode \in {"yearly", "monthly"}
    PROVE  LET points == {Point(r) : r \in rows}
               a == History(points, mode, carry)
           IN  /\ a \in AnswersOf["history"]
               /\ a.seed = carry /\ a.rows = points
               /\ Lifetime(a) = Total(a.rows) + (IF a.seed = None THEN 0 ELSE a.seed)
<1> DEFINE points == {Point(r) : r \in rows}
           Points == [id : RowIds, at : Instants, amount : Nat]
<1>1. \A r \in rows : r.id \in RowIds /\ r.amount \in Nat
    BY RowTypes DEF Rows
<1>2. \A r \in rows : submitted[r.id] \in Instants
    BY <1>1 DEF LedgerOK
<1>3. \A r \in rows : Point(r) \in Points
    BY <1>1, <1>2 DEF Point
<1>4. points \in SUBSET Points
    BY <1>3
<1>5. [r \in rows |-> Point(r)] \in Surjection(rows, points)
    BY DEF Surjection
<1>6. IsFiniteSet(points)
    BY <1>5, FS_Surjection
<1> HIDE DEF points
<1>7. AreTimed(points)
    BY <1>4, <1>6 DEF AreTimed
<1>8. PICK seed \in {Opening, None} : seed = carry
    BY DEF LedgerOK
<1>9. PICK a : a = History(points, mode, seed)
    OBVIOUS
<1>10. /\ Lifetime(a) = Total(points) + (IF seed = None THEN 0 ELSE seed)
       /\ a.series \in Seq(SeriesEntry)
    BY <1>7, <1>9, LifetimeIs
<1>11. a = [seed |-> seed, rows |-> points, series |-> a.series]
    BY <1>9 DEF History
<1>12. a.seed = seed /\ a.rows = points
    BY <1>11
<1>13. a \in AnswersOf["history"]
    BY <1>4, <1>10, <1>11 DEF AnswersOf, HistoryAnswers
<1> QED  BY <1>8, <1>9, <1>10, <1>12, <1>13 DEF points

\* A read of the settings, and of the clock.
LEMMA StartIsOK ==
    ASSUME PageInv, NEW q \in Reports, ReadSettings(q) \/ ReadClock(q)
    PROVE  /\ ReaderOK(q, reader'[q])
           /\ reader[q].pc \in {"settings", "clock"}
           /\ \/ reader'[q].pc = "clock" /\ reader[q].period = None
              \/ reader'[q].pc = "rows" /\ (reader[q].pc = "settings" => reader'[q].period = reader[q].period)
              \/ reader'[q].pc = "answered" /\ reader'[q].answer = Error
<1>1. PICK r : r = reader[q]
    OBVIOUS
<1>2. ReaderOK(q, r) /\ reader = [p \in Reports |-> reader[p]]
    BY <1>1 DEF PageInv
<1>3. r \in ReaderState(q)
    BY <1>2 DEF ReaderOK
<1>4. settings.timezone \in Timezones /\ settings.cadence \in Cadences /\ settings.dues \in Nat
    BY DEF PageInv, LedgerOK, TypeOK, Settings
<1>5. CASE ReadSettings(q)
    <2>1. PICK dues \in Nat : dues = IF q = "pool" THEN settings.dues ELSE 0
        BY <1>4
    <2>2. PICK held : held = [r EXCEPT !.dues = dues]
        OBVIOUS
    <2>3. /\ held \in ReaderState(q) /\ held.rows = r.rows /\ held.answer = r.answer
          /\ held.period = r.period
        BY <1>3, <2>2 DEF ReaderState
    <2>4. r.pc = "settings" /\ r.answer = None /\ IsFiniteSet(r.rows)
        BY <1>1, <1>2, <1>5 DEF ReadSettings, ReaderOK
    <2>5. CASE q = "history" \/ r.period # None
        <3>1. reader'[q] = [held EXCEPT !.pc = "rows"]
            BY <1>1, <1>2, <1>5, <2>1, <2>2, <2>3, <2>5 DEF ReadSettings, Holds
        <3>2. PICK later : later = [held EXCEPT !.pc = "rows"]
            OBVIOUS
        <3>3. /\ later \in ReaderState(q) /\ later.rows = r.rows /\ later.answer = None
              /\ later.period = r.period /\ later.pc = "rows"
            BY <2>3, <2>4, <3>2 DEF ReaderState, Reads
        <3>4. q # "history" => r.period \in KnownPeriods
            BY <1>3, <2>5 DEF ReaderState
        <3> QED  BY <1>1, <2>4, <3>1, <3>2, <3>3, <3>4 DEF ReaderOK
    <2>6. CASE ~(q = "history" \/ r.period # None)
        <3>0. PICK z \in Timezones, c \in Cadences : z = settings.timezone /\ c = settings.cadence
            BY <1>4
        <3>1. reader'[q] = [held EXCEPT !.pc = "clock", !.zone = z, !.cadence = c]
            BY <1>1, <1>2, <1>5, <2>1, <2>2, <2>3, <2>6, <3>0 DEF ReadSettings, Holds
        <3>2. PICK later : later = [held EXCEPT !.pc = "clock", !.zone = z, !.cadence = c]
            OBVIOUS
        <3>3. /\ later \in ReaderState(q) /\ later.rows = r.rows /\ later.answer = None
              /\ later.period = r.period /\ later.pc = "clock" /\ later.zone = z /\ later.cadence = c
            BY <2>3, <2>4, <3>2 DEF ReaderState, Reads
        <3> QED  BY <1>1, <2>4, <2>6, <3>1, <3>2, <3>3 DEF ReaderOK
    <2> QED  BY <2>5, <2>6
<1>6. CASE ReadClock(q)
    <2>1. /\ r.pc = "clock" /\ r.zone \in Timezones /\ r.cadence \in Cadences /\ r.answer = None
          /\ IsFiniteSet(r.rows)
        BY <1>1, <1>2, <1>6 DEF ReadClock, ReaderOK
    <2>2. CASE r.zone \in Zones
        <3>1. now \in Instants
            BY DEF PageInv, LedgerOK, TypeOK
        <3>2. PICK p \in KnownPeriods : p = LocalPeriod(r.zone, r.cadence, now)
            BY <2>1, <2>2, <3>1 DEF KnownPeriods, LocalPeriod
        <3>3. PICK later : later = [r EXCEPT !.pc = "rows", !.zone = None, !.cadence = None, !.period = p]
            OBVIOUS
        <3>4. reader'[q] = later
            BY <1>1, <1>2, <1>6, <2>2, <3>2, <3>3 DEF ReadClock, Holds
        <3>5. /\ later \in ReaderState(q) /\ later.rows = r.rows /\ later.answer = None
              /\ later.period = p /\ later.pc = "rows"
            BY <1>3, <2>1, <3>3 DEF ReaderState, Reads
        <3> QED  BY <1>1, <2>1, <3>4, <3>5 DEF ReaderOK
    <2>3. CASE r.zone \notin Zones
        <3>1. reader'[q] = [Quiet EXCEPT !.pc = "answered", !.answer = Error]
            BY <1>1, <1>2, <1>6, <2>3 DEF ReadClock, Answers, Holds
        <3>2. ReaderOK(q, reader'[q]) /\ reader'[q].pc = "answered" /\ reader'[q].answer = Error
            BY <3>1, AnsweredIsOK
        <3> QED  BY <1>1, <2>1, <3>2
    <2> QED  BY <2>2, <2>3
<1> QED  BY <1>5, <1>6

\* A read that failed.
LEMMA FailIsOK ==
    ASSUME PageInv, NEW q \in Reports, Fail(q)
    PROVE  ReaderOK(q, reader'[q]) /\ reader'[q].pc = "answered" /\ reader'[q].answer = Error
<1>1. reader'[q] = [Quiet EXCEPT !.pc = "answered", !.answer = Error]
    BY DEF Fail, Answers, Holds, PageInv
<1> QED  BY <1>1, AnsweredIsOK

\* What the rows of a period are that somebody has paid.
OwnRows(rows, p) == {r \in rows : r.user = Viewer /\ r.period = p}

\* The reads of the own payments.
LEMMA MineReads ==
    ASSUME PageInv, ListMine \/ ReadDues \/ SumMine,
           NEW r, r = reader["mine"], NEW later, later = reader'["mine"]
    PROVE  /\ ReaderOK("mine", later)
           /\ r.period \in KnownPeriods
           /\ \/ /\ r.pc = "rows" /\ later.pc = "dues" /\ later.period = r.period
                 /\ later.rows = OwnRows(contribution, r.period)
              \/ /\ r.pc = "dues" /\ later.pc = "amounts" /\ later.period = r.period
                 /\ later.rows = r.rows /\ later.dues = settings.dues
              \/ /\ r.pc = "amounts" /\ later.pc = "answered"
                 /\ later.answer = Mine(r, Paid(contribution, Viewer, r.period))
<1>1. ReaderOK("mine", r) /\ reader = [p \in Reports |-> reader[p]] /\ "mine" \in Reports
    BY DEF PageInv, Reports
<1>2. r \in ReaderState("mine") /\ IsFiniteSet(r.rows)
    BY <1>1 DEF ReaderOK
<1>3. r.pc \in {"rows", "dues", "amounts"} /\ r.answer = None /\ r.period \in KnownPeriods
    BY <1>1 DEF ListMine, ReadDues, SumMine, ReaderOK
<1>4. CASE ListMine
    <2>1. PICK rows \in Rows : rows = OwnRows(contribution, r.period) /\ IsFiniteSet(rows)
        BY SomeRows DEF OwnRows, PageInv
    <2>2. r.pc = "rows" /\ later = [r EXCEPT !.pc = "dues", !.rows = rows]
        BY <1>1, <1>4, <2>1 DEF ListMine, Holds, OwnRows
    <2>3. later \in ReaderState("mine")
        BY <1>2, <2>2 DEF ReaderState, Reads
    <2>4. later.pc = "dues" /\ later.rows = rows /\ later.period = r.period /\ later.answer = r.answer
        BY <1>2, <2>2 DEF ReaderState
    <2> QED  BY <1>3, <2>1, <2>2, <2>3, <2>4 DEF ReaderOK
<1>5. CASE ReadDues
    <2>1. PICK dues \in Nat : dues = settings.dues
        BY DEF PageInv, LedgerOK, TypeOK, Settings
    <2>2. r.pc = "dues" /\ later = [r EXCEPT !.pc = "amounts", !.dues = dues]
        BY <1>1, <1>5, <2>1 DEF ReadDues, Holds
    <2>3. later \in ReaderState("mine")
        BY <1>2, <2>2 DEF ReaderState, Reads
    <2>4. /\ later.pc = "amounts" /\ later.rows = r.rows /\ later.period = r.period
          /\ later.answer = r.answer /\ later.dues = dues
        BY <1>2, <2>2 DEF ReaderState
    <2> QED  BY <1>2, <1>3, <2>1, <2>2, <2>3, <2>4 DEF ReaderOK
<1>6. CASE SumMine
    <2>1. PICK paid \in Nat : paid = Paid(contribution, Viewer, r.period)
        BY CountedFinite DEF PageInv, LedgerOK, TypeOK
    <2>2. /\ r.pc = "amounts"
          /\ later = [Quiet EXCEPT !.pc = "answered", !.answer = Mine(r, paid)]
        BY <1>1, <1>6, <2>1 DEF SumMine, Answers, Holds
    <2>3. Mine(r, paid) \in AnswersOf["mine"]
        BY <1>1, <2>2, MineIsOK DEF PageInv
    <2>4. ReaderOK("mine", later) /\ later.pc = "answered" /\ later.answer = Mine(r, paid)
        <3>1. PICK a \in AnswersOf["mine"] : a = Mine(r, paid)
            BY <2>3
        <3>2. later = [Quiet EXCEPT !.pc = "answered", !.answer = a]
            BY <2>2, <3>1
        <3>3. ReaderOK("mine", later) /\ later.pc = "answered" /\ later.answer = a
            BY <1>1, <3>2, AnsweredIsOK
        <3> QED  BY <3>1, <3>3
    <2> QED  BY <1>3, <2>1, <2>2, <2>4
<1> QED  BY <1>4, <1>5, <1>6

\* Members are finitely many, and no fewer when there are more.
LEMMA MembersCount ==
    ASSUME NEW few, NEW many, few \subseteq many, many \subseteq Users
    PROVE  /\ IsFiniteSet(many) /\ Cardinality(many) \in Nat
           /\ Cardinality(few) \in Nat /\ Cardinality(few) <= Cardinality(many)
<1>1. IsFiniteSet(Users)
    BY ReportsAssumption
<1>2. IsFiniteSet(many) /\ IsFiniteSet(few)
    BY <1>1, FS_Subset
<1> QED  BY <1>2, FS_Subset, FS_CardinalityType

\* The reads of the pool.
LEMMA PoolReads ==
    ASSUME PageInv, ReadPool,
           NEW r, r = reader["pool"], NEW later, later = reader'["pool"]
    PROVE  /\ ReaderOK("pool", later)
           /\ r.period \in KnownPeriods
           /\ \/ /\ r.pc = "rows" /\ later.pc = "members" /\ later.period = r.period
                 /\ later.rows = {s \in contribution : s.period = r.period}
              \/ /\ r.pc = "members" /\ later.pc = "answered"
                 /\ later.answer.period = r.period /\ later.answer.rows = r.rows
                 /\ later.answer.count = Cardinality(members)
                 /\ later.answer.settled \in Nat
                 /\ later.answer.settled <= Cardinality(Payers(r.rows))
<1>1. ReaderOK("pool", r) /\ reader = [p \in Reports |-> reader[p]] /\ "pool" \in Reports
    BY DEF PageInv, Reports
<1>2. r \in ReaderState("pool") /\ IsFiniteSet(r.rows)
    BY <1>1 DEF ReaderOK
<1>3. r.pc \in {"rows", "members"} /\ r.answer = None /\ r.period \in KnownPeriods
    BY <1>1 DEF ReadPool, ReaderOK
<1>4. CASE r.pc = "rows"
    <2>1. PICK rows \in Rows : rows = {s \in contribution : s.period = r.period} /\ IsFiniteSet(rows)
        BY SomeRows DEF PageInv
    <2>2. later = [r EXCEPT !.pc = "members", !.rows = rows]
        BY <1>1, <1>4, <2>1 DEF ReadPool, Holds
    <2>3. later \in ReaderState("pool")
        BY <1>2, <2>2 DEF ReaderState, Reads
    <2>4. later.pc = "members" /\ later.rows = rows /\ later.period = r.period /\ later.answer = r.answer
        BY <1>2, <2>2 DEF ReaderState
    <2> QED  BY <1>3, <1>4, <2>1, <2>2, <2>3, <2>4 DEF ReaderOK
<1>5. CASE r.pc = "members"
    <2>1. PICK count \in Nat : count = Cardinality(members)
        BY MembersCount DEF PageInv, LedgerOK
    <2>2. PICK held : held = [r EXCEPT !.count = count]
        OBVIOUS
    <2>3. /\ held.period = r.period /\ held.rows = r.rows /\ held.dues = r.dues /\ held.count = count
          /\ r.rows \in Rows /\ r.dues \in Nat
        BY <1>2, <2>2 DEF ReaderState
    <2>4. later = [Quiet EXCEPT !.pc = "answered", !.answer = Pool(held)]
        BY <1>1, <1>5, <2>1, <2>2 DEF ReadPool, Answers, Holds
    <2>5. PICK a \in AnswersOf["pool"] : a = Pool(held)
        BY <1>2, <1>3, <2>3, PoolIsOK
    <2>6. /\ a.rows = r.rows /\ a.period = r.period /\ a.count = count
          /\ a.settled = Cardinality(Settled(r.rows, r.dues))
        BY <1>2, <1>3, <2>3, <2>5, PoolIsOK
    <2>7. later = [Quiet EXCEPT !.pc = "answered", !.answer = a]
        BY <2>4, <2>5
    <2>8. ReaderOK("pool", later) /\ later.pc = "answered" /\ later.answer = a
        BY <1>1, <2>7, AnsweredIsOK
    <2>9. a.settled \in Nat /\ a.settled <= Cardinality(Payers(r.rows))
        BY <1>2, <2>3, <2>6, RowsAddUp
    <2> QED  BY <1>3, <1>5, <2>1, <2>6, <2>8, <2>9
<1> QED  BY <1>3, <1>4, <1>5

\* The reads of the periods.
LEMMA PeriodsReads ==
    ASSUME PageInv, ListPeriods
    PROVE  ReaderOK("periods", reader'["periods"])
<1>1. PICK r : r = reader["periods"]
    OBVIOUS
<1>2. ReaderOK("periods", r) /\ reader = [p \in Reports |-> reader[p]] /\ "periods" \in Reports
    BY <1>1 DEF PageInv, Reports
<1>3. r.period \in KnownPeriods
    BY <1>1, <1>2 DEF ListPeriods, ReaderOK
<1>4. {s.period : s \in contribution} \cup {r.period} \in SUBSET KnownPeriods
    BY <1>3, SomeRows DEF PageInv
<1>5. PICK a : a = [current |-> r.period, offered |-> {s.period : s \in contribution} \cup {r.period}]
    OBVIOUS
<1>6. a \in AnswersOf["periods"]
    BY <1>3, <1>4, <1>5 DEF AnswersOf, PeriodsAnswers
<1>7. reader'["periods"] = [Quiet EXCEPT !.pc = "answered", !.answer = a]
    BY <1>1, <1>2, <1>5 DEF ListPeriods, Answers, Holds
<1> QED  BY <1>2, <1>6, <1>7, AnsweredIsOK

\* The reads of the history.
LEMMA HistoryReads ==
    ASSUME PageInv, ListPoints \/ ReadCarry,
           NEW r, r = reader["history"], NEW later, later = reader'["history"]
    PROVE  /\ ReaderOK("history", later)
           /\ \/ later.pc = "carry"
              \/ /\ later.pc = "answered"
                 /\ later.answer.seed = carry
                 /\ Lifetime(later.answer) =
                       Total(later.answer.rows)
                          + (IF later.answer.seed = None THEN 0 ELSE later.answer.seed)
<1>1. ReaderOK("history", r) /\ reader = [p \in Reports |-> reader[p]] /\ "history" \in Reports
    BY DEF PageInv, Reports
<1>2. r \in ReaderState("history") /\ IsFiniteSet(r.rows)
    BY <1>1 DEF ReaderOK
<1>3. r.answer = None
    BY <1>1 DEF ListPoints, ReadCarry, ReaderOK
<1>4. CASE ListPoints
    <2>1. PICK rows \in Rows : rows = Counts(contribution) /\ IsFiniteSet(rows)
        BY SomeRows DEF Counts, PageInv
    <2>2. later = [r EXCEPT !.pc = "carry", !.rows = rows]
        BY <1>1, <1>4, <2>1 DEF ListPoints, Holds
    <2>3. later \in ReaderState("history")
        BY <1>2, <2>2 DEF ReaderState, Reads
    <2>4. later.pc = "carry" /\ later.rows = rows /\ later.answer = r.answer
        BY <1>2, <2>2 DEF ReaderState
    <2> QED  BY <1>3, <2>1, <2>3, <2>4 DEF ReaderOK
<1>5. CASE ReadCarry
    <2>1. r.rows \in Rows /\ r.mode \in {"yearly", "monthly", None}
        BY <1>2 DEF ReaderState
    <2> DEFINE points == {Point(s) : s \in r.rows}
    <2>2. PICK mode \in {"yearly", "monthly"} : mode = IF r.mode # None THEN r.mode ELSE DecideBucket(points, now)
        BY <2>1 DEF DecideBucket
    <2>3. PICK a : a = History(points, mode, carry)
        OBVIOUS
    <2>4. /\ a \in AnswersOf["history"] /\ a.seed = carry
          /\ Lifetime(a) = Total(a.rows) + (IF a.seed = None THEN 0 ELSE a.seed)
        BY <1>2, <2>1, <2>3, HistoryIsOK DEF PageInv
    <2>5. later = [Quiet EXCEPT !.pc = "answered", !.answer = a]
        BY <1>1, <1>5, <2>2, <2>3 DEF ReadCarry, Answers, Holds
    <2>7. a \in AnswersOf["history"] \cup {Error}
        BY <2>4
    <2>6. ReaderOK("history", later) /\ later.pc = "answered" /\ later.answer = a
        BY <1>1, <2>5, <2>7, AnsweredIsOK
    <2> QED  BY <2>4, <2>6
<1> QED  BY <1>4, <1>5

\* Every read.
LEMMA ReadsAreOK ==
    ASSUME PageInv, NEW q \in Reports, OwnRead(q)
    PROVE  ReaderOK(q, reader'[q])
BY StartIsOK, FailIsOK, MineReads, PoolReads, PeriodsReads, HistoryReads DEF OwnRead

\* The panel that is on the screen, closed, or asked again.
LEMMA PanelsAreOK ==
    ASSUME NEW q \in Reports, NEW p, PanelOK(q, p)
    PROVE  /\ PanelOK(q, Closed)
           /\ \A choice \in ChoicesOf[q] :
                 PanelOK(q, [open |-> TRUE, chosen |-> choice, shown |-> p.shown])
           /\ \A a \in AnswersOf[q] \cup {Error, None} :
                 PanelOK(q, [p EXCEPT !.shown = a])
<1>1. None \in ChoicesOf[q]
    BY ChoicesAre
<1> QED  BY <1>1 DEF PanelOK, Closed

\* What the form's actions make of the form.
LEMMA FormTypes ==
    /\ Blank \in FormState
    /\ \A f \in FormState, g \in {"edit", "uploading", "posting"}, s \in SUBSET Files,
          t, u, v \in Files \cup {None}, n \in Amounts \cup {0}, i, j \in RowIds \cup {None} :
          [pc |-> g, reading |-> s, staged |-> t, amount |-> n, took |-> u, proof |-> v, row |-> i, told |-> j]
             \in FormState
    /\ \A f \in FormState :
          /\ f = [pc |-> f.pc, reading |-> f.reading, staged |-> f.staged, amount |-> f.amount,
                  took |-> f.took, proof |-> f.proof, row |-> f.row, told |-> f.told]
          /\ f.pc \in {"edit", "uploading", "posting"} /\ f.reading \in SUBSET Files
          /\ f.staged \in Files \cup {None} /\ f.took \in Files \cup {None}
          /\ f.proof \in Files \cup {None} /\ f.amount \in Amounts \cup {0}
          /\ f.row \in RowIds \cup {None} /\ f.told \in RowIds \cup {None}
BY DEF FormState, Blank

\* What a step does to the form: each line is an action of it.
FormMoves ==
    \/ form' = form
    \/ form' = Blank
    \/ /\ UNCHANGED <<ledgerVars, reader, panel>>
       /\ \/ \E f \in Files : /\ FormTakes(f) /\ form.pc = "edit" /\ IsData(panel["mine"].shown)
                             /\ form' = [form EXCEPT !.reading = @ \cup {f}]
          \/ \E f \in form.reading : form' = [form EXCEPT !.reading = @ \ {f}, !.staged = f]
          \/ \E f \in form.reading : form' = [form EXCEPT !.reading = @ \ {f}, !.staged = None]
          \/ form' = [form EXCEPT !.staged = None]
          \/ /\ form.pc = "edit" /\ IsData(panel["mine"].shown)
             /\ \E amount \in Amounts :
                   form' = [form EXCEPT !.pc = IF form.staged = None THEN "posting" ELSE "uploading",
                                        !.amount = amount, !.took = form.staged, !.staged = None,
                                        !.told = None]
          \/ form.pc = "uploading" /\ form' = [form EXCEPT !.pc = "posting", !.proof = form.took]
          \/ form' = Edits
    \/ /\ UNCHANGED <<reader, panel>>
       /\ form.pc = "posting"
       /\ form.row = None
       /\ \E row \in Payments(Viewer, form.amount) : Record(row) /\ form' = [Sent EXCEPT !.row = row.id]
    \/ /\ UNCHANGED <<ledgerVars, panel>>
       /\ form.pc = "posting"
       /\ form.row # None
       /\ form' = [Edits EXCEPT !.told = form.row]
       /\ reader' = [reader EXCEPT !["mine"] = Ask("mine", None)]

LEMMA EveryFormMoves ==
    ASSUME [PageNext]_allVars
    PROVE  FormMoves
<1>1. ASSUME NEW q \in Reports, Open(q) \/ Close(q) \/ Loaded(q)  PROVE FormMoves
    BY <1>1 DEF FormMoves, Open, Close, Loaded
<1>2. ASSUME NEW q \in {"pool", "history"}, NEW choice \in ChoicesOf[q], Choose(q, choice)  PROVE FormMoves
    BY <1>2 DEF FormMoves, Choose
<1>3. ASSUME NEW f \in Files, PickFile(f) \/ FileRead(f) \/ FileUnreadable(f)  PROVE FormMoves
    BY <1>3 DEF FormMoves, PickFile, FileRead, FileUnreadable, pageVars, Touches, Offers
<1>4. ASSUME Unstage  PROVE FormMoves
    BY <1>4 DEF FormMoves, Unstage, pageVars
<1>5. ASSUME NEW amount \in Amounts, Press(amount)  PROVE FormMoves
    BY <1>5 DEF FormMoves, Press, pageVars, Touches, Offers
<1>6. ASSUME ProofUploaded \/ UploadFailed \/ NotAcknowledged  PROVE FormMoves
    BY <1>6 DEF FormMoves, ProofUploaded, UploadFailed, NotAcknowledged, pageVars
<1>7. ASSUME PaymentFiled  PROVE FormMoves
    BY <1>7 DEF FormMoves, PaymentFiled
<1>8. ASSUME Acknowledged  PROVE FormMoves
    BY <1>8 DEF FormMoves, Acknowledged, Holds
<1>9. ASSUME UNCHANGED form  PROVE FormMoves
    BY <1>9 DEF FormMoves
<1>10. ASSUME FormStep  PROVE FormMoves
    BY <1>6, <1>7, <1>8, <1>10 DEF FormStep
<1>11. ASSUME \E q \in Reports : Open(q) \/ Close(q) \/ Loaded(q)  PROVE FormMoves
    BY <1>1, <1>11
<1>12. ASSUME \E f \in Files : PickFile(f) \/ FileRead(f) \/ FileUnreadable(f)  PROVE FormMoves
    BY <1>3, <1>12
<1> QED  BY <1>2, <1>4, <1>5, <1>9, <1>10, <1>11, <1>12 DEF PageNext, EverybodyElse, allVars

\* With its panel, the form goes too.
LEMMA FormLeavesWithPanel ==
    ASSUME PageInv, [PageNext]_allVars, ~panel'["mine"].open
    PROVE  form' = Blank
<1>0. /\ panel = [p \in Reports |-> panel[p]] /\ "mine" \in Reports
      /\ ~panel["mine"].open => form = Blank /\ panel["mine"] = Closed
      /\ PanelOK("mine", panel["mine"])
    BY DEF PageInv, Reports
<1>1. ASSUME UNCHANGED panel  PROVE form' = Blank
    <2>1. form = Blank /\ ~IsData(panel["mine"].shown)
        BY <1>0, <1>1 DEF Closed, IsData
    <2>2. /\ Blank.pc = "edit" /\ Blank.reading = {} /\ Blank.row = None /\ Blank.told = None
        BY DEF Blank
    <2>5. [Blank EXCEPT !.staged = None] = Blank
        BY DEF Blank
    <2>8. /\ [Blank EXCEPT !.amount = 0] = Blank
          /\ [Blank EXCEPT !.took = None] = Blank
          /\ [Blank EXCEPT !.proof = None] = Blank
          /\ [Blank EXCEPT !.pc = "edit"] = Blank
          /\ [Blank EXCEPT !.row = None] = Blank
        BY DEF Blank
    <2>6. [Blank EXCEPT !.amount = 0, !.took = None, !.proof = None] = Blank
        BY <2>8
    <2>7. [Blank EXCEPT !.pc = "edit", !.row = None] = Blank
        BY <2>8
    <2>3. FormMoves
        BY EveryFormMoves
    <2>4. form' = Blank \/ form' = [form EXCEPT !.staged = None] \/ form' = Edits
        BY <2>1, <2>2, <2>3 DEF FormMoves
    <2> QED  BY <2>1, <2>4, <2>5, <2>6, <2>7 DEF Edits, Sent
<1>2. ASSUME NEW q \in Reports, Open(q)  PROVE form' = Blank
    <2>1. q # "mine"
        BY <1>0, <1>2 DEF Open, PanelOK
    <2> QED  BY <1>0, <1>2, <2>1 DEF Open
<1>3. ASSUME NEW q \in Reports, Close(q)  PROVE form' = Blank
    BY <1>0, <1>3 DEF Close
<1>4. ASSUME NEW q \in Reports, Loaded(q)  PROVE form' = Blank
    <2>1. panel'["mine"].open = panel["mine"].open
        BY <1>0, <1>4 DEF Loaded, PanelOK
    <2> QED  BY <1>0, <1>4, <2>1 DEF Loaded
<1>5. ASSUME NEW q \in {"pool", "history"}, NEW choice \in ChoicesOf[q], Choose(q, choice)  PROVE form' = Blank
    <2>1. panel'["mine"] = panel["mine"]
        BY <1>0, <1>5 DEF Choose
    <2> QED  BY <1>0, <1>5, <2>1 DEF Choose
<1>6. ASSUME \E q \in Reports : Open(q) \/ Close(q) \/ Loaded(q)  PROVE form' = Blank
    BY <1>2, <1>3, <1>4, <1>6
<1>7. ASSUME \/ \E f \in Files : PickFile(f) \/ FileRead(f) \/ FileUnreadable(f)
             \/ Unstage
             \/ \E amount \in Amounts : Press(amount)
             \/ FormStep
             \/ (ReportStep \/ \E q \in Reports : Fail(q)) /\ UNCHANGED <<moves, panel, form>>
             \/ EverybodyElse
             \/ UNCHANGED allVars
      PROVE  UNCHANGED panel
    BY <1>7 DEF PickFile, FileRead, FileUnreadable, Unstage, Press, FormStep, ProofUploaded, UploadFailed,
                PaymentFiled, Acknowledged, NotAcknowledged, pageVars, EverybodyElse, allVars
<1> QED  BY <1>1, <1>5, <1>6, <1>7 DEF PageNext

\* The form keeps its type.
LEMMA FormStaysTyped ==
    ASSUME form \in FormState, FormMoves
    PROVE  form' \in FormState
<1>1. PICK f : f = form
    OBVIOUS
<1>2. f \in FormState
    BY <1>1
<1>3. ASSUME NEW x \in Files  PROVE [f EXCEPT !.reading = @ \cup {x}] \in FormState
    <2>1. PICK more \in SUBSET Files : more = f.reading \cup {x}
        BY <1>2, FormTypes
    <2>2. [f EXCEPT !.reading = more] \in FormState
        BY <1>2 DEF FormState
    <2> QED  BY <2>1, <2>2
<1>4. ASSUME NEW x \in f.reading
      PROVE  /\ [f EXCEPT !.reading = @ \ {x}, !.staged = x] \in FormState
             /\ [f EXCEPT !.reading = @ \ {x}, !.staged = None] \in FormState
    BY <1>2, FormTypes DEF FormState
<1>5. [f EXCEPT !.staged = None] \in FormState
    BY <1>2 DEF FormState
<1>6. ASSUME NEW amount \in Amounts, NEW pc \in {"posting", "uploading"}
      PROVE  [f EXCEPT !.pc = pc, !.amount = amount, !.took = f.staged, !.staged = None, !.told = None] \in FormState
    BY <1>2, FormTypes DEF FormState
<1>7. [f EXCEPT !.pc = "posting", !.proof = f.took] \in FormState
    BY <1>2, FormTypes DEF FormState
<1>8. PICK g \in FormState : g = [f EXCEPT !.amount = 0, !.took = None, !.proof = None] /\ g = Sent
    BY <1>1, <1>2 DEF FormState, Sent
<1>9. PICK h \in FormState : h = [g EXCEPT !.pc = "edit", !.row = None] /\ h = Edits
    BY <1>8 DEF FormState, Edits
<1>10. ASSUME NEW id \in RowIds \cup {None}
       PROVE  [g EXCEPT !.row = id] \in FormState /\ [h EXCEPT !.told = id] \in FormState
    <2>1. [g EXCEPT !.row = id] \in FormState
        BY <1>8 DEF FormState
    <2>2. [h EXCEPT !.told = id] \in FormState
        BY <1>9 DEF FormState
    <2> QED  BY <2>1, <2>2
<1>11. f.row \in RowIds \cup {None}
    BY <1>2, FormTypes
<1>12. ASSUME NEW amount, NEW row \in Payments(Viewer, amount)  PROVE row.id \in RowIds
    BY DEF Payments
<1>13. CASE form' = form \/ form' = Blank
    BY <1>13, FormTypes
<1>14. CASE form' = [Edits EXCEPT !.told = form.row]
    BY <1>1, <1>9, <1>10, <1>11, <1>14
<1>15. CASE \E row \in Payments(Viewer, form.amount) : Record(row) /\ form' = [Sent EXCEPT !.row = row.id]
    <2>1. PICK row \in Payments(Viewer, form.amount) : form' = [Sent EXCEPT !.row = row.id]
        BY <1>15
    <2>2. PICK id \in RowIds \cup {None} : id = row.id
        BY <1>12
    <2> QED  BY <1>8, <1>10, <2>1, <2>2
<1>16. CASE \E amount \in Amounts :
                form' = [form EXCEPT !.pc = IF form.staged = None THEN "posting" ELSE "uploading",
                                     !.amount = amount, !.took = form.staged, !.staged = None,
                                     !.told = None]
    <2>1. PICK pc \in {"posting", "uploading"} : pc = IF f.staged = None THEN "posting" ELSE "uploading"
        OBVIOUS
    <2> QED  BY <1>1, <1>6, <1>16, <2>1
<1>17. CASE \/ \E x \in Files : form' = [form EXCEPT !.reading = @ \cup {x}]
            \/ \E x \in form.reading : form' = [form EXCEPT !.reading = @ \ {x}, !.staged = x]
            \/ \E x \in form.reading : form' = [form EXCEPT !.reading = @ \ {x}, !.staged = None]
    BY <1>1, <1>3, <1>4, <1>17
<1>18. CASE \/ form' = [form EXCEPT !.staged = None]
            \/ form' = [form EXCEPT !.pc = "posting", !.proof = form.took]
            \/ form' = Edits
    BY <1>1, <1>5, <1>7, <1>9, <1>18
<1> QED  BY <1>13, <1>14, <1>15, <1>16, <1>17, <1>18 DEF FormMoves

\* Every step leaves the ledger in order.
LEMMA EveryLedgerMoves ==
    ASSUME PageInv, [PageNext]_allVars
    PROVE  LedgerMoves
<1>0. LedgerOK
    BY DEF PageInv
<1>1. ASSUME NEW q \in Reports, Open(q) \/ Close(q) \/ Loaded(q)  PROVE LedgerMoves
    BY <1>0, <1>1, LedgerRests DEF Open, Close, Loaded
<1>2. ASSUME NEW q \in {"pool", "history"}, NEW choice \in ChoicesOf[q], Choose(q, choice)  PROVE LedgerMoves
    BY <1>0, <1>2, LedgerRests DEF Choose
<1>3. ASSUME NEW f \in Files, PickFile(f) \/ FileRead(f) \/ FileUnreadable(f)  PROVE LedgerMoves
    BY <1>0, <1>3, LedgerRests DEF PickFile, FileRead, FileUnreadable, pageVars
<1>4. ASSUME Unstage \/ \E amount \in Amounts : Press(amount)  PROVE LedgerMoves
    BY <1>0, <1>4, LedgerRests DEF Unstage, Press, pageVars
<1>5. ASSUME PaymentFiled  PROVE LedgerMoves
    BY <1>0, <1>5, RecordMoves DEF PaymentFiled
<1>6. ASSUME ProofUploaded \/ UploadFailed \/ NotAcknowledged \/ Acknowledged  PROVE LedgerMoves
    BY <1>0, <1>6, LedgerRests DEF ProofUploaded, UploadFailed, NotAcknowledged, Acknowledged, pageVars
<1>7. ASSUME ReportStep \/ \E q \in Reports : Fail(q)  PROVE LedgerMoves
    BY <1>0, <1>7, LedgerRests DEF ReportStep, ReadSettings, ReadClock, Fail, ListMine, ReadDues, SumMine,
           ReadPool, ListPeriods, ListPoints, ReadCarry
<1>8. ASSUME EverybodyElse  PROVE LedgerMoves
    BY <1>0, <1>8, WorldMoves DEF EverybodyElse
<1>9. ASSUME UNCHANGED allVars  PROVE LedgerMoves
    BY <1>0, <1>9, LedgerRests DEF allVars
<1>10. ASSUME \E q \in Reports : Open(q) \/ Close(q) \/ Loaded(q)  PROVE LedgerMoves
    BY <1>1, <1>10
<1>11. ASSUME \E f \in Files : PickFile(f) \/ FileRead(f) \/ FileUnreadable(f)  PROVE LedgerMoves
    BY <1>3, <1>11
<1> QED  BY <1>2, <1>4, <1>5, <1>6, <1>7, <1>8, <1>9, <1>10, <1>11 DEF PageNext, FormStep

\* A panel after a step, and its report.
LEMMA PanelsStayOK ==
    ASSUME PageInv, [PageNext]_allVars, NEW q \in Reports
    PROVE  /\ ReaderOK(q, reader'[q])
           /\ PanelOK(q, panel'[q])
           /\ ~panel'[q].open => panel'[q] = Closed /\ reader'[q] = Quiet
<1> DEFINE Goal == /\ ReaderOK(q, reader'[q])
                   /\ PanelOK(q, panel'[q])
                   /\ ~panel'[q].open => panel'[q] = Closed /\ reader'[q] = Quiet
<1>0. /\ ReaderOK(q, reader[q]) /\ PanelOK(q, panel[q])
      /\ ~panel[q].open => panel[q] = Closed /\ reader[q] = Quiet
    BY DEF PageInv
<1>1. CASE reader'[q] = reader[q] /\ panel'[q] = panel[q]
    BY <1>0, <1>1
<1>2. ASSUME NEW choice \in ChoicesOf[q], reader'[q] = Ask(q, choice),
             panel'[q] = [open |-> TRUE, chosen |-> choice, shown |-> panel[q].shown]
      PROVE  Goal
    <2>1. ReaderOK(q, reader'[q])
        BY <1>2, AskIs
    <2>2. PanelOK(q, panel'[q])
        BY <1>0, <1>2, PanelsAreOK
    <2>3. panel'[q].open
        BY <1>2
    <2> QED  BY <2>1, <2>2, <2>3
<1>3. CASE reader'[q] = Quiet /\ panel'[q] = Closed
    BY <1>0, <1>3, QuietIsOK, PanelsAreOK
<1>4. CASE /\ reader[q].pc = "answered" /\ reader'[q] = Quiet
           /\ panel'[q] = [panel[q] EXCEPT !.shown = reader[q].answer]
    <2>1. PICK a \in AnswersOf[q] \cup {Error, None} : a = reader[q].answer
        BY <1>0 DEF ReaderOK, ReaderState
    <2>2. PanelOK(q, panel'[q])
        BY <1>0, <1>4, <2>1, PanelsAreOK
    <2>3. panel'[q].open = panel[q].open
        BY <1>0, <1>4 DEF PanelOK
    <2>4. panel[q].open
        BY <1>0, <1>4 DEF Quiet
    <2> QED  BY <1>4, <2>2, <2>3, <2>4, QuietIsOK
<1>5. CASE panel'[q] = panel[q] /\ panel[q].open /\ OwnRead(q)
    BY <1>0, <1>5, ReadsAreOK
<1> HIDE DEF Goal
<1>6. PanelMoves(q)
    BY EveryPanelMoves
<1>7. Goal
    BY <1>1, <1>2, <1>3, <1>4, <1>5, <1>6 DEF PanelMoves, Goal
<1> QED  BY <1>7 DEF Goal

LEMMA PageInvInit == PageInit => PageInv
<1> SUFFICES ASSUME PageInit PROVE PageInv
    OBVIOUS
<1>1. LedgerOK
    <2>1. TypeOK
        BY FS_EmptySet, CalendarAssumption DEF PageInit, ReportsInit, Init, TypeOK, Instants
    <2>2. 0 \in Instants /\ Viewer \in Users
        BY CalendarAssumption, ReportsAssumption DEF Instants
    <2> QED  BY <2>1, <2>2 DEF PageInit, ReportsInit, Init, LedgerOK
<1>2. /\ reader = [q \in Reports |-> Quiet] /\ panel = [q \in Reports |-> Closed] /\ form = Blank
      /\ moves = 0
    BY DEF PageInit, ReportsInit
<1>3. ASSUME NEW q \in Reports
      PROVE  ReaderOK(q, reader[q]) /\ PanelOK(q, panel[q]) /\ panel[q] = Closed /\ reader[q] = Quiet
    <2>1. PanelOK(q, Closed)
        BY ChoicesAre DEF PanelOK, Closed
    <2> QED  BY <1>2, <2>1, QuietIsOK
<1> QED  BY <1>1, <1>2, <1>3, FormTypes DEF PageInv

LEMMA PageInvStep == PageInv /\ [PageNext]_allVars => PageInv'
<1> SUFFICES ASSUME PageInv, [PageNext]_allVars PROVE PageInv'
    OBVIOUS
<1>1. LedgerOK'
    BY EveryLedgerMoves DEF LedgerMoves
<1>2. moves' \in Nat
    <2>1. moves \in Nat
        BY DEF PageInv
    <2>2. moves' = moves \/ moves' = moves + 1
        BY DEF PageNext, Open, Close, Loaded, Choose, PickFile, FileRead, FileUnreadable, Unstage, Press,
               FormStep, ProofUploaded, UploadFailed, PaymentFiled, Acknowledged, NotAcknowledged, pageVars,
               EverybodyElse, allVars
    <2> QED  BY <2>1, <2>2
<1>3. reader' = [q \in Reports |-> reader'[q]] /\ panel' = [q \in Reports |-> panel'[q]]
    BY EveryPanelMoves DEF Reports
<1>4. form' \in FormState
    BY EveryFormMoves, FormStaysTyped DEF PageInv
<1>5. ~panel'["mine"].open => form' = Blank
    BY FormLeavesWithPanel
<1>6. \A q \in Reports :
          /\ ReaderOK(q, reader'[q])
          /\ PanelOK(q, panel'[q])
          /\ ~panel'[q].open => panel'[q] = Closed /\ reader'[q] = Quiet
    BY PanelsStayOK
<1> QED  BY <1>1, <1>2, <1>3, <1>4, <1>5, <1>6 DEF PageInv

LEMMA PageKeepsInv == PageSpec => []PageInv
BY PageInvInit, PageInvStep, PTL DEF PageSpec

\* Types: every variable of the page, its reports and its database.
THEOREM PageTypes == PageSpec => []PageTypeOK
<1>1. PageInv => PageTypeOK
    BY DEF PageInv, PageTypeOK, ReportsTypeOK, LedgerOK, ReaderOK, PanelOK
<1> QED  BY <1>1, PageKeepsInv, PTL

-----------------------------------------------------------------------------
(***************************************************************************)
(* The receipt                                                             *)
(***************************************************************************)

\* A payment that is being made has one receipt: the one that was taken, until
\* it is uploaded and from then on.
ReceiptOK(f) ==
    /\ f.pc = "edit" => f.took = None /\ f.proof = None
    /\ f.pc = "uploading" => f.proof = None
    /\ f.pc = "posting" => f.proof = f.took

LEMMA ReceiptStep ==
    ASSUME form \in FormState, ReceiptOK(form), FormMoves
    PROVE  ReceiptOK(form')
<1>1. PICK f \in FormState : f = form
    OBVIOUS
<1>2. PICK g : g = Sent
    OBVIOUS
<1>13. g = [f EXCEPT !.amount = 0, !.took = None, !.proof = None]
    BY <1>1, <1>2 DEF Sent
<1>14. g \in FormState /\ g.pc = f.pc /\ g.took = None /\ g.proof = None
    BY <1>13 DEF FormState
<1>15. PICK h : h = Edits
    OBVIOUS
<1>16. h = [g EXCEPT !.pc = "edit", !.row = None]
    BY <1>2, <1>15 DEF Edits
<1>3. h \in FormState /\ h.pc = "edit" /\ h.took = None /\ h.proof = None
    BY <1>14, <1>16 DEF FormState
<1>4. CASE form' = form
    BY <1>4
<1>5. CASE form' = Blank
    BY <1>5 DEF Blank, ReceiptOK
<1>6. CASE form' = Edits
    BY <1>3, <1>6, <1>15 DEF ReceiptOK
<1>7. CASE form' = [Edits EXCEPT !.told = form.row]
    BY <1>3, <1>7, <1>15 DEF ReceiptOK, FormState
<1>8. CASE form.pc = "posting" /\ \E id : form' = [Sent EXCEPT !.row = id]
    BY <1>1, <1>2, <1>8, <1>14 DEF ReceiptOK, FormState
<1>9. CASE form.pc = "uploading" /\ form' = [form EXCEPT !.pc = "posting", !.proof = form.took]
    BY <1>1, <1>9 DEF ReceiptOK, FormState
<1>10. CASE \E amount : form.pc = "edit" /\
                form' = [form EXCEPT !.pc = IF form.staged = None THEN "posting" ELSE "uploading",
                                     !.amount = amount, !.took = form.staged, !.staged = None,
                                     !.told = None]
    <2>1. PICK amount : form' = [f EXCEPT !.pc = IF f.staged = None THEN "posting" ELSE "uploading",
                                     !.amount = amount, !.took = f.staged, !.staged = None,
                                     !.told = None]
        BY <1>1, <1>10
    <2>2. f.proof = None
        BY <1>1, <1>10 DEF ReceiptOK
    <2>3. /\ form'.pc = IF f.staged = None THEN "posting" ELSE "uploading"
          /\ form'.took = f.staged /\ form'.proof = f.proof
        BY <2>1 DEF FormState
    <2> QED  BY <2>2, <2>3 DEF ReceiptOK
<1>11. CASE \/ \E x : form' = [form EXCEPT !.reading = @ \cup {x}]
            \/ \E x : form' = [form EXCEPT !.reading = @ \ {x}, !.staged = x]
            \/ \E x : form' = [form EXCEPT !.reading = @ \ {x}, !.staged = None]
            \/ form' = [form EXCEPT !.staged = None]
    <2>1. form'.pc = f.pc /\ form'.took = f.took /\ form'.proof = f.proof
        BY <1>1, <1>11 DEF FormState
    <2> QED  BY <1>1, <2>1 DEF ReceiptOK
<1>12. (\E row \in Payments(Viewer, form.amount) : Record(row) /\ form' = [Sent EXCEPT !.row = row.id])
          => \E id : form' = [Sent EXCEPT !.row = id]
    OBVIOUS
<1> QED  BY <1>4, <1>5, <1>6, <1>7, <1>8, <1>9, <1>10, <1>11, <1>12 DEF FormMoves

\* No payment leaves the page without the receipt that was staged for it.
THEOREM ReceiptsTravel == PageSpec => []ReceiptTravels
<1>1. PageInit => ReceiptOK(form)
    BY DEF PageInit, ReceiptOK, Blank
<1>2. PageInv /\ ReceiptOK(form) /\ [PageNext]_allVars => ReceiptOK(form')
    BY EveryFormMoves, ReceiptStep DEF PageInv
<1>3. ReceiptOK(form) => ReceiptTravels
    BY DEF ReceiptOK, ReceiptTravels
<1>4. PageSpec => []PageInv
    BY PageKeepsInv
<1> DEFINE Inv == ReceiptOK(form)
<1>5. Inv' <=> ReceiptOK(form')
    BY DEF ReceiptOK
<1> HIDE DEF Inv
<1>6. /\ PageInit => Inv
      /\ PageInv /\ Inv /\ [PageNext]_allVars => Inv'
      /\ Inv => ReceiptTravels
    BY <1>1, <1>2, <1>3, <1>5 DEF Inv
<1> QED  BY <1>4, <1>6, PTL DEF PageSpec

-----------------------------------------------------------------------------
(***************************************************************************)
(* The pool, and the audit log's choice                                    *)
(***************************************************************************)

PoolTrue(a, people) ==
    /\ a.settled <= Cardinality(Payers(a.rows))
    /\ Cardinality(Payers(a.rows)) <= a.count
    /\ a.count \in Nat
    /\ a.count <= Cardinality(people)
    /\ \A s \in a.rows : s.period = a.period

\* Payers are members before the members are counted; and what is under way is
\* of the period that was chosen, whatever was under way before.
PoolOK(r, p, people) ==
    /\ r.pc = "members" => \A s \in r.rows : s.user \in people /\ s.period = r.period
    /\ \A a \in {r.answer, p.shown} : IsData(a) => PoolTrue(a, people)
    /\ p.chosen # None =>
          /\ r.pc \in {"settings", "clock", "rows", "members"} => r.period = p.chosen
          /\ r.pc = "answered" /\ IsData(r.answer) => r.answer.period = p.chosen
          /\ r.pc = "idle" /\ IsData(p.shown) => p.shown.period = p.chosen

\* People who join take nothing away from what was said.
LEMMA PoolGrows ==
    ASSUME NEW few, NEW many, few \subseteq many, many \subseteq Users, NEW r, NEW p, PoolOK(r, p, few)
    PROVE  PoolOK(r, p, many)
<1>1. Cardinality(few) \in Nat /\ Cardinality(many) \in Nat /\ Cardinality(few) <= Cardinality(many)
    BY MembersCount
<1>2. ASSUME NEW a, PoolTrue(a, few)  PROVE PoolTrue(a, many)
    BY <1>1, <1>2 DEF PoolTrue
<1> QED  BY <1>2 DEF PoolOK

LEMMA PoolReadStep ==
    ASSUME PageInv, PoolOK(reader["pool"], panel["pool"], members), OwnRead("pool")
    PROVE  PoolOK(reader'["pool"], panel["pool"], members)
<1>1. PICK r, later, p : r = reader["pool"] /\ later = reader'["pool"] /\ p = panel["pool"]
    OBVIOUS
<1>2. "pool" \in Reports /\ ReaderOK("pool", r)
    BY <1>1 DEF PageInv, Reports
<1>3. PoolOK(r, p, members) /\ ReaderOK("pool", later)
    BY <1>1, <1>2, ReadsAreOK
<1>4. CASE ReadSettings("pool") \/ ReadClock("pool")
    <2>1. /\ r.pc \in {"settings", "clock"}
          /\ \/ later.pc = "clock" /\ r.period = None
             \/ later.pc = "rows" /\ (r.pc = "settings" => later.period = r.period)
             \/ later.pc = "answered" /\ later.answer = Error
        BY <1>1, <1>2, <1>4, StartIsOK
    <2>2. /\ r.pc = "clock" => r.period = None
          /\ later.pc # "answered" => later.answer = None
        BY <1>2, <1>3 DEF ReaderOK
    <2>3. ~IsData(Error) /\ ~IsData(None)
        BY DEF IsData
    <2> QED  BY <1>1, <1>3, <2>1, <2>2, <2>3 DEF PoolOK
<1>5. CASE Fail("pool")
    <2>1. later.pc = "answered" /\ later.answer = Error
        BY <1>1, <1>2, <1>5, FailIsOK
    <2>2. ~IsData(Error)
        BY DEF IsData
    <2> QED  BY <1>1, <1>3, <2>1, <2>2 DEF PoolOK
<1>6. CASE ReadPool
    <2>1. \/ /\ r.pc = "rows" /\ later.pc = "members" /\ later.period = r.period
             /\ later.rows = {s \in contribution : s.period = r.period}
          \/ /\ r.pc = "members" /\ later.pc = "answered"
             /\ later.answer.period = r.period /\ later.answer.rows = r.rows
             /\ later.answer.count = Cardinality(members)
             /\ later.answer.settled \in Nat
             /\ later.answer.settled <= Cardinality(Payers(r.rows))
        BY <1>1, <1>6, PoolReads
    <2>2. CASE later.pc = "members"
        <3>1. later.answer = None /\ ~IsData(None)
            BY <1>3, <2>2 DEF ReaderOK, IsData
        <3>2. \A s \in contribution : s.user \in members
            BY DEF PageInv, LedgerOK
        <3>3. \A s \in later.rows : s.user \in members /\ s.period = later.period
            BY <2>1, <2>2, <3>2
        <3> QED  BY <1>1, <1>3, <2>1, <2>2, <3>1, <3>3 DEF PoolOK
    <2>3. CASE later.pc = "answered"
        <3>1. \A s \in r.rows : s.user \in members /\ s.period = r.period
            BY <1>3, <2>1, <2>3 DEF PoolOK
        <3>2. Payers(r.rows) \subseteq members
            BY <3>1 DEF Payers, Counts
        <3>3. /\ Cardinality(Payers(r.rows)) <= Cardinality(members)
              /\ Cardinality(members) \in Nat
            BY <3>2, MembersCount DEF PageInv, LedgerOK
        <3>4. PoolTrue(later.answer, members)
            BY <2>1, <2>3, <3>1, <3>3 DEF PoolTrue
        <3> QED  BY <1>1, <1>3, <2>1, <2>3, <3>4 DEF PoolOK
    <2> QED  BY <2>1, <2>2, <2>3
<1> QED  BY <1>4, <1>5, <1>6 DEF OwnRead

LEMMA PoolStep ==
    ASSUME PageInv, PoolOK(reader["pool"], panel["pool"], members), [PageNext]_allVars
    PROVE  PoolOK(reader'["pool"], panel'["pool"], members')
<1>1. PICK r, p : r = reader["pool"] /\ p = panel["pool"]
    OBVIOUS
<1>2. /\ "pool" \in Reports /\ ReaderOK("pool", r) /\ PanelOK("pool", p)
      /\ ~p.open => p = Closed /\ r = Quiet
    BY <1>1 DEF PageInv, Reports
<1>3. members \subseteq members' /\ members' \subseteq Users
    BY EveryLedgerMoves DEF LedgerMoves, LedgerOK
<1>4. PoolOK(r, p, members)
    BY <1>1
<1>5. ~IsData(None) /\ ~IsData(Error)
    BY DEF IsData
<1>6. SUFFICES PoolOK(reader'["pool"], panel'["pool"], members)
    BY <1>3, PoolGrows
<1>7. CASE reader'["pool"] = r /\ panel'["pool"] = p
    BY <1>4, <1>7
<1>8. ASSUME NEW choice \in ChoicesOf["pool"], reader'["pool"] = Ask("pool", choice),
             panel'["pool"] = [open |-> TRUE, chosen |-> choice, shown |-> p.shown]
      PROVE  PoolOK(reader'["pool"], panel'["pool"], members)
    <2>1. PICK later : later = Ask("pool", choice)
        OBVIOUS
    <2>2. later.pc = "settings" /\ later.answer = None /\ later.period = choice
        BY <1>2, <2>1, AskIs
    <2>3. panel'["pool"].shown = p.shown /\ panel'["pool"].chosen = choice
        BY <1>8
    <2> QED  BY <1>4, <1>5, <1>8, <2>1, <2>2, <2>3 DEF PoolOK
<1>9. CASE reader'["pool"] = Quiet /\ panel'["pool"] = Closed
    BY <1>5, <1>9 DEF PoolOK, Quiet, Closed
<1>10. CASE /\ r.pc = "answered" /\ reader'["pool"] = Quiet
            /\ panel'["pool"] = [p EXCEPT !.shown = r.answer]
    <2>1. panel'["pool"].shown = r.answer /\ panel'["pool"].chosen = p.chosen
        BY <1>2, <1>10 DEF PanelOK
    <2>2. Quiet.pc = "idle" /\ Quiet.answer = None
        BY DEF Quiet
    <2> QED  BY <1>4, <1>5, <1>10, <2>1, <2>2 DEF PoolOK
<1>11. CASE panel'["pool"] = p /\ OwnRead("pool")
    BY <1>1, <1>11, PoolReadStep
<1>12. PanelMoves("pool")
    BY <1>2, EveryPanelMoves
<1> QED  BY <1>1, <1>7, <1>8, <1>9, <1>10, <1>11, <1>12 DEF PanelMoves

PoolInv == PoolOK(reader["pool"], panel["pool"], members)

LEMMA PoolInvariant == PageSpec => []PoolInv
<1>1. PageInit => PoolInv
    BY DEF PageInit, ReportsInit, PoolInv, PoolOK, Quiet, Closed, IsData, Reports
<1>2. PageInv /\ PoolInv /\ [PageNext]_allVars => PoolInv'
    BY PoolStep DEF PoolInv
<1> QED  BY <1>1, <1>2, PageKeepsInv, PTL DEF PageSpec

\* The pool's summary never counts a payer who is not among its members.
THEOREM PoolDoesAddUp == PageSpec => []PoolAddsUp
<1>1. PoolInv => PoolAddsUp
    BY DEF PoolInv, PoolOK, PoolTrue, PoolAddsUp, AnswersAbout
<1> QED  BY <1>1, PoolInvariant, PTL

\* The audit log shows the choice that was made last.
THEOREM AuditFollowsChoice == PageSpec => []AuditShowsWhatWasPicked
<1>1. PoolInv => AuditShowsWhatWasPicked
    BY DEF PoolInv, PoolOK, PoolTrue, AuditShowsWhatWasPicked
<1> QED  BY <1>1, PoolInvariant, PTL

-----------------------------------------------------------------------------
(***************************************************************************)
(* The history                                                             *)
(***************************************************************************)

HistoryTrue(a, seed) ==
    /\ Lifetime(a) = Total(a.rows) + (IF a.seed = None THEN 0 ELSE a.seed)
    /\ a.seed \in {None, seed}

HistoryOK(r, p, seed) == \A a \in {r.answer, p.shown} : IsData(a) => HistoryTrue(a, seed)

HistoryInv == HistoryOK(reader["history"], panel["history"], carry)

LEMMA HistoryStep ==
    ASSUME PageInv, HistoryInv, [PageNext]_allVars
    PROVE  HistoryInv'
<1>1. PICK r, p, later : r = reader["history"] /\ p = panel["history"] /\ later = reader'["history"]
    OBVIOUS
<1>2. /\ "history" \in Reports /\ ReaderOK("history", r) /\ PanelOK("history", p)
      /\ ReaderOK("history", later)
    BY <1>1, PanelsStayOK DEF PageInv, Reports
<1>3. carry' = carry \/ carry = None
    BY EveryLedgerMoves DEF LedgerMoves
<1>4. HistoryOK(r, p, carry)
    BY <1>1 DEF HistoryInv
<1>5. ~IsData(None) /\ ~IsData(Error)
    BY DEF IsData
<1>6. SUFFICES HistoryOK(later, panel'["history"], carry)
    BY <1>1, <1>3 DEF HistoryOK, HistoryTrue, HistoryInv
<1>7. CASE later = r /\ panel'["history"] = p
    BY <1>4, <1>7
<1>8. ASSUME NEW choice \in ChoicesOf["history"], later = Ask("history", choice),
             panel'["history"] = [open |-> TRUE, chosen |-> choice, shown |-> p.shown]
      PROVE  HistoryOK(later, panel'["history"], carry)
    <2>1. later.answer = None
        BY <1>2, <1>8, AskIs
    <2>2. panel'["history"].shown = p.shown
        BY <1>8
    <2> QED  BY <1>4, <1>5, <2>1, <2>2 DEF HistoryOK
<1>9. CASE later = Quiet /\ panel'["history"] = Closed
    BY <1>5, <1>9 DEF HistoryOK, Quiet, Closed
<1>10. CASE later = Quiet /\ panel'["history"] = [p EXCEPT !.shown = r.answer]
    <2>1. panel'["history"].shown = r.answer /\ later.answer = None
        BY <1>2, <1>10 DEF PanelOK, Quiet
    <2> QED  BY <1>4, <1>5, <2>1 DEF HistoryOK
<1>11. CASE panel'["history"] = p /\ OwnRead("history")
    <2>1. later.answer = None \/ later.answer = Error \/ HistoryTrue(later.answer, carry)
        <3>1. CASE ReadSettings("history") \/ ReadClock("history")
            <4>1. later.pc # "answered" \/ later.answer = Error
                BY <1>1, <1>2, <3>1, StartIsOK
            <4> QED  BY <1>2, <4>1 DEF ReaderOK
        <3>2. CASE Fail("history")
            BY <1>1, <1>2, <3>2, FailIsOK
        <3>3. CASE ListPoints \/ ReadCarry
            <4>1. \/ later.pc = "carry"
                  \/ /\ later.answer.seed = carry
                     /\ Lifetime(later.answer) =
                           Total(later.answer.rows)
                              + (IF later.answer.seed = None THEN 0 ELSE later.answer.seed)
                BY <1>1, <3>3, HistoryReads
            <4> QED  BY <1>2, <4>1 DEF ReaderOK, HistoryTrue
        <3> QED  BY <1>11, <3>1, <3>2, <3>3 DEF OwnRead
    <2> QED  BY <1>4, <1>5, <1>11, <2>1 DEF HistoryOK
<1>12. PanelMoves("history")
    BY <1>2, EveryPanelMoves
<1> QED  BY <1>1, <1>7, <1>8, <1>9, <1>10, <1>11, <1>12 DEF PanelMoves

\* The lifetime total is the carry-forward and every payment counted, whatever
\* buckets it is drawn in, for any payments and any calendar.
THEOREM HistoryDoesAddUp == PageSpec => []HistoryAddsUp
<1>1. PageInit => HistoryInv
    BY DEF PageInit, ReportsInit, HistoryInv, HistoryOK, Quiet, Closed, IsData, Reports
<1>2. PageInv /\ HistoryInv /\ [PageNext]_allVars => HistoryInv'
    BY HistoryStep
<1>3. HistoryInv => HistoryAddsUp
    BY SamplesDoAddUp DEF HistoryInv, HistoryOK, HistoryTrue, HistoryAddsUp, AnswersAbout
<1> QED  BY <1>1, <1>2, <1>3, PageKeepsInv, PTL DEF PageSpec

-----------------------------------------------------------------------------
(***************************************************************************)
(* The own payments                                                        *)
(***************************************************************************)

\* Rows as the table must be.
TableOK(rows) ==
    /\ rows \in Rows /\ IsFiniteSet(rows)
    /\ \A r, s \in rows : r.id = s.id => r = s

\* Rows read from the table: own ones of one period, each still there, or voided.
RowsTrue(some, period, rows) ==
    /\ some \in Rows /\ IsFiniteSet(some)
    /\ \A r \in some :
          /\ r.user = Viewer /\ r.period = period
          /\ r \in rows \/ Voided(r) \in rows

StillCounts(some, rows) == {r \in Counts(some) : r \in rows}

\* What is said of the own payments of a period, of whatever age: no more than
\* was ever on record, no less than what of its list still counts; and, while
\* its list is that of the table, the exact sum.
MineTrue(a, rows) ==
    /\ RowsTrue(a.rows, a.period, rows)
    /\ a.paid \in Nat /\ a.dues \in Nat /\ a.period \in KnownPeriods
    /\ a.remaining = Remaining(a.dues, a.paid)
    /\ Total(StillCounts(a.rows, rows)) <= a.paid
    /\ a.paid <= Total(OwnRows(rows, a.period))
    /\ a.rows = OwnRows(rows, a.period) => a.paid = Paid(rows, Viewer, a.period)

\* A row of a list that is in the table, or voided there, is not a new one.
LEMMA ListedIsOld ==
    ASSUME NEW rows, NEW some \in Rows, NEW period, RowsTrue(some, period, rows), NEW r \in some
    PROVE  r.id \in IdsOf(rows)
<1>1. Voided(r).id = r.id
    BY VoidedIs DEF Rows
<1> QED  BY <1>1 DEF RowsTrue, IdsOf

LEMMA RowsLast ==
    ASSUME NEW rows, TableOK(rows), NEW later, TableMoves(rows, later),
           NEW some, NEW period, RowsTrue(some, period, rows)
    PROVE  /\ RowsTrue(some, period, later)
           /\ StillCounts(some, later) \subseteq StillCounts(some, rows)
           /\ some = OwnRows(later, period) =>
                 /\ some = OwnRows(rows, period)
                 /\ Counted(later, Viewer, period) = Counted(rows, Viewer, period)
<1>1. CASE later = rows
    BY <1>1
<1>2. ASSUME NEW row \in Contribution, row.id \notin IdsOf(rows), later = rows \cup {row}
      PROVE  /\ RowsTrue(some, period, later)
             /\ StillCounts(some, later) \subseteq StillCounts(some, rows)
             /\ some = OwnRows(later, period) =>
                   /\ some = OwnRows(rows, period)
                   /\ Counted(later, Viewer, period) = Counted(rows, Viewer, period)
    <2>1. row \notin some
        BY <1>2, ListedIsOld DEF RowsTrue
    <2>2. RowsTrue(some, period, later)
        BY <1>2 DEF RowsTrue
    <2>3. StillCounts(some, later) \subseteq StillCounts(some, rows)
        BY <1>2, <2>1 DEF StillCounts, Counts
    <2>4. ASSUME some = OwnRows(later, period)
          PROVE  some = OwnRows(rows, period) /\ Counted(later, Viewer, period) = Counted(rows, Viewer, period)
        BY <1>2, <2>1, <2>4 DEF OwnRows, Counted
    <2> QED  BY <2>2, <2>3, <2>4
<1>3. ASSUME NEW r \in rows, r.status # "rejected", later = (rows \ {r}) \cup {Voided(r)}
      PROVE  /\ RowsTrue(some, period, later)
             /\ StillCounts(some, later) \subseteq StillCounts(some, rows)
             /\ some = OwnRows(later, period) =>
                   /\ some = OwnRows(rows, period)
                   /\ Counted(later, Viewer, period) = Counted(rows, Viewer, period)
    <2>0. r \in Contribution
        BY DEF TableOK, Rows
    <2>1. /\ Voided(r).status = "rejected" /\ Voided(Voided(r)) = Voided(r) /\ Voided(r).id = r.id
          /\ Voided(r).user = r.user /\ Voided(r).period = r.period
        BY <2>0, VoidedIs
    <2>2. Voided(r) \notin rows
        BY <1>3, <2>1 DEF TableOK
    <2>3. ASSUME NEW s \in some  PROVE s \in later \/ Voided(s) \in later
        <3>1. s \in Contribution
            BY DEF RowsTrue, Rows
        <3>2. Voided(s).status = "rejected"
            BY <3>1, VoidedIs
        <3> QED  BY <1>3, <3>2 DEF RowsTrue
    <2>4. RowsTrue(some, period, later)
        BY <2>3 DEF RowsTrue
    <2>5. StillCounts(some, later) \subseteq StillCounts(some, rows)
        BY <1>3, <2>1 DEF StillCounts, Counts
    <2>6. Voided(r) \notin some
        BY <2>1, <2>2 DEF RowsTrue
    <2>7. ASSUME some = OwnRows(later, period)
          PROVE  some = OwnRows(rows, period) /\ Counted(later, Viewer, period) = Counted(rows, Viewer, period)
        <3>1. ~(r.user = Viewer /\ r.period = period)
            BY <1>3, <2>1, <2>6, <2>7 DEF OwnRows
        <3> QED  BY <1>3, <2>1, <2>7, <3>1 DEF OwnRows, Counted
    <2> QED  BY <2>4, <2>5, <2>7
<1> QED  BY <1>1, <1>2, <1>3 DEF TableMoves

\* What was ever on record does not get less.
LEMMA OwnTotalGrows ==
    ASSUME NEW rows, TableOK(rows), NEW later, TableOK(later), TableMoves(rows, later), NEW period
    PROVE  /\ Total(OwnRows(rows, period)) \in Nat /\ Total(OwnRows(later, period)) \in Nat
           /\ Total(OwnRows(rows, period)) <= Total(OwnRows(later, period))
<1>1. /\ OwnRows(rows, period) \in Rows /\ IsFiniteSet(OwnRows(rows, period))
      /\ OwnRows(later, period) \in Rows /\ IsFiniteSet(OwnRows(later, period))
    BY FS_Subset DEF TableOK, OwnRows, Rows
<1>2. /\ Total(OwnRows(rows, period)) \in Nat /\ Total(OwnRows(later, period)) \in Nat
      /\ \A r \in OwnRows(rows, period) : r.amount \in Nat
      /\ \A r \in OwnRows(later, period) : r.amount \in Nat
    BY <1>1, RowsAddUp
<1>3. CASE OwnRows(rows, period) \subseteq OwnRows(later, period)
    BY <1>1, <1>2, <1>3, TotalMonotone
<1>4. ASSUME NEW r \in rows, r.status # "rejected", later = (rows \ {r}) \cup {Voided(r)},
             r \in OwnRows(rows, period)
      PROVE  Total(OwnRows(rows, period)) = Total(OwnRows(later, period))
    <2>0. r \in Contribution
        BY DEF TableOK, Rows
    <2>1. /\ Voided(r).status = "rejected" /\ Voided(r).id = r.id /\ Voided(r).amount = r.amount
          /\ Voided(r).user = r.user /\ Voided(r).period = r.period
        BY <2>0, VoidedIs
    <2>2. Voided(r) \notin OwnRows(rows, period)
        BY <1>4, <2>1 DEF TableOK, OwnRows
    <2>3. OwnRows(later, period) = (OwnRows(rows, period) \ {r}) \cup {Voided(r)}
        BY <1>4, <2>1 DEF OwnRows
    <2>4. Total((OwnRows(rows, period) \ {r}) \cup {Voided(r)}) = Total(OwnRows(rows, period))
        BY <1>1, <1>2, <1>4, <2>1, <2>2, TotalSwap
    <2> QED  BY <2>3, <2>4
<1>5. \/ OwnRows(rows, period) \subseteq OwnRows(later, period)
      \/ \E r \in rows : /\ r.status # "rejected" /\ later = (rows \ {r}) \cup {Voided(r)}
                         /\ r \in OwnRows(rows, period)
    BY DEF TableMoves, OwnRows
<1> QED  BY <1>2, <1>3, <1>4, <1>5

LEMMA MineLasts ==
    ASSUME NEW rows, TableOK(rows), NEW later, TableOK(later), TableMoves(rows, later),
           NEW a, MineTrue(a, rows)
    PROVE  MineTrue(a, later)
<1>1. /\ RowsTrue(a.rows, a.period, later)
      /\ StillCounts(a.rows, later) \subseteq StillCounts(a.rows, rows)
      /\ a.rows = OwnRows(later, a.period) =>
            /\ a.rows = OwnRows(rows, a.period)
            /\ Counted(later, Viewer, a.period) = Counted(rows, Viewer, a.period)
    BY RowsLast DEF MineTrue
<1>2. /\ Total(OwnRows(rows, a.period)) \in Nat /\ Total(OwnRows(later, a.period)) \in Nat
      /\ Total(OwnRows(rows, a.period)) <= Total(OwnRows(later, a.period))
    BY OwnTotalGrows
<1>3. /\ StillCounts(a.rows, rows) \in Rows /\ IsFiniteSet(StillCounts(a.rows, rows))
      /\ StillCounts(a.rows, later) \in Rows /\ IsFiniteSet(StillCounts(a.rows, later))
    BY FS_Subset DEF MineTrue, RowsTrue, StillCounts, Counts, Rows
<1>4. /\ Total(StillCounts(a.rows, rows)) \in Nat /\ Total(StillCounts(a.rows, later)) \in Nat
      /\ \A r \in StillCounts(a.rows, rows) : r.amount \in Nat
    BY <1>3, RowsAddUp
<1>5. Total(StillCounts(a.rows, later)) <= Total(StillCounts(a.rows, rows))
    BY <1>1, <1>3, <1>4, TotalMonotone
<1>6. /\ a.paid \in Nat /\ Total(StillCounts(a.rows, rows)) <= a.paid
      /\ a.paid <= Total(OwnRows(rows, a.period))
    BY DEF MineTrue
<1>7. /\ Total(StillCounts(a.rows, later)) <= a.paid
      /\ a.paid <= Total(OwnRows(later, a.period))
    BY <1>2, <1>4, <1>5, <1>6
<1>8. a.rows = OwnRows(later, a.period) => a.paid = Paid(later, Viewer, a.period)
    BY <1>1 DEF MineTrue, Paid
<1> QED  BY <1>1, <1>7, <1>8 DEF MineTrue

\* The sum, when it is taken.
LEMMA MineBegins ==
    ASSUME NEW rows, TableOK(rows), NEW r, RowsTrue(r.rows, r.period, rows), r.dues \in Nat,
           r.period \in KnownPeriods
    PROVE  MineTrue(Mine(r, Paid(rows, Viewer, r.period)), rows)
<1> DEFINE counted == Counted(rows, Viewer, r.period)
<1>1. counted \subseteq rows /\ counted \subseteq OwnRows(rows, r.period)
    BY DEF Counted, OwnRows
<1>2. /\ counted \in Rows /\ IsFiniteSet(counted)
      /\ OwnRows(rows, r.period) \in Rows /\ IsFiniteSet(OwnRows(rows, r.period))
    BY <1>1, FS_Subset DEF TableOK, OwnRows, Rows
<1>3. StillCounts(r.rows, rows) \subseteq counted
    BY DEF StillCounts, Counts, Counted, RowsTrue
<1> HIDE DEF counted
<1>4. /\ \A s \in counted : s.amount \in Nat
      /\ \A s \in OwnRows(rows, r.period) : s.amount \in Nat
      /\ Total(counted) \in Nat
    BY <1>2, RowsAddUp
<1>5. /\ Total(StillCounts(r.rows, rows)) <= Total(counted)
      /\ Total(counted) <= Total(OwnRows(rows, r.period))
    BY <1>1, <1>2, <1>3, <1>4, TotalMonotone
<1>6. PICK paid \in Nat : paid = Paid(rows, Viewer, r.period) /\ paid = Total(counted)
    BY <1>4 DEF Paid, counted
<1>7. PICK a : a = Mine(r, paid)
    OBVIOUS
<1>8. /\ a.rows = r.rows /\ a.period = r.period /\ a.dues = r.dues /\ a.paid = paid
      /\ a.remaining = Remaining(r.dues, paid)
    BY <1>7 DEF Mine
<1>9. MineTrue(a, rows)
    BY <1>5, <1>6, <1>8 DEF MineTrue
<1> QED  BY <1>6, <1>7, <1>9

\* What the page has of the own payments, under way and on the screen.
MineOK(r, p, rows) ==
    /\ r.pc \in {"dues", "amounts"} => RowsTrue(r.rows, r.period, rows)
    /\ \A a \in {r.answer, p.shown} : IsData(a) => MineTrue(a, rows)

MineInv == MineOK(reader["mine"], panel["mine"], contribution)

LEMMA TheTableIsOK ==
    ASSUME LedgerOK
    PROVE  TableOK(contribution)
BY DEF LedgerOK, TypeOK, TableOK, Rows

LEMMA MineReadStep ==
    ASSUME PageInv, MineInv, OwnRead("mine")
    PROVE  MineOK(reader'["mine"], panel["mine"], contribution)
<1>1. PICK r, later, p : r = reader["mine"] /\ later = reader'["mine"] /\ p = panel["mine"]
    OBVIOUS
<1>2. "mine" \in Reports /\ ReaderOK("mine", r)
    BY <1>1 DEF PageInv, Reports
<1>3. MineOK(r, p, contribution) /\ ReaderOK("mine", later) /\ TableOK(contribution)
    BY <1>1, <1>2, ReadsAreOK, TheTableIsOK DEF MineInv, PageInv
<1>4. ~IsData(Error) /\ ~IsData(None) /\ (later.pc # "answered" => later.answer = None)
    BY <1>3 DEF IsData, ReaderOK
<1>5. CASE ReadSettings("mine") \/ ReadClock("mine")
    <2>1. later.pc \in {"clock", "rows"} \/ (later.pc = "answered" /\ later.answer = Error)
        BY <1>1, <1>2, <1>5, StartIsOK
    <2> QED  BY <1>1, <1>3, <1>4, <2>1 DEF MineOK
<1>6. CASE Fail("mine")
    <2>1. later.pc = "answered" /\ later.answer = Error
        BY <1>1, <1>2, <1>6, FailIsOK
    <2> QED  BY <1>1, <1>3, <1>4, <2>1 DEF MineOK
<1>7. CASE ListMine \/ ReadDues \/ SumMine
    <2>1. /\ r.period \in KnownPeriods
          /\ \/ /\ r.pc = "rows" /\ later.pc = "dues" /\ later.period = r.period
                /\ later.rows = OwnRows(contribution, r.period)
             \/ /\ r.pc = "dues" /\ later.pc = "amounts" /\ later.period = r.period
                /\ later.rows = r.rows
             \/ /\ r.pc = "amounts" /\ later.pc = "answered"
                /\ later.answer = Mine(r, Paid(contribution, Viewer, r.period))
        BY <1>1, <1>7, MineReads
    <2>2. CASE later.pc = "dues"
        <3>1. OwnRows(contribution, r.period) \in Rows /\ IsFiniteSet(OwnRows(contribution, r.period))
            BY <1>3, FS_Subset DEF TableOK, OwnRows, Rows
        <3>2. RowsTrue(later.rows, later.period, contribution)
            BY <2>1, <2>2, <3>1 DEF RowsTrue, OwnRows
        <3> QED  BY <1>1, <1>3, <1>4, <2>2, <3>2 DEF MineOK
    <2>3. CASE later.pc = "amounts"
        <3>1. RowsTrue(later.rows, later.period, contribution)
            BY <1>3, <2>1, <2>3 DEF MineOK
        <3> QED  BY <1>1, <1>3, <1>4, <2>3, <3>1 DEF MineOK
    <2>4. CASE later.pc = "answered"
        <3>1. RowsTrue(r.rows, r.period, contribution) /\ r.dues \in Nat
            BY <1>2, <1>3, <2>1, <2>4 DEF MineOK, ReaderOK, ReaderState
        <3>2. MineTrue(later.answer, contribution)
            BY <1>3, <2>1, <2>4, <3>1, MineBegins
        <3> QED  BY <1>1, <1>3, <2>4, <3>2 DEF MineOK
    <2> QED  BY <2>1, <2>2, <2>3, <2>4
<1> QED  BY <1>5, <1>6, <1>7 DEF OwnRead

LEMMA MineStep ==
    ASSUME PageInv, MineInv, [PageNext]_allVars
    PROVE  MineInv'
<1>1. PICK r, p, later, now_ : /\ r = reader["mine"] /\ p = panel["mine"]
                               /\ later = reader'["mine"] /\ now_ = panel'["mine"]
    OBVIOUS
<1>2. "mine" \in Reports /\ ReaderOK("mine", r) /\ PanelOK("mine", p)
    BY <1>1 DEF PageInv, Reports
<1>3. MineOK(r, p, contribution)
    BY <1>1 DEF MineInv
<1>4. TableMoves(contribution, contribution') /\ TableOK(contribution) /\ TableOK(contribution')
    <2>1. LedgerOK /\ LedgerOK' /\ TableMoves(contribution, contribution')
        BY EveryLedgerMoves DEF LedgerMoves, PageInv
    <2>2. TableOK(contribution')
        BY <2>1 DEF LedgerOK, TypeOK, TableOK, Rows
    <2> QED  BY <2>1, <2>2, TheTableIsOK
<1>5. ~IsData(None)
    BY DEF IsData
<1>6. SUFFICES MineOK(later, now_, contribution)
    <2>1. /\ later.pc \in {"dues", "amounts"} => RowsTrue(later.rows, later.period, contribution')
          /\ \A a \in {later.answer, now_.shown} : IsData(a) => MineTrue(a, contribution')
        BY <1>4, <1>6, RowsLast, MineLasts DEF MineOK
    <2> QED  BY <1>1, <2>1 DEF MineInv, MineOK
<1>7. CASE later = r /\ now_ = p
    BY <1>3, <1>7
<1>8. ASSUME NEW choice \in ChoicesOf["mine"], later = Ask("mine", choice),
             now_ = [open |-> TRUE, chosen |-> choice, shown |-> p.shown]
      PROVE  MineOK(later, now_, contribution)
    <2>1. later.pc = "settings" /\ later.answer = None
        BY <1>2, <1>8, AskIs
    <2>2. now_.shown = p.shown
        BY <1>8
    <2> QED  BY <1>3, <1>5, <2>1, <2>2 DEF MineOK
<1>9. CASE later = Quiet /\ now_ = Closed
    BY <1>5, <1>9 DEF MineOK, Quiet, Closed
<1>10. CASE later = Quiet /\ now_ = [p EXCEPT !.shown = r.answer]
    <2>1. now_.shown = r.answer /\ later.answer = None /\ later.pc = "idle"
        BY <1>2, <1>10 DEF PanelOK, Quiet
    <2> QED  BY <1>3, <1>5, <2>1 DEF MineOK
<1>11. CASE now_ = p /\ OwnRead("mine")
    BY <1>1, <1>11, MineReadStep
<1>12. PanelMoves("mine")
    BY <1>2, EveryPanelMoves
<1> QED  BY <1>1, <1>7, <1>8, <1>9, <1>10, <1>11, <1>12 DEF PanelMoves

LEMMA MineInvariant == PageSpec => []MineInv
<1>1. PageInit => MineInv
    BY DEF PageInit, ReportsInit, MineInv, MineOK, Quiet, Closed, IsData, Reports
<1> QED  BY <1>1, MineStep, PageKeepsInv, PTL DEF PageSpec

\* The figures of the own payments cover the list under them, however late
\* they are looked at.
THEOREM MineDoesAddUp == PageSpec => []MineAddsUp
<1>1. MineInv => MineAddsUp
    BY DEF MineInv, MineOK, MineTrue, MineAddsUp, AnswersAbout, StillCounts, OwnRows
<1> QED  BY <1>1, MineInvariant, PTL

\* What the cap event says of a further payment.
LEMMA CapOfNext ==
    ASSUME NEW rows, TableOK(rows), NEW row, row \notin rows, row.user = Viewer,
           row.status # "rejected", row.amount \in Nat, NEW dues \in Nat
    PROVE  /\ Paid(rows, Viewer, row.period) \in Nat
           /\ OverCap(rows \cup {row}, row, dues) <=>
                 dues > 0 /\ Paid(rows, Viewer, row.period) + row.amount > dues
<1> DEFINE counted == Counted(rows, Viewer, row.period)
<1>1. rows \subseteq Contribution /\ IsFiniteSet(rows)
    BY DEF TableOK, Rows
<1>2. /\ IsFiniteSet(counted) /\ \A r \in counted : r.amount \in Nat
      /\ Paid(rows, Viewer, row.period) \in Nat
    BY <1>1, CountedFinite
<1>3. Counted(rows \cup {row}, Viewer, row.period) = counted \cup {row} /\ row \notin counted
    BY DEF Counted
<1> HIDE DEF counted
<1>4. Total(counted \cup {row}) = Total(counted) + row.amount
    BY <1>2, <1>3, TotalAdd
<1>5. Paid(rows \cup {row}, Viewer, row.period) = Paid(rows, Viewer, row.period) + row.amount
    BY <1>3, <1>4 DEF Paid, counted
<1> QED  BY <1>2, <1>5 DEF OverCap

\* SETTLED is shown exactly when no payment would be let in, and "Max" is what
\* would be, whenever the list and the dues are those of the database.
THEOREM FormOffersWhatFits == PageSpec => []OffersWhatFits
<1>1. PageInv /\ MineInv => OffersWhatFits
    <2> DEFINE shown == panel["mine"].shown
               dues == settings.dues
               paid == Paid(contribution, Viewer, shown.period)
               Row(amount) == [id |-> None, user |-> Viewer, cadence |-> shown.period.cadence,
                               period |-> shown.period, amount |-> amount, status |-> "submitted"]
               Fits(amount) == ~OverCap(contribution \cup {Row(amount)}, Row(amount), dues)
    <2> SUFFICES ASSUME PageInv, MineInv, IsData(shown), shown.dues = dues,
                        shown.rows = OwnRows(contribution, shown.period)
                 PROVE  /\ IsSettled(shown) <=> ~Fits(1)
                        /\ shown.remaining > 0 => Fits(shown.remaining) /\ ~Fits(shown.remaining + 1)
        BY DEF OffersWhatFits, OwnRows
    <2>1. TableOK(contribution) /\ dues \in Nat
        BY TheTableIsOK DEF PageInv, LedgerOK, TypeOK, Settings
    <2>2. MineTrue(shown, contribution)
        BY DEF MineInv, MineOK
    <2>3. shown.paid = paid /\ paid \in Nat /\ shown.remaining = Remaining(dues, paid)
        BY <2>2 DEF MineTrue
    <2>4. \A r \in contribution : r.id \in RowIds
        BY <2>1, RowTypes DEF TableOK, Rows
    <2>5. None \notin RowIds
        BY VenturePageAssumption
    <2>6. ASSUME NEW amount \in Nat  PROVE Fits(amount) <=> ~(dues > 0 /\ paid + amount > dues)
        <3>1. PICK row : row = Row(amount)
            OBVIOUS
        <3>2. /\ row.id = None /\ row.user = Viewer /\ row.period = shown.period /\ row.amount = amount
              /\ row.status = "submitted"
            BY <3>1
        <3>3. row \notin contribution
            BY <2>4, <2>5, <3>2
        <3> HIDE DEF dues, shown
        <3>4. OverCap(contribution \cup {row}, row, dues) <=>
                 dues > 0 /\ Paid(contribution, Viewer, shown.period) + amount > dues
            BY <2>1, <3>2, <3>3, CapOfNext
        <3> QED  BY <3>1, <3>4
    <2> HIDE DEF Fits, paid
    <2>7. IsSettled(shown) <=> (dues > 0 /\ shown.remaining = 0)
        BY DEF IsSettled
    <2> HIDE DEF dues, shown
    <2>8. 1 \in Nat /\ Remaining(dues, paid) \in Nat /\ Remaining(dues, paid) + 1 \in Nat
        <3>1. Remaining(dues, paid) \in Nat
            BY <2>1, <2>3, RemainingIsNat
        <3>2. PICK left \in Nat : left = Remaining(dues, paid)
            BY <3>1
        <3> QED  BY <3>2
    <2>9. /\ Fits(1) <=> ~(dues > 0 /\ paid + 1 > dues)
          /\ Fits(shown.remaining) <=> ~(dues > 0 /\ paid + shown.remaining > dues)
          /\ Fits(shown.remaining + 1) <=> ~(dues > 0 /\ paid + (shown.remaining + 1) > dues)
        BY <2>3, <2>6, <2>8
    <2> QED  BY <2>1, <2>3, <2>7, <2>9 DEF Remaining
<1> QED  BY <1>1, MineInvariant, PageKeepsInv, PTL

-----------------------------------------------------------------------------
(***************************************************************************)
(* The payment that was acknowledged                                       *)
(***************************************************************************)

\* Row s is in what report r has listed, in what it answered, or on the screen.
ListOK(r, p, s) ==
    /\ (r.pc \in {"dues", "amounts"} /\ s.period = r.period) => s.id \in IdsOf(r.rows)
    /\ (r.pc = "answered" /\ IsData(r.answer) /\ s.period = r.answer.period) =>
          s.id \in IdsOf(r.answer.rows)
    /\ (r.pc = "idle" /\ IsData(p.shown) /\ s.period = p.shown.period) =>
          s.id \in IdsOf(p.shown.rows)

\* The row that the form knows of is on record, and the viewer's own; the one
\* it was told of is in every list that is newer than the answer.
ToldOK(f, r, p, rows) ==
    /\ {f.row, f.told} \ {None} \subseteq IdsOf(rows)
    /\ \A s \in rows : s.id \in {f.row, f.told} => s.user = Viewer
    /\ \A s \in rows : s.id = f.told => ListOK(r, p, s)

ToldInv == ToldOK(form, reader["mine"], panel["mine"], contribution)

\* A row of the table that is not new is of the id, user and period that it was.
LEMMA RowsKeepNames ==
    ASSUME NEW rows, TableOK(rows), NEW later, TableMoves(rows, later)
    PROVE  /\ IdsOf(rows) \subseteq IdsOf(later)
           /\ \A s \in later : s.id \in IdsOf(rows) =>
                 \E t \in rows : t.id = s.id /\ t.user = s.user /\ t.period = s.period
<1>1. CASE later = rows
    BY <1>1
<1>2. CASE \E row \in Contribution : row.id \notin IdsOf(rows) /\ later = rows \cup {row}
    BY <1>2 DEF IdsOf
<1>3. ASSUME NEW r \in rows, later = (rows \ {r}) \cup {Voided(r)}
      PROVE  /\ IdsOf(rows) \subseteq IdsOf(later)
             /\ \A s \in later : s.id \in IdsOf(rows) =>
                   \E t \in rows : t.id = s.id /\ t.user = s.user /\ t.period = s.period
    <2>1. Voided(r).id = r.id /\ Voided(r).user = r.user /\ Voided(r).period = r.period
        BY VoidedIs DEF TableOK, Rows
    <2> QED  BY <1>3, <2>1 DEF IdsOf
<1> QED  BY <1>1, <1>2, <1>3 DEF TableMoves

\* What the form knows lasts while the table moves.
LEMMA ToldLasts ==
    ASSUME NEW rows, TableOK(rows), NEW later, TableOK(later), TableMoves(rows, later), None \notin RowIds,
           NEW f, NEW r, NEW p, ToldOK(f, r, p, rows)
    PROVE  ToldOK(f, r, p, later)
<1>1. /\ IdsOf(rows) \subseteq IdsOf(later)
      /\ \A s \in later : s.id \in IdsOf(rows) =>
            \E t \in rows : t.id = s.id /\ t.user = s.user /\ t.period = s.period
    BY RowsKeepNames
<1>2. \A s \in later : s.id # None
    BY RowTypes DEF TableOK, Rows
<1>3. ASSUME NEW s \in later, s.id \in {f.row, f.told}
      PROVE  \E t \in rows : t.id = s.id /\ t.user = s.user /\ t.period = s.period
    BY <1>1, <1>2, <1>3 DEF ToldOK
<1>4. ASSUME NEW s, NEW t, s.id = t.id, s.period = t.period, ListOK(r, p, t)  PROVE ListOK(r, p, s)
    BY <1>4 DEF ListOK
<1> QED  BY <1>1, <1>3, <1>4 DEF ToldOK

\* The report moves under what the form knows.
LEMMA ToldReports ==
    ASSUME PageInv, ToldInv, PanelMoves("mine"), NEW s \in contribution, s.id = form.told
    PROVE  ListOK(reader'["mine"], panel'["mine"], s)
<1>1. PICK r, p, later, now_ : /\ r = reader["mine"] /\ p = panel["mine"]
                               /\ later = reader'["mine"] /\ now_ = panel'["mine"]
    OBVIOUS
<1>2. "mine" \in Reports /\ ReaderOK("mine", r) /\ PanelOK("mine", p)
    BY <1>1 DEF PageInv, Reports
<1>3. ListOK(r, p, s) /\ s.user = Viewer
    BY <1>1 DEF ToldInv, ToldOK
<1>4. ~IsData(Error) /\ ~IsData(None)
    BY DEF IsData
<1>5. CASE later = r /\ now_ = p
    BY <1>1, <1>3, <1>5
<1>6. ASSUME NEW choice \in ChoicesOf["mine"], later = Ask("mine", choice)
      PROVE  ListOK(later, now_, s)
    <2>1. later.pc = "settings"
        BY <1>2, <1>6, AskIs
    <2> QED  BY <2>1 DEF ListOK
<1>7. CASE later = Quiet /\ now_ = Closed
    BY <1>1, <1>4, <1>7 DEF ListOK, Quiet, Closed
<1>8. CASE r.pc = "answered" /\ later = Quiet /\ now_ = [p EXCEPT !.shown = r.answer]
    <2>1. now_.shown = r.answer /\ later.pc = "idle"
        BY <1>2, <1>8 DEF PanelOK, Quiet
    <2> QED  BY <1>1, <1>3, <1>8, <2>1 DEF ListOK
<1>9. CASE ReadSettings("mine") \/ ReadClock("mine") \/ Fail("mine")
    <2>1. later.pc \in {"clock", "rows"} \/ (later.pc = "answered" /\ later.answer = Error)
        BY <1>1, <1>2, <1>9, StartIsOK, FailIsOK
    <2> QED  BY <1>1, <1>4, <2>1 DEF ListOK
<1>10. CASE ListMine \/ ReadDues \/ SumMine
    <2>1. /\ ReaderOK("mine", later)
          /\ \/ /\ r.pc = "rows" /\ later.pc = "dues" /\ later.period = r.period
                /\ later.rows = OwnRows(contribution, r.period)
             \/ /\ r.pc = "dues" /\ later.pc = "amounts" /\ later.period = r.period
                /\ later.rows = r.rows
             \/ /\ r.pc = "amounts" /\ later.pc = "answered"
                /\ later.answer = Mine(r, Paid(contribution, Viewer, r.period))
        BY <1>1, <1>10, MineReads
    <2>2. CASE later.pc = "dues"
        BY <1>1, <1>3, <2>1, <2>2 DEF ListOK, OwnRows, IdsOf
    <2>3. CASE later.pc = "amounts"
        BY <1>1, <1>3, <2>1, <2>3 DEF ListOK
    <2>4. CASE later.pc = "answered"
        <3>1. later.answer.rows = r.rows /\ later.answer.period = r.period
            BY <2>1, <2>4 DEF Mine
        <3> QED  BY <1>1, <1>3, <2>1, <2>4, <3>1 DEF ListOK
    <2> QED  BY <2>1, <2>2, <2>3, <2>4
<1> QED  BY <1>1, <1>5, <1>6, <1>7, <1>8, <1>9, <1>10 DEF PanelMoves, OwnRead

LEMMA ToldStep ==
    ASSUME PageInv, ToldInv, [PageNext]_allVars
    PROVE  ToldInv'
<1>1. /\ TableOK(contribution) /\ TableOK(contribution') /\ TableMoves(contribution, contribution')
      /\ None \notin RowIds
    <2>1. LedgerOK /\ LedgerOK' /\ TableMoves(contribution, contribution')
        BY EveryLedgerMoves DEF LedgerMoves, PageInv
    <2>2. TableOK(contribution')
        BY <2>1 DEF LedgerOK, TypeOK, TableOK, Rows
    <2> QED  BY <2>1, <2>2, TheTableIsOK, VenturePageAssumption
<1>2. PICK f \in FormState : f = form
    BY DEF PageInv
<1>3. PICK later, now_ : later = reader'["mine"] /\ now_ = panel'["mine"]
    OBVIOUS
<1>4. PanelMoves("mine") /\ "mine" \in Reports
    BY EveryPanelMoves DEF Reports
<1>5. ToldOK(f, later, now_, contribution)
    BY <1>2, <1>3, <1>4, ToldReports DEF ToldInv, ToldOK
<1>6. PICK g \in FormState : g = form'
    BY EveryFormMoves, FormStaysTyped DEF PageInv
<1>7. SUFFICES ToldOK(g, later, now_, contribution')
    BY <1>3, <1>6 DEF ToldInv
<1>8. ASSUME g.told \in {f.told, None}, g.row \in {f.row, None}
      PROVE  ToldOK(g, later, now_, contribution')
    <2>1. \A s \in contribution : s.id # None
        BY <1>1, RowTypes DEF TableOK, Rows
    <2>2. ToldOK(g, later, now_, contribution)
        BY <1>5, <1>8, <2>1 DEF ToldOK
    <2> QED  BY <1>1, <2>2, ToldLasts
<1>9. ASSUME NEW row \in Payments(Viewer, form.amount), Record(row), UNCHANGED <<reader, panel>>,
             form' = [Sent EXCEPT !.row = row.id]
      PROVE  ToldOK(g, later, now_, contribution')
    <2>1. /\ row.id \notin IdsOf(contribution) /\ row.user = Viewer
          /\ contribution' = contribution \cup {row}
        BY <1>9, RecordMoves DEF PageInv, UsedIds, IdsOf
    <2>2. g.row = row.id /\ g.told = f.told
        <3>1. Sent = [f EXCEPT !.amount = 0, !.took = None, !.proof = None]
            BY <1>2 DEF Sent
        <3> QED  BY <1>6, <1>9, <3>1 DEF FormState
    <2>3. ToldOK(f, later, now_, contribution')
        BY <1>1, <1>5, ToldLasts
    <2>4. row.id # None
        BY <1>1, <2>1, RowTypes DEF TableOK, Rows
    <2>5. \A s \in contribution' : s.id = row.id => s = row
        BY <2>1 DEF IdsOf
    <2> QED  BY <2>1, <2>2, <2>3, <2>4, <2>5 DEF ToldOK, IdsOf
<1>10. ASSUME UNCHANGED <<ledgerVars, panel>>, form.row # None, form' = [Edits EXCEPT !.told = form.row],
              reader' = [reader EXCEPT !["mine"] = Ask("mine", None)]
       PROVE  ToldOK(g, later, now_, contribution')
    <2>1. g.row = None /\ g.told = f.row
        <3>1. PICK h : h = [f EXCEPT !.amount = 0, !.took = None, !.proof = None]
            OBVIOUS
        <3>2. h \in FormState
            BY <3>1 DEF FormState
        <3>3. Edits = [h EXCEPT !.pc = "edit", !.row = None]
            BY <1>2, <3>1 DEF Edits, Sent
        <3> QED  BY <1>2, <1>6, <1>10, <3>2, <3>3 DEF FormState
    <2>2. reader'["mine"] = Ask("mine", None) /\ None \in ChoicesOf["mine"]
        BY <1>4, <1>10, ChoicesAre DEF PageInv
    <2>3. later.pc = "settings"
        BY <1>3, <1>4, <2>2, AskIs
    <2>4. \A s : ListOK(later, now_, s)
        BY <2>3 DEF ListOK
    <2>5. contribution' = contribution
        BY <1>10 DEF ledgerVars
    <2>6. \A s \in contribution : s.id # None
        BY <1>1, RowTypes DEF TableOK, Rows
    <2> QED  BY <1>5, <2>1, <2>4, <2>5, <2>6 DEF ToldOK
<1>11. CASE form' = form \/ form' = Blank
    BY <1>2, <1>6, <1>8, <1>11 DEF Blank
<1>12. CASE form' = Edits
    <2>1. PICK h : h = [f EXCEPT !.amount = 0, !.took = None, !.proof = None]
        OBVIOUS
    <2>2. h \in FormState /\ h.told = f.told
        BY <2>1 DEF FormState
    <2>3. Edits = [h EXCEPT !.pc = "edit", !.row = None]
        BY <1>2, <2>1 DEF Edits, Sent
    <2>4. g.row = None /\ g.told = f.told
        BY <1>6, <1>12, <2>2, <2>3 DEF FormState
    <2> QED  BY <1>8, <2>4
<1>13. CASE \/ \E x : form' = [form EXCEPT !.reading = @ \cup {x}]
            \/ \E x : form' = [form EXCEPT !.reading = @ \ {x}, !.staged = x]
            \/ \E x : form' = [form EXCEPT !.reading = @ \ {x}, !.staged = None]
            \/ form' = [form EXCEPT !.staged = None]
            \/ form' = [form EXCEPT !.pc = "posting", !.proof = form.took]
    <2>1. g.told = f.told /\ g.row = f.row
        BY <1>2, <1>6, <1>13 DEF FormState
    <2> QED  BY <1>8, <2>1
<1>14. CASE \E amount, pc :
                form' = [form EXCEPT !.pc = pc, !.amount = amount, !.took = form.staged,
                                     !.staged = None, !.told = None]
    <2>1. g.told = None /\ g.row = f.row
        BY <1>2, <1>6, <1>14 DEF FormState
    <2> QED  BY <1>8, <2>1
<1>15. FormMoves
    BY EveryFormMoves
<1>16. (\E amount \in Amounts :
            form' = [form EXCEPT !.pc = IF form.staged = None THEN "posting" ELSE "uploading",
                                 !.amount = amount, !.took = form.staged, !.staged = None,
                                 !.told = None])
       => \E amount, pc :
            form' = [form EXCEPT !.pc = pc, !.amount = amount, !.took = form.staged,
                                 !.staged = None, !.told = None]
    OBVIOUS
<1> QED  BY <1>9, <1>10, <1>11, <1>12, <1>13, <1>14, <1>15, <1>16 DEF FormMoves

\* A payment that was acknowledged is in the list that is loaded after it.
THEOREM ListDoesShowAcknowledged == PageSpec => []ListShowsAcknowledged
<1>1. PageInit => ToldInv
    BY FS_EmptySet DEF PageInit, ReportsInit, Init, ToldInv, ToldOK, Blank, IdsOf
<1>2. ToldInv => ListShowsAcknowledged
    BY DEF ToldInv, ToldOK, ListOK, IdsOf, ListShowsAcknowledged
<1> QED  BY <1>1, <1>2, ToldStep, PageKeepsInv, PTL DEF PageSpec

-----------------------------------------------------------------------------
(***************************************************************************)
(* The keys of receipts                                                    *)
(***************************************************************************)

Chars == STRING \cup Safe \cup {"/", "@", "a"}
Text == Seq(Chars)

LEMMA SafeIsText == Seq(Safe) \subseteq Text
<1>1. Safe \subseteq Chars
    BY DEF Chars
<1> QED  BY <1>1, SeqMonotonic DEF Text

\* The dashes after the first k characters of a text.
Dash(before, text, i) ==
    IF text[i] \in Safe THEN Append(before, text[i])
    ELSE IF i > 1 /\ text[i - 1] \notin Safe THEN before
    ELSE Append(before, "-")

Dashes(out, text, k) == out = [i \in 0..k |-> IF i = 0 THEN <<>> ELSE Dash(out[i - 1], text, i)]

\* The loop over the characters ends, however long the text is.
LEMMA DashesExist ==
    ASSUME NEW text, NEW n \in Nat
    PROVE  \E out : Dashes(out, text, n)
<1> DEFINE Bad == {k \in Nat : ~\E out : Dashes(out, text, k)}
<1>1. SUFFICES ASSUME Bad # {} PROVE FALSE
    OBVIOUS
<1>2. PICK k \in Bad : \A j \in Bad : k <= j
    <2>1. Bad \in SUBSET Nat
        OBVIOUS
    <2> QED  BY <1>1, <2>1, LeastNumber
<1>3. k \in Nat /\ ~\E out : Dashes(out, text, k)
    BY <1>2
<1>4. k # 0
    <2>1. SUFFICES ASSUME k = 0 PROVE FALSE
        OBVIOUS
    <2> DEFINE out == [i \in 0..0 |-> <<>>]
    <2>2. out = [i \in 0..0 |-> IF i = 0 THEN <<>> ELSE Dash(out[i - 1], text, i)]
        OBVIOUS
    <2> QED  BY <1>3, <2>1, <2>2 DEF Dashes
<1>5. k - 1 \in Nat /\ k - 1 \notin Bad
    BY <1>2, <1>3, <1>4
<1>6. PICK out : Dashes(out, text, k - 1)
    BY <1>5
<1> DEFINE more == [i \in 0..k |-> IF i = k THEN Dash(out[k - 1], text, k) ELSE out[i]]
<1>7. ASSUME NEW i \in 0..k
      PROVE  more[i] = IF i = 0 THEN <<>> ELSE Dash(more[i - 1], text, i)
    <2>1. CASE i = k
        <3>1. k - 1 \in 0..k /\ k - 1 # k
            BY <1>3, <1>4
        <3> QED  BY <1>4, <2>1, <3>1
    <2>2. CASE i # k
        <3>1. i \in 0..(k - 1) /\ (i # 0 => i - 1 \in 0..k /\ i - 1 # k)
            BY <1>3, <2>2
        <3>2. out[i] = IF i = 0 THEN <<>> ELSE Dash(out[i - 1], text, i)
            BY <1>6, <3>1 DEF Dashes
        <3> QED  BY <2>2, <3>1, <3>2
    <2> QED  BY <2>1, <2>2
<1>8. more = [i \in 0..k |-> more[i]]
    OBVIOUS
<1> HIDE DEF more
<1>9. Dashes(more, text, k)
    BY <1>7, <1>8 DEF Dashes
<1> QED  BY <1>3, <1>9

\* Dashed is the end of that loop.
LEMMA DashedIs ==
    ASSUME NEW text \in Text
    PROVE  \E out : Dashes(out, text, Len(text)) /\ Dashed(text) = out[Len(text)]
<1>1. Len(text) \in Nat
    BY LenProperties DEF Text
<1> DEFINE R(f) == f = [i \in 0..Len(text) |->
                          IF i = 0 THEN <<>>
                          ELSE IF text[i] \in Safe THEN Append(f[i - 1], text[i])
                          ELSE IF i > 1 /\ text[i - 1] \notin Safe THEN f[i - 1]
                          ELSE Append(f[i - 1], "-")]
<1>2. \A f : R(f) <=> Dashes(f, text, Len(text))
    BY DEF Dashes, Dash
<1>3. Dashed(text) = (CHOOSE f : R(f))[Len(text)]
    BY DEF Dashed
<1> HIDE DEF R
<1>4. \E f : R(f)
    BY <1>1, <1>2, DashesExist
<1>5. R(CHOOSE f : R(f))
    BY <1>4
<1> QED  BY <1>2, <1>3, <1>5

\* What is dashed is safe,
LEMMA DashedIsSafe ==
    ASSUME NEW text \in Text
    PROVE  Dashed(text) \in Seq(Safe)
<1>1. Len(text) \in Nat
    BY LenProperties DEF Text
<1>2. PICK n \in Nat : n = Len(text)
    BY <1>1
<1>3. PICK out : Dashes(out, text, n) /\ Dashed(text) = out[n]
    BY <1>2, DashedIs
<1> DEFINE Bad == {i \in 0..n : out[i] \notin Seq(Safe)}
<1>4. SUFFICES ASSUME Bad # {} PROVE FALSE
    BY <1>3
<1>5. PICK i \in Bad : \A j \in Bad : i <= j
    <2>1. Bad \in SUBSET Nat
        OBVIOUS
    <2> QED  BY <1>4, <2>1, LeastNumber
<1>6. out[i] = IF i = 0 THEN <<>> ELSE Dash(out[i - 1], text, i)
    BY <1>3, <1>5 DEF Dashes
<1>7. <<>> \in Seq(Safe)
    BY EmptySeq
<1>8. i # 0
    BY <1>5, <1>6, <1>7
<1>9. out[i - 1] \in Seq(Safe)
    <2>1. i - 1 \in 0..n /\ i - 1 \notin Bad
        BY <1>5, <1>8
    <2> QED  BY <2>1
<1>10. "-" \in Safe
    BY DEF Safe
<1>11. Dash(out[i - 1], text, i) \in Seq(Safe)
    BY <1>9, <1>10, AppendProperties DEF Dash
<1> QED  BY <1>5, <1>6, <1>8, <1>11

\* and what is safe is left as it is.
LEMMA DashedKeeps ==
    ASSUME NEW text \in Seq(Safe)
    PROVE  Dashed(text) = text
<1>1. /\ text \in Text /\ Len(text) \in Nat
      /\ \A i \in 1..Len(text) : text[i] \in Safe
    BY SafeIsText, LenProperties
<1>2. PICK n \in Nat : n = Len(text)
    BY <1>1
<1>3. PICK out : Dashes(out, text, n) /\ Dashed(text) = out[n]
    BY <1>1, <1>2, DashedIs
<1> DEFINE Good(i) == /\ out[i] \in Seq(Safe) /\ Len(out[i]) = i
                      /\ \A j \in 1..i : out[i][j] = text[j]
           Bad == {i \in 0..n : ~Good(i)}
<1>4. ASSUME Bad # {}  PROVE FALSE
    <2>1. PICK i \in Bad : \A j \in Bad : i <= j
        <3>1. Bad \in SUBSET Nat
            OBVIOUS
        <3> QED  BY <1>4, <3>1, LeastNumber
    <2>2. i \in 0..n /\ ~Good(i)
        BY <2>1
    <2>3. out[i] = IF i = 0 THEN <<>> ELSE Dash(out[i - 1], text, i)
        BY <1>3, <2>2 DEF Dashes
    <2>4. i # 0
        <3>1. i = 0 => Good(i)
            BY <2>3, EmptySeq
        <3> QED  BY <2>2, <3>1
    <2>5. i - 1 \in 0..n /\ i \in 1..n
        BY <2>2, <2>4
    <2>6. Good(i - 1)
        <3>1. i - 1 \notin Bad
            BY <2>1, <2>2
        <3> QED  BY <2>5, <3>1
    <2>7. PICK before : before = out[i - 1]
        OBVIOUS
    <2>8. before \in Seq(Safe) /\ Len(before) = i - 1 /\ \A j \in 1..(i - 1) : before[j] = text[j]
        BY <2>6, <2>7
    <2>9. text[i] \in Safe
        BY <1>1, <1>2, <2>5
    <2>10. out[i] = Append(before, text[i])
        BY <2>3, <2>4, <2>7, <2>9 DEF Dash
    <2>11. /\ out[i] \in Seq(Safe) /\ Len(out[i]) = (i - 1) + 1
           /\ \A j \in 1..(i - 1) : out[i][j] = before[j]
           /\ out[i][(i - 1) + 1] = text[i]
        BY <2>8, <2>9, <2>10, AppendProperties
    <2>12. ASSUME NEW j \in 1..i  PROVE out[i][j] = text[j]
        <3>1. (i - 1) + 1 = i
            BY <2>2
        <3>2. CASE j = i
            BY <2>11, <3>1, <3>2
        <3>3. CASE j # i
            <4>1. j \in 1..(i - 1)
                BY <2>5, <3>3
            <4> QED  BY <2>8, <2>11, <4>1
        <3> QED  BY <3>2, <3>3
    <2>13. (i - 1) + 1 = i
        BY <2>2
    <2> QED  BY <2>2, <2>11, <2>12, <2>13
<1>5. Good(n)
    BY <1>4
<1>6. out[n] = text
    BY <1>2, <1>5, SeqEqual
<1> QED  BY <1>3, <1>6

-----------------------------------------------------------------------------

\* The first and the last character that is not a dash.
LEMMA KeptHasEnds ==
    ASSUME NEW n \in Nat, NEW kept \in SUBSET (1..n), kept # {}
    PROVE  \E i, k \in kept :
              /\ i = CHOOSE x \in kept : \A y \in kept : x <= y
              /\ k = CHOOSE x \in kept : \A y \in kept : x >= y
              /\ i \in 1..n /\ k \in 1..n /\ i <= k
<1>1. kept \in SUBSET Nat
    OBVIOUS
<1>2. \E x \in kept : \A y \in kept : x <= y
    BY <1>1, LeastNumber
<1> DEFINE over == {n - x : x \in kept}
<1>3. over \in SUBSET Nat /\ over # {}
    OBVIOUS
<1>4. PICK d \in over : \A e \in over : d <= e
    <2> HIDE DEF over
    <2> QED  BY <1>3, LeastNumber
<1>5. PICK x \in kept : d = n - x
    BY <1>4
<1>6. \A y \in kept : x >= y
    <2>1. ASSUME NEW y \in kept  PROVE x >= y
        <3>1. n - y \in over
            OBVIOUS
        <3>2. n - x <= n - y
            BY <1>4, <1>5, <3>1
        <3>3. x \in Int /\ y \in Int
            OBVIOUS
        <3> HIDE DEF over
        <3> QED  BY <3>2, <3>3
    <2> QED  BY <2>1
<1>7. PICK i : i = CHOOSE z \in kept : \A y \in kept : z <= y
    OBVIOUS
<1>8. PICK k : k = CHOOSE z \in kept : \A y \in kept : z >= y
    OBVIOUS
<1>9. i \in kept /\ \A y \in kept : i <= y
    BY <1>2, <1>7
<1>10. k \in kept /\ \A y \in kept : k >= y
    BY <1>6, <1>8
<1> QED  BY <1>7, <1>8, <1>9, <1>10

\* Trimming leaves a safe text without a dash at its ends,
Trimmed(text) == Len(text) > 0 => text[1] # "-" /\ text[Len(text)] # "-"

LEMMA UndashedIsTrimmed ==
    ASSUME NEW text \in Seq(Safe)
    PROVE  Undashed(text) \in Seq(Safe) /\ Trimmed(Undashed(text))
<1>1. PICK n \in Nat : n = Len(text)
    BY LenProperties
<1>2. PICK kept : kept = {i \in 1..n : text[i] # "-"}
    OBVIOUS
<1>3. CASE kept = {}
    <2>1. Undashed(text) = <<>>
        BY <1>1, <1>2, <1>3 DEF Undashed
    <2> QED  BY <2>1, EmptySeq DEF Trimmed
<1>4. CASE kept # {}
    <2>1. PICK i \in kept, k \in kept :
              /\ i = CHOOSE x \in kept : \A y \in kept : x <= y
              /\ k = CHOOSE x \in kept : \A y \in kept : x >= y
              /\ i \in 1..n /\ k \in 1..n /\ i <= k
        BY <1>2, <1>4, KeptHasEnds
    <2>2. Undashed(text) = SubSeq(text, i, k)
        BY <1>1, <1>2, <1>4, <2>1 DEF Undashed
    <2>3. \A j \in i..k : text[j] \in Safe
        <3>1. \A j \in i..k : j \in 1..n
            BY <2>1
        <3> QED  BY <1>1, <3>1, ElementOfSeq
    <2>4. i \in Int /\ k \in Int
        BY <2>1
    <2>5. /\ SubSeq(text, i, k) \in Seq(Safe)
          /\ Len(SubSeq(text, i, k)) = k - i + 1
          /\ \A j \in 1..(k - i + 1) : SubSeq(text, i, k)[j] = text[i + j - 1]
        <3>1. i <= k
            BY <2>1
        <3>2. /\ SubSeq(text, i, k) \in Seq(Safe)
              /\ Len(SubSeq(text, i, k)) = IF i <= k THEN k - i + 1 ELSE 0
              /\ \A j \in 1..(k - i + 1) : SubSeq(text, i, k)[j] = text[i + j - 1]
            BY <2>3, <2>4, SubSeqProperties
        <3> QED  BY <3>1, <3>2
    <2>6. /\ 1 \in 1..(k - i + 1) /\ i + 1 - 1 = i
          /\ k - i + 1 \in 1..(k - i + 1) /\ i + (k - i + 1) - 1 = k
        <3>1. i <= k
            BY <2>1
        <3> QED  BY <2>4, <3>1
    <2>7. text[i] # "-" /\ text[k] # "-"
        BY <1>2, <2>1
    <2>8. PICK out : out = SubSeq(text, i, k)
        OBVIOUS
    <2>9. out[1] = text[i] /\ out[Len(out)] = text[k]
        BY <2>5, <2>6, <2>8
    <2> QED  BY <2>2, <2>5, <2>7, <2>8, <2>9 DEF Trimmed
<1> QED  BY <1>3, <1>4

\* and leaves such a text as it is.
LEMMA UndashedKeeps ==
    ASSUME NEW text \in Seq(Safe), Trimmed(text)
    PROVE  Undashed(text) = text
<1>1. PICK n \in Nat : n = Len(text)
    BY LenProperties
<1>2. PICK kept : kept = {i \in 1..n : text[i] # "-"}
    OBVIOUS
<1>3. CASE n = 0
    <2>1. kept = {}
        BY <1>2, <1>3
    <2>2. text = <<>>
        BY <1>1, <1>3, EmptySeq
    <2> QED  BY <1>1, <1>2, <2>1, <2>2 DEF Undashed
<1>4. CASE n # 0
    <2>1. 1 \in kept /\ n \in kept
        BY <1>1, <1>2, <1>4 DEF Trimmed
    <2>2. PICK i \in kept, k \in kept :
              /\ i = CHOOSE x \in kept : \A y \in kept : x <= y
              /\ k = CHOOSE x \in kept : \A y \in kept : x >= y
              /\ i \in 1..n /\ k \in 1..n /\ i <= k
        BY <1>2, <2>1, KeptHasEnds
    <2>3. \A y \in kept : 1 <= y /\ n >= y
        BY <1>2
    <2>4. i <= 1 /\ k >= n
        <3>1. \A y \in kept : i <= y
            BY <2>1, <2>2, <2>3
        <3>2. \A y \in kept : k >= y
            BY <2>1, <2>2, <2>3
        <3> QED  BY <2>1, <3>1, <3>2
    <2>5. i = 1 /\ k = n
        BY <2>2, <2>4
    <2>6. Undashed(text) = SubSeq(text, 1, n)
        BY <1>1, <1>2, <2>1, <2>2, <2>5 DEF Undashed
    <2> QED  BY <1>1, <2>6, SubSeqFull
<1> QED  BY <1>3, <1>4

-----------------------------------------------------------------------------

\* A text that is written out.
LEMMA FourLetters ==
    ASSUME NEW S, NEW a \in S, NEW b \in S, NEW c \in S, NEW d \in S
    PROVE  <<a, b, c, d>> \in Seq(S)
OBVIOUS

\* The part of an email in a key: of any text it makes a safe and trimmed one,
LEMMA MergedIsText ==
    ASSUME NEW email \in Text
    PROVE  Merged(email) \in Text
<1>1. PICK n \in Nat : n = Len(email)
    BY LenProperties DEF Text
<1>2. CASE \E i \in 1..n : email[i] = "@"
    <2> DEFINE First(i) == email[i] = "@" /\ \A j \in 1..(i - 1) : email[j] # "@"
    <2>1. \E i \in 1..n : First(i)
        <3> DEFINE Ats == {i \in 1..n : email[i] = "@"}
        <3>1. Ats \in SUBSET Nat /\ Ats # {}
            BY <1>2
        <3>2. PICK i \in Ats : \A j \in Ats : i <= j
            <4> HIDE DEF Ats
            <4> QED  BY <3>1, LeastNumber
        <3>3. ASSUME NEW j \in 1..(i - 1)  PROVE email[j] # "@"
            <4>1. j \in 1..n /\ ~(i <= j)
                OBVIOUS
            <4> QED  BY <3>2, <4>1
        <3> QED  BY <3>3
    <2>2. PICK at : at = CHOOSE i \in 1..n : First(i)
        OBVIOUS
    <2>3. at \in 1..n
        BY <2>1, <2>2
    <2>4. Merged(email) = SubSeq(email, 1, at - 1) \o <<"_", "a", "t", "_">> \o SubSeq(email, at + 1, n)
        BY <1>1, <1>2, <2>2 DEF Merged
    <2>5. \A i \in 1..n : email[i] \in Chars
        BY <1>1, ElementOfSeq DEF Text
    <2>6. SubSeq(email, 1, at - 1) \in Text
        <3>1. 1 \in Int /\ at - 1 \in Int /\ \A i \in 1..(at - 1) : email[i] \in Chars
            BY <2>3, <2>5
        <3> QED  BY <3>1, SubSeqProperties DEF Text
    <2>7. SubSeq(email, at + 1, n) \in Text
        <3>1. at + 1 \in Int /\ n \in Int /\ \A i \in (at + 1)..n : email[i] \in Chars
            BY <2>3, <2>5
        <3> QED  BY <3>1, SubSeqProperties DEF Text
    <2>8. <<"_", "a", "t", "_">> \in Text
        <3>1. "_" \in Safe /\ "a" \in Safe /\ "t" \in Safe
            BY DEF Safe
        <3>2. <<"_", "a", "t", "_">> \in Seq(Safe)
            BY <3>1, FourLetters, Zenon
        <3> QED  BY <3>2, SafeIsText
    <2>9. PICK before \in Text, middle \in Text, after \in Text :
              /\ before = SubSeq(email, 1, at - 1) /\ middle = <<"_", "a", "t", "_">>
              /\ after = SubSeq(email, at + 1, n)
        BY <2>6, <2>7, <2>8, Zenon
    <2>10. before \o middle \in Text
        BY ConcatProperties DEF Text
    <2>11. (before \o middle) \o after \in Text
        BY <2>10, ConcatProperties DEF Text
    <2> QED  BY <2>4, <2>9, <2>11
<1>3. CASE ~\E i \in 1..n : email[i] = "@"
    BY <1>1, <1>3 DEF Merged
<1> QED  BY <1>2, <1>3

LEMMA FragIsSafe ==
    ASSUME NEW email \in Text
    PROVE  SanitizeEmailFrag(email) \in Seq(Safe) /\ Trimmed(SanitizeEmailFrag(email))
<1>1. PICK lower : lower = [i \in DOMAIN email |-> LowerOf(email[i])]
    OBVIOUS
<1>2. lower \in Text
    <2>1. PICK n \in Nat : n = Len(email) /\ DOMAIN email = 1..n
        BY LenProperties DEF Text
    <2>2. ASSUME NEW i \in 1..n  PROVE LowerOf(email[i]) \in Chars
        <3>1. email[i] \in Chars
            BY <2>1, ElementOfSeq DEF Text
        <3>2. "a" \in Chars
            BY DEF Chars
        <3> QED  BY <3>1, <3>2 DEF LowerOf
    <2>3. lower \in [1..n -> Chars]
        BY <1>1, <2>1, <2>2
    <2> QED  BY <2>3, SeqDef DEF Text
<1>3. Dashed(Merged(lower)) \in Seq(Safe)
    BY <1>2, MergedIsText, DashedIsSafe
<1>4. SanitizeEmailFrag(email) = Undashed(Dashed(Merged(lower)))
    BY <1>1 DEF SanitizeEmailFrag
<1> QED  BY <1>3, <1>4, UndashedIsTrimmed

\* and such a text it leaves as it is.
LEMMA FragIsKept ==
    ASSUME NEW frag \in Seq(Safe), Trimmed(frag)
    PROVE  SanitizeEmailFrag(frag) = frag
<1>1. PICK n \in Nat : n = Len(frag) /\ frag \in [1..n -> Safe]
    BY LenProperties
<1>2. \A i \in 1..n : LowerOf(frag[i]) = frag[i] /\ frag[i] # "@"
    <2>1. \A char \in Safe : char # "A" /\ char # "@"
        BY DEF Safe
    <2> QED  BY <1>1, <2>1 DEF LowerOf
<1>3. [i \in DOMAIN frag |-> LowerOf(frag[i])] = frag
    BY <1>1, <1>2
<1>4. Merged(frag) = frag
    BY <1>1, <1>2 DEF Merged
<1>5. SanitizeEmailFrag(frag) = Undashed(Dashed(frag))
    BY <1>3, <1>4 DEF SanitizeEmailFrag
<1> QED  BY <1>5, DashedKeeps, UndashedKeeps

-----------------------------------------------------------------------------

\* A key starts with the prefix it is asked for.
Starts(key, prefix) ==
    Len(prefix) <= Len(key) /\ \A i \in 1..Len(prefix) : key[i] = prefix[i]

LEMMA ConcatStarts ==
    ASSUME NEW s \in Text, NEW t \in Text
    PROVE  s \o t \in Text /\ Starts(s \o t, s)
<1>1. PICK n \in Nat, m \in Nat : n = Len(s) /\ m = Len(t)
    BY LenProperties DEF Text
<1>2. PICK st : st = s \o t
    OBVIOUS
<1>3. /\ st \in Text /\ Len(st) = n + m
      /\ \A i \in 1..(n + m) : st[i] = IF i <= n THEN s[i] ELSE t[i - n]
    BY <1>1, <1>2, ConcatProperties DEF Text
<1>4. \A i \in 1..n : i \in 1..(n + m) /\ i <= n
    OBVIOUS
<1> QED  BY <1>1, <1>2, <1>3, <1>4 DEF Starts

LEMMA StartsOn ==
    ASSUME NEW s \in Text, NEW t \in Text, NEW u \in Text, Starts(t, s), Starts(u, t)
    PROVE  Starts(u, s)
<1>1. Len(s) \in Nat /\ Len(t) \in Nat /\ Len(u) \in Nat
    BY LenProperties DEF Text
<1>2. \A i \in 1..Len(s) : i \in 1..Len(t)
    BY <1>1 DEF Starts
<1> QED  BY <1>1, <1>2 DEF Starts

LEMMA BelongsIsStarts ==
    ASSUME NEW key \in Text, NEW slug, VenturePrefix(slug) \in Text
    PROVE  BelongsTo(key, slug) <=> Starts(key, VenturePrefix(slug))
<1>1. PICK prefix \in Text : prefix = VenturePrefix(slug)
    OBVIOUS
<1>2. PICK n \in Nat, m \in Nat : n = Len(prefix) /\ m = Len(key)
    BY LenProperties DEF Text
<1>3. ASSUME n <= m
      PROVE  SubSeq(key, 1, n) = prefix <=> \A i \in 1..n : key[i] = prefix[i]
    <2>1. \A i \in 1..n : key[i] \in Chars
        <3>1. \A i \in 1..n : i \in 1..m
            BY <1>3
        <3> QED  BY <1>2, <3>1, ElementOfSeq DEF Text
    <2>2. PICK part : part = SubSeq(key, 1, n)
        OBVIOUS
    <2>3. /\ part \in Text
          /\ Len(part) = IF 1 <= n THEN n - 1 + 1 ELSE 0
          /\ \A i \in 1..(n - 1 + 1) : part[i] = key[1 + i - 1]
        <3>1. 1 \in Int /\ n \in Int
            OBVIOUS
        <3> QED  BY <2>1, <2>2, <3>1, SubSeqProperties DEF Text
    <2>4. Len(part) = n
        BY <2>3
    <2>5. \A i \in 1..n : part[i] = key[i]
        <3>1. \A i \in 1..n : i \in 1..(n - 1 + 1) /\ 1 + i - 1 = i
            OBVIOUS
        <3> QED  BY <2>3, <3>1
    <2>6. (\A i \in 1..n : part[i] = prefix[i]) => part = prefix
        BY <1>2, <2>3, <2>4, SeqEqual DEF Text
    <2> QED  BY <2>2, <2>5, <2>6
<1> QED  BY <1>1, <1>2, <1>3 DEF BelongsTo, Starts

\* The prefix of a venture's keys is its slug between two slashes.
LEMMA PrefixIs ==
    ASSUME NEW slug \in Text
    PROVE  /\ VenturePrefix(slug) \in Text /\ Len(VenturePrefix(slug)) = Len(slug) + 2
           /\ \A i \in 1..Len(slug) : VenturePrefix(slug)[i + 1] = slug[i]
           /\ VenturePrefix(slug)[Len(slug) + 2] = "/"
<1>1. "/" \in Chars
    BY DEF Chars
<1>2. Slash \in Text /\ Len(Slash) = 1 /\ Slash[1] = "/"
    BY <1>1 DEF Slash, Text
<1>3. PICK n \in Nat : n = Len(slug)
    BY LenProperties DEF Text
<1>4. PICK open : open = Slash \o slug
    OBVIOUS
<1>5. /\ open \in Text /\ Len(open) = 1 + n
      /\ \A i \in 1..(1 + n) : open[i] = IF i <= 1 THEN Slash[i] ELSE slug[i - 1]
    BY <1>2, <1>3, <1>4, ConcatProperties DEF Text
<1>6. PICK both : both = open \o Slash
    OBVIOUS
<1>7. /\ both \in Text /\ Len(both) = (1 + n) + 1
      /\ \A i \in 1..((1 + n) + 1) : both[i] = IF i <= 1 + n THEN open[i] ELSE Slash[i - (1 + n)]
    <2>1. PICK close \in Text : close = Slash /\ Len(close) = 1
        BY <1>2
    <2>2. /\ open \o close \in Text /\ Len(open \o close) = Len(open) + Len(close)
          /\ \A i \in 1..(Len(open) + Len(close)) :
                 (open \o close)[i] = IF i <= Len(open) THEN open[i] ELSE close[i - Len(open)]
        BY <1>5, ConcatProperties DEF Text
    <2> QED  BY <1>5, <1>6, <2>1, <2>2
<1>8. both = VenturePrefix(slug)
    BY <1>4, <1>6 DEF VenturePrefix
<1>9. ASSUME NEW i \in 1..n  PROVE both[i + 1] = slug[i]
    <2>1. i + 1 \in 1..(1 + n) /\ i + 1 \in 1..((1 + n) + 1) /\ i + 1 <= 1 + n
        OBVIOUS
    <2>2. ~(i + 1 <= 1) /\ (i + 1) - 1 = i
        OBVIOUS
    <2> QED  BY <1>5, <1>7, <2>1, <2>2
<1>10. both[n + 2] = "/"
    <2>1. n + 2 \in 1..((1 + n) + 1) /\ ~(n + 2 <= 1 + n) /\ (n + 2) - (1 + n) = 1
        OBVIOUS
    <2> QED  BY <1>2, <1>7, <2>1
<1> QED  BY <1>3, <1>7, <1>8, <1>9, <1>10

\* A slug has no slash in it (is_valid_slug, crate/common/src/domain.rs).
Unslashed(slug) == slug \in Text /\ \A i \in 1..Len(slug) : slug[i] # "/"

\* A key that starts with the prefixes of two ventures: it is one venture.
LEMMA OnePrefix ==
    ASSUME NEW key \in Text, NEW slug, NEW other, Unslashed(slug), Unslashed(other),
           Starts(key, VenturePrefix(slug)), Starts(key, VenturePrefix(other))
    PROVE  other = slug
<1>1. PICK n \in Nat, m \in Nat : n = Len(slug) /\ m = Len(other)
    BY LenProperties DEF Text, Unslashed
<1>2. PICK p \in Text : /\ p = VenturePrefix(slug) /\ Len(p) = n + 2 /\ p[n + 2] = "/"
                        /\ \A i \in 1..n : p[i + 1] = slug[i]
    BY <1>1, PrefixIs DEF Unslashed
<1>3. PICK q \in Text : /\ q = VenturePrefix(other) /\ Len(q) = m + 2 /\ q[m + 2] = "/"
                        /\ \A i \in 1..m : q[i + 1] = other[i]
    BY <1>1, PrefixIs DEF Unslashed
<1>4. /\ \A i \in 1..(n + 2) : key[i] = p[i]
      /\ \A i \in 1..(m + 2) : key[i] = q[i]
    BY <1>2, <1>3 DEF Starts
<1>5. ~(m < n)
    <2>1. SUFFICES ASSUME m < n PROVE FALSE
        OBVIOUS
    <2>2. m + 1 \in 1..n /\ m + 2 \in 1..(n + 2) /\ m + 2 \in 1..(m + 2) /\ (m + 1) + 1 = m + 2
        BY <2>1
    <2>3. slug[m + 1] = "/"
        BY <1>2, <1>3, <1>4, <2>2
    <2> QED  BY <1>1, <2>2, <2>3 DEF Unslashed
<1>6. ~(n < m)
    <2>1. SUFFICES ASSUME n < m PROVE FALSE
        OBVIOUS
    <2>2. n + 1 \in 1..m /\ n + 2 \in 1..(m + 2) /\ n + 2 \in 1..(n + 2) /\ (n + 1) + 1 = n + 2
        BY <2>1
    <2>3. other[n + 1] = "/"
        BY <1>2, <1>3, <1>4, <2>2
    <2> QED  BY <1>1, <2>2, <2>3 DEF Unslashed
<1>7. n = m
    BY <1>5, <1>6
<1>8. ASSUME NEW i \in 1..n  PROVE other[i] = slug[i]
    <2>1. i + 1 \in 1..(n + 2) /\ i \in 1..m /\ i + 1 \in 1..(m + 2)
        BY <1>7
    <2> QED  BY <1>2, <1>3, <1>4, <2>1
<1> QED  BY <1>1, <1>7, <1>8, SeqEqual DEF Unslashed, Text

\* The key of an upload starts with the prefix of its venture.
LEMMA KeyStarts ==
    ASSUME NEW slug \in Text, NEW frag \in Text, NEW id \in Text
    PROVE  LET key == Slash \o slug \o Slash \o frag \o Slash \o id
           IN  key \in Text /\ Starts(key, VenturePrefix(slug))
<1>1. "/" \in Chars
    BY DEF Chars
<1>2. Slash \in Text
    BY <1>1 DEF Slash, Text
<1>3. PICK p \in Text : p = Slash \o slug \o Slash /\ p = VenturePrefix(slug)
    BY PrefixIs DEF VenturePrefix
<1>4. PICK a \in Text : a = p \o frag /\ Starts(a, p)
    BY ConcatStarts
<1>5. PICK b \in Text : b = a \o Slash /\ Starts(b, a)
    BY <1>2, ConcatStarts
<1>6. PICK key \in Text : key = b \o id /\ Starts(key, b)
    BY ConcatStarts
<1>7. Starts(key, p)
    <2>1. Starts(b, p)
        BY <1>4, <1>5, StartsOn
    <2> QED  BY <1>6, <2>1, StartsOn
<1> QED  BY <1>3, <1>4, <1>5, <1>6, <1>7

\* So much holds of every slug, email and id, not only of those that TLC samples.
LEMMA KeysDoStayAtHome == KeysStayAtHome
<1>1. SUFFICES ASSUME NEW slug \in SomeSlugs, NEW email \in SomeEmails, NEW id \in SomeIds
               PROVE  LET frag == SanitizeEmailFrag(email)
                      IN  /\ \A i \in DOMAIN frag : frag[i] \in Safe
                          /\ SanitizeEmailFrag(frag) = frag
                          /\ \A other \in SomeSlugs :
                                 BelongsTo(KeyOf(slug, email, id), other) <=> other = slug
    BY DEF KeysStayAtHome
<1>2. SomeSlugs \cup SomeEmails \cup SomeIds \subseteq Text
    <2>1. STRING \subseteq Chars
        BY DEF Chars
    <2>2. Seq(STRING) \subseteq Text
        BY <2>1, SeqMonotonic DEF Text
    <2> QED  BY <2>2, ReceiptsAssumption
<1>3. \A other \in SomeSlugs : Unslashed(other)
    <2>1. SUFFICES ASSUME NEW other \in SomeSlugs PROVE Unslashed(other)
        OBVIOUS
    <2>2. other \in Text
        BY <1>2
    <2>3. DOMAIN other = 1..Len(other)
        BY <2>2, LenProperties DEF Text
    <2> QED  BY <2>2, <2>3, ReceiptsAssumption DEF Unslashed
<1>4. PICK frag : frag = SanitizeEmailFrag(email)
    OBVIOUS
<1>5. frag \in Seq(Safe) /\ Trimmed(frag)
    BY <1>2, <1>4, FragIsSafe
<1>6. \A i \in DOMAIN frag : frag[i] \in Safe
    BY <1>5, LenProperties, ElementOfSeq
<1>7. SanitizeEmailFrag(frag) = frag
    BY <1>5, FragIsKept
<1>8. PICK key : key = KeyOf(slug, email, id)
    OBVIOUS
<1>9. key \in Text /\ Starts(key, VenturePrefix(slug))
    <2>1. frag \in Text /\ slug \in Text /\ id \in Text
        BY <1>2, <1>5, SafeIsText
    <2> QED  BY <1>4, <1>8, <2>1, KeyStarts DEF KeyOf
<1>10. ASSUME NEW other \in SomeSlugs  PROVE BelongsTo(key, other) <=> other = slug
    <2>1. VenturePrefix(other) \in Text
        BY <1>3, PrefixIs DEF Unslashed
    <2>2. BelongsTo(key, other) <=> Starts(key, VenturePrefix(other))
        BY <1>9, <2>1, BelongsIsStarts
    <2>3. Starts(key, VenturePrefix(other)) => other = slug
        BY <1>3, <1>9, OnePrefix
    <2> QED  BY <1>9, <2>2, <2>3
<1> QED  BY <1>4, <1>6, <1>7, <1>8, <1>10

-----------------------------------------------------------------------------

\* Every file that the form holds is one that it takes.
TakenOK(f) ==
    \A x \in f.reading \cup ({f.staged, f.took} \ {None}) : FormTakes(x)

LEMMA TakenStep ==
    ASSUME form \in FormState, TakenOK(form), FormMoves
    PROVE  TakenOK(form')
<1>1. PICK f \in FormState : f = form
    OBVIOUS
<1>2. /\ \A x \in f.reading : FormTakes(x)
      /\ f.staged # None => FormTakes(f.staged)
      /\ f.took # None => FormTakes(f.took)
    BY <1>1 DEF TakenOK
<1>3. PICK g : g = Sent
    OBVIOUS
<1>4. g = [f EXCEPT !.amount = 0, !.took = None, !.proof = None]
    BY <1>1, <1>3 DEF Sent
<1>5. g \in FormState /\ g.reading = f.reading /\ g.staged = f.staged /\ g.took = None
    BY <1>4 DEF FormState
<1>6. PICK h : h = Edits
    OBVIOUS
<1>7. h = [g EXCEPT !.pc = "edit", !.row = None]
    BY <1>3, <1>6 DEF Edits
<1>8. h \in FormState /\ h.reading = f.reading /\ h.staged = f.staged /\ h.took = None
    BY <1>5, <1>7 DEF FormState
<1>9. ASSUME /\ form'.reading \subseteq f.reading
             /\ form'.staged \in {f.staged, None} \cup f.reading
             /\ form'.took \in {f.took, f.staged, None}
      PROVE  TakenOK(form')
    BY <1>2, <1>9 DEF TakenOK
<1>10. CASE form' = form
    BY <1>1, <1>9, <1>10
<1>11. CASE form' = Blank
    BY <1>9, <1>11 DEF Blank
<1>12. CASE form' = Edits
    BY <1>6, <1>8, <1>9, <1>12
<1>13. CASE form' = [Edits EXCEPT !.told = form.row]
    <2>1. /\ form'.reading = h.reading /\ form'.staged = h.staged /\ form'.took = h.took
        BY <1>6, <1>8, <1>13 DEF FormState
    <2> QED  BY <1>8, <1>9, <2>1
<1>14. CASE \E id : form' = [Sent EXCEPT !.row = id]
    <2>1. /\ form'.reading = g.reading /\ form'.staged = g.staged /\ form'.took = g.took
        BY <1>3, <1>5, <1>14 DEF FormState
    <2> QED  BY <1>5, <1>9, <2>1
<1>15. CASE form' = [form EXCEPT !.pc = "posting", !.proof = form.took]
    <2>1. /\ form'.reading = f.reading /\ form'.staged = f.staged /\ form'.took = f.took
        BY <1>1, <1>15 DEF FormState
    <2> QED  BY <1>9, <2>1
<1>16. CASE \E amount :
                form' = [form EXCEPT !.pc = IF form.staged = None THEN "posting" ELSE "uploading",
                                     !.amount = amount, !.took = form.staged, !.staged = None,
                                     !.told = None]
    <2>1. /\ form'.reading = f.reading /\ form'.staged = None /\ form'.took = f.staged
        BY <1>1, <1>16 DEF FormState
    <2> QED  BY <1>9, <2>1
<1>17. CASE \/ \E x \in form.reading : form' = [form EXCEPT !.reading = @ \ {x}, !.staged = x]
            \/ \E x \in form.reading : form' = [form EXCEPT !.reading = @ \ {x}, !.staged = None]
            \/ form' = [form EXCEPT !.staged = None]
    <2>1. /\ form'.reading \subseteq f.reading /\ form'.staged \in {None} \cup f.reading
          /\ form'.took = f.took
        BY <1>1, <1>17 DEF FormState
    <2> QED  BY <1>9, <2>1
<1>18. CASE \E x \in Files : FormTakes(x) /\ form' = [form EXCEPT !.reading = @ \cup {x}]
    <2>1. PICK x \in Files : FormTakes(x) /\ form' = [f EXCEPT !.reading = @ \cup {x}]
        BY <1>1, <1>18
    <2>2. form'.reading = f.reading \cup {x} /\ form'.staged = f.staged /\ form'.took = f.took
        BY <2>1 DEF FormState
    <2> QED  BY <1>2, <2>1, <2>2 DEF TakenOK
<1>19. CASE \E row \in Payments(Viewer, form.amount) : Record(row) /\ form' = [Sent EXCEPT !.row = row.id]
    BY <1>14, <1>19
<1> QED  BY <1>10, <1>11, <1>12, <1>13, <1>15, <1>16, <1>17, <1>18, <1>19 DEF FormMoves

\* What the form takes, the gateway takes, unless it is empty.
LEMMA TakenIsStored ==
    ASSUME NEW f \in Files, FormTakes(f)
    PROVE  GatewayTakes(ContentType(f), f.size) \/ f.size = 0
<1>1. ContentType(f) \in Kinds
    BY DEF FormTakes, ContentType, KindByName, Kinds
<1>2. f.size \in Nat /\ MaxProofBytes \in Nat /\ f.size <= MaxProofBytes
    BY ReceiptsAssumption DEF FormTakes
<1>3. f.size = 0 \/ f.size > 0
    BY <1>2
<1> QED  BY <1>1, <1>2, <1>3 DEF GatewayTakes

\* A receipt that the form has taken is refused by the gateway only when it is
\* empty, and its key is accepted for its own venture and for no other.
THEOREM ReceiptsDoFindHome == PageSpec => []ReceiptsFindHome
<1>1. PageInit => TakenOK(form)
    BY DEF PageInit, TakenOK, Blank
<1>2. PageInv /\ TakenOK(form) /\ [PageNext]_allVars => TakenOK(form')
    BY EveryFormMoves, TakenStep DEF PageInv
<1>3. PageInv /\ TakenOK(form) => ReceiptsFindHome
    <2>1. SUFFICES ASSUME PageInv, TakenOK(form), NEW f \in {form.staged, form.took} \ {None}
                   PROVE  (GatewayTakes(ContentType(f), f.size) \/ f.size = 0) /\ KeysStayAtHome
        BY DEF ReceiptsFindHome
    <2>2. f \in Files
        BY <2>1, FormTypes DEF PageInv
    <2>3. FormTakes(f)
        BY <2>1 DEF TakenOK
    <2> QED  BY <2>2, <2>3, TakenIsStored, KeysDoStayAtHome
<1>4. PageSpec => []PageInv
    BY PageKeepsInv
<1> DEFINE Inv == TakenOK(form)
<1>5. Inv' <=> TakenOK(form')
    BY DEF TakenOK
<1> HIDE DEF Inv
<1>6. /\ PageInit => Inv
      /\ PageInv /\ Inv /\ [PageNext]_allVars => Inv'
      /\ PageInv /\ Inv => ReceiptsFindHome
    BY <1>1, <1>2, <1>3, <1>5 DEF Inv
<1> QED  BY <1>4, <1>6, PTL DEF PageSpec
=============================================================================
