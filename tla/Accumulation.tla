---------------------------- MODULE Accumulation ----------------------------
(***************************************************************************)
(* The history of a venture as its chart draws it                          *)
(* (routes/contributions.rs, decide_bucket and bucket_series): payments    *)
(* grouped by the year, or the year and month, they came in, and a running *)
(* total that starts at the carry-forward.  A point is a payment: its id,  *)
(* the instant it was submitted, and its amount.                           *)
(***************************************************************************)
EXTENDS Periods, Money, Sequences

CONSTANT YearLength   \* instants in 365 days, the age at which years are drawn

ASSUME YearLengthAssumption == YearLength \in Nat

\* decide_bucket: the points come oldest first, and the first one decides.
DecideBucket(points, t) ==
    IF \E p \in points : t - p.at >= YearLength THEN "yearly" ELSE "monthly"

\* The key of a point, which sorts as the string does.
Bucket(p, mode) == UtcPeriod(mode, p.at)

Keys(points, mode) == {Bucket(p, mode) : p \in points}

\* BTreeMap: the keys in ascending order.
InOrder(keys) ==
    CHOOSE s \in [1..Cardinality(keys) -> keys] :
        \A i, j \in 1..Cardinality(keys) : i < j => Lt(s[i], s[j])

\* Variant for the checks: a payment replaces what its bucket held.
CentsOfLast(points, mode, key) ==
    LET p == CHOOSE p \in points : Bucket(p, mode) = key IN p.amount

CentsOf(points, mode, key) == Total({p \in points : Bucket(p, mode) = key})

\* bucket_series: the buckets in order, each with its own cents and the total
\* that has run up to it.
BucketSeries(points, mode, initial) ==
    LET keys == InOrder(Keys(points, mode))
        running[i \in 0..Len(keys)] ==
            IF i = 0 THEN initial ELSE running[i - 1] + CentsOf(points, mode, keys[i])
    IN  [i \in 1..Len(keys) |->
            [bucket |-> keys[i], cents |-> CentsOf(points, mode, keys[i]), total |-> running[i]]]
=============================================================================
