---------------------------- MODULE MoneyProofs ----------------------------
(***************************************************************************)
(* What a sum of payment rows does when a row joins or leaves.             *)
(***************************************************************************)
EXTENDS Money, FiniteSetTheorems, TLAPS

\* The cents of one row are as many as its amount.
LEMMA CentsOfRow ==
    ASSUME NEW r, r.amount \in Nat
    PROVE  /\ IsFiniteSet({r} \X (1..r.amount))
           /\ Cardinality({r} \X (1..r.amount)) = r.amount
<1>1. IsFiniteSet({r}) /\ Cardinality({r}) = 1
    BY FS_Singleton
<1>2. IsFiniteSet(1..r.amount) /\ Cardinality(1..r.amount) = r.amount
    BY FS_Interval
<1>3. Cardinality({r} \X (1..r.amount)) = 1 * r.amount /\ IsFiniteSet({r} \X (1..r.amount))
    BY <1>1, <1>2, FS_Product
<1> QED  BY <1>3

\* Finitely many rows hold finitely many cents.
LEMMA CentsFinite ==
    ASSUME NEW rows, IsFiniteSet(rows), \A r \in rows : r.amount \in Nat
    PROVE  IsFiniteSet(Cents(rows))
<1> DEFINE piles == {{r} \X (1..r.amount) : r \in rows}
           pile == [r \in rows |-> {r} \X (1..r.amount)]
<1>1. pile \in Surjection(rows, piles)
    BY DEF Surjection
<1>2. IsFiniteSet(piles)
    BY <1>1, FS_Surjection
<1>3. \A p \in piles : IsFiniteSet(p)
    BY CentsOfRow
<1> HIDE DEF pile
<1>4. IsFiniteSet(UNION piles)
    BY <1>2, <1>3, FS_UNION
<1> QED  BY <1>4 DEF Cents

\* A sum of amounts is a number.
LEMMA TotalNat ==
    ASSUME NEW rows, IsFiniteSet(rows), \A r \in rows : r.amount \in Nat
    PROVE  Total(rows) \in Nat
BY CentsFinite, FS_CardinalityType DEF Total

\* Nothing sums to nothing.
LEMMA TotalEmpty == Total({}) = 0
BY FS_EmptySet DEF Total, Cents

\* Fewer rows never sum to more.
LEMMA TotalMonotone ==
    ASSUME NEW rows, IsFiniteSet(rows), \A r \in rows : r.amount \in Nat,
           NEW fewer \in SUBSET rows
    PROVE  Total(fewer) <= Total(rows)
<1>1. Cents(fewer) \subseteq Cents(rows)
    BY DEF Cents
<1> QED  BY <1>1, CentsFinite, FS_Subset DEF Total

\* A new row adds its amount.
LEMMA TotalAdd ==
    ASSUME NEW rows, IsFiniteSet(rows), \A r \in rows : r.amount \in Nat,
           NEW row, row \notin rows, row.amount \in Nat
    PROVE  Total(rows \cup {row}) = Total(rows) + row.amount
<1> DEFINE own == {row} \X (1..row.amount)
<1>1. Cents(rows \cup {row}) = Cents(rows) \cup own
    BY DEF Cents
<1>2. Cents(rows) \cap own = {}
    BY DEF Cents
<1>3. IsFiniteSet(own) /\ Cardinality(own) = row.amount
    BY CentsOfRow
<1>4. IsFiniteSet(Cents(rows)) /\ Cardinality(Cents(rows)) \in Nat
    BY CentsFinite, FS_CardinalityType
<1> HIDE DEF own
<1>5. Cardinality(Cents(rows) \cup own)
         = Cardinality(Cents(rows)) + Cardinality(own) - Cardinality(Cents(rows) \cap own)
    BY <1>3, <1>4, FS_Union
<1>6. Cardinality(Cents(rows) \cap own) = 0
    BY <1>2, FS_EmptySet, Zenon
<1>7. Cardinality(Cents(rows) \cup own) = Cardinality(Cents(rows)) + row.amount
    BY <1>3, <1>4, <1>5, <1>6
<1> QED  BY <1>1, <1>7 DEF Total

\* A row that makes way for one of the same amount leaves the sum as it was.
LEMMA TotalSwap ==
    ASSUME NEW rows, IsFiniteSet(rows), \A r \in rows : r.amount \in Nat,
           NEW out \in rows, NEW in, in \notin rows, in.amount = out.amount
    PROVE  Total((rows \ {out}) \cup {in}) = Total(rows)
<1> DEFINE rest == rows \ {out}
<1>1. IsFiniteSet(rest) /\ \A r \in rest : r.amount \in Nat
    BY FS_Subset
<1>2. rows = rest \cup {out} /\ out \notin rest /\ in \notin rest
    OBVIOUS
<1> HIDE DEF rest
<1>3. Total(rest \cup {out}) = Total(rest) + out.amount
    BY <1>1, <1>2, TotalAdd
<1>4. Total(rest \cup {in}) = Total(rest) + in.amount
    BY <1>1, <1>2, TotalAdd
<1> QED  BY <1>2, <1>3, <1>4 DEF rest

\* Rows that are not in both add up.
LEMMA TotalUnion ==
    ASSUME NEW these, IsFiniteSet(these), \A r \in these : r.amount \in Nat,
           NEW those, IsFiniteSet(those), \A r \in those : r.amount \in Nat,
           these \cap those = {}
    PROVE  Total(these \cup those) = Total(these) + Total(those)
<1>1. Cents(these \cup those) = Cents(these) \cup Cents(those)
    BY DEF Cents
<1>2. Cents(these) \cap Cents(those) = {}
    BY DEF Cents
<1>3. /\ IsFiniteSet(Cents(these)) /\ Cardinality(Cents(these)) \in Nat
      /\ IsFiniteSet(Cents(those)) /\ Cardinality(Cents(those)) \in Nat
    BY CentsFinite, FS_CardinalityType
<1>4. Cardinality(Cents(these) \cup Cents(those))
         = Cardinality(Cents(these)) + Cardinality(Cents(those)) - Cardinality(Cents(these) \cap Cents(those))
    BY <1>3, FS_Union
<1>5. Cardinality(Cents(these) \cap Cents(those)) = 0
    BY <1>2, FS_EmptySet, Zenon
<1>6. Cardinality(Cents(these) \cup Cents(those)) = Cardinality(Cents(these)) + Cardinality(Cents(those))
    BY <1>3, <1>4, <1>5
<1> QED  BY <1>1, <1>6 DEF Total
=============================================================================
