--------------------------- MODULE TenantDbProofs ---------------------------
(***************************************************************************)
(* What the events of the venture's database guarantee, for every calendar,*)
(* every set of users, amounts and settings, and any number of rows.       *)
(***************************************************************************)
EXTENDS TenantDb, MoneyProofs

(***************************************************************************)
(* The order of periods                                                    *)
(***************************************************************************)

\* The ranks of the shapes are distinct numbers.
LEMMA ShapeRankFacts ==
    /\ \A c \in Cadences : ShapeRank[c] \in Nat
    /\ \A c, d \in Cadences : ShapeRank[c] = ShapeRank[d] => c = d
BY DEF Cadences, ShapeRank

\* The byte order of period strings is transitive,
LEMMA LtTransitive ==
    ASSUME NEW p \in Period, NEW q \in Period, NEW r \in Period, Lt(p, q), Lt(q, r)
    PROVE  Lt(p, r)
<1>1. /\ ShapeRank[p.cadence] \in Nat
      /\ ShapeRank[q.cadence] \in Nat
      /\ ShapeRank[r.cadence] \in Nat
    BY ShapeRankFacts DEF Period
<1> QED  BY <1>1 DEF Lt, Period

\* irreflexive,
LEMMA LtIrreflexive == \A p \in Period : ~Lt(p, p)
BY ShapeRankFacts DEF Lt, Period

\* and total.
LEMMA LtTotal ==
    ASSUME NEW p \in Period, NEW q \in Period, p # q
    PROVE  Lt(p, q) \/ Lt(q, p)
<1>1. ShapeRank[p.cadence] \in Nat /\ ShapeRank[q.cadence] \in Nat
    BY ShapeRankFacts DEF Period
<1>2. ShapeRank[p.cadence] = ShapeRank[q.cadence] => p.cadence = q.cadence
    BY ShapeRankFacts DEF Period
<1>3. p.year # q.year \/ p.cadence # q.cadence \/ p.index # q.index
    BY DEF Period
<1> QED  BY <1>1, <1>2, <1>3 DEF Lt, Period

LEMMA CalendarTypes ==
    /\ MaxTime \in Nat
    /\ UTC \in Zones
    /\ \A z \in Zones, c \in Cadences, t \in Instants :
          Calendar[z][c][t] \in Period /\ Calendar[z][c][t].cadence = c
    /\ \A c \in Cadences, t \in Instants : UtcPeriod(c, t) \in Period
    /\ KnownPeriods \subseteq Period
BY CalendarAssumption DEF UtcPeriod, KnownPeriods

\* A period that is over stays over: the lock is never lifted.
LEMMA OverStaysOver ==
    ASSUME NEW p \in Period, NEW c \in Cadences, NEW s \in Instants, NEW t \in Instants,
           s <= t, Lt(p, UtcPeriod(c, s))
    PROVE  Lt(p, UtcPeriod(c, t))
<1>1. ~Lt(UtcPeriod(c, t), UtcPeriod(c, s))
    BY CalendarAssumption
<1>2. UtcPeriod(c, s) \in Period /\ UtcPeriod(c, t) \in Period
    BY CalendarTypes
<1>3. CASE UtcPeriod(c, s) = UtcPeriod(c, t)
    BY <1>3
<1>4. CASE UtcPeriod(c, s) # UtcPeriod(c, t)
    <2>1. Lt(UtcPeriod(c, s), UtcPeriod(c, t))
        BY <1>1, <1>2, <1>4, LtTotal
    <2> QED  BY <1>2, <2>1, LtTransitive
<1> QED  BY <1>3, <1>4

(***************************************************************************)
(* The type invariant                                                      *)
(***************************************************************************)

\* What a row of the table is made of.
LEMMA RowTypes ==
    ASSUME NEW r \in Contribution
    PROVE  /\ r.amount \in Nat /\ r.amount > 0
           /\ r.period \in KnownPeriods /\ r.period \in Period
           /\ r.cadence \in Cadences
           /\ r.id \in RowIds
           /\ r.user \in Users
<1>1. /\ r.amount \in Amounts /\ r.amount > 0
      /\ r.period \in KnownPeriods
      /\ r.cadence \in Cadences
      /\ r.id \in RowIds
      /\ r.user \in Users
    BY DEF Contribution
<1>2. r.amount \in Int
    BY <1>1, TenantDbAssumption
<1>3. r.period \in Period
    BY <1>1, CalendarTypes
<1> QED  BY <1>1, <1>2, <1>3

\* A statement of any kind keeps the types, and a record id naming one row.
LEMMA TypeNext == TypeOK /\ [Next]_vars => TypeOK'
<1> SUFFICES ASSUME TypeOK, [Next]_vars PROVE TypeOK'
    OBVIOUS
<1> USE DEF TypeOK
<1>1. ASSUME NEW row \in Contribution, CreateContribution(row) PROVE TypeOK'
    <2>1. IsFiniteSet(contribution')
        BY <1>1, FS_AddElement DEF CreateContribution
    <2> QED  BY <1>1, <2>1 DEF CreateContribution
<1>2. ASSUME NEW before \in contribution, NEW after \in Contribution,
             UpdateContribution(before, after)
      PROVE  TypeOK'
    <2>1. IsFiniteSet(contribution')
        BY <1>2, FS_AddElement, FS_RemoveElement DEF UpdateContribution, Replaced
    <2> QED  BY <1>2, <2>1 DEF UpdateContribution, Replaced
<1>3. ASSUME NEW before \in contribution, DeleteContribution(before) PROVE TypeOK'
    <2>1. IsFiniteSet(contribution')
        BY <1>3, FS_RemoveElement DEF DeleteContribution
    <2> QED  BY <1>3, <2>1 DEF DeleteContribution
<1>4. ASSUME NEW s \in SettingsChoices, UpdateSettings(s) PROVE TypeOK'
    BY <1>4 DEF UpdateSettings
<1>5. ASSUME Tick PROVE TypeOK'
    BY <1>5, CalendarAssumption DEF Tick, Instants
<1>6. CASE UNCHANGED vars
    BY <1>6 DEF vars
<1> QED  BY <1>1, <1>2, <1>3, <1>4, <1>5, <1>6 DEF Next

\* Every variable keeps its type and a record id keeps naming one row, through
\* any statement.
THEOREM TypeCorrect == Spec => []TypeOK
<1>1. Init => TypeOK
    BY FS_EmptySet, CalendarAssumption DEF Init, TypeOK, Instants
<1> QED  BY <1>1, TypeNext, PTL DEF Spec

(***************************************************************************)
(* The cap event                                                           *)
(***************************************************************************)

\* The rows counted for a member and a period are finitely many, and their sum
\* is a number.
LEMMA CountedFinite ==
    ASSUME NEW rows, rows \subseteq Contribution, IsFiniteSet(rows), NEW u, NEW p
    PROVE  /\ IsFiniteSet(Counted(rows, u, p))
           /\ \A r \in Counted(rows, u, p) : r.amount \in Nat
           /\ Paid(rows, u, p) \in Nat
<1>1. Counted(rows, u, p) \subseteq rows
    BY DEF Counted
<1>2. IsFiniteSet(Counted(rows, u, p)) /\ \A r \in Counted(rows, u, p) : r.amount \in Nat
    BY <1>1, FS_Subset, RowTypes
<1> QED  BY <1>2, TotalNat DEF Paid

\* A member whose counted rows did not grow has not paid more.
LEMMA PaidMonotone ==
    ASSUME NEW rows, rows \subseteq Contribution, IsFiniteSet(rows), NEW u, NEW p,
           NEW less, Counted(less, u, p) \subseteq Counted(rows, u, p)
    PROVE  Paid(less, u, p) <= Paid(rows, u, p)
<1>1. /\ IsFiniteSet(Counted(rows, u, p))
      /\ \A r \in Counted(rows, u, p) : r.amount \in Nat
    BY CountedFinite
<1> QED  BY <1>1, TotalMonotone DEF Paid

\* No history of writes overpays a member: only a change of the dues does.
THEOREM CapHolds == Spec => NoWriteOverpays
<1> DEFINE Rise(u, p) ==
        \/ settings'.dues # settings.dues
        \/ Overpaid(u, p) /\ Paid(contribution, u, p)' <= Paid(contribution, u, p)
<1>1. ASSUME TypeOK, TypeOK', [Next]_vars, NEW u \in Users, NEW p \in KnownPeriods,
             Overpaid(u, p)'
      PROVE  Rise(u, p)
    <2> USE <1>1
    <2>1. /\ Paid(contribution, u, p) \in Nat
          /\ Paid(contribution', u, p) \in Nat
          /\ settings.dues \in Nat
        BY CountedFinite DEF TypeOK, Settings
    <2>2. settings'.dues > 0 /\ Paid(contribution', u, p) > settings'.dues
        BY DEF Overpaid
    <2>3. ASSUME Counted(contribution', u, p) \subseteq Counted(contribution, u, p)
          PROVE  Rise(u, p)
        <3>1. Paid(contribution', u, p) <= Paid(contribution, u, p)
            BY <2>3, PaidMonotone DEF TypeOK
        <3>2. Paid(contribution, u, p)' = Paid(contribution', u, p)
            BY DEF Paid, Counted
        <3> QED  BY <2>1, <2>2, <3>1, <3>2 DEF Overpaid
    <2>4. ASSUME NEW after, Admits(contribution', after), settings' = settings,
                 Counted(contribution', u, p) \subseteq Counted(contribution, u, p) \cup {after}
          PROVE  Rise(u, p)
        <3>1. CASE after \in Counted(contribution', u, p)
            <4>1. after.user = u /\ after.period = p /\ after.status # "rejected"
                BY <3>1 DEF Counted
            <4>2. ~(Paid(contribution', u, p) > settings.dues)
                BY <2>2, <2>4, <4>1 DEF Admits, OverCap
            <4> QED  BY <2>2, <2>4, <4>2
        <3>2. CASE after \notin Counted(contribution', u, p)
            BY <2>3, <2>4, <3>2
        <3> QED  BY <3>1, <3>2
    <2>5. ASSUME NEW row \in Contribution, CreateContribution(row) PROVE Rise(u, p)
        BY <2>4, <2>5 DEF CreateContribution, Counted
    <2>6. ASSUME NEW before \in contribution, NEW after \in Contribution,
                 UpdateContribution(before, after)
          PROVE  Rise(u, p)
        BY <2>4, <2>6 DEF UpdateContribution, Replaced, Counted
    <2>7. ASSUME NEW before \in contribution, DeleteContribution(before) PROVE Rise(u, p)
        BY <2>3, <2>7 DEF DeleteContribution, Counted
    <2>8. ASSUME contribution' = contribution PROVE Rise(u, p)
        BY <2>3, <2>8
    <2>9. ASSUME NEW s \in SettingsChoices, UpdateSettings(s) PROVE Rise(u, p)
        BY <2>8, <2>9 DEF UpdateSettings
    <2>10. CASE Tick
        BY <2>8, <2>10 DEF Tick
    <2>11. CASE UNCHANGED vars
        BY <2>8, <2>11 DEF vars
    <2> HIDE DEF Rise
    <2> QED  BY <2>5, <2>6, <2>7, <2>9, <2>10, <2>11 DEF Next
<1>2. TypeOK /\ TypeOK' /\ [Next]_vars =>
        [\A u \in Users, p \in KnownPeriods :
          Overpaid(u, p)' =>
             \/ settings'.dues # settings.dues
             \/ /\ Overpaid(u, p)
                /\ Paid(contribution, u, p)' <= Paid(contribution, u, p)]_vars
    BY <1>1
<1>3. Spec => []TypeOK
    BY TypeCorrect
<1> HIDE DEF Rise
<1> QED  BY <1>2, <1>3, PTL DEF Spec, NoWriteOverpays

(***************************************************************************)
(* The lock events                                                         *)
(***************************************************************************)

\* What is on record for a period that is over can only shrink.
THEOREM LockHolds == Spec => PastOnlyShrinks
<1>1. ASSUME TypeOK, [Next]_vars, NEW r \in contribution', Locked(r, now)
      PROVE  r \in contribution
    <2> USE <1>1
    <2>1. ASSUME NEW row \in Contribution, CreateContribution(row) PROVE r \in contribution
        BY <2>1 DEF CreateContribution, Admits
    <2>2. ASSUME NEW before \in contribution, NEW after \in Contribution,
                 UpdateContribution(before, after)
          PROVE  r \in contribution
        BY <2>2 DEF UpdateContribution, Replaced, Admits
    <2>3. ASSUME NEW before \in contribution, DeleteContribution(before)
          PROVE  r \in contribution
        BY <2>3 DEF DeleteContribution
    <2>4. ASSUME contribution' = contribution PROVE r \in contribution
        BY <2>4
    <2>5. ASSUME NEW s \in SettingsChoices, UpdateSettings(s) PROVE r \in contribution
        BY <2>4, <2>5 DEF UpdateSettings
    <2>6. CASE Tick
        BY <2>4, <2>6 DEF Tick
    <2>7. CASE UNCHANGED vars
        BY <2>4, <2>7 DEF vars
    <2> QED  BY <2>1, <2>2, <2>3, <2>5, <2>6, <2>7 DEF Next
<1>2. TypeOK /\ [Next]_vars =>
        [\A r \in contribution' : Locked(r, now) => r \in contribution]_vars
    BY <1>1
<1>3. Spec => []TypeOK
    BY TypeCorrect
<1> QED  BY <1>2, <1>3, PTL DEF Spec, PastOnlyShrinks

(***************************************************************************)
(* Voiding and paying again                                                *)
(***************************************************************************)

\* In an open period a treasurer can always void a payment, and the member who
\* was not overpaid can always pay it again.
THEOREM VoidHolds == Spec => []VoidAndRecollect
<1>1. ASSUME TypeOK,
             NEW r \in contribution, r.status # "rejected", ~Locked(r, now)
      PROVE  LET voided == Replaced(r, Voided(r))
             IN  /\ Admits(voided, Voided(r))
                 /\ \A id \in RowIds \ {s.id : s \in contribution} :
                       LET again == [r EXCEPT !.id = id]
                       IN  Overpaid(r.user, r.period)
                              \/ Admits(voided \cup {again}, again)
    <2> DEFINE voided == Replaced(r, Voided(r))
    <2>1. r \in Contribution
        BY <1>1 DEF TypeOK
    <2>2. /\ Voided(r).status = "rejected"
          /\ Voided(r).period = r.period
          /\ Voided(r).cadence = r.cadence
        BY <2>1 DEF Voided, Contribution
    <2>3. Admits(voided, Voided(r))
        BY <1>1, <2>2 DEF Admits, OverCap, Locked
    <2>4. ASSUME NEW id \in RowIds \ {s.id : s \in contribution},
                 ~Overpaid(r.user, r.period)
          PROVE  Admits(voided \cup {[r EXCEPT !.id = id]}, [r EXCEPT !.id = id])
        <3> DEFINE again == [r EXCEPT !.id = id]
                   before == Counted(contribution, r.user, r.period)
        <3>1. /\ again.id = id /\ again.user = r.user /\ again.period = r.period
              /\ again.cadence = r.cadence /\ again.amount = r.amount
              /\ again.status = r.status
            BY <2>1 DEF Contribution
        <3>2. again \notin contribution
            BY <3>1
        <3>3. Counted(voided \cup {again}, r.user, r.period) = (before \ {r}) \cup {again}
            BY <1>1, <2>2, <3>1 DEF Counted, Replaced
        <3>4. r \in before /\ again \notin before
            BY <1>1, <3>2 DEF Counted
        <3>5. IsFiniteSet(before) /\ \A s \in before : s.amount \in Nat
            BY <1>1, CountedFinite DEF TypeOK
        <3> HIDE DEF again, before, voided
        <3>6. Total((before \ {r}) \cup {again}) = Total(before)
            BY <3>1, <3>4, <3>5, TotalSwap
        <3>7. Paid(voided \cup {again}, r.user, r.period) = Paid(contribution, r.user, r.period)
            BY <3>3, <3>6 DEF Paid, before
        <3>8. ~OverCap(voided \cup {again}, again, settings.dues)
            BY <2>4, <3>1, <3>7 DEF OverCap, Overpaid
        <3>9. ~Locked(again, now)
            BY <1>1, <3>1 DEF Locked
        <3>10. Admits(voided \cup {again}, again)
            BY <3>8, <3>9 DEF Admits
        <3> QED  BY <3>10 DEF again
    <2> QED  BY <2>3, <2>4
<1>2. TypeOK => VoidAndRecollect
    BY <1>1 DEF VoidAndRecollect
<1>3. Spec => []TypeOK
    BY TypeCorrect
<1> QED  BY <1>2, <1>3, PTL
=============================================================================
