------------------------ MODULE ContributionsProofs ------------------------
(***************************************************************************)
(* The payment endpoint, for any number of concurrent requests, any        *)
(* members, amounts, settings, calendar and rows.                          *)
(***************************************************************************)
EXTENDS Contributions, TenantDbProofs

(***************************************************************************)
(* The gateway sends only statements the database's rules allow            *)
(***************************************************************************)

\* A step of the gateway is a step of the database, or leaves it alone.
LEMMA AppStepIsDbStep == [AppNext]_appVars => [Next]_vars
<1> SUFFICES ASSUME [AppNext]_appVars PROVE [Next]_vars
    OBVIOUS
<1>1. ASSUME NEW c \in Calls, CreateContribution(NewRow(c)) PROVE Next
    BY <1>1 DEF CreateContribution, Next
<1>2. ASSUME NEW c \in Calls, Handler(c) PROVE [Next]_vars
    BY <1>1, <1>2 DEF Handler, CheckMember, ReadSettings, DerivePeriod, Create,
                      CreateThrows, ReadDues, ReadAmounts, dbVars, vars
<1>3. ASSUME NEW c \in Calls, CreateUnacknowledged(c) \/ Fail(c) PROVE [Next]_vars
    BY <1>1, <1>3 DEF CreateUnacknowledged, Fail, dbVars, vars
<1>4. ASSUME NEW c \in Calls, NEW u \in Users, NEW amount \in Amounts, Submit(c, u, amount)
      PROVE  [Next]_vars
    BY <1>4 DEF Submit, dbVars, vars
<1>5. ASSUME NEW u \in Users, Join(u) PROVE [Next]_vars
    BY <1>5 DEF Join, dbVars, vars
<1>6. ASSUME NEW s \in SettingsChoices, PatchSettings(s) PROVE [Next]_vars
    BY <1>6 DEF PatchSettings, Next
<1>7. CASE Clock
    BY <1>7 DEF Clock, Next
<1>8. CASE UNCHANGED appVars
    BY <1>8 DEF appVars, vars
<1> QED  BY <1>2, <1>3, <1>4, <1>5, <1>6, <1>7, <1>8 DEF AppNext

\* Whatever requests do, the table moves only as the database lets it: every
\* property of TenantDb holds of the table behind the gateway.
THEOREM GatewayImplementsDb == AppSpec => Spec
<1>1. AppInit => Init
    BY DEF AppInit
<1> QED  BY <1>1, AppStepIsDbStep, PTL DEF AppSpec, Spec

\* In particular, no payment ever overpays a member.
THEOREM GatewayCapHolds == AppSpec => NoWriteOverpays
BY GatewayImplementsDb, CapHolds

(***************************************************************************)
(* Types                                                                   *)
(***************************************************************************)

\* An id that is still free is what FreshId finds.
LEMMA FreshIdIsFree ==
    ASSUME NEW c, CreateContribution(NewRow(c))
    PROVE  FreshId \in RowIds /\ FreshId \notin UsedIds /\ FreshId # None
<1>1. NewRow(c).id = FreshId
    BY DEF NewRow
<1> QED  BY <1>1, NoneAssumption DEF CreateContribution, Contribution, UsedIds

\* A row that counts is no more than what its member has paid.
LEMMA RowIsPaid ==
    ASSUME NEW rows, rows \subseteq Contribution, IsFiniteSet(rows),
           NEW r \in rows, r.status # "rejected"
    PROVE  r.amount <= Paid(rows, r.user, r.period)
<1>1. /\ IsFiniteSet(Counted(rows, r.user, r.period))
      /\ \A s \in Counted(rows, r.user, r.period) : s.amount \in Nat
    BY CountedFinite
<1>2. {r} \subseteq Counted(rows, r.user, r.period) /\ r.amount \in Nat
    BY RowTypes DEF Counted
<1>3. Total({r}) <= Paid(rows, r.user, r.period)
    BY <1>1, <1>2, TotalMonotone DEF Paid
<1>4. IsFiniteSet({}) /\ Total({} \cup {r}) = Total({}) + r.amount
    BY <1>2, FS_EmptySet, TotalAdd
<1>5. {} \cup {r} = {r}
    OBVIOUS
<1> QED  BY <1>2, <1>3, <1>4, <1>5, TotalEmpty

\* What a handler knows, it still knows when members join and rows are added.
LEMMA KnowledgeLasts ==
    ASSUME NEW rows, NEW more, rows \subseteq more, more \subseteq Contribution, IsFiniteSet(more),
           NEW joined, NEW joining, joined \subseteq joining,
           NEW h \in CallState, HandlerKnows(h, joined, rows)
    PROVE  HandlerKnows(h, joining, more)
<1>1. Counted(rows, h.user, h.period) \subseteq Counted(more, h.user, h.period)
    BY DEF Counted
<1>2. Paid(rows, h.user, h.period) <= Paid(more, h.user, h.period)
    BY <1>1, PaidMonotone
<1>3. /\ Paid(more, h.user, h.period) \in Nat
      /\ Paid(rows, h.user, h.period) \in Nat
    BY FS_Subset, CountedFinite
<1>4. h.paid \in Nat
    BY DEF CallState
<1>5. TotalIsFair(rows, h) => TotalIsFair(more, h)
    BY <1>2, <1>3, <1>4 DEF TotalIsFair
<1>6. OnRecord(rows, h) => OnRecord(more, h)
    BY DEF OnRecord
<1> QED  BY <1>5, <1>6 DEF HandlerKnows

\* A handler's step keeps the invariant if what the handler holds afterwards
\* has its type, is known, and is not a row of another handler.
LEMMA HandlerStep ==
    ASSUME AppInv, TypeOK', NEW c \in Calls, NEW h \in CallState, Holds(c, h),
           members' = members, contribution \subseteq contribution',
           RowsAreWellFiled',
           HandlerKnows(h, members, contribution'),
           \A d \in Calls \ {c} : h.row = None \/ call[d].row # h.row
    PROVE  AppInv'
<1>1. call \in [Calls -> CallState]
    BY DEF AppInv, AppTypeOK
<1>2. call' = [call EXCEPT ![c] = h] /\ call' \in [Calls -> CallState]
    BY <1>1 DEF Holds
<1>3. AppTypeOK'
    BY <1>2 DEF AppInv, AppTypeOK
<1>4. ASSUME NEW d \in Calls PROVE HandlerKnows(call'[d], members', contribution')
    <2>1. CASE d = c
        BY <1>1, <1>2, <2>1
    <2>2. CASE d # c
        <3>1. call'[d] = call[d] /\ call[d] \in CallState
            BY <1>1, <1>2, <2>2
        <3>2. HandlerKnows(call[d], members, contribution)
            BY DEF AppInv, HandlersKnow
        <3> QED  BY <3>1, <3>2, KnowledgeLasts DEF TypeOK
    <2> QED  BY <2>1, <2>2
<1>5. ASSUME NEW d \in Calls, NEW e \in Calls, d # e
      PROVE  call'[d].row # call'[e].row \/ call'[d].row = None
    <2>1. call[d].row # call[e].row \/ call[d].row = None
        BY <1>5 DEF AppInv, HandlersKnow
    <2> QED  BY <1>1, <1>2, <1>5, <2>1
<1> QED  BY <1>3, <1>4, <1>5 DEF AppInv, HandlersKnow

\* The invariant holds at the start and every step keeps it.
LEMMA AppInvInit == AppInit => AppInv
<1> SUFFICES ASSUME AppInit PROVE AppInv
    OBVIOUS
<1>1. TypeOK
    BY FS_EmptySet, CalendarAssumption DEF AppInit, Init, TypeOK, Instants
<1>2. Idle \in CallState /\ Idle.pc = "idle" /\ Idle.row = None
    BY DEF Idle, CallState
<1>3. call \in [Calls -> CallState] /\ \A c \in Calls : call[c] = Idle
    BY <1>2 DEF AppInit
<1>4. HandlerKnows(Idle, members, contribution)
    BY <1>2 DEF HandlerKnows, Recorded
<1> QED  BY <1>1, <1>2, <1>3, <1>4
         DEF AppInit, Init, AppInv, AppTypeOK, RowsAreWellFiled, HandlersKnow

\* A handler that gives up keeps the invariant.
LEMMA EndsKeepsInv ==
    ASSUME AppInv, TypeOK', NEW c \in Calls, Ends(c), members' = members,
           contribution \subseteq contribution', RowsAreWellFiled'
    PROVE  AppInv'
<1>1. Idle \in CallState /\ Idle.pc = "idle" /\ Idle.row = None
    BY DEF Idle, CallState
<1>2. HandlerKnows(Idle, members, contribution')
    BY <1>1 DEF HandlerKnows, Recorded
<1> QED  BY <1>1, <1>2, HandlerStep DEF Ends

\* The CREATE writes a row the handler knows to be well filed.
LEMMA CreateFilesWell ==
    ASSUME AppInv, NEW c \in Calls, call[c].pc = "create",
           CreateContribution(NewRow(c)), members' = members
    PROVE  contribution \subseteq contribution' /\ RowsAreWellFiled'
<1>1. HandlerKnows(call[c], members, contribution)
    BY DEF AppInv, HandlersKnow
<1>2. NewRow(c).user \in members /\ NewRow(c).period.cadence = NewRow(c).cadence
    BY <1>1 DEF HandlerKnows, NewRow
<1> QED  BY <1>2 DEF CreateContribution, AppInv, RowsAreWellFiled

LEMMA CreateKeepsInv ==
    ASSUME AppInv, TypeOK', NEW c \in Calls, Create(c)
    PROVE  AppInv'
<1> DEFINE h == [call[c] EXCEPT !.pc = "dues", !.row = FreshId, !.zone = None]
<1>1. /\ call[c].pc = "create" /\ CreateContribution(NewRow(c))
      /\ Holds(c, h) /\ members' = members
    BY DEF Create
<1>2. FreshId \in RowIds /\ FreshId \notin UsedIds /\ FreshId # None
    BY <1>1, FreshIdIsFree
<1>3. call[c] \in CallState /\ HandlerKnows(call[c], members, contribution)
    BY DEF AppInv, AppTypeOK, HandlersKnow
<1>4. h \in CallState
    BY <1>2, <1>3 DEF CallState, Waits
<1>5. /\ h.pc = "dues" /\ h.row = FreshId /\ h.user = call[c].user
      /\ h.amount = call[c].amount /\ h.cadence = call[c].cadence /\ h.period = call[c].period
    BY <1>3 DEF CallState
<1>6. OnRecord(contribution', h)
    <2>1. NewRow(c) \in contribution'
        BY <1>1 DEF CreateContribution
    <2>2. /\ NewRow(c).id = h.row /\ NewRow(c).user = h.user /\ NewRow(c).period = h.period
          /\ NewRow(c).amount = h.amount /\ NewRow(c).status # "rejected"
        BY <1>5 DEF NewRow
    <2> QED  BY <2>1, <2>2 DEF OnRecord
<1>7. HandlerKnows(h, members, contribution')
    BY <1>1, <1>3, <1>5, <1>6 DEF HandlerKnows, Recorded
<1>8. ASSUME NEW d \in Calls PROVE call[d].row # h.row
    <2>1. HandlerKnows(call[d], members, contribution)
        BY DEF AppInv, HandlersKnow
    <2>2. call[d].row # None => call[d].row \in UsedIds
        BY <2>1 DEF HandlerKnows, OnRecord, UsedIds
    <2> QED  BY <1>2, <1>5, <2>2
<1>9. contribution \subseteq contribution' /\ RowsAreWellFiled'
    BY <1>1, CreateFilesWell
<1> HIDE DEF h
<1> QED  BY <1>1, <1>4, <1>7, <1>8, <1>9, HandlerStep

\* A step of a handler that leaves the database and the members alone.
LEMMA ReadKeepsInv ==
    ASSUME AppInv, TypeOK', NEW c \in Calls,
           \/ CheckMember(c) \/ ReadSettings(c) \/ DerivePeriod(c)
           \/ CreateThrows(c) \/ ReadDues(c) \/ ReadAmounts(c) \/ Fail(c)
    PROVE  AppInv'
<1>1. /\ contribution' = contribution /\ members' = members
      /\ settings' = settings /\ now' = now
    BY DEF CheckMember, ReadSettings, DerivePeriod, CreateThrows, ReadDues, ReadAmounts, Fail, dbVars
<1>2. contribution \subseteq contribution' /\ RowsAreWellFiled'
    BY <1>1 DEF AppInv, RowsAreWellFiled
<1>3. CASE Ends(c)
    BY <1>1, <1>2, <1>3, EndsKeepsInv
<1>4. /\ call[c] \in CallState /\ HandlerKnows(call[c], members, contribution)
      /\ \A d \in Calls \ {c} : call[c].row = None \/ call[d].row # call[c].row
    BY DEF AppInv, AppTypeOK, HandlersKnow
<1>5. ASSUME NEW h \in CallState, Holds(c, h), HandlerKnows(h, members, contribution),
             h.row = call[c].row
      PROVE  AppInv'
    BY <1>1, <1>2, <1>4, <1>5, HandlerStep
<1>6. ASSUME CheckMember(c), ~Ends(c) PROVE AppInv'
    <2> DEFINE h == [call[c] EXCEPT !.pc = "settings"]
    <2>1. /\ Holds(c, h) /\ call[c].pc = "membership"
          /\ call[c].user \in members /\ call[c].amount > 0
        BY <1>6 DEF CheckMember
    <2>2. h \in CallState /\ h.row = call[c].row
        BY <1>4 DEF CallState, Waits
    <2>3. HandlerKnows(h, members, contribution)
        BY <1>4, <2>1 DEF HandlerKnows, Recorded, CallState
    <2> QED  BY <1>5, <2>1, <2>2, <2>3
<1>7. ASSUME ReadSettings(c) PROVE AppInv'
    <2> DEFINE h == [call[c] EXCEPT !.pc = "clock",
                                    !.zone = settings.timezone, !.cadence = settings.cadence]
    <2>1. Holds(c, h) /\ call[c].pc = "settings"
        BY <1>7 DEF ReadSettings
    <2>2. settings.timezone \in Timezones /\ settings.cadence \in Cadences
        BY DEF AppInv, AppTypeOK, TypeOK, Settings
    <2>3. h \in CallState /\ h.row = call[c].row
        BY <1>4, <2>2 DEF CallState, Waits
    <2>4. HandlerKnows(h, members, contribution)
        BY <1>4, <2>1, <2>2 DEF HandlerKnows, Recorded, CallState
    <2> QED  BY <1>5, <2>1, <2>3, <2>4
<1>8. ASSUME DerivePeriod(c), ~Ends(c) PROVE AppInv'
    <2> DEFINE p == LocalPeriod(call[c].zone, call[c].cadence, now)
               h == [call[c] EXCEPT !.pc = "create", !.period = p]
    <2>1. Holds(c, h) /\ call[c].pc = "clock" /\ call[c].zone \in Zones
        BY <1>8 DEF DerivePeriod
    <2>2. call[c].cadence \in Cadences
        BY <1>4, <2>1 DEF HandlerKnows
    <2>3. p \in KnownPeriods /\ p.cadence = call[c].cadence
        BY <2>1, <2>2, CalendarTypes DEF LocalPeriod, KnownPeriods, AppInv, AppTypeOK, TypeOK
    <2> HIDE DEF p
    <2>4. h \in CallState /\ h.row = call[c].row
        BY <1>4, <2>3 DEF CallState, Waits
    <2>5. HandlerKnows(h, members, contribution)
        BY <1>4, <2>1, <2>3 DEF HandlerKnows, Recorded, CallState
    <2> HIDE DEF h
    <2> QED  BY <1>5, <2>1, <2>4, <2>5
<1>9. ASSUME ReadDues(c) PROVE AppInv'
    <2> DEFINE h == [call[c] EXCEPT !.pc = "amounts", !.dues = settings.dues]
    <2>1. Holds(c, h) /\ call[c].pc = "dues"
        BY <1>9 DEF ReadDues
    <2>2. settings.dues \in Nat
        BY DEF AppInv, AppTypeOK, TypeOK, Settings
    <2>3. h \in CallState /\ h.row = call[c].row
        BY <1>4, <2>2 DEF CallState, Waits
    <2>4. HandlerKnows(h, members, contribution)
        BY <1>4, <2>1 DEF HandlerKnows, Recorded, CallState, OnRecord
    <2> QED  BY <1>5, <2>1, <2>3, <2>4
<1>10. ASSUME ReadAmounts(c) PROVE AppInv'
    <2> DEFINE sum == Paid(contribution, call[c].user, call[c].period)
               h == [call[c] EXCEPT !.pc = "receipt", !.paid = sum]
    <2>1. Holds(c, h) /\ call[c].pc = "amounts"
        BY <1>10 DEF ReadAmounts
    <2>2. sum \in Nat /\ contribution \subseteq Contribution /\ IsFiniteSet(contribution)
        BY CountedFinite DEF AppInv, AppTypeOK, TypeOK
    <2>3. OnRecord(contribution, call[c])
        BY <1>4, <2>1 DEF HandlerKnows, Recorded
    <2>4. PICK r \in contribution :
             /\ r.user = call[c].user /\ r.period = call[c].period
             /\ r.amount = call[c].amount /\ r.status # "rejected"
        BY <2>3 DEF OnRecord
    <2>5. call[c].amount <= sum
        BY <2>2, <2>4, RowIsPaid
    <2> HIDE DEF sum
    <2>6. h \in CallState /\ h.row = call[c].row
        BY <1>4, <2>2 DEF CallState, Waits
    <2>7. TotalIsFair(contribution, h)
        BY <1>4, <2>2, <2>5 DEF TotalIsFair, CallState, sum
    <2>8. OnRecord(contribution, h)
        BY <1>4, <2>3 DEF OnRecord, CallState
    <2>9. HandlerKnows(h, members, contribution)
        BY <1>4, <2>1, <2>7, <2>8 DEF HandlerKnows, Recorded, CallState
    <2> HIDE DEF h
    <2> QED  BY <1>5, <2>1, <2>6, <2>9
<1> QED  BY <1>3, <1>6, <1>7, <1>8, <1>9, <1>10 DEF CreateThrows, Fail

LEMMA AppInvStep ==
    ASSUME AppInv, TypeOK', [AppNext]_appVars
    PROVE  AppInv'
<1>1. ASSUME NEW c \in Calls, Handler(c) PROVE AppInv'
    BY <1>1, CreateKeepsInv, ReadKeepsInv DEF Handler
<1>2. ASSUME NEW c \in Calls, CreateUnacknowledged(c) PROVE AppInv'
    BY <1>2, CreateFilesWell, EndsKeepsInv DEF CreateUnacknowledged
<1>3. ASSUME NEW c \in Calls, Fail(c) PROVE AppInv'
    BY <1>3, ReadKeepsInv
<1>4. ASSUME NEW c \in Calls, NEW u \in Users, NEW amount \in Amounts, Submit(c, u, amount)
      PROVE  AppInv'
    <2> DEFINE h == [Idle EXCEPT !.pc = "membership", !.user = u, !.amount = amount]
    <2>1. Holds(c, h) /\ contribution' = contribution /\ members' = members
        BY <1>4 DEF Submit, dbVars
    <2>2. h \in CallState /\ h.pc = "membership" /\ h.row = None
        BY DEF Idle, CallState, Waits
    <2> HIDE DEF h
    <2>3. HandlerKnows(h, members, contribution)
        BY <2>2 DEF HandlerKnows, Recorded
    <2>4. RowsAreWellFiled'
        BY <2>1 DEF AppInv, RowsAreWellFiled
    <2> QED  BY <2>1, <2>2, <2>3, <2>4, HandlerStep
<1>5. ASSUME call' = call, contribution' = contribution, members \subseteq members',
             members' \subseteq Users
      PROVE  AppInv'
    <2>1. AppTypeOK' /\ RowsAreWellFiled'
        BY <1>5 DEF AppInv, AppTypeOK, RowsAreWellFiled
    <2>2. ASSUME NEW c \in Calls PROVE HandlerKnows(call[c], members', contribution)
        <3>1. call[c] \in CallState /\ HandlerKnows(call[c], members, contribution)
            BY DEF AppInv, AppTypeOK, HandlersKnow
        <3>2. contribution \subseteq Contribution /\ IsFiniteSet(contribution)
            BY DEF AppInv, AppTypeOK, TypeOK
        <3> QED  BY <1>5, <3>1, <3>2, KnowledgeLasts
    <2>3. HandlersKnow'
        BY <1>5, <2>2 DEF AppInv, HandlersKnow
    <2> QED  BY <2>1, <2>3 DEF AppInv
<1>6. members \subseteq Users
    BY DEF AppInv, AppTypeOK
<1>7. ASSUME NEW u \in Users, Join(u) PROVE AppInv'
    BY <1>5, <1>6, <1>7 DEF Join, dbVars
<1>8. ASSUME NEW s \in SettingsChoices, PatchSettings(s) PROVE AppInv'
    BY <1>5, <1>6, <1>8 DEF PatchSettings, UpdateSettings
<1>9. CASE Clock
    BY <1>5, <1>6, <1>9 DEF Clock, Tick
<1>10. CASE UNCHANGED appVars
    BY <1>5, <1>6, <1>10 DEF appVars
<1> QED  BY <1>1, <1>2, <1>3, <1>4, <1>7, <1>8, <1>9, <1>10 DEF AppNext

LEMMA AppInvHolds == AppSpec => []AppInv
<1>1. AppSpec => []TypeOK
    BY GatewayImplementsDb, TypeCorrect, PTL
<1>2. AppInv /\ TypeOK' /\ [AppNext]_appVars => AppInv'
    BY AppInvStep
<1> QED  BY <1>1, <1>2, AppInvInit, PTL DEF AppSpec

\* Every variable of the endpoint keeps its type.
THEOREM AppTypeCorrect == AppSpec => []AppTypeOK
<1>1. AppInv => AppTypeOK
    BY DEF AppInv
<1> QED  BY <1>1, AppInvHolds, PTL

\* Every row was filed by a member under a period of its own cadence.
THEOREM FilingHolds == AppSpec => []RowsAreWellFiled
<1>1. AppInv => RowsAreWellFiled
    BY DEF AppInv
<1> QED  BY <1>1, AppInvHolds, PTL

\* No receipt is ever wrong, whatever was in flight.
THEOREM ReceiptsHold == AppSpec => []ReceiptsAreTrue
<1>1. AppInv => ReceiptsAreTrue
    <2> SUFFICES ASSUME AppInv, NEW c \in Calls, call[c].pc = "receipt"
                 PROVE  /\ OnRecord(contribution, call[c])
                        /\ \A d \in Calls \ {c} : call[d].row # call[c].row
                        /\ TotalIsFair(contribution, call[c])
        BY DEF ReceiptsAreTrue
    <2>1. OnRecord(contribution, call[c]) /\ TotalIsFair(contribution, call[c])
        BY DEF AppInv, HandlersKnow, HandlerKnows, Recorded
    <2>2. call[c].row # None
        BY <2>1, NoneAssumption DEF OnRecord, AppInv, AppTypeOK, TypeOK, Contribution
    <2> QED  BY <2>1, <2>2 DEF AppInv, HandlersKnow
<1> QED  BY <1>1, AppInvHolds, PTL

(***************************************************************************)
(* The requests implement the book                                         *)
(***************************************************************************)

\* What the book says of the table.
BookOf(rows) == [u \in Users |-> [p \in KnownPeriods |-> Paid(rows, u, p)]]

\* A payment that the database takes adds its amount to one total of the book.
LEMMA CreateAdds ==
    ASSUME TypeOK, NEW row, CreateContribution(row), row.status # "rejected"
    PROVE  /\ row \in Contribution /\ row.user \in Users /\ row.period \in KnownPeriods
           /\ BookOf(contribution)[row.user][row.period] \in Nat
           /\ BookOf(contribution)'
                = [BookOf(contribution) EXCEPT ![row.user][row.period] = @ + row.amount]
<1>1. /\ row \in Contribution /\ row \notin contribution
      /\ contribution' = contribution \cup {row}
      /\ row.amount \in Nat /\ row.user \in Users /\ row.period \in KnownPeriods
    BY RowTypes DEF CreateContribution
<1>2. ASSUME NEW u \in Users, NEW p \in KnownPeriods
      PROVE  /\ Paid(contribution, u, p) \in Nat
             /\ Paid(contribution', u, p)
                  = IF u = row.user /\ p = row.period
                    THEN Paid(contribution, u, p) + row.amount
                    ELSE Paid(contribution, u, p)
    <2>1. /\ IsFiniteSet(Counted(contribution, u, p))
          /\ \A r \in Counted(contribution, u, p) : r.amount \in Nat
          /\ Paid(contribution, u, p) \in Nat
        BY CountedFinite DEF TypeOK
    <2>2. CASE u = row.user /\ p = row.period
        <3>1. /\ Counted(contribution', u, p) = Counted(contribution, u, p) \cup {row}
              /\ row \notin Counted(contribution, u, p)
            BY <1>1, <2>2 DEF Counted
        <3> QED  BY <1>1, <2>1, <2>2, <3>1, TotalAdd DEF Paid
    <2>3. CASE ~(u = row.user /\ p = row.period)
        <3>1. Counted(contribution', u, p) = Counted(contribution, u, p)
            BY <1>1, <2>3 DEF Counted
        <3> QED  BY <2>1, <2>3, <3>1 DEF Paid
    <2> QED  BY <2>2, <2>3
<1>3. ASSUME NEW u \in Users, NEW p \in KnownPeriods
      PROVE  BookOf(contribution')[u][p]
                = IF u = row.user /\ p = row.period
                  THEN BookOf(contribution)[u][p] + row.amount
                  ELSE BookOf(contribution)[u][p]
    BY <1>2 DEF BookOf
<1>4. BookOf(contribution')
         = [BookOf(contribution) EXCEPT ![row.user][row.period] = @ + row.amount]
    <2>1. /\ BookOf(contribution) \in [Users -> [KnownPeriods -> Nat]]
          /\ BookOf(contribution') \in [Users -> [KnownPeriods -> Nat]]
        BY <1>1, <1>2 DEF BookOf
    <2> DEFINE b == BookOf(contribution)
               e == BookOf(contribution')
               s == row.user
               t == row.period
               a == row.amount
    <2>2. s \in Users /\ t \in KnownPeriods /\ a \in Nat
        BY <1>1
    <2>3. \A u \in Users, p \in KnownPeriods :
             e[u][p] = IF u = s /\ p = t THEN b[u][p] + a ELSE b[u][p]
        BY <1>3
    <2> HIDE DEF b, e, s, t, a
    <2>4. b \in [Users -> [KnownPeriods -> Nat]] /\ e \in [Users -> [KnownPeriods -> Nat]]
        BY <2>1 DEF b, e
    <2>5. e[s] = [b[s] EXCEPT ![t] = b[s][t] + a]
        BY <2>2, <2>3, <2>4
    <2>6. ASSUME NEW u \in Users, u # s PROVE e[u] = b[u]
        BY <2>2, <2>3, <2>4, <2>6
    <2>7. e = [b EXCEPT ![s] = [b[s] EXCEPT ![t] = b[s][t] + a]]
        BY <2>2, <2>4, <2>5, <2>6
    <2> QED  BY <2>7 DEF b, e, s, t, a
<1>5. BookOf(contribution)' = BookOf(contribution')
    BY DEF BookOf
<1> QED  BY <1>1, <1>2, <1>4, <1>5 DEF BookOf

\* A payment the gateway makes is one the book allows.
LEMMA CreatePays ==
    ASSUME AppInv, NEW c \in Calls, call[c].pc = "create", CreateContribution(NewRow(c))
    PROVE  Book!BookNext
<1> DEFINE row == NewRow(c)
           u == row.user
           p == row.period
           total == Paid(contribution', u, p)
<1>1. TypeOK /\ row.status # "rejected" /\ row.amount = call[c].amount
    BY DEF AppInv, AppTypeOK, NewRow
<1>2. /\ row \in Contribution /\ u \in Users /\ p \in KnownPeriods
      /\ BookOf(contribution)[u][p] \in Nat
      /\ BookOf(contribution)' = [BookOf(contribution) EXCEPT ![u][p] = @ + row.amount]
    BY <1>1, CreateAdds
<1>3. p.cadence = row.cadence
    BY DEF AppInv, HandlersKnow, HandlerKnows, NewRow
<1>4. ~Lt(p, UtcPeriod(p.cadence, now))
    BY <1>3 DEF CreateContribution, Admits, Locked
<1>5. /\ total = BookOf(contribution)[u][p] + row.amount
      /\ BookOf(contribution)'[u][p] = total
      /\ total \in Nat
    BY <1>2, RowTypes DEF BookOf
<1>6. settings.dues = 0 \/ total <= settings.dues
    <2>1. settings.dues \in Nat /\ total \in Nat
        BY <1>1, <1>5 DEF TypeOK, Settings
    <2> QED  BY <1>1, <2>1 DEF CreateContribution, Admits, OverCap
<1>7. row.amount \in Nat /\ row.amount > 0
    BY <1>2, RowTypes
<1> HIDE DEF row
<1>8. Book!Pay(u, p, BookOf(contribution)'[u][p])
    <2> DEFINE book == BookOf(contribution)
    <2>1. book'[u][p] > book[u][p]
        BY <1>2, <1>5, <1>7
    <2>2. ~Book!Lt(p, Book!UtcPeriod(p.cadence, now))
        BY <1>4 DEF Book!Lt, Book!UtcPeriod, Book!ShapeRank, Lt, UtcPeriod, ShapeRank
    <2>3. settings.dues = 0 \/ book'[u][p] <= settings.dues
        BY <1>6, <1>5
    <2>4. book' = [book EXCEPT ![u][p] = book'[u][p]]
        BY <1>2, <1>5
    <2>5. UNCHANGED <<now, settings.dues>>
        BY DEF CreateContribution
    <2> QED  BY <2>1, <2>2, <2>3, <2>4, <2>5 DEF Book!Pay, BookOf
<1> QED  BY <1>2, <1>8 DEF Book!BookNext, BookOf

\* The table starts as an empty book,
LEMMA BookInitially == AppInit => Book!BookInit
<1> SUFFICES ASSUME AppInit PROVE Book!BookInit
    OBVIOUS
<1>1. now = 0 /\ settings.dues \in Nat /\ contribution = {}
    BY DEF AppInit, Init, Settings
<1>2. ASSUME NEW u \in Users, NEW p \in KnownPeriods PROVE Paid({}, u, p) = 0
    BY TotalEmpty DEF Paid, Counted
<1> QED  BY <1>1, <1>2 DEF Book!BookInit

\* and every step of the gateway is a step of the book or leaves it alone.
LEMMA BookStep ==
    ASSUME AppInv, TypeOK', [AppNext]_appVars
    PROVE  [Book!BookNext]_(Book!bookVars)
<1>1. ASSUME settings' = settings, now' = now, contribution' = contribution
      PROVE  UNCHANGED Book!bookVars
    BY <1>1 DEF Book!bookVars
<1>2. ASSUME NEW c \in Calls, Create(c) \/ CreateUnacknowledged(c) PROVE Book!BookNext
    BY <1>2, CreatePays DEF Create, CreateUnacknowledged
<1>3. ASSUME NEW s \in SettingsChoices, PatchSettings(s) PROVE Book!BookNext
    <2>1. settings'.dues \in Nat /\ now' = now /\ contribution' = contribution
        BY <1>3 DEF PatchSettings, UpdateSettings, Settings
    <2>2. Book!ChangeDues
        BY <2>1 DEF Book!ChangeDues
    <2> QED  BY <2>2 DEF Book!BookNext
<1>4. ASSUME Clock PROVE Book!BookNext
    <2>1. Book!Pass
        BY <1>4 DEF Book!Pass, Clock, Tick
    <2> QED  BY <2>1 DEF Book!BookNext
<1>5. ASSUME NEW c \in Calls,
             \/ CheckMember(c) \/ ReadSettings(c) \/ DerivePeriod(c)
             \/ CreateThrows(c) \/ ReadDues(c) \/ ReadAmounts(c) \/ Fail(c)
      PROVE  UNCHANGED Book!bookVars
    BY <1>1, <1>5 DEF CheckMember, ReadSettings, DerivePeriod, CreateThrows, ReadDues,
                      ReadAmounts, Fail, dbVars
<1>6. ASSUME NEW c \in Calls, NEW u \in Users, NEW amount \in Amounts, Submit(c, u, amount)
      PROVE  UNCHANGED Book!bookVars
    BY <1>1, <1>6 DEF Submit, dbVars
<1>7. ASSUME NEW u \in Users, Join(u) PROVE UNCHANGED Book!bookVars
    BY <1>1, <1>7 DEF Join, dbVars
<1>8. CASE UNCHANGED appVars
    BY <1>1, <1>8 DEF appVars
<1> QED  BY <1>2, <1>3, <1>4, <1>5, <1>6, <1>7, <1>8 DEF AppNext, Handler

\* Concurrent, failing and repeated requests keep the book's promise to every
\* member.
THEOREM BookHolds == AppSpec => KeepsTheBook
<1>1. AppSpec => []TypeOK
    BY GatewayImplementsDb, TypeCorrect, PTL
<1>2. AppInv /\ TypeOK' /\ [AppNext]_appVars => [Book!BookNext]_(Book!bookVars)
    BY BookStep
<1> QED  BY <1>1, <1>2, BookInitially, AppInvHolds, PTL
         DEF AppSpec, KeepsTheBook, Book!BookSpec
=============================================================================
