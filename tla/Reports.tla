------------------------------ MODULE Reports ------------------------------
(***************************************************************************)
(* What a venture tells its members of its money                           *)
(* (crate/gateway/src/routes/contributions.rs): "mine", a member's own     *)
(* payments of a period; "pool", everybody's; "periods", those with        *)
(* payments; and "history", the accumulation over the venture's life.      *)
(*                                                                         *)
(* Every report is a chain of reads with no transaction around them, and   *)
(* payments, corrections, settings and members change between any two.  An *)
(* action is one read and what the handler does until its next one.  The   *)
(* payments are those that Contributions lets into the database, here one  *)
(* step each: what its handler does before and after the CREATE is there.  *)
(***************************************************************************)
EXTENDS TenantDb, Accumulation

CONSTANTS
    Viewer,     \* the member who asks
    OthersPay,  \* amounts that come in otherwise than by the page (a bound)
    Opening,    \* the amount of the carry-forward
    Error,      \* an answer that is an error
    None        \* no value

ASSUME ReportsAssumption ==
    /\ Viewer \in Users
    /\ IsFiniteSet(Users)
    /\ Opening \in Nat
    /\ None \notin Cadences

VARIABLES
    members,     \* emails with a membership of this venture
    submitted,   \* submitted_at of a row, by its id
    carry,       \* amount_cents of carry_forward:current, or None
    reader       \* reader[q]: what the handler of report q holds

ledgerVars == <<now, settings, contribution, members, submitted, carry>>

Reports == {"mine", "pool", "periods", "history"}

Quiet == [pc |-> "idle", period |-> None, mode |-> None, zone |-> None, cadence |-> None,
          dues |-> 0, rows |-> {}, count |-> 0, answer |-> None]

\* Where a handler waits.
Reads == {"settings", "clock", "rows", "dues", "amounts", "members", "carry"}

Holds(q, held) == reader' = [reader EXCEPT ![q] = held]
Answers(q, answer) == Holds(q, [Quiet EXCEPT !.pc = "answered", !.answer = answer])

\* A payment is a point of the history.
Point(r) == [id |-> r.id, at |-> submitted[r.id], amount |-> r.amount]

Counts(rows) == {r \in rows : r.status # "rejected"}

\* The request for report q, of the period or with the bucket that was chosen.
Ask(q, chosen) ==
    [Quiet EXCEPT !.pc = "settings",
                  !.period = IF q = "pool" THEN chosen ELSE None,
                  !.mode = IF q = "history" THEN chosen ELSE None]

-----------------------------------------------------------------------------
(***************************************************************************)
(* The reports                                                             *)
(***************************************************************************)

\* settings_for.  The period is that of the request or of the moment; the
\* history needs none.
ReadSettings(q) ==
    /\ reader[q].pc = "settings"
    /\ LET held == [reader[q] EXCEPT !.dues = IF q = "pool" THEN settings.dues ELSE 0]
       IN  Holds(q, IF q = "history" \/ held.period # None
                    THEN [held EXCEPT !.pc = "rows"]
                    ELSE [held EXCEPT !.pc = "clock", !.zone = settings.timezone,
                                      !.cadence = settings.cadence])
    /\ UNCHANGED ledgerVars

\* current_period_for: a zone that chrono-tz does not know is a 500.
ReadClock(q) ==
    /\ reader[q].pc = "clock"
    /\ IF reader[q].zone \in Zones
       THEN Holds(q, [reader[q] EXCEPT !.pc = "rows", !.zone = None, !.cadence = None,
                         !.period = LocalPeriod(reader[q].zone, reader[q].cadence, now)])
       ELSE Answers(q, Error)
    /\ UNCHANGED ledgerVars

\* list_contributions: the caller's rows of the period, the rejected ones too.
ListMine ==
    /\ reader["mine"].pc = "rows"
    /\ Holds("mine", [reader["mine"] EXCEPT !.pc = "dues",
          !.rows = {r \in contribution : r.user = Viewer /\ r.period = reader["mine"].period}])
    /\ UNCHANGED ledgerVars

\* period_summary reads the settings once more ...
ReadDues ==
    /\ reader["mine"].pc = "dues"
    /\ Holds("mine", [reader["mine"] EXCEPT !.pc = "amounts", !.dues = settings.dues])
    /\ UNCHANGED ledgerVars

\* What is left to pay, clamped at zero.
Remaining(dues, paid) == IF dues > paid THEN dues - paid ELSE 0

Mine(h, paid) ==
    [period |-> h.period, rows |-> h.rows, dues |-> h.dues, paid |-> paid,
     remaining |-> Remaining(h.dues, paid)]

\* Variant for the checks: the sum does not look at the status.
SumMineWithRejected ==
    /\ reader["mine"].pc = "amounts"
    /\ Answers("mine", Mine(reader["mine"],
          Total({r \in contribution : r.user = Viewer /\ r.period = reader["mine"].period})))
    /\ UNCHANGED ledgerVars

\* Variant for the checks: the list is kept to what has been summed before.
SumMineOfList ==
    /\ reader["mine"].pc = "amounts"
    /\ Answers("mine", Mine([reader["mine"] EXCEPT !.rows =
                               {r \in contribution : r.user = Viewer /\ r.period = reader["mine"].period}],
                            Paid(reader["mine"].rows, Viewer, reader["mine"].period)))
    /\ UNCHANGED ledgerVars

\* ... and then the amounts.
SumMine ==
    /\ reader["mine"].pc = "amounts"
    /\ Answers("mine", Mine(reader["mine"], Paid(contribution, Viewer, reader["mine"].period)))
    /\ UNCHANGED ledgerVars

Payers(rows) == {r.user : r \in Counts(rows)}

\* settled_count: who has paid the dues; with no dues, who has paid at all.
Settled(rows, dues) ==
    {u \in Payers(rows) : dues > 0 => Total({r \in Counts(rows) : r.user = u}) >= dues}

\* The summary; the target is dues times count.
Pool(h) ==
    [period |-> h.period, rows |-> h.rows, dues |-> h.dues, count |-> h.count,
     paid |-> Total(Counts(h.rows)), settled |-> Cardinality(Settled(h.rows, h.dues)),
     remaining |-> Remaining(h.dues * h.count, Total(Counts(h.rows)))]

\* Variant for the checks: the members are read before the payments.
ReadPoolMembersFirst ==
    /\ UNCHANGED ledgerVars
    /\ \/ /\ reader["pool"].pc = "rows"
          /\ Holds("pool", [reader["pool"] EXCEPT !.pc = "members", !.count = Cardinality(members)])
       \/ /\ reader["pool"].pc = "members"
          /\ Answers("pool", Pool([reader["pool"] EXCEPT
                !.rows = {r \in contribution : r.period = reader["pool"].period}]))

\* list_pool_contributions, and then list_tenant_members of the control database.
ReadPool ==
    /\ UNCHANGED ledgerVars
    /\ \/ /\ reader["pool"].pc = "rows"
          /\ Holds("pool", [reader["pool"] EXCEPT !.pc = "members",
                !.rows = {r \in contribution : r.period = reader["pool"].period}])
       \/ /\ reader["pool"].pc = "members"
          /\ Answers("pool", Pool([reader["pool"] EXCEPT !.count = Cardinality(members)]))

\* list_active_periods; the current period is offered even without a payment.
ListPeriods ==
    /\ reader["periods"].pc = "rows"
    /\ Answers("periods", [current |-> reader["periods"].period,
                           offered |-> {r.period : r \in contribution} \cup {reader["periods"].period}])
    /\ UNCHANGED ledgerVars

\* accumulation_points.
ListPoints ==
    /\ reader["history"].pc = "rows"
    /\ Holds("history", [reader["history"] EXCEPT !.pc = "carry", !.rows = Counts(contribution)])
    /\ UNCHANGED ledgerVars

History(points, mode, seed) ==
    [seed |-> seed, rows |-> points, series |-> BucketSeries(points, mode, IF seed = None THEN 0 ELSE seed)]

\* get_carry_forward, and the buckets, for which the clock is read.
ReadCarry ==
    /\ reader["history"].pc = "carry"
    /\ LET points == {Point(r) : r \in reader["history"].rows}
           mode == IF reader["history"].mode # None THEN reader["history"].mode
                   ELSE DecideBucket(points, now)
       IN  Answers("history", History(points, mode, carry))
    /\ UNCHANGED ledgerVars

\* A read fails: a 500, or no answer.
Fail(q) ==
    /\ reader[q].pc \in Reads
    /\ Answers(q, Error)
    /\ UNCHANGED ledgerVars

ReportStep ==
    \/ \E q \in Reports : ReadSettings(q) \/ ReadClock(q)
    \/ ListMine \/ ReadDues \/ SumMine
    \/ ReadPool
    \/ ListPeriods
    \/ ListPoints \/ ReadCarry

-----------------------------------------------------------------------------
(***************************************************************************)
(* Everybody else                                                          *)
(***************************************************************************)

ReportsInit ==
    /\ Init
    /\ members = {Viewer}
    /\ submitted = [id \in RowIds |-> 0]
    /\ carry = None
    /\ reader = [q \in Reports |-> Quiet]

UsedIds == {r.id : r \in contribution}

\* The payments that post_contribution may file now: in a period that was the
\* venture's when the handler read its settings and the clock; the id is new.
Payments(u, amount) ==
    {[id |-> id, user |-> u, cadence |-> s.cadence, amount |-> amount, status |-> "submitted",
      period |-> LocalPeriod(s.timezone, s.cadence, t)] :
        id \in RowIds \ UsedIds, s \in {s \in SettingsChoices : s.timezone \in Zones}, t \in 0..now}

\* add_contribution on behalf of a member, with an amount that was checked.
Record(row) ==
    /\ row.user \in members
    /\ CreateContribution(row)
    /\ submitted' = [submitted EXCEPT ![row.id] = now]
    /\ UNCHANGED <<members, carry>>

OtherPays(u, amount) ==
    /\ \E row \in Payments(u, amount) : Record(row)
    /\ UNCHANGED reader

\* A treasurer voids a payment; no endpoint does, the schema lets them.
Void(r) ==
    /\ UpdateContribution(r, Voided(r))
    /\ UNCHANGED <<members, submitted, carry, reader>>

PatchSettings(s) ==
    /\ s # settings
    /\ UpdateSettings(s)
    /\ UNCHANGED <<members, submitted, carry, reader>>

\* accept_pending_invites.
Join(u) ==
    /\ u \notin members
    /\ members' = members \cup {u}
    /\ UNCHANGED <<now, settings, contribution, submitted, carry, reader>>

\* set_carry_forward, once.
SeedCarry ==
    /\ carry = None
    /\ carry' = Opening
    /\ UNCHANGED <<now, settings, contribution, members, submitted, reader>>

Clock == Tick /\ UNCHANGED <<members, submitted, carry, reader>>

WorldStep ==
    \/ \E u \in Users, amount \in OthersPay : OtherPays(u, amount)
    \/ \E r \in Counts(contribution) : Void(r)
    \/ \E s \in SettingsChoices : PatchSettings(s)
    \/ \E u \in Users : Join(u)
    \/ SeedCarry
    \/ Clock

-----------------------------------------------------------------------------
(***************************************************************************)
(* Properties                                                              *)
(***************************************************************************)

Rows == SUBSET Contribution
MineAnswers == [period : KnownPeriods, rows : Rows, dues : Nat, paid : Nat, remaining : Nat]
PoolAnswers ==
    [period : KnownPeriods, rows : Rows, dues : Nat, count : Nat, paid : Nat, settled : Nat, remaining : Nat]
PeriodsAnswers == [current : KnownPeriods, offered : SUBSET KnownPeriods]
SeriesEntry == [bucket : KnownPeriods, cents : Nat, total : Nat]
HistoryAnswers ==
    [seed : {Opening, None}, rows : SUBSET [id : RowIds, at : Instants, amount : Nat],
     series : Seq(SeriesEntry)]

AnswersOf ==
    [mine |-> MineAnswers, pool |-> PoolAnswers, periods |-> PeriodsAnswers, history |-> HistoryAnswers]

ReaderState(q) ==
    [pc : {"idle", "answered"} \cup Reads,
     period : KnownPeriods \cup {None}, mode : {"yearly", "monthly", None},
     zone : Timezones \cup {None}, cadence : Cadences \cup {None},
     dues : Nat, rows : Rows, count : Nat, answer : AnswersOf[q] \cup {Error, None}]

\* Every variable has its type; what is in the database is what Contributions
\* lets in.
ReportsTypeOK ==
    /\ TypeOK
    /\ members \subseteq Users
    /\ \A r \in contribution : r.user \in members /\ r.period.cadence = r.cadence
    /\ submitted \in [RowIds -> Instants]
    /\ carry \in {Opening, None}
    /\ \A q \in Reports : reader[q] \in ReaderState(q)
=============================================================================
