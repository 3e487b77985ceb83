--------------------------- MODULE Contributions ---------------------------
(***************************************************************************)
(* The payment endpoint of the gateway, POST /tenants/{slug}/contributions *)
(* (crate/gateway/src/routes/contributions.rs, post_contribution), over    *)
(* the venture's database.                                                 *)
(*                                                                         *)
(* A handler is a chain of awaits; everybody else moves between any two of *)
(* them.  Each action below is one link: the statement the handler waits   *)
(* for, and what the handler does with the answer until its next await.    *)
(* The clock is read between the settings and the CREATE, on the gateway,  *)
(* so it has an action of its own.                                         *)
(***************************************************************************)
EXTENDS TenantDb

CONSTANTS
    Calls,   \* requests that may be in flight at once (a bound)
    None     \* no value

ASSUME NoneAssumption == None \notin RowIds

VARIABLES
    members,   \* emails with a membership of this venture in the control db
    call       \* call[c]: what the handler of request c holds

appVars == <<now, settings, contribution, members, call>>

\* Where a handler waits, in the order of its awaits.
Waits == {"membership", "settings", "clock", "create", "dues", "amounts"}

Idle == [pc |-> "idle", user |-> None, amount |-> 0, zone |-> None,
         cadence |-> None, period |-> None, row |-> None, dues |-> 0, paid |-> 0]

CallState ==
    [pc : {"idle", "receipt"} \cup Waits,
     user : Users \cup {None}, amount : Amounts \cup {0},
     zone : Timezones \cup {None}, cadence : Cadences \cup {None},
     period : KnownPeriods \cup {None}, row : RowIds \cup {None},
     dues : Nat, paid : Nat]

InFlight == {c \in Calls : call[c].pc \in Waits}

UsedIds == {r.id : r \in contribution}

\* The id the database mints: UUIDv7, so none that was used before.
FreshId == CHOOSE id \in RowIds : id \notin UsedIds

\* The row a handler asks the database to CREATE.  The status is the
\* schema's DEFAULT.
NewRow(c) ==
    [id |-> FreshId, user |-> call[c].user, cadence |-> call[c].cadence,
     period |-> call[c].period, amount |-> call[c].amount, status |-> "submitted"]

\* The handler of c goes on with what it holds now.
Holds(c, held) == call' = [call EXCEPT ![c] = held]

\* The handler of c ends without a receipt: with a 4xx or 5xx answer, or none.
Ends(c) == Holds(c, Idle)

dbVars == <<now, settings, contribution>>

-----------------------------------------------------------------------------

AppInit ==
    /\ Init
    /\ members \in SUBSET Users
    /\ call = [c \in Calls |-> Idle]

\* A signed-in user submits a payment; a slot whose answer was delivered, or
\* lost, is taken again, also by a client that tries the same payment again.
\* The guard on the rows is the bound on the table.
Submit(c, u, amount) ==
    /\ c \notin InFlight
    /\ Cardinality(contribution) + Cardinality(InFlight) < Cardinality(RowIds)
    /\ Holds(c, [Idle EXCEPT !.pc = "membership", !.user = u, !.amount = amount])
    /\ UNCHANGED <<dbVars, members>>

\* caller_is_member, and the check of the amount that follows it.
CheckMember(c) ==
    /\ call[c].pc = "membership"
    /\ IF call[c].user \in members /\ call[c].amount > 0
       THEN Holds(c, [call[c] EXCEPT !.pc = "settings"])
       ELSE Ends(c)
    /\ UNCHANGED <<dbVars, members>>

\* settings_for: what the request is filed under is fixed by this read.
ReadSettings(c) ==
    /\ call[c].pc = "settings"
    /\ Holds(c, [call[c] EXCEPT !.pc = "clock",
                                !.zone = settings.timezone,
                                !.cadence = settings.cadence])
    /\ UNCHANGED <<dbVars, members>>

\* Variant for the checks: the period comes from a second read of the settings.
DerivePeriodFromNewSettings(c) ==
    /\ call[c].pc = "clock"
    /\ IF settings.timezone \in Zones
       THEN Holds(c, [call[c] EXCEPT !.pc = "create",
                         !.period = LocalPeriod(settings.timezone, settings.cadence, now)])
       ELSE Ends(c)
    /\ UNCHANGED <<dbVars, members>>

\* current_period_for: a zone chrono-tz does not know is a 500.
DerivePeriod(c) ==
    /\ call[c].pc = "clock"
    /\ IF call[c].zone \in Zones
       THEN Holds(c, [call[c] EXCEPT !.pc = "create",
                         !.period = LocalPeriod(call[c].zone, call[c].cadence, now)])
       ELSE Ends(c)
    /\ UNCHANGED <<dbVars, members>>

\* add_contribution: the CREATE and the events it sets off.
Create(c) ==
    /\ call[c].pc = "create"
    /\ CreateContribution(NewRow(c))
    /\ Holds(c, [call[c] EXCEPT !.pc = "dues", !.row = FreshId, !.zone = None])
    /\ UNCHANGED members

\* Variant for the checks: only the lock's error is mapped to an answer.
CreateThrowsLocked(c) ==
    /\ call[c].pc = "create"
    /\ Locked(NewRow(c), now)
    /\ Ends(c)
    /\ UNCHANGED <<dbVars, members>>

\* An event throws: PeriodLocked and DuesCapExceeded are both answered 422.
CreateThrows(c) ==
    /\ call[c].pc = "create"
    /\ ~Admits(contribution \cup {NewRow(c)}, NewRow(c))
    /\ Ends(c)
    /\ UNCHANGED <<dbVars, members>>

\* The CREATE commits, and the connection fails before the answer is back.
CreateUnacknowledged(c) ==
    /\ call[c].pc = "create"
    /\ CreateContribution(NewRow(c))
    /\ Ends(c)
    /\ UNCHANGED members

\* period_summary reads the dues afresh ...
ReadDues(c) ==
    /\ call[c].pc = "dues"
    /\ Holds(c, [call[c] EXCEPT !.pc = "amounts", !.dues = settings.dues])
    /\ UNCHANGED <<dbVars, members>>

\* Variant for the checks: the amounts are summed for the period that is current
\* by the time they are read.
ReadAmountsOfToday(c) ==
    /\ call[c].pc = "amounts"
    /\ Holds(c, [call[c] EXCEPT !.pc = "receipt",
                     !.paid = Paid(contribution, call[c].user, UtcPeriod(call[c].cadence, now))])
    /\ UNCHANGED <<dbVars, members>>

\* Variant for the checks: the receipt's total is the rest, not clamped.
ReadAmountsAsRest(c) ==
    /\ call[c].pc = "amounts"
    /\ Holds(c, [call[c] EXCEPT !.pc = "receipt",
                     !.paid = call[c].dues - Paid(contribution, call[c].user, call[c].period)])
    /\ UNCHANGED <<dbVars, members>>

\* ... and then the payments, and the handler answers with both.
ReadAmounts(c) ==
    /\ call[c].pc = "amounts"
    /\ Holds(c, [call[c] EXCEPT !.pc = "receipt",
                     !.paid = Paid(contribution, call[c].user, call[c].period)])
    /\ UNCHANGED <<dbVars, members>>

\* Any await may fail, or the client hang up, with nothing done by it.
Fail(c) ==
    /\ call[c].pc \in Waits \ {"clock"}
    /\ Ends(c)
    /\ UNCHANGED <<dbVars, members>>

\* accept_pending_invites, create_tenant: someone joins.  Nothing removes a
\* membership.
Join(u) ==
    /\ members' = members \cup {u}
    /\ UNCHANGED <<dbVars, call>>

\* patch_settings: the MERGE sets any part of the settings; the zone is not
\* looked at.
PatchSettings(s) ==
    /\ UpdateSettings(s)
    /\ UNCHANGED <<members, call>>

Clock == Tick /\ UNCHANGED <<members, call>>

Handler(c) ==
    \/ CheckMember(c)
    \/ ReadSettings(c)
    \/ DerivePeriod(c)
    \/ Create(c)
    \/ CreateThrows(c)
    \/ ReadDues(c)
    \/ ReadAmounts(c)

AppNext ==
    \/ \E c \in Calls, u \in Users, amount \in Amounts : Submit(c, u, amount)
    \/ \E c \in Calls : Handler(c)
    \/ \E c \in Calls : CreateUnacknowledged(c)
    \/ \E c \in Calls : Fail(c)
    \/ \E u \in Users : Join(u)
    \/ \E s \in SettingsChoices : PatchSettings(s)
    \/ Clock

AppSpec == AppInit /\ [][AppNext]_appVars

\* The runtime polls every handler whose await is over.
FairAppSpec == AppSpec /\ \A c \in Calls : WF_appVars(Handler(c))

-----------------------------------------------------------------------------
(***************************************************************************)
(* Properties                                                              *)
(***************************************************************************)

\* Every variable has its type.
AppTypeOK ==
    /\ TypeOK
    /\ members \subseteq Users
    /\ call \in [Calls -> CallState]

\* Whatever requests were in flight when a row was written, it is the payment
\* of a member, and the period it is filed under is one of its own cadence:
\* both came from one read of the settings, however often the owner changed
\* them meanwhile.  The cap and the lock rely on the second part, because they
\* read the period with the row's cadence and sum by the period alone.
RowsAreWellFiled ==
    \A r \in contribution : r.user \in members /\ r.period.cadence = r.cadence

\* One of the rows is the payment that h is about, and it counts.
OnRecord(rows, h) ==
    \E r \in rows :
        /\ r.id = h.row
        /\ r.user = h.user
        /\ r.period = h.period
        /\ r.amount = h.amount
        /\ r.status # "rejected"

\* The total of h counts its own payment, and nothing that is not in the rows.
TotalIsFair(rows, h) == h.amount <= h.paid /\ h.paid <= Paid(rows, h.user, h.period)

\* A receipt is true when it is read, however late: the payment it
\* acknowledges is on record and acknowledged once, its total counts that
\* payment, and counts nothing that is not on record.  No handler takes a row
\* back.
ReceiptsAreTrue ==
    \A c \in Calls : call[c].pc = "receipt" =>
        /\ OnRecord(contribution, call[c])
        /\ \A d \in Calls \ {c} : call[d].row # call[c].row
        /\ TotalIsFair(contribution, call[c])

\* Why the two invariants above are kept: what a handler that holds h knows of
\* the members and the rows.  Past the membership check the caller is a member
\* and pays something; past the clock it holds a period of the cadence it read;
\* past the CREATE its row is on record, and no other handler holds that row.
Recorded == {"dues", "amounts", "receipt"}

HandlerKnows(h, joined, rows) ==
    /\ h.pc \in {"settings", "clock", "create"} \cup Recorded => h.user \in joined /\ h.amount > 0
    /\ h.pc \in {"clock", "create"} \cup Recorded => h.cadence \in Cadences
    /\ h.pc \in {"create"} \cup Recorded => h.period \in KnownPeriods /\ h.period.cadence = h.cadence
    /\ h.pc \in Recorded => OnRecord(rows, h)
    /\ h.pc = "receipt" => TotalIsFair(rows, h)
    /\ h.row # None => h.pc \in Recorded

HandlersKnow ==
    /\ \A c \in Calls : HandlerKnows(call[c], members, contribution)
    /\ \A c, d \in Calls : c # d => (call[c].row # call[d].row \/ call[c].row = None)

AppInv == AppTypeOK /\ RowsAreWellFiled /\ HandlersKnow

\* The ledger behind the requests is the book of DuesBook.
Book == INSTANCE DuesBook WITH
            Payers <- Users,
            BookPages <- KnownPeriods,
            day <- now,
            dues <- settings.dues,
            paid <- [u \in Users |-> [p \in KnownPeriods |-> Paid(contribution, u, p)]]

\* Concurrent, failing and repeated requests add up to what the book promises:
\* a member's total for a period only grows, by payments that fit the dues in
\* force at that moment, and never once the period is over in UTC.
KeepsTheBook == Book!BookSpec

\* Every request is answered or given up: each state a handler can wait in has
\* a continuation, whatever the statement it waits for returns.
EveryCallEnds == \A c \in Calls : call[c].pc \in Waits ~> call[c].pc \notin Waits

-----------------------------------------------------------------------------
(***************************************************************************)
(* What the repository says of itself and the code does not keep           *)
(***************************************************************************)

\* "remaining_cents is clamped at zero (it can never go negative - the
\* dues-cap event prevents overpayment)" (crate/ledger/src/client.rs,
\* period_summary), of a venture that asks for dues.
RemainingNeverNegative ==
    \A c \in Calls :
        (call[c].pc = "receipt" /\ call[c].dues > 0) => call[c].dues - call[c].paid >= 0

\* "The lock invariant reads `timezone` from here to compute the tenant's
\* current period" (schema, settings:current): a payment the lock turns away
\* is for a period the venture's own clock has left behind.
LockedMeansOver ==
    \A c \in Calls :
        (call[c].pc = "create" /\ Locked(NewRow(c), now)) =>
            call[c].period # LocalPeriod(call[c].zone, call[c].cadence, now)
=============================================================================
