------------------------------ MODULE TenantDb ------------------------------
(***************************************************************************)
(* The database of one venture (crate/ledger/schema/tenant/000_init.surql):*)
(* the settings singleton, the contribution table, and the events that     *)
(* guard every write to it.                                                *)
(*                                                                         *)
(* The schema is the last line of defence ("even a buggy/replayed app      *)
(* request can't slip past this"), so this module lets ANY statement reach *)
(* the table: CREATE, UPDATE and DELETE of any row with any field values   *)
(* the schema accepts.  What the gateway really sends is in Contributions. *)
(* A statement is one step: SurrealDB runs it and its events in one        *)
(* transaction, and a THROW rolls all of it back, so a refused statement   *)
(* changes nothing and is no step at all.                                  *)
(***************************************************************************)
EXTENDS Periods, Money

CONSTANTS
    Users,       \* email addresses
    RowIds,      \* record ids the contribution table can hand out (a bound)
    Amounts,     \* amounts a statement may carry
    Timezones,   \* strings settings.timezone may hold; not all are Zones
    SettingsChoices   \* what a settings statement may ask for (a bound)

ASSUME TenantDbAssumption ==
    /\ Amounts \subseteq Int
    /\ SettingsChoices \subseteq [timezone : Timezones, cadence : Cadences, dues : Int]

VARIABLES
    now,           \* the database's clock
    settings,      \* settings:current
    contribution   \* the contribution table: a set of rows with distinct ids

vars == <<now, settings, contribution>>

Statuses == {"submitted", "verified", "rejected"}

\* The periods a statement may name: those some clock shows at some time.
\* (The schema's patterns admit any period, whatever the row's cadence.)
KnownPeriods == {Calendar[z][c][t] : z \in Zones, c \in Cadences, t \in Instants}

\* The rows, and the settings, that the field ASSERTs accept.
Contribution ==
    [id : RowIds, user : Users, cadence : Cadences, period : KnownPeriods,
     amount : {a \in Amounts : a > 0}, status : Statuses]

Settings == [timezone : Timezones, cadence : Cadences, dues : Nat]

-----------------------------------------------------------------------------

\* Variant for the checks: voided rows still count.
CountedWithRejected(rows, u, p) == {r \in rows : r.user = u /\ r.period = p}

\* The rows that count towards what user u has paid for period p, of every
\* cadence, and their sum.
Counted(rows, u, p) ==
    {r \in rows : r.user = u /\ r.period = p /\ r.status # "rejected"}

Paid(rows, u, p) == Total(Counted(rows, u, p))

\* Event contribution_lock_check, and contribution_delete_lock on the row that
\* goes: the period is over in UTC, for the cadence the row itself carries.
Locked(row, t) == Lt(row.period, UtcPeriod(row.cadence, t))

\* Variant for the checks: the event sums the table as it was before the write.
OverCapBeforeWrite(rows, after, dues) ==
    /\ after.status # "rejected"
    /\ dues > 0
    /\ Paid(rows \ {after}, after.user, after.period) > dues

\* Event contribution_dues_cap, evaluated on the table AFTER the write.
OverCap(rows, after, dues) ==
    /\ after.status # "rejected"
    /\ dues > 0
    /\ Paid(rows, after.user, after.period) > dues

\* No event throws for a write that leaves `after` in the table `rows`.
Admits(rows, after) ==
    /\ ~Locked(after, now)
    /\ ~OverCap(rows, after, settings.dues)

\* Row `old` replaced by `new`.
Replaced(old, new) == (contribution \ {old}) \cup {new}

-----------------------------------------------------------------------------

Init ==
    /\ now = 0
    /\ settings \in SettingsChoices \cap Settings
    /\ contribution = {}

CreateContribution(row) ==
    /\ row \in Contribution
    /\ row.id \notin {r.id : r \in contribution}
    /\ Admits(contribution \cup {row}, row)
    /\ contribution' = contribution \cup {row}
    /\ UNCHANGED <<now, settings>>

\* Variant for the checks: the cap event fires on CREATE alone.
UpdateWithoutCap(before, after) ==
    /\ before \in contribution
    /\ after \in Contribution
    /\ after.id = before.id
    /\ ~Locked(after, now)
    /\ contribution' = Replaced(before, after)
    /\ UNCHANGED <<now, settings>>

\* Variant for the checks: the lock event looks at $before, not $after.
UpdateLocksBefore(before, after) ==
    /\ before \in contribution
    /\ after \in Contribution
    /\ after.id = before.id
    /\ ~Locked(before, now)
    /\ ~OverCap(Replaced(before, after), after, settings.dues)
    /\ contribution' = Replaced(before, after)
    /\ UNCHANGED <<now, settings>>

UpdateContribution(before, after) ==
    /\ before \in contribution
    /\ after \in Contribution
    /\ after.id = before.id
    /\ Admits(Replaced(before, after), after)
    /\ contribution' = Replaced(before, after)
    /\ UNCHANGED <<now, settings>>

DeleteContribution(before) ==
    /\ before \in contribution
    /\ ~Locked(before, now)
    /\ contribution' = contribution \ {before}
    /\ UNCHANGED <<now, settings>>

\* Variant for the checks: the settings table without its ASSERTs.
UpdateSettingsUnasserted(s) ==
    /\ settings' = s
    /\ UNCHANGED <<now, contribution>>

\* UPDATE settings:current.  Nothing looks at the payments already made.
UpdateSettings(s) ==
    /\ s \in Settings
    /\ settings' = s
    /\ UNCHANGED <<now, contribution>>

Tick ==
    /\ now < MaxTime
    /\ now' = now + 1
    /\ UNCHANGED <<settings, contribution>>

Next ==
    \/ \E row \in Contribution : CreateContribution(row)
    \/ \E before \in contribution :
          \/ \E after \in Contribution : UpdateContribution(before, after)
          \/ DeleteContribution(before)
    \/ \E s \in SettingsChoices : UpdateSettings(s)
    \/ Tick

Spec == Init /\ [][Next]_vars
-----------------------------------------------------------------------------
(***************************************************************************)
(* Properties                                                              *)
(***************************************************************************)

\* Every variable has its type, and a record id names one row.
TypeOK ==
    /\ now \in Instants
    /\ settings \in Settings
    /\ contribution \subseteq Contribution
    /\ IsFiniteSet(contribution)
    /\ \A r, s \in contribution : r.id = s.id => r = s

\* User u has more on record for p than the dues now ask.
Overpaid(u, p) == settings.dues > 0 /\ Paid(contribution, u, p) > settings.dues

\* The cap event, over every history of writes: whoever is overpaid after a
\* step got there because the owner changed the dues in that step, or was
\* overpaid already and the step took nothing in.  No payment, correction,
\* un-rejection or move of a row between members or periods does it.
NoWriteOverpays ==
    [][\A u \in Users, p \in KnownPeriods :
          Overpaid(u, p)' =>
             \/ settings'.dues # settings.dues
             \/ /\ Overpaid(u, p)
                /\ Paid(contribution, u, p)' <= Paid(contribution, u, p)]_vars

\* The lock events: what the table says of a period that is over for a cadence
\* can only shrink.  No row is added to it, none in it is amended, and none
\* comes back once it is gone.
PastOnlyShrinks ==
    [][\A r \in contribution' : Locked(r, now) => r \in contribution]_vars

\* Row r as a treasurer voids it.
Voided(r) == [r EXCEPT !.status = "rejected"]

\* "Rejected rows are excluded so a treasurer can void a wrong submission and
\* re-collect without re-tripping the cap" (schema, contribution_dues_cap):
\* in an open period every counted row can be voided, even when the dues were
\* lowered under it; and a member who was not overpaid can then pay the same
\* amount again, in full.
VoidAndRecollect ==
    \A r \in contribution :
        (r.status # "rejected" /\ ~Locked(r, now)) =>
            LET voided == Replaced(r, Voided(r))
            IN  /\ Admits(voided, Voided(r))
                /\ \A id \in RowIds \ {s.id : s \in contribution} :
                      LET again == [r EXCEPT !.id = id]
                      IN  Overpaid(r.user, r.period)
                             \/ Admits(voided \cup {again}, again)

\* What the schema's comment says of a row whose period is over: "Once
\* `period < fn::current_period_for(cadence)`, the row is immutable."
\* The events do not keep it: they look at $after alone.
RowImmutableOncePast ==
    [][\A r \in contribution : Locked(r, now) => r \in contribution']_vars
=============================================================================
