------------------------------ MODULE Periods ------------------------------
(***************************************************************************)
(* Accounting periods (crate/common/src/domain.rs) and the clock they are  *)
(* read from.                                                              *)
(*                                                                         *)
(* The program keeps a period as the string the Display impl prints        *)
(* ("2026", "2026-05", "2026-W18") and the database compares those strings *)
(* byte by byte.  A period is here the record of what the string says, and *)
(* Lt is the byte order on the strings: the zero-padded year decides       *)
(* first; with equal years a bare year is a proper prefix of the others    *)
(* and so comes first, and a month's digit comes before a week's 'W'; the  *)
(* zero-padded index decides last.                                         *)
(***************************************************************************)
EXTENDS Integers

CONSTANTS
    MaxTime,    \* bound on the clock: the last instant of a behaviour
    Zones,      \* the time zones chrono-tz knows
    UTC,        \* the zone the database computes periods in
    Calendar    \* Calendar[z][c][t]: the c-period that contains t in zone z

Cadences == {"yearly", "monthly", "weekly"}

\* A clock that counts instants.  How far apart they are is up to Calendar.
Instants == 0..MaxTime

Period == [year: Nat, cadence: Cadences, index: Nat]

\* The byte that follows the year: none, a digit, or 'W'.
ShapeRank == [yearly |-> 0, monthly |-> 1, weekly |-> 2]

\* `p < q` on the strings of two periods.
Lt(p, q) ==
    \/ p.year < q.year
    \/ /\ p.year = q.year
       /\ ShapeRank[p.cadence] < ShapeRank[q.cadence]
    \/ /\ p.year = q.year
       /\ p.cadence = q.cadence
       /\ p.index < q.index

\* fn::current_period_for of the database: always in UTC.
UtcPeriod(c, t) == Calendar[UTC][c][t]

\* Period::current_in of the gateway: in the venture's own zone.
LocalPeriod(z, c, t) == Calendar[z][c][t]

\* A calendar gives periods of the cadence it is asked for, and UTC, which has
\* no daylight saving, never moves to an earlier period.  A local zone may:
\* nothing is assumed about how its periods follow each other.
ASSUME CalendarAssumption ==
    /\ MaxTime \in Nat
    /\ UTC \in Zones
    /\ Calendar \in [Zones -> [Cadences -> [Instants -> Period]]]
    /\ \A z \in Zones, c \in Cadences, t \in Instants : Calendar[z][c][t].cadence = c
    /\ \A c \in Cadences, s, t \in Instants :
          s <= t => ~Lt(UtcPeriod(c, t), UtcPeriod(c, s))
=============================================================================
