----------------------------- MODULE MCTenantDb -----------------------------
(***************************************************************************)
(* A turn of the year, as the database's clock sees it: three instants     *)
(* around it, at which the ISO week, the month and the year do not change  *)
(* together (2026-12-31 and 2027-01-01 are both in 2026-W53).              *)
(***************************************************************************)
EXTENDS TenantDb, TLC

CONSTANTS r1, r2

Yearly(y) == [year |-> y, cadence |-> "yearly", index |-> 0]
Monthly(y, m) == [year |-> y, cadence |-> "monthly", index |-> m]
Weekly(y, w) == [year |-> y, cadence |-> "weekly", index |-> w]

MCMaxTime == 2
MCZones == {"UTC"}
MCCalendar ==
    [z \in MCZones |->
       [c \in Cadences |->
          [t \in 0..MCMaxTime |->
             CASE c = "yearly"  -> Yearly(IF t < 2 THEN 2026 ELSE 2027)
               [] c = "monthly" -> IF t < 2 THEN Monthly(2026, 12) ELSE Monthly(2027, 1)
               [] c = "weekly"  -> Weekly(2026, IF t < 1 THEN 52 ELSE 53)]]]

\* The events read the dues alone of the settings: one zone and one cadence
\* are enough.  The schema refuses the negative dues.
MCSettingsChoices ==
    [timezone : {"UTC"}, cadence : {"monthly"}, dues : {-1, 0, 1, 2}]

MCRowSymmetry == Permutations({r1, r2})
=============================================================================
