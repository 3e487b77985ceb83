-------------------------- MODULE MCContributions --------------------------
(***************************************************************************)
(* Three instants around a new year, in UTC and in a zone behind it, which *)
(* is still in the old month at instant 1.  The owner moves the venture    *)
(* between three settings: lower dues with a zone nobody knows, and another*)
(* cadence and zone without dues.                                          *)
(***************************************************************************)
EXTENDS Contributions

Yearly(y) == [year |-> y, cadence |-> "yearly", index |-> 0]
Monthly(y, m) == [year |-> y, cadence |-> "monthly", index |-> m]
Weekly(y, w) == [year |-> y, cadence |-> "weekly", index |-> w]

MCMaxTime == 2
MCZones == {"UTC", "West"}
MCTimezones == MCZones \cup {"Nowhere"}

\* What a clock shows once it has passed the new year or not.
MCPeriod(c, passed) ==
    CASE c = "yearly"  -> Yearly(IF passed THEN 2027 ELSE 2026)
      [] c = "monthly" -> IF passed THEN Monthly(2027, 1) ELSE Monthly(2026, 12)
      [] c = "weekly"  -> Weekly(2026, 53)

MCCalendar ==
    [z \in MCZones |->
       [c \in Cadences |->
          [t \in 0..MCMaxTime |-> MCPeriod(c, IF z = "UTC" THEN t >= 1 ELSE t >= 2)]]]

MCSettingsChoices ==
    {[timezone |-> "West", cadence |-> "monthly", dues |-> 2],
     [timezone |-> "Nowhere", cadence |-> "monthly", dues |-> 1],
     [timezone |-> "UTC", cadence |-> "weekly", dues |-> 0]}
=============================================================================
