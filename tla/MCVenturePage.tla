--------------------------- MODULE MCVenturePage ---------------------------
(***************************************************************************)
(* Two members, two payments, and one new month, which is a new year too.  *)
(* The owner moves the venture between monthly dues and yearly donations.  *)
(* The samples of the accumulation are all sets of up to three payments in *)
(* two months of one year and a third in the next.                         *)
(***************************************************************************)
EXTENDS VenturePage, TLC

CONSTANTS r1, r2

Yearly(y) == [year |-> y, cadence |-> "yearly", index |-> 0]
Monthly(y, m) == [year |-> y, cadence |-> "monthly", index |-> m]
Weekly(y, w) == [year |-> y, cadence |-> "weekly", index |-> w]

MCMaxTime == 2
MCZones == {"UTC"}

MCCalendar ==
    [z \in MCZones |->
       [c \in Cadences |->
          [t \in 0..MCMaxTime |->
             CASE c = "yearly"  -> Yearly(IF t < 2 THEN 2026 ELSE 2027)
               [] c = "monthly" -> IF t < 2 THEN Monthly(2026, 11 + t) ELSE Monthly(2027, 1)
               [] c = "weekly"  -> Weekly(2026, 51 + t)]]]

MCSettingsChoices ==
    {[timezone |-> "UTC", cadence |-> "monthly", dues |-> 2],
     [timezone |-> "UTC", cadence |-> "yearly", dues |-> 0]}

MCSamples ==
    {points \in SUBSET [id : 1..3, at : 0..MCMaxTime, amount : {1, 3}] :
        \A p, q \in points : p.id = q.id => p = q}

\* One file that is right, and two that the form turns away.
MCFiles ==
    {[ext |-> "pdf", mime |-> "octets", size |-> 2],
     [ext |-> "pdf", mime |-> "application/pdf", size |-> 3],
     [ext |-> "zip", mime |-> "octets", size |-> 1]}

MCSlugs == {<<"a", "b", "b">>, <<"a", "b", "b", "_">>, <<"b", "_", "a">>}
MCEmails == UNION {[1..n -> {"a", "A", "-", "+", "@"}] : n \in 0..4}
MCIds == {<<"7">>}

MCMaxMoves == [mine |-> 2, pool |-> 3, periods |-> 2, history |-> 3]

MCRowSymmetry == Permutations({r1, r2})
=============================================================================
