------------------------------- MODULE Money -------------------------------
(***************************************************************************)
(* Sums of payment rows.  Amounts are positive numbers of cents, so a sum  *)
(* of amounts is the number of cents in the rows, each cent named by its   *)
(* row and its place in it.  That is math::sum (and Iterator::sum) on      *)
(* positive amounts that stay below 2^63, without recursion.               *)
(***************************************************************************)
EXTENDS Integers, FiniteSets

Cents(rows) == UNION { {r} \X (1..r.amount) : r \in rows }

Total(rows) == Cardinality(Cents(rows))

=============================================================================
