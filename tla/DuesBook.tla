------------------------------ MODULE DuesBook ------------------------------
(***************************************************************************)
(* What a venture's ledger promises its members, with no database and no   *)
(* requests in it: a running total per member and period, that only ever   *)
(* grows, by payments that fit the dues of the moment, and never for a     *)
(* period that is over.                                                    *)
(***************************************************************************)
EXTENDS Periods

CONSTANTS
    Payers,     \* who can pay
    BookPages   \* the periods of the book

VARIABLES
    day,    \* the time
    dues,   \* what a member owes per period; 0 asks for donations of any size
    paid    \* paid[u][p]: what u has paid for p

bookVars == <<day, dues, paid>>

BookInit ==
    /\ day = 0
    /\ dues \in Nat
    /\ paid = [u \in Payers |-> [p \in BookPages |-> 0]]

\* u pays towards p, which brings the total for p to total.
Pay(u, p, total) ==
    /\ total > paid[u][p]
    /\ ~Lt(p, UtcPeriod(p.cadence, day))
    /\ dues = 0 \/ total <= dues
    /\ paid' = [paid EXCEPT ![u][p] = total]
    /\ UNCHANGED <<day, dues>>

ChangeDues == dues' \in Nat /\ UNCHANGED <<day, paid>>

Pass == day' = day + 1 /\ UNCHANGED <<dues, paid>>

BookNext ==
    \/ \E u \in Payers, p \in BookPages : Pay(u, p, paid'[u][p])
    \/ ChangeDues
    \/ Pass

BookSpec == BookInit /\ [][BookNext]_bookVars
=============================================================================
