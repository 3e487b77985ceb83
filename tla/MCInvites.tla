----------------------------- MODULE MCInvites -----------------------------
EXTENDS Invites, TLC

\* Sign-ins and desks are alike; sound here, as the runs that use it check no
\* liveness property.
MCSymmetry == Permutations(SignIns) \cup Permutations(Desks)
=============================================================================
