---------------------------- MODULE MCMembership ----------------------------
EXTENDS Membership, TLC

CONSTANTS u1, a1, a2, a3

OneBuyer == [a \in {a1, a2, a3} |-> u1]

Symmetry == Permutations(Calls) \cup Permutations(Charges)
=============================================================================
