-------------------------- MODULE MCExecutionLedger --------------------------
(***************************************************************************)
(* Instances of ExecutionLedger for TLC.  The identities are model values  *)
(* that every definition treats alike, so their permutations are           *)
(* symmetries; risks and stops are numbers and are not.                    *)
(***************************************************************************)
EXTENDS ExecutionLedger, TLC

Symmetry ==
  Permutations(Portfolios) \cup Permutations(Requests)
    \cup Permutations(Orders) \cup Permutations(Positions)
    \cup Permutations(Deals) \cup Permutations(Events)

=============================================================================
