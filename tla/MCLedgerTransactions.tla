------------------------ MODULE MCLedgerTransactions ------------------------
(***************************************************************************)
(* An instance of LedgerTransactions for TLC: identities and sessions are  *)
(* interchangeable model values.                                           *)
(***************************************************************************)
EXTENDS LedgerTransactions, TLC

Symmetry == Permutations(Sessions) \cup Permutations(Requests)

=============================================================================
