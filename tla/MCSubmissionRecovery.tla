------------------------ MODULE MCSubmissionRecovery ------------------------
(***************************************************************************)
(* Instances of SubmissionRecovery for TLC.                                *)
(***************************************************************************)
EXTENDS SubmissionRecovery

\* Where calls may arrive late, one decision is used up beforehand.
MCInit ==
  /\ Init
  /\ used = IF slow THEN {CHOOSE d \in Decisions : TRUE} ELSE {}

MCSpec == MCInit /\ [][Next]_vars
MCFairSpec == MCSpec /\ WF_vars(EA)

=============================================================================
