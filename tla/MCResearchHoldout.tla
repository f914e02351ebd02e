--------------------------- MODULE MCResearchHoldout ---------------------------
(***************************************************************************)
(* Either the standard commands over any export of two positions, or the   *)
(* gate with two processes over a plain export.                            *)
(***************************************************************************)
EXTENDS ResearchHoldout, TLC

Registered == [from |-> 0, lockedFrom |-> HoldoutStart, lockedTo |-> HoldoutEnd,
               to |-> Horizon]

\* One position before the holdout, the other in it.
Plain == [p \in Positions |->
  [in |-> {IF p = 1 THEN 0 ELSE HoldoutStart}, out |-> {IF p = 1 THEN 1 ELSE HoldoutEnd},
   turned |-> {}, listed |-> FALSE]]

MCInit ==
  /\ report = None
  /\ lock = [l \in Locks |-> Absent]
  /\ gate = [w \in Runners |-> Idle]
  /\ \/ /\ deals \in [Positions -> Shapes] /\ manifest \in Manifests
        /\ scored = [runs |-> MaxRuns, reads |-> [l \in Locks |-> 0]]
     \/ /\ deals = Plain /\ manifest = Registered
        /\ scored = [runs |-> 0, reads |-> [l \in Locks |-> 0]]
  /\ frozen = manifest

MCSpec == MCInit /\ [][Next]_vars

Symmetry == Permutations(Locks) \cup Permutations(Runners)
=============================================================================
