----------------------------- MODULE MCCalibration -----------------------------
(***************************************************************************)
(* Calibration with three outcomes of one weight version, the second of    *)
(* another regime, each better than the one before.                        *)
(***************************************************************************)
EXTENDS Calibration, TLC

MCVersions == [s \in Signals |-> "v1"]
MCRegimes == [s \in Signals |-> IF s = 2 THEN "chop" ELSE "trend"]
MCGrades == [s \in Signals |-> [m \in Metrics |-> s]]

\* Reached by deliveries of Full that stored the outcomes in S.
Stored(S) == [s \in Signals |-> IF s \in S THEN Applied(Blank, "PARITY_OK", Full) ELSE NoOutcome]

\* One delivery of the second and third outcome after the first is stored, and
\* all the cycles; or one outcome that may precede its signal and is delivered
\* again, and a single cycle.
MCInit ==
  /\ time = 0
  /\ cycles = << >> /\ cards = << >>
  /\ work = [w \in Workers |-> Idle]
  /\ \/ /\ source = [s \in Signals |-> "PARITY_OK"]
        /\ outcome = Stored({1})
        /\ told = [proven |-> {1}, started |-> 0,
                   sent |-> [s \in Signals |-> IF s = 1 THEN MaxSent ELSE MaxSent - 1]]
     \/ /\ source = [s \in Signals |-> "absent"]
        /\ outcome = Stored({})
        /\ told = [proven |-> {}, started |-> MaxCycles - 1,
                   sent |-> [s \in Signals |-> IF s = 1 THEN 0 ELSE MaxSent]]

MCSpec == MCInit /\ [][Next]_vars

Symmetry == Permutations(Workers)
=============================================================================
