-------------------------- MODULE BacktestEvidence --------------------------
(***************************************************************************)
(* What POST /research/backtest-evidence accepts and concludes             *)
(* (api/backtest_evidence.py), and what the promotion gate later asks of   *)
(* the evidence it stored (config_promotion_gate.py,                       *)
(* tools/recalibration_guard.py).                                          *)
(*                                                                         *)
(* A report is a set of trades with the times of entry and resolution, and *)
(* the numbers computed from them: mean R is an integer in hundredths, and *)
(* whether two Wilson intervals overlap is a fact about a fold.            *)
(***************************************************************************)
EXTENDS Integers, FiniteSets, FiniteSetsExt

CONSTANTS
  MIN_OOS_TRADES, MIN_FOLD_TRAIN_TRADES, MIN_FOLD_VALIDATION_TRADES,
  MIN_WALK_FORWARD_FOLDS, MIN_PARAMETER_NEIGHBORS,
  MaxOosDegradation,    \* in hundredths; 35 in the code
  MaxNeighborDeviation, \* MAX_PARAMETER_NEIGHBOR_DEGRADATION in hundredths; 10
  MinScoreDelta, MaxPolicyOos, MaxPolicyParameter, \* PromotionPolicy
  RequirePValue         \* RECALIBRATION_MAX_P_VALUE is set

ASSUME EvidenceAssumption ==
  /\ MIN_OOS_TRADES \in Nat \ {0}
  /\ MIN_FOLD_TRAIN_TRADES \in Nat \ {0} /\ MIN_FOLD_VALIDATION_TRADES \in Nat \ {0}
  /\ MIN_WALK_FORWARD_FOLDS \in Nat \ {0} /\ MIN_PARAMETER_NEIGHBORS \in Nat \ {0}
  /\ MaxOosDegradation \in 0..100 /\ MaxNeighborDeviation \in 0..100
  /\ MinScoreDelta \in Nat /\ MaxPolicyOos \in 0..100 /\ MaxPolicyParameter \in 0..100
  /\ RequirePValue \in BOOLEAN

-----------------------------------------------------------------------------
(* TesterTrade: id, partition, fold, entry and resolution time, and whether *)
(* the outcome is win, loss or scratch rather than no fill or ambiguous.    *)

Trade == [id : Nat, part : {"train", "validation", "locked_oos"}, fold : Nat,
          enter : Nat, exit : Nat, resolved : BOOLEAN]

\* NeighborRun: its parameters, whether they are a local perturbation, whether
\* data, build and period are the candidate's and its trades inside the locked
\* window, how many trades it resolved, and their mean R.
Neighbor == [hash : Nat, near : BOOLEAN, same : BOOLEAN, trades : Nat, meanR : Int]

Report == [trades : SUBSET Trade, lockedStart : Nat, lockedEnd : Nat, end : Nat,
           overlapping : SUBSET Nat,  \* folds whose two win-rate intervals overlap
           validationR : Int, oosR : Int,
           neighbors : SUBSET Neighbor,
           studies : BOOLEAN,  \* feature, clustered-MDA and counterfactual evidence
           scope : {"ENTRY", "EXIT", "BOTH"}, scaleOut : BOOLEAN,
           pValue : {"none", "low", "high"}, score : Nat]

Part(r, part) == {t \in r.trades : t.part = part}
Holdout(r) == Part(r, "locked_oos")
FoldIds(r) == {t.fold : t \in r.trades \ Holdout(r)}
Fold(r, f, part) == {t \in Part(r, part) : t.fold = f}
Resolved(S) == {t \in S : t.resolved}
Ids(S) == {t.id : t \in S}
Entries(S) == {t.enter : t \in S}

-----------------------------------------------------------------------------
(* What the request models and the handler refuse (422)                     *)

Ordered(r) == r.lockedStart < r.lockedEnd /\ r.lockedEnd <= r.end

\* Faulty variant: only entries are held against the locked window.
WithinPeriodsByEntry(r) ==
  /\ Ordered(r)
  /\ \A t \in r.trades : t.enter <= t.exit /\ t.exit <= r.end
  /\ \A t \in Holdout(r) : r.lockedStart <= t.enter /\ t.enter < r.lockedEnd
  /\ \A t \in r.trades \ Holdout(r) : t.enter < r.lockedStart

\* Every trade inside the period, entry before resolution; pre-OOS trades end
\* before the locked window opens, and locked ones within it.
WithinPeriods(r) ==
  /\ Ordered(r)
  /\ \A t \in r.trades : t.enter <= t.exit /\ t.exit <= r.end
  /\ \A t \in Holdout(r) : r.lockedStart <= t.enter /\ t.exit < r.lockedEnd
  /\ \A t \in r.trades \ Holdout(r) : t.exit < r.lockedStart

\* No trade is used on both sides of a split.
DisjointParts(r) ==
  /\ \A f \in FoldIds(r) :
       Ids(Fold(r, f, "train")) \cap Ids(Fold(r, f, "validation")) = {}
  /\ Ids(Holdout(r)) \cap Ids(r.trades \ Holdout(r)) = {}

\* Each fold trains on trades entered before those it is validated on, and the
\* holdout is entered after every validation.
Chronological(r) ==
  \A f \in FoldIds(r) :
    LET train == Fold(r, f, "train")
        validation == Fold(r, f, "validation")
    IN  /\ train # {} /\ validation # {}
        /\ Max(Entries(train)) < Min(Entries(validation))
        /\ Max(Entries(validation)) < Min(Entries(Holdout(r)))

NeighborsAreLocal(r) ==
  /\ \A n \in r.neighbors : n.near /\ n.same
  /\ \A m, n \in r.neighbors : m.hash = n.hash => m = n

Accepted(r) ==
  /\ Holdout(r) # {}
  /\ WithinPeriods(r) /\ DisjointParts(r) /\ Chronological(r)
  /\ Cardinality(FoldIds(r)) >= MIN_WALK_FORWARD_FOLDS
  /\ Cardinality(Resolved(Holdout(r))) >= MIN_OOS_TRADES
  /\ NeighborsAreLocal(r)

-----------------------------------------------------------------------------
(* What it concludes                                                        *)

\* _fold_verdict
FoldVerdict(r, f) ==
  IF \/ Cardinality(Resolved(Fold(r, f, "train"))) < MIN_FOLD_TRAIN_TRADES
     \/ Cardinality(Resolved(Fold(r, f, "validation"))) < MIN_FOLD_VALIDATION_TRADES
  THEN "insufficient_data"
  ELSE IF f \in r.overlapping THEN "consistent" ELSE "diverged"

\* a as hundredths of b, rounded up: at most a whole bound iff the ratio is.
Percent(a, b) == (100 * a + b - 1) \div b

\* The share of the validation mean lost; all of it when that is not positive.
OosDegradation(r) ==
  IF r.validationR <= 0 THEN 100
  ELSE IF r.oosR >= r.validationR THEN 0
  ELSE Percent(r.validationR - r.oosR, r.validationR)

Distance(a, b) == IF a > b THEN a - b ELSE b - a

\* The worst neighbour counts; one that is too small or loses is the worst.
NeighborDegradation(r, n) ==
  IF n.trades >= MIN_OOS_TRADES /\ n.meanR > 0 /\ r.oosR > 0
  THEN Percent(Distance(n.meanR, r.oosR), r.oosR)
  ELSE 100

ParameterDegradation(r) ==
  IF r.neighbors = {} THEN 100
  ELSE Max({NeighborDegradation(r, n) : n \in r.neighbors})

ResearchPass(r) ==
  /\ \A f \in FoldIds(r) : FoldVerdict(r, f) = "consistent"
  /\ Cardinality(r.neighbors) >= MIN_PARAMETER_NEIGHBORS
  /\ r.studies
  /\ r.scope \in {"EXIT", "BOTH"} => r.scaleOut

QualityPass(r) ==
  /\ r.oosR > 0
  /\ OosDegradation(r) <= MaxOosDegradation
  /\ Cardinality(r.neighbors) >= MIN_PARAMETER_NEIGHBORS
  /\ ParameterDegradation(r) <= MaxNeighborDeviation

Decision(r) == IF ~ResearchPass(r) THEN "INSUFFICIENT_EVIDENCE"
               ELSE IF ~QualityPass(r) THEN "HOLD" ELSE "VALIDATED"

-----------------------------------------------------------------------------
(* The promotion gate, over the stored evaluation of a report               *)

\* _complete_evidence
Complete(r, statistics) ==
  /\ \A f \in FoldIds(r) : FoldVerdict(r, f) = "consistent"
  /\ ResearchPass(r) /\ QualityPass(r)
  /\ statistics => r.pValue # "none"

\* challenger_passes
Passes(champion, challenger) ==
  /\ challenger.score - champion.score >= MinScoreDelta
  /\ OosDegradation(challenger) <= MaxPolicyOos
  /\ ParameterDegradation(challenger) <= MaxPolicyParameter
  /\ RequirePValue => challenger.pValue = "low"

\* evaluate_challenger returns PROMOTE
Promote(champion, challenger) ==
  /\ Complete(champion, FALSE)
  /\ Complete(challenger, RequirePValue)
  /\ Passes(champion, challenger)
=============================================================================
