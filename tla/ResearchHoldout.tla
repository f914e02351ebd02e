--------------------------- MODULE ResearchHoldout ---------------------------
(***************************************************************************)
(* The research tools that read the deal exports of tester runs, and the   *)
(* holdout registered in docs/LOCKED_OOS_RESERVATION_*.json: the ledger    *)
(* report (position_ledger_metrics.py), the cost stress with its           *)
(* walk-forward folds (cost_stress_monte_carlo.py), the comparisons of     *)
(* variants (compare_*.py, risk_trailing_experiment.py,                    *)
(* dao_wider_stops_experiment.py) and the one-shot gate                    *)
(* (evaluate_locked_oos_once.py).                                          *)
(*                                                                         *)
(* Every deal has one unit of volume.  The exports of the variants of one  *)
(* comparison are one export here; a report is the set of positions whose  *)
(* outcomes it is computed from.                                           *)
(***************************************************************************)
EXTENDS Integers, Sequences, FiniteSets, FiniteSetsExt

CONSTANTS
  Positions,       \* position identifiers of the export
  Horizon,         \* bound: times are 0..Horizon - 1
  HoldoutStart, HoldoutEnd, MaturityEnd,  \* the registered reservation
  Folds,           \* folds asked for
  Months,          \* bound: lengths of training and test windows asked for
  Locks,           \* paths of consumption locks
  Runners,         \* processes of the gate
  MaxRuns          \* bound: runs of the gate ever started

ASSUME HoldoutAssumption ==
  /\ {HoldoutStart, HoldoutEnd, MaturityEnd, Horizon, Folds, MaxRuns} \subseteq Nat
  /\ Months \subseteq Nat \ {0}
  /\ HoldoutStart < HoldoutEnd /\ HoldoutEnd <= MaturityEnd /\ MaturityEnd <= Horizon

VARIABLES
  deals,     \* the export: per position its in, out and inout deals
  manifest,  \* the manifest file the gate is called with
  frozen,    \* the manifest whose digest the frozen configuration names
  report,    \* the report a tool has written, if any
  lock,      \* the lock files
  gate,      \* what each process of the gate is at
  scored     \* history: how often each lock's evaluation read the holdout

vars == <<deals, manifest, frozen, report, lock, gate, scored>>

-----------------------------------------------------------------------------

Times == 0..Horizon - 1

\* Context of a manifest that passes _normalize_context.
Manifests ==
  {m \in [from : Times, lockedFrom : Times, lockedTo : Times, to : 1..Horizon] :
     m.from < m.lockedFrom /\ m.lockedFrom < m.lockedTo /\ m.lockedTo <= m.to}

None == [tool |-> "none", shown |-> {}, folds |-> << >>]
Idle == [at |-> "idle"]
Absent == "absent"

Entries(p) == deals[p].in \cup deals[p].turned
OpenedAt(p) == Min(deals[p].in)
ClosedAt(p) == Max(deals[p].out)

\* reconstruct_positions: neither listed as open nor reversed, and closed in full.
Complete ==
  {p \in Positions :
     /\ ~deals[p].listed /\ deals[p].turned = {} /\ deals[p].in # {}
     /\ Cardinality(deals[p].out) = Cardinality(deals[p].in)}

\* Rows entered in a window and closed before a cut.
Within(rows, from, to, cut) ==
  {p \in rows : from <= OpenedAt(p) /\ OpenedAt(p) < to /\ ClosedAt(p) < cut}

EnteredIn(p, from, to) == \E t \in Entries(p) : from <= t /\ t < to

InHoldout(p) == EnteredIn(p, HoldoutStart, HoldoutEnd)

\* Faulty variant: training rows are chosen by their entry alone.
FoldByEntry(rows, trainFrom, testFrom, testTo) ==
  [train |-> Within(rows, trainFrom, testFrom, Horizon),
   test |-> Within(rows, testFrom, testTo, testTo)]

Fold(rows, trainFrom, testFrom, testTo) ==
  [train |-> Within(rows, trainFrom, testFrom, testFrom),
   test |-> Within(rows, testFrom, testTo, testTo)]

\* _walk_forward_folds: rolling windows, the last one cut at the end.
RollingFolds(rows, from, to, train, test) ==
  LET start(i) == from + train + (i - 1) * test
      n == Max({i \in 0..Folds : i = 0 \/ start(i) < to})
  IN  [i \in 1..n |->
         Fold(rows, start(i) - train, start(i), Min({start(i) + test, to}))]

\* _walk_forward_slices: an expanding history in equal blocks before the lock.
Slices(rows, m) ==
  LET edge(i) == m.from + ((m.lockedFrom - m.from) * i) \div (Folds + 1)
  IN  [i \in 1..Folds |-> Fold(rows, m.from, edge(i), edge(i + 1))]

\* A report depends on the export alone: one of each history is enough.
Report(tool, shown, folds) ==
  /\ report = None
  /\ report' = [tool |-> tool, shown |-> shown, folds |-> folds]
  /\ UNCHANGED <<deals, manifest, frozen, lock, gate, scored>>

-----------------------------------------------------------------------------
(* The standard commands                                                    *)

\* Faulty variant: only the first entry of a position is looked at.
LedgerReportByFirstEntry ==
  /\ \A p \in Positions : deals[p].in # {} =>
       ~(HoldoutStart <= OpenedAt(p) /\ OpenedAt(p) < HoldoutEnd)
  /\ Report("ledger", Complete, << >>)

\* reject_reserved_oos_entries: one deal in the window withholds the report.
LedgerReport ==
  /\ \A p \in Positions : ~InHoldout(p)
  /\ Report("ledger", Complete, << >>)

CostStress(from, to, train, test) ==
  /\ from < to
  /\ ~(from < HoldoutEnd /\ to > HoldoutStart)
  /\ LET rows == Within(Complete, from, to, to)
     IN  /\ rows # {}
         /\ Report("cost_stress", rows, RollingFolds(rows, from, to, train, test))

\* Rows before the locked window of a manifest.
Development(m) == Within(Complete, m.from, m.lockedFrom, m.lockedFrom)

\* The two-variant and three-variant comparisons show development rows only.
CompareVariants(m) == Report("compare", Development(m), << >>)

\* _positions of the risk experiment: reversals and over-closed positions
\* reject the export; the list of open positions is only counted.
RiskPositions(m) ==
  {p \in Positions : /\ deals[p].out # {}
                     /\ Cardinality(deals[p].out) = Cardinality(deals[p].in)
                     /\ m.from <= OpenedAt(p) /\ ClosedAt(p) < m.to}

\* Its arms are compared over the whole period, slice by slice besides.
RiskExperiment(m) ==
  /\ \A p \in Positions : /\ deals[p].turned = {} /\ deals[p].in # {}
                          /\ Cardinality(deals[p].out) <= Cardinality(deals[p].in)
  /\ Report("risk_trailing", RiskPositions(m), Slices(RiskPositions(m), m))

\* _read_deals of the wider-stops experiment: any exit closes a position.
WiderPositions == {p \in Positions : deals[p].in # {} /\ deals[p].out # {}}

WiderStopsExperiment(m) ==
  /\ \A p \in Positions : deals[p].turned = {}
  /\ \A p \in WiderPositions : ClosedAt(p) >= OpenedAt(p)
  /\ Report("wider_stops",
            {p \in WiderPositions : m.from <= OpenedAt(p) /\ ClosedAt(p) < m.to},
            << >>)

-----------------------------------------------------------------------------
(* The one-shot gate                                                        *)

\* The file may change at any time before the last run is started.
EditManifest(m) ==
  /\ scored.runs < MaxRuns
  /\ manifest' = m
  /\ UNCHANGED <<deals, frozen, report, lock, gate, scored>>

Freeze ==
  /\ scored.runs < MaxRuns
  /\ frozen' = manifest
  /\ UNCHANGED <<deals, manifest, report, lock, gate, scored>>

\* _preflight: the frozen manifest is the one on disk, its locked window the
\* registered one, its period long enough for the holdout to mature.
Preflight(w, l) ==
  /\ gate[w] = Idle /\ scored.runs < MaxRuns
  /\ manifest = frozen
  /\ manifest.lockedFrom = HoldoutStart /\ manifest.lockedTo = HoldoutEnd
  /\ manifest.to >= MaturityEnd
  /\ gate' = [gate EXCEPT ![w] = [at |-> "checked", lock |-> l, context |-> manifest]]
  /\ scored' = [scored EXCEPT !.runs = @ + 1]
  /\ UNCHANGED <<deals, manifest, frozen, report, lock>>

\* Faulty variant: an evaluation that failed may be repeated.
TakeLockAfterFailure(w) ==
  /\ gate[w].at = "checked"
  /\ LET l == gate[w].lock
     IN  IF lock[l] \in {Absent, "failed"}
         THEN /\ lock' = [lock EXCEPT ![l] = "started"]
              /\ gate' = [gate EXCEPT ![w].at = "scoring"]
         ELSE /\ gate' = [gate EXCEPT ![w] = Idle]
              /\ UNCHANGED lock
  /\ UNCHANGED <<deals, manifest, frozen, report, scored>>

\* O_CREAT and O_EXCL: whoever finds the file there gives up.
TakeLock(w) ==
  /\ gate[w].at = "checked"
  /\ LET l == gate[w].lock
     IN  IF lock[l] = Absent
         THEN /\ lock' = [lock EXCEPT ![l] = "started"]
              /\ gate' = [gate EXCEPT ![w].at = "scoring"]
         ELSE /\ gate' = [gate EXCEPT ![w] = Idle]
              /\ UNCHANGED lock
  /\ UNCHANGED <<deals, manifest, frozen, report, scored>>

\* The holdout rows of a context may mature up to the end of its period.
LockedOOS(m) == Within(Complete, m.lockedFrom, m.lockedTo, m.to)

\* compare_manifest of the trailing comparison, asked to include the holdout.
Matched(m) == Development(m) \cup LockedOOS(m)

\* The comparison reads the manifest again, the segments use the one checked.
Score(w) ==
  /\ gate[w].at = "scoring"
  /\ LET context == gate[w].context
         rows == Matched(context) \cup Matched(manifest)
     IN  \E train, test \in Months :
           gate' = [gate EXCEPT ![w] =
             [at |-> "scored", lock |-> gate[w].lock, shown |-> rows,
              folds |-> RollingFolds(Development(context), context.from,
                                     context.lockedFrom, train, test)]]
  /\ scored' = [scored EXCEPT !.reads[gate[w].lock] = @ + 1]
  /\ UNCHANGED <<deals, manifest, frozen, report, lock>>

WriteOutput(w) ==
  /\ gate[w].at = "scored"
  /\ report' = [tool |-> "gate", shown |-> gate[w].shown, folds |-> gate[w].folds]
  /\ gate' = [gate EXCEPT ![w] = [at |-> "written", lock |-> gate[w].lock]]
  /\ UNCHANGED <<deals, manifest, frozen, lock, scored>>

CloseLock(w) ==
  /\ gate[w].at = "written"
  /\ lock' = [lock EXCEPT ![gate[w].lock] = "complete"]
  /\ gate' = [gate EXCEPT ![w] = Idle]
  /\ UNCHANGED <<deals, manifest, frozen, report, scored>>

\* Any exception after the lock was taken.
Fail(w) ==
  /\ gate[w].at \in {"scoring", "scored", "written"}
  /\ lock' = [lock EXCEPT ![gate[w].lock] = "failed"]
  /\ gate' = [gate EXCEPT ![w] = Idle]
  /\ UNCHANGED <<deals, manifest, frozen, report, scored>>

\* The process is killed: the lock stays as it is.
Die(w) ==
  /\ gate[w] # Idle
  /\ gate' = [gate EXCEPT ![w] = Idle]
  /\ UNCHANGED <<deals, manifest, frozen, report, lock, scored>>

-----------------------------------------------------------------------------

\* Deals of a position as a tester exports them: nothing follows the last exit
\* of a position that was closed, and no more is closed than was opened.  The
\* exits of an open or a reversed position are looked at by no tool.
Shapes ==
  {d \in [in : SUBSET Times, out : SUBSET Times, turned : SUBSET Times, listed : BOOLEAN] :
     /\ d.in # {} /\ Cardinality(d.in) <= 2 /\ Cardinality(d.turned) <= 1
     /\ Cardinality(d.out) <= Cardinality(d.in)
     /\ \A t \in d.out \cup d.turned : Min(d.in) <= t
     /\ Cardinality(d.out) = Cardinality(d.in) => Max(d.in) <= Max(d.out)
     /\ d.listed => Cardinality(d.out) < Cardinality(d.in)
     /\ d.listed \/ d.turned # {} => Cardinality(d.in) = 1 /\ d.out = {}}

Init ==
  /\ deals \in [Positions -> Shapes]
  /\ manifest \in Manifests /\ frozen = manifest
  /\ report = None
  /\ lock = [l \in Locks |-> Absent]
  /\ gate = [w \in Runners |-> Idle]
  /\ scored = [runs |-> 0, reads |-> [l \in Locks |-> 0]]

Next ==
  \/ LedgerReport
  \/ \E m \in Manifests : CompareVariants(m) \/ RiskExperiment(m) \/ WiderStopsExperiment(m)
  \/ \E from \in Times, to \in 1..Horizon, train, test \in Months :
       CostStress(from, to, train, test)
  \/ \E m \in Manifests : EditManifest(m)
  \/ Freeze
  \/ \E w \in Runners :
       \/ \E l \in Locks : Preflight(w, l)
       \/ TakeLock(w) \/ Score(w) \/ WriteOutput(w) \/ CloseLock(w)
       \/ Fail(w) \/ Die(w)

Spec == Init /\ [][Next]_vars

-----------------------------------------------------------------------------
(* Properties                                                               *)

\* A consumption lock admits one evaluation, whatever fails, dies, is started
\* again or runs beside it (evaluate_once).
ScoredOnce == \A l \in Locks : scored.reads[l] <= 1

\* The ledger report and the cost stress never show the outcome of a position
\* with an entry in the registered holdout, by whichever of its deals.
GuardedToolsAreBlind ==
  report.tool \in {"ledger", "cost_stress"} => \A p \in report.shown : ~InHoldout(p)

\* What a fold is trained on was over before the first position it is tested
\* on was entered, and no position is tested twice.
FoldsLookBack ==
  LET folds == report.folds
  IN  /\ \A i \in DOMAIN folds : \A p \in folds[i].train, q \in folds[i].test :
           ClosedAt(p) < OpenedAt(q)
      /\ \A i, j \in DOMAIN folds : i # j => folds[i].test \cap folds[j].test = {}

=============================================================================
