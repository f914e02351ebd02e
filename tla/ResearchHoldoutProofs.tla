------------------------- MODULE ResearchHoldoutProofs -------------------------
(***************************************************************************)
(* The one-shot gate and the folds of ResearchHoldout, for any exports,    *)
(* locks, processes and reservation.                                       *)
(***************************************************************************)
EXTENDS ResearchHoldout, FiniteSetTheorems, WellFoundedInduction, TLAPS

Holding == {"scoring", "scored", "written"}

(***************************************************************************)
(* A process of the gate that is past its preflight names a lock, and      *)
(* carries the context it checked until it has scored.                     *)
(***************************************************************************)
GateTyped ==
  /\ DOMAIN gate = Runners
  /\ \A w \in Runners :
       /\ gate[w].at \in {"idle", "checked"} \cup Holding
       /\ gate[w].at = "idle" => gate[w] = Idle
       /\ gate[w].at # "idle" => gate[w].lock \in Locks
       /\ gate[w].at \in {"checked", "scoring"} =>
            gate[w] \in [at : {"checked", "scoring"}, lock : Locks, context : Manifests]

LocksTyped ==
  /\ lock \in [Locks -> {Absent, "started", "complete", "failed"}]
  /\ scored \in [runs : Nat, reads : [Locks -> Nat]]
  /\ manifest \in Manifests

(***************************************************************************)
(* The strengthening of ScoredOnce.  While the lock file is absent nobody  *)
(* has used it; whoever is about to score holds a lock not yet read, alone.*)
(***************************************************************************)
LockIsHeld ==
  /\ \A l \in Locks : lock[l] = Absent =>
       /\ scored.reads[l] = 0
       /\ \A w \in Runners : gate[w].at \in Holding => gate[w].lock # l
  /\ \A w \in Runners : gate[w].at = "scoring" => scored.reads[gate[w].lock] = 0
  /\ \A v, w \in Runners :
       gate[v].at = "scoring" /\ gate[w].at = "scoring" /\ v # w
         => gate[v].lock # gate[w].lock

GateInv == GateTyped /\ LocksTyped /\ LockIsHeld /\ ScoredOnce

-----------------------------------------------------------------------------

LEMMA GateInit == Init => GateInv
<1> SUFFICES ASSUME Init PROVE GateInv
  OBVIOUS
<1>1. manifest \in Manifests /\ MaxRuns \in Nat
  BY HoldoutAssumption DEF Init
<1> QED
  BY <1>1 DEF Init, GateInv, GateTyped, LocksTyped, LockIsHeld, ScoredOnce, Idle, Absent, Holding

(***************************************************************************)
(* A process that leaves the gate, or moves on without taking a lock or    *)
(* scoring, disturbs nothing as long as no lock file is taken away.        *)
(***************************************************************************)
LEMMA Moves ==
  ASSUME GateInv, NEW w \in Runners, gate[w].at \in Holding, NEW g,
         g = Idle \/ (g.at \in {"scored", "written"} /\ g.lock = gate[w].lock),
         gate' = [gate EXCEPT ![w] = g],
         NEW s \in {"complete", "failed"},
         lock' = lock \/ lock' = [lock EXCEPT ![gate[w].lock] = s],
         UNCHANGED <<scored, manifest>>
  PROVE  GateInv'
<1> USE DEF Holding, Absent
<1>1. gate[w].lock \in Locks /\ Idle.at = "idle"
  BY DEF GateInv, GateTyped, Idle
<1>2. GateTyped'
  BY <1>1 DEF GateInv, GateTyped
<1>3. LocksTyped'
  BY <1>1 DEF GateInv, LocksTyped
<1>4. \A l \in Locks : lock'[l] = Absent => lock[l] = Absent
  BY <1>1 DEF GateInv, LocksTyped
<1>5. \A v \in Runners : \/ v # w /\ gate'[v] = gate[v]
                         \/ v = w /\ gate'[v] = g
  BY DEF GateInv, GateTyped
<1>6. LockIsHeld'
  BY <1>1, <1>4, <1>5 DEF GateInv, LockIsHeld
<1>7. ScoredOnce'
  BY DEF GateInv, ScoredOnce
<1> QED BY <1>2, <1>3, <1>6, <1>7 DEF GateInv

LEMMA GateStep == GateInv /\ [Next]_vars => GateInv'
<1> SUFFICES ASSUME GateInv, [Next]_vars PROVE GateInv'
  OBVIOUS
<1> USE DEF Holding, Absent
\* Everything but the gate's own steps leaves its state alone.
<1>1. ASSUME UNCHANGED <<lock, gate, scored>>, manifest' \in Manifests
      PROVE  GateInv'
  BY <1>1 DEF GateInv, GateTyped, LocksTyped, LockIsHeld, ScoredOnce
<1>2. ASSUME NEW t, NEW shown, NEW folds, Report(t, shown, folds)
      PROVE  GateInv'
  BY <1>2, <1>1 DEF Report, GateInv, LocksTyped
<1>3. ASSUME NEW m \in Manifests, EditManifest(m)
      PROVE  GateInv'
  BY <1>3, <1>1 DEF EditManifest
<1>4. CASE Freeze
  BY <1>4, <1>1 DEF Freeze, GateInv, LocksTyped
<1>5. ASSUME NEW w \in Runners, NEW l \in Locks, Preflight(w, l)
      PROVE  GateInv'
  <2>1. gate' = [gate EXCEPT ![w] = [at |-> "checked", lock |-> l, context |-> manifest]]
        /\ scored'.reads = scored.reads /\ scored' \in [runs : Nat, reads : [Locks -> Nat]]
        /\ UNCHANGED <<lock, manifest>> /\ manifest \in Manifests
    BY <1>5 DEF Preflight, GateInv, LocksTyped
  <2>2. \A v \in Runners : \/ v # w /\ gate'[v] = gate[v]
                           \/ v = w /\ gate'[v].at = "checked" /\ gate'[v].lock = l
                              /\ gate'[v] \in [at : {"checked", "scoring"}, lock : Locks,
                                               context : Manifests]
    BY <2>1 DEF GateInv, GateTyped
  <2>3. GateTyped' /\ LocksTyped'
    BY <2>1, <2>2 DEF GateInv, GateTyped, LocksTyped
  <2>4. LockIsHeld' /\ ScoredOnce'
    BY <2>1, <2>2 DEF GateInv, LockIsHeld, ScoredOnce
  <2> QED BY <2>3, <2>4 DEF GateInv
<1>6. ASSUME NEW w \in Runners, TakeLock(w)
      PROVE  GateInv'
  <2> DEFINE l == gate[w].lock
  <2>1. l \in Locks /\ gate[w] \in [at : {"checked", "scoring"}, lock : Locks,
                                    context : Manifests]
        /\ gate[w].at = "checked" /\ UNCHANGED <<scored, manifest>>
    BY <1>6 DEF TakeLock, GateInv, GateTyped
  <2>2. CASE lock[l] = Absent
    <3>1. lock' = [lock EXCEPT ![l] = "started"]
          /\ gate' = [gate EXCEPT ![w].at = "scoring"]
      BY <1>6, <2>2 DEF TakeLock
    <3>2. gate'[w].at = "scoring" /\ gate'[w].lock = l
          /\ gate'[w] \in [at : {"checked", "scoring"}, lock : Locks, context : Manifests]
      BY <3>1, <2>1 DEF GateInv, GateTyped
    <3>3. \A v \in Runners : v # w => gate'[v] = gate[v]
      BY <3>1 DEF GateInv, GateTyped
    <3>4. \A k \in Locks : lock'[k] = IF k = l THEN "started" ELSE lock[k]
      BY <3>1, <2>1 DEF GateInv, LocksTyped
    <3>5. GateTyped' /\ LocksTyped'
      BY <3>1, <3>2, <3>3, <2>1 DEF GateInv, GateTyped, LocksTyped
    <3>6. LockIsHeld' /\ ScoredOnce'
      BY <2>1, <2>2, <3>2, <3>3, <3>4 DEF GateInv, LockIsHeld, ScoredOnce
    <3> QED BY <3>5, <3>6 DEF GateInv
  <2>3. CASE lock[l] # Absent
    <3>1. gate' = [gate EXCEPT ![w] = Idle] /\ UNCHANGED lock /\ Idle.at = "idle"
      BY <1>6, <2>3 DEF TakeLock, Idle
    <3>2. GateTyped' /\ LocksTyped'
      BY <3>1, <2>1 DEF GateInv, GateTyped, LocksTyped
    <3>3. LockIsHeld' /\ ScoredOnce'
      BY <3>1, <2>1 DEF GateInv, GateTyped, LockIsHeld, ScoredOnce
    <3> QED BY <3>2, <3>3 DEF GateInv
  <2> QED BY <2>2, <2>3
<1>7. ASSUME NEW w \in Runners, Score(w)
      PROVE  GateInv'
  <2> DEFINE l == gate[w].lock
  <2>1. PICK g : gate' = [gate EXCEPT ![w] = g] /\ g.at = "scored" /\ g.lock = l
    BY <1>7 DEF Score
  <2>2. l \in Locks /\ gate[w].at = "scoring" /\ UNCHANGED <<lock, manifest>>
        /\ scored' = [scored EXCEPT !.reads[l] = @ + 1]
    BY <1>7 DEF Score, GateInv, GateTyped
  <2>3. scored' \in [runs : Nat, reads : [Locks -> Nat]]
        /\ \A k \in Locks : scored'.reads[k] = scored.reads[k] + (IF k = l THEN 1 ELSE 0)
    BY <2>2 DEF GateInv, LocksTyped
  <2>4. \A v \in Runners : \/ v # w /\ gate'[v] = gate[v]
                           \/ v = w /\ gate'[v] = g
    BY <2>1 DEF GateInv, GateTyped
  <2>5. scored.reads[l] = 0 /\ lock[l] # Absent
    BY <2>2 DEF GateInv, LockIsHeld
  <2>6. GateTyped' /\ LocksTyped'
    BY <2>1, <2>2, <2>3, <2>4 DEF GateInv, GateTyped, LocksTyped
  <2>7. \A k \in Locks : k # l => scored'.reads[k] = scored.reads[k]
    BY <2>3 DEF GateInv, LocksTyped
  <2>8. LockIsHeld'
    BY <2>1, <2>2, <2>4, <2>5, <2>7 DEF GateInv, LockIsHeld, GateTyped
  <2>9. ScoredOnce'
    BY <2>3, <2>5, <2>7 DEF GateInv, ScoredOnce
  <2> QED BY <2>6, <2>8, <2>9 DEF GateInv
<1>8. ASSUME NEW w \in Runners, WriteOutput(w) \/ CloseLock(w) \/ Fail(w)
      PROVE  GateInv'
  BY <1>8, Moves DEF WriteOutput, CloseLock, Fail
<1>9. ASSUME NEW w \in Runners, Die(w)
      PROVE  GateInv'
  <2>1. gate' = [gate EXCEPT ![w] = Idle] /\ Idle.at = "idle"
        /\ UNCHANGED <<lock, scored, manifest>>
    BY <1>9 DEF Die, Idle
  <2>2. GateTyped' /\ LocksTyped'
    BY <2>1 DEF GateInv, GateTyped, LocksTyped
  <2>3. LockIsHeld' /\ ScoredOnce'
    BY <2>1 DEF GateInv, GateTyped, LockIsHeld, ScoredOnce
  <2> QED BY <2>2, <2>3 DEF GateInv
<1>10. CASE UNCHANGED vars
  BY <1>10, <1>1 DEF vars, GateInv, LocksTyped
<1> QED
  BY <1>2, <1>3, <1>4, <1>5, <1>6, <1>7, <1>8, <1>9, <1>10
  DEF Next, LedgerReport, CostStress, CompareVariants, RiskExperiment, WiderStopsExperiment

(***************************************************************************)
(* evaluate_once: whatever fails, dies, is started again or runs beside    *)
(* it, the holdout is read at most once for a consumption lock.            *)
(***************************************************************************)
THEOREM OneEvaluationPerLock == Spec => []ScoredOnce
<1>1. GateInv => ScoredOnce
  BY DEF GateInv
<1> QED BY <1>1, GateInit, GateStep, PTL DEF Spec

-----------------------------------------------------------------------------
(***************************************************************************)
(* Least and greatest elements of sets of times.                           *)
(***************************************************************************)
LessThan == {pair \in Nat \X Nat : pair[1] < pair[2]}

LEMMA LessThanIsWellFounded == IsWellFoundedOn(LessThan, Nat)
BY NatLessThanWellFounded DEF OpToRel, LessThan

LEMMA MinOfNaturals ==
  ASSUME NEW S, S \subseteq Nat, S # {}
  PROVE  Min(S) \in S /\ \A x \in S : Min(S) <= x
<1>1. PICK m \in S : \A y \in S : ~ (<<y, m>> \in LessThan)
  BY LessThanIsWellFounded, WFMin
<1>2. ASSUME NEW y \in S PROVE m <= y
  <2>1. <<y, m>> \in Nat \X Nat /\ <<y, m>>[1] = y /\ <<y, m>>[2] = m
    OBVIOUS
  <2>2. ~(y < m)
    BY <1>1, <2>1 DEF LessThan
  <2> QED BY <2>1, <2>2
<1> QED BY <1>2 DEF Min

LEMMA MaxOfNaturals ==
  ASSUME NEW n \in Nat, NEW S, S \subseteq 0..n, S # {}
  PROVE  Max(S) \in S /\ \A x \in S : x <= Max(S)
<1> DEFINE Bounds == {k \in Nat : \A x \in S : x <= k}
           m == Min(Bounds)
<1>1. n \in Bounds /\ Bounds \subseteq Nat
  OBVIOUS
<1>2. m \in Bounds /\ \A k \in Bounds : m <= k
  <2> HIDE DEF Bounds
  <2> QED BY <1>1, MinOfNaturals DEF m
<1> HIDE DEF m
<1>3. m \in Nat /\ \A x \in S : x <= m /\ x \in Nat
  BY <1>2
<1>4. m \in S
  <2> SUFFICES ASSUME m \notin S PROVE FALSE
    OBVIOUS
  <2>1. \A x \in S : x <= m - 1 /\ 0 <= m - 1
    BY <1>3
  <2>2. PICK x \in S : 0 <= m - 1
    BY <2>1
  <2>3. m - 1 \in Nat
    BY <2>2, <1>3
  <2>4. m - 1 \in Bounds
    BY <2>1, <2>3
  <2> QED BY <1>2, <2>4, <1>3
<1> QED BY <1>3, <1>4 DEF Max

LEMMA QuotientsAreOrdered ==
  ASSUME NEW a \in Nat, NEW b \in Nat, NEW k \in Nat \ {0}, a <= b
  PROVE  a \div k \in Nat /\ b \div k \in Nat /\ a \div k <= b \div k
<1> DEFINE c == a \div k
           d == b \div k
<1>1. /\ c \in Nat /\ a % k \in 0..(k - 1) /\ a = k * c + (a % k)
      /\ d \in Nat /\ b % k \in 0..(k - 1) /\ b = k * d + (b % k)
  OBVIOUS
<1> HIDE DEF c, d
<1>2. ASSUME c > d PROVE FALSE
  <2>1. c >= d + 1
    BY <1>1, <1>2
  <2>2. k * c >= k * (d + 1)
    BY <1>1, <2>1
  <2>3. k * (d + 1) = k * d + k
    BY <1>1
  <2> QED BY <1>1, <2>2, <2>3
<1> QED BY <1>1, <1>2 DEF c, d

-----------------------------------------------------------------------------
(***************************************************************************)
(* The export never changes, and is one a strategy tester writes.          *)
(***************************************************************************)
DealsTyped == deals \in [Positions -> Shapes]

LEMMA PositionTimes ==
  ASSUME DealsTyped, NEW p \in Positions
  PROVE  /\ OpenedAt(p) \in Nat /\ deals[p].in # {}
         /\ \A t \in deals[p].in : t \in Nat /\ OpenedAt(p) <= t
         /\ deals[p].out # {} => ClosedAt(p) \in Nat
         /\ Cardinality(deals[p].out) = Cardinality(deals[p].in) =>
              /\ deals[p].out # {}
              /\ \A t \in deals[p].in : t <= ClosedAt(p)
<1> DEFINE d == deals[p]
<1>1. /\ d.in \subseteq Times /\ d.out \subseteq Times /\ d.in # {}
      /\ Cardinality(d.out) = Cardinality(d.in) => Max(d.in) <= Max(d.out)
  BY DEF DealsTyped, Shapes
<1> HIDE DEF d
<1>2. Horizon \in Nat \ {0}
  BY HoldoutAssumption
<1>3. Times \subseteq Nat /\ Times \subseteq 0..Horizon
  BY <1>2 DEF Times
<1>4. Min(d.in) \in Nat /\ \A t \in d.in : t \in Nat /\ Min(d.in) <= t
  BY <1>1, <1>3, MinOfNaturals
<1>5. \A t \in d.in : t <= Max(d.in)
  BY <1>1, <1>2, <1>3, MaxOfNaturals
<1>6. Max(d.in) \in Nat
  BY <1>1, <1>2, <1>3, MaxOfNaturals
<1>7. d.out # {} => Max(d.out) \in Nat
  BY <1>1, <1>2, <1>3, MaxOfNaturals
<1>8. Cardinality(d.out) = Cardinality(d.in) => d.out # {}
  <2>1. IsFiniteSet(0..Horizon)
    BY <1>2, FS_Interval
  <2>2. IsFiniteSet(d.in)
    BY <1>1, <1>3, <2>1, FS_Subset
  <2> QED BY <1>1, <2>2, FS_EmptySet
<1>9. Cardinality(d.out) = Cardinality(d.in) => \A t \in d.in : t <= Max(d.out)
  BY <1>1, <1>4, <1>5, <1>6, <1>7, <1>8
<1> QED BY <1>1, <1>4, <1>7, <1>8, <1>9 DEF OpenedAt, ClosedAt, d

-------------------------------------------------------------------------

LEMMA CompleteTimes ==
  ASSUME DealsTyped, NEW p \in Complete
  PROVE  /\ p \in Positions /\ deals[p].turned = {}
         /\ OpenedAt(p) \in Nat /\ ClosedAt(p) \in Nat
         /\ \A t \in Entries(p) : t \in Nat /\ OpenedAt(p) <= t /\ t <= ClosedAt(p)
<1>1. /\ p \in Positions /\ deals[p].turned = {}
      /\ Cardinality(deals[p].out) = Cardinality(deals[p].in)
  BY DEF Complete
<1>2. Entries(p) = deals[p].in
  BY <1>1 DEF Entries
<1> QED BY <1>1, <1>2, PositionTimes

-----------------------------------------------------------------------------
(***************************************************************************)
(* What a report may not show.                                             *)
(***************************************************************************)
ReportInv == DealsTyped /\ GuardedToolsAreBlind

LEMMA ReportInit == Init => ReportInv
BY DEF Init, ReportInv, DealsTyped, GuardedToolsAreBlind, None

\* A window before or after the reservation holds no position of it.
LEMMA WindowsAreBlind ==
  ASSUME DealsTyped, NEW from \in Times, NEW to \in 1..Horizon,
         ~(from < HoldoutEnd /\ to > HoldoutStart),
         NEW p \in Within(Complete, from, to, to)
  PROVE  ~InHoldout(p)
<1> SUFFICES ASSUME NEW t \in Entries(p), HoldoutStart <= t, t < HoldoutEnd
             PROVE FALSE
  BY DEF InHoldout, EnteredIn
<1>1. p \in Complete /\ from <= OpenedAt(p) /\ ClosedAt(p) < to
  BY DEF Within
<1>2. /\ t \in Nat /\ OpenedAt(p) \in Nat /\ ClosedAt(p) \in Nat
      /\ OpenedAt(p) <= t /\ t <= ClosedAt(p)
  BY <1>1, CompleteTimes
<1>3. HoldoutStart \in Nat /\ HoldoutEnd \in Nat /\ Horizon \in Nat
  BY HoldoutAssumption
<1>4. from \in Nat /\ to \in Nat
  BY <1>3 DEF Times
<1> QED BY <1>1, <1>2, <1>3, <1>4

LEMMA ReportStep == ReportInv /\ [Next]_vars => ReportInv'
<1> SUFFICES ASSUME ReportInv, [Next]_vars PROVE ReportInv'
  OBVIOUS
<1>1. ASSUME UNCHANGED <<deals, report>> PROVE ReportInv'
  BY <1>1 DEF ReportInv, DealsTyped, GuardedToolsAreBlind, InHoldout, EnteredIn, Entries
<1>2. ASSUME NEW tool, NEW shown, NEW folds, Report(tool, shown, folds),
             tool \in {"ledger", "cost_stress"} => \A p \in shown : ~InHoldout(p)
      PROVE  ReportInv'
  BY <1>2 DEF Report, ReportInv, DealsTyped, GuardedToolsAreBlind, InHoldout, EnteredIn, Entries
<1>3. CASE LedgerReport
  <2>1. \A p \in Complete : ~InHoldout(p)
    BY <1>3 DEF LedgerReport, Complete
  <2> QED BY <1>2, <1>3, <2>1 DEF LedgerReport
<1>4. ASSUME NEW from \in Times, NEW to \in 1..Horizon, NEW train \in Months,
             NEW test \in Months, CostStress(from, to, train, test)
      PROVE  ReportInv'
  <2> DEFINE rows == Within(Complete, from, to, to)
  <2>1. \A p \in rows : ~InHoldout(p)
    BY <1>4, WindowsAreBlind DEF CostStress, ReportInv
  <2>2. Report("cost_stress", rows, RollingFolds(rows, from, to, train, test))
    BY <1>4 DEF CostStress
  <2> QED BY <1>2, <2>1, <2>2
<1>5. ASSUME NEW m \in Manifests,
             CompareVariants(m) \/ RiskExperiment(m) \/ WiderStopsExperiment(m)
      PROVE  ReportInv'
  BY <1>2, <1>5 DEF CompareVariants, RiskExperiment, WiderStopsExperiment
<1>6. ASSUME NEW w \in Runners, WriteOutput(w) PROVE ReportInv'
  BY <1>6 DEF WriteOutput, ReportInv, DealsTyped, GuardedToolsAreBlind
<1>7. CASE UNCHANGED vars
  BY <1>1, <1>7 DEF vars
<1>8. ASSUME NEW w \in Runners,
             \/ \E l \in Locks : Preflight(w, l)
             \/ TakeLock(w) \/ Score(w) \/ CloseLock(w) \/ Fail(w) \/ Die(w)
      PROVE  ReportInv'
  BY <1>1, <1>8 DEF Preflight, TakeLock, Score, CloseLock, Fail, Die
<1>9. ASSUME Freeze \/ \E m \in Manifests : EditManifest(m) PROVE ReportInv'
  BY <1>1, <1>9 DEF Freeze, EditManifest
<1> QED
  BY <1>3, <1>4, <1>5, <1>6, <1>7, <1>8, <1>9 DEF Next

(***************************************************************************)
(* reject_reserved_oos_entries and the refusal of an overlapping window    *)
(* keep the outcome of every position with an entry in the registered      *)
(* holdout out of the ledger report and the cost stress.                   *)
(***************************************************************************)
THEOREM ReservedOutcomesStayHidden == Spec => []GuardedToolsAreBlind
<1>1. ReportInv => GuardedToolsAreBlind
  BY DEF ReportInv
<1> QED BY <1>1, ReportInit, ReportStep, PTL DEF Spec

-----------------------------------------------------------------------------
(***************************************************************************)
(* Folds.  Whatever the windows are, a list of folds looks back as long as *)
(* each test window ends no later than the next one begins.                *)
(***************************************************************************)
LookBack(folds) ==
  /\ \A i \in DOMAIN folds : \A p \in folds[i].train, q \in folds[i].test :
       ClosedAt(p) < OpenedAt(q)
  /\ \A i, j \in DOMAIN folds : i # j => folds[i].test \cap folds[j].test = {}

Timed(rows) == \A p \in rows : OpenedAt(p) \in Nat /\ ClosedAt(p) \in Nat

LEMMA OrderedWindowsLookBack ==
  ASSUME NEW rows, Timed(rows), NEW n \in Nat,
         NEW back \in [1..n -> Int], NEW begin \in [1..n -> Int], NEW end \in [1..n -> Int],
         \A i, j \in 1..n : i < j => end[i] <= begin[j]
  PROVE  LookBack([i \in 1..n |-> Fold(rows, back[i], begin[i], end[i])])
<1> DEFINE folds == [i \in 1..n |-> Fold(rows, back[i], begin[i], end[i])]
<1>1. \A i \in 1..n :
        /\ \A p \in folds[i].train : p \in rows /\ ClosedAt(p) < begin[i]
        /\ \A q \in folds[i].test : q \in rows /\ begin[i] <= OpenedAt(q) /\ OpenedAt(q) < end[i]
  BY DEF Fold, Within
<1>2. DOMAIN folds = 1..n
  OBVIOUS
<1> HIDE DEF folds
<1>3. ASSUME NEW i \in 1..n, NEW p \in folds[i].train, NEW q \in folds[i].test
      PROVE  ClosedAt(p) < OpenedAt(q)
  <2>1. ClosedAt(p) < begin[i] /\ begin[i] <= OpenedAt(q)
    BY <1>1
  <2>2. ClosedAt(p) \in Nat /\ OpenedAt(q) \in Nat /\ begin[i] \in Int
    BY <1>1 DEF Timed
  <2> QED BY <2>1, <2>2
<1>4. ASSUME NEW i \in 1..n, NEW j \in 1..n, i < j
      PROVE  folds[i].test \cap folds[j].test = {}
  <2> SUFFICES ASSUME NEW q \in folds[i].test, q \in folds[j].test PROVE FALSE
    OBVIOUS
  <2>1. OpenedAt(q) \in Nat /\ OpenedAt(q) < end[i] /\ begin[j] <= OpenedAt(q)
    BY <1>1 DEF Timed
  <2> QED BY <1>4, <2>1
<1>5. \A i, j \in 1..n : i # j => folds[i].test \cap folds[j].test = {}
  BY <1>4
<1>6. LookBack(folds)
  BY <1>2, <1>3, <1>5 DEF LookBack
<1> QED BY <1>6 DEF folds

LEMMA RollingFoldsLookBack ==
  ASSUME NEW rows, Timed(rows), NEW from \in Nat, NEW to \in Nat,
         NEW train \in Nat, NEW test \in Nat \ {0}
  PROVE  LookBack(RollingFolds(rows, from, to, train, test))
<1> DEFINE start(i) == from + train + (i - 1) * test
           windows == {i \in 0..Folds : i = 0 \/ start(i) < to}
           n == Max(windows)
           back == [i \in 1..n |-> start(i) - train]
           begin == [i \in 1..n |-> start(i)]
           end == [i \in 1..n |-> Min({start(i) + test, to})]
<1>1. n \in Nat
  <2>1. 0 \in windows /\ windows \subseteq 0..Folds /\ Folds \in Nat
    BY HoldoutAssumption
  <2>2. windows \subseteq Nat
    BY <2>1
  <2> HIDE DEF windows
  <2>3. n \in windows
    BY <2>1, MaxOfNaturals
  <2> HIDE DEF n
  <2> QED BY <2>2, <2>3
<1> HIDE DEF n
<1>2. \A i \in 1..n : /\ start(i) \in Nat /\ start(i) + test \in Nat
                      /\ start(i) - train \in Int
  <2> SUFFICES ASSUME NEW i \in 1..n PROVE start(i) \in Nat
    OBVIOUS
  <2>1. i - 1 \in Nat
    BY <1>1
  <2>2. (i - 1) * test \in Nat
    BY <2>1
  <2> QED BY <2>2
<1>3. \A i \in 1..n : end[i] \in Nat /\ end[i] <= start(i) + test
  <2> SUFFICES ASSUME NEW i \in 1..n PROVE end[i] \in Nat /\ end[i] <= start(i) + test
    OBVIOUS
  <2> DEFINE a == start(i) + test
  <2>1. a \in Nat
    BY <1>2
  <2>2. end[i] = Min({a, to})
    OBVIOUS
  <2> HIDE DEF a, end
  <2>3. end[i] \in {a, to} /\ end[i] <= a
    BY <2>1, <2>2, MinOfNaturals
  <2> QED BY <2>1, <2>3 DEF a
<1>4. \A i, j \in 1..n : i < j => start(i) + test <= start(j)
  <2> SUFFICES ASSUME NEW i \in 1..n, NEW j \in 1..n, i < j
               PROVE  i * test <= (j - 1) * test /\ (i - 1) * test + test = i * test
    BY <1>1
  <2>1. PICK k \in Nat : j - 1 = i + k
    BY <1>1
  <2>2. (j - 1) * test = i * test + k * test /\ k * test \in Nat
    BY <2>1, <1>1
  <2>3. (i - 1) * test + test = i * test
    BY <1>1
  <2> QED BY <2>2, <2>3, <1>1
<1>5. /\ back \in [1..n -> Int] /\ begin \in [1..n -> Int] /\ end \in [1..n -> Int]
      /\ \A i, j \in 1..n : i < j => end[i] <= begin[j]
  <2>1. back \in [1..n -> Int] /\ begin \in [1..n -> Int]
    BY <1>2
  <2>2. end \in [1..n -> Int]
    BY <1>3
  <2>3. ASSUME NEW i \in 1..n, NEW j \in 1..n, i < j PROVE end[i] <= begin[j]
    BY <1>2, <1>3, <1>4, <2>3
  <2> QED BY <2>1, <2>2, <2>3
<1>6. RollingFolds(rows, from, to, train, test)
        = [i \in 1..n |-> Fold(rows, back[i], begin[i], end[i])]
  BY DEF RollingFolds, n
<1> HIDE DEF back, begin, end
<1>7. LookBack([i \in 1..n |-> Fold(rows, back[i], begin[i], end[i])])
  BY <1>1, <1>5, OrderedWindowsLookBack
<1> QED BY <1>6, <1>7

LEMMA SlicesLookBack ==
  ASSUME NEW rows, Timed(rows), NEW m \in Manifests
  PROVE  LookBack(Slices(rows, m))
<1> DEFINE span == m.lockedFrom - m.from
           edge(i) == m.from + (span * i) \div (Folds + 1)
           back == [i \in 1..Folds |-> m.from]
           begin == [i \in 1..Folds |-> edge(i)]
           end == [i \in 1..Folds |-> edge(i + 1)]
<1>1. Folds \in Nat /\ Horizon \in Nat
  BY HoldoutAssumption
<1>2. m.from \in Nat /\ m.lockedFrom \in Nat /\ m.from < m.lockedFrom
  BY <1>1 DEF Manifests, Times
<1>3. span \in Nat
  BY <1>2
<1>4. \A i, j \in Nat : i <= j => edge(i) \in Nat /\ edge(j) \in Nat /\ edge(i) <= edge(j)
  <2> SUFFICES ASSUME NEW i \in Nat, NEW j \in Nat, i <= j
               PROVE  edge(i) \in Nat /\ edge(j) \in Nat /\ edge(i) <= edge(j)
    OBVIOUS
  <2> HIDE DEF span
  <2> DEFINE a == span * i
             b == span * j
  <2>1. PICK k \in Nat : j = i + k
    OBVIOUS
  <2>2. b = a + span * k /\ span * k \in Nat /\ a \in Nat /\ b \in Nat
    BY <2>1, <1>3
  <2>3. a \in Nat /\ b \in Nat /\ a <= b /\ Folds + 1 \in Nat \ {0}
    BY <2>2, <1>1
  <2> HIDE DEF a, b
  <2>4. /\ a \div (Folds + 1) \in Nat /\ b \div (Folds + 1) \in Nat
        /\ a \div (Folds + 1) <= b \div (Folds + 1)
    BY <2>3, QuotientsAreOrdered
  <2> QED BY <2>4, <1>2 DEF a, b
<1> HIDE DEF edge
<1>5. /\ back \in [1..Folds -> Int] /\ begin \in [1..Folds -> Int]
      /\ end \in [1..Folds -> Int]
      /\ \A i, j \in 1..Folds : i < j => end[i] <= begin[j]
  BY <1>1, <1>2, <1>4
<1>6. Slices(rows, m) = [i \in 1..Folds |-> Fold(rows, back[i], begin[i], end[i])]
  BY DEF Slices, edge
<1> HIDE DEF back, begin, end
<1>7. LookBack([i \in 1..Folds |-> Fold(rows, back[i], begin[i], end[i])])
  BY <1>1, <1>5, OrderedWindowsLookBack
<1> QED BY <1>6, <1>7

(***************************************************************************)
(* The rows the tools take folds of have both times.                       *)
(***************************************************************************)
LEMMA RowsAreTimed ==
  ASSUME DealsTyped
  PROVE  /\ \A rows : rows \subseteq Complete => Timed(rows)
         /\ \A m \in Manifests : Timed(RiskPositions(m))
<1>1. Timed(Complete)
  BY CompleteTimes DEF Timed
<1>2. ASSUME NEW m \in Manifests PROVE Timed(RiskPositions(m))
  BY PositionTimes DEF Timed, RiskPositions
<1> QED BY <1>1, <1>2 DEF Timed

(***************************************************************************)
(* The strengthening of FoldsLookBack: the gate's folds are sound already  *)
(* while it has them in memory.                                            *)
(***************************************************************************)
FoldsInv ==
  /\ DealsTyped /\ FoldsLookBack
  /\ \A w \in Runners : gate[w].at = "scored" => LookBack(gate[w].folds)

LEMMA FoldsInit == Init => FoldsInv
BY DEF Init, FoldsInv, DealsTyped, FoldsLookBack, None, Idle

LEMMA FoldsStep == GateInv /\ FoldsInv /\ [Next]_vars => FoldsInv'
<1> SUFFICES ASSUME GateInv, FoldsInv, [Next]_vars PROVE FoldsInv'
  OBVIOUS
<1> USE DEF FoldsInv
<1>1. ASSUME UNCHANGED deals, NEW folds, LookBack(folds), report'.folds = folds
      PROVE  FoldsLookBack'
  BY <1>1 DEF FoldsLookBack, LookBack, ClosedAt, OpenedAt
<1>2. ASSUME UNCHANGED deals, NEW w \in Runners, NEW folds, LookBack(folds),
             gate'[w].folds = folds
      PROVE  LookBack(gate[w].folds)'
  BY <1>2 DEF LookBack, ClosedAt, OpenedAt
<1>3. LookBack(report.folds)
  BY DEF FoldsLookBack, LookBack
<1>4. ASSUME UNCHANGED deals PROVE DealsTyped'
  BY <1>4 DEF DealsTyped
\* Steps that write no report, and whose process has not just scored.
<1>5. ASSUME UNCHANGED <<deals, report>>,
             \A w \in Runners : gate'[w].at = "scored" => gate'[w] = gate[w]
      PROVE  FoldsInv'
  <2>1. FoldsLookBack' /\ DealsTyped'
    BY <1>1, <1>3, <1>4, <1>5
  <2>2. ASSUME NEW w \in Runners, gate'[w].at = "scored"
        PROVE  LookBack(gate[w].folds)'
    <3>1. gate'[w] = gate[w] /\ LookBack(gate[w].folds)
      BY <1>5, <2>2
    <3> QED BY <1>2, <1>5, <3>1
  <2> QED BY <2>1, <2>2
\* Tools that write a report.
<1>6. ASSUME NEW tool, NEW shown, NEW folds, Report(tool, shown, folds), LookBack(folds)
      PROVE  FoldsInv'
  <2>1. UNCHANGED <<deals, gate>> /\ report'.folds = folds
    BY <1>6 DEF Report
  <2>2. \A w \in Runners : gate[w].at = "scored" => LookBack(gate[w].folds)'
    BY <1>2, <2>1
  <2> QED BY <1>1, <1>4, <1>6, <2>1, <2>2
<1>7. LookBack(<< >>)
  BY DEF LookBack
<1>8. CASE LedgerReport
  BY <1>6, <1>7, <1>8 DEF LedgerReport
<1>9. ASSUME NEW from \in Times, NEW to \in 1..Horizon, NEW train \in Months,
             NEW test \in Months, CostStress(from, to, train, test)
      PROVE  FoldsInv'
  <2> DEFINE rows == Within(Complete, from, to, to)
  <2>1. rows \subseteq Complete
    BY DEF Within
  <2>2. from \in Nat /\ to \in Nat /\ train \in Nat /\ test \in Nat \ {0}
    BY HoldoutAssumption DEF Times
  <2>3. Timed(rows)
    BY <2>1, RowsAreTimed
  <2>4. Report("cost_stress", rows, RollingFolds(rows, from, to, train, test))
    BY <1>9 DEF CostStress
  <2> HIDE DEF rows
  <2>5. LookBack(RollingFolds(rows, from, to, train, test))
    BY <2>2, <2>3, RollingFoldsLookBack
  <2> QED BY <1>6, <2>4, <2>5
<1>10. ASSUME NEW m \in Manifests, CompareVariants(m) \/ WiderStopsExperiment(m)
       PROVE  FoldsInv'
  BY <1>6, <1>7, <1>10 DEF CompareVariants, WiderStopsExperiment
<1>11. ASSUME NEW m \in Manifests, RiskExperiment(m) PROVE FoldsInv'
  <2>1. LookBack(Slices(RiskPositions(m), m))
    BY RowsAreTimed, SlicesLookBack
  <2> QED BY <1>6, <1>11, <2>1 DEF RiskExperiment
<1>12. ASSUME NEW w \in Runners, Score(w) PROVE FoldsInv'
  <2> DEFINE context == gate[w].context
             rows == Development(context)
  <2>1. context \in Manifests
    BY <1>12 DEF Score, GateInv, GateTyped
  <2>2. PICK train \in Months, test \in Months :
          gate' = [gate EXCEPT ![w] =
            [at |-> "scored", lock |-> gate[w].lock,
             shown |-> Matched(context) \cup Matched(manifest),
             folds |-> RollingFolds(rows, context.from, context.lockedFrom, train, test)]]
    BY <1>12 DEF Score
  <2>3. /\ context.from \in Nat /\ context.lockedFrom \in Nat
        /\ train \in Nat /\ test \in Nat \ {0}
    BY <2>1, HoldoutAssumption DEF Manifests, Times
  <2>4. rows \subseteq Complete
    BY DEF Development, Within
  <2>5. Timed(rows)
    BY <2>4, RowsAreTimed
  <2> DEFINE folds == RollingFolds(rows, context.from, context.lockedFrom, train, test)
  <2>6. LookBack(folds)
    <3> HIDE DEF rows, context
    <3> QED BY <2>3, <2>5, RollingFoldsLookBack
  <2>7. UNCHANGED <<deals, report>> /\ DOMAIN gate = Runners
    BY <1>12 DEF Score, GateInv, GateTyped
  <2> HIDE DEF folds
  <2>8. /\ gate'[w].folds = folds
        /\ \A v \in Runners : v # w => gate'[v] = gate[v]
    BY <2>2, <2>7 DEF folds
  <2>9. ASSUME NEW v \in Runners, gate'[v].at = "scored"
        PROVE  LookBack(gate[v].folds)'
    <3>1. CASE v = w
      BY <1>2, <2>6, <2>7, <2>8, <3>1
    <3>2. CASE v # w
      BY <1>2, <2>7, <2>8, <2>9, <3>2
    <3> QED BY <3>1, <3>2
  <2> QED BY <1>1, <1>3, <1>4, <2>7, <2>9
<1>13. ASSUME NEW w \in Runners, WriteOutput(w) PROVE FoldsInv'
  <2>1. LookBack(gate[w].folds) /\ report'.folds = gate[w].folds /\ UNCHANGED deals
    BY <1>13 DEF WriteOutput
  <2>2. \A v \in Runners : gate'[v].at = "scored" => gate'[v] = gate[v]
    BY <1>13 DEF WriteOutput, GateInv, GateTyped
  <2>3. ASSUME NEW v \in Runners, gate'[v].at = "scored"
        PROVE  LookBack(gate[v].folds)'
    <3>1. gate'[v] = gate[v] /\ LookBack(gate[v].folds)
      BY <2>2, <2>3
    <3> QED BY <1>2, <2>1, <3>1
  <2> QED BY <1>1, <1>4, <2>1, <2>3
<1>14. ASSUME NEW w \in Runners,
              \/ \E l \in Locks : Preflight(w, l)
              \/ TakeLock(w) \/ CloseLock(w) \/ Fail(w) \/ Die(w)
       PROVE  FoldsInv'
  <2>1. UNCHANGED <<deals, report>>
    BY <1>14 DEF Preflight, TakeLock, CloseLock, Fail, Die
  <2>2. \A v \in Runners : gate'[v].at = "scored" => gate'[v] = gate[v]
    BY <1>14 DEF Preflight, TakeLock, CloseLock, Fail, Die, Idle, GateInv, GateTyped
  <2> QED BY <1>5, <2>1, <2>2
<1>15. ASSUME Freeze \/ \E m \in Manifests : EditManifest(m) PROVE FoldsInv'
  BY <1>5, <1>15 DEF Freeze, EditManifest
<1>16. CASE UNCHANGED vars
  BY <1>5, <1>16 DEF vars
<1> QED
  BY <1>8, <1>9, <1>10, <1>11, <1>12, <1>13, <1>14, <1>15, <1>16 DEF Next

(***************************************************************************)
(* _walk_forward_folds and _walk_forward_slices: whatever the period and   *)
(* the lengths asked for, no fold is trained on an outcome from after its  *)
(* first test position was entered, and no position is tested twice.       *)
(***************************************************************************)
THEOREM WalkForwardLooksBack == Spec => []FoldsLookBack
<1>1. FoldsInv => FoldsLookBack
  BY DEF FoldsInv
<1> QED BY <1>1, GateInit, GateStep, FoldsInit, FoldsStep, PTL DEF Spec

=============================================================================
