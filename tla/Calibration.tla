----------------------------- MODULE Calibration -----------------------------
(***************************************************************************)
(* Learning from live trading: the EA's outcomes as the bridge stores them *)
(* (routes.py receive_outcome), the calibration cycles computed from them  *)
(* (calibration.py, tools/metrics_engine.py), the statistical gate over    *)
(* the history of cycles (tools/gating.py) and the regime allocations      *)
(* (tools/regime_allocation.py).                                           *)
(*                                                                         *)
(* An outcome stands for the block of trades it tells apart: its grade in  *)
(* a metric is where the block's measurements lie.  The interval of a      *)
(* statistic is abstracted by the range of the grades behind it: like the  *)
(* intervals of stats.py it is a function of the rows alone, wider for     *)
(* mixed evidence, undefined without any.                                  *)
(***************************************************************************)
EXTENDS Integers, Sequences, FiniteSets, FiniteSetsExt, SequencesExt

CONSTANTS
  Signals,    \* identifiers of signals
  VersionOf,  \* the weight version that decided each signal
  RegimeOf,   \* the regime each was decided in
  GradeOf,    \* its grade in the metrics it has a measurement for
  Workers,    \* requests and cycles in progress
  MaxTime,    \* bound: the clock, in windows of a cycle
  MaxSent,    \* bound: deliveries of one outcome, its retries included
  MaxCycles   \* bound: calibration cycles ever started

\* Outcomes are finitely many and each has its place on a scale.
ASSUME GradesAssumption ==
  IsFiniteSet(Signals) /\ \A s \in Signals : \A m \in DOMAIN GradeOf[s] : GradeOf[s][m] \in Nat

VARIABLES
  time,       \* the clock
  source,     \* rows of signals: the parity of the decision, if stored
  outcome,    \* rows of signal_outcomes
  cycles,     \* rows of calibration_cycles, by generated_at
  cards,      \* rows of promotion_requests for weight versions, their basis
  work,       \* what each worker has loaded and is about to write
  told        \* history: evidence accepted and not denied, deliveries, cycles started

vars == <<time, source, outcome, cycles, cards, work, told>>

-----------------------------------------------------------------------------

Metrics == {"win_rate", "confidence_auc", "confidence_r_correlation"}
MIN_PERSISTENCE == 2
CYCLE_WINDOW_WEEKS == 1   \* the two weeks of the code are one unit of the clock

Versions == {VersionOf[s] : s \in Signals}

\* risk_multiplier on a coarser scale, from the floor of 1 to the ceiling of 4.
DefaultMultiplier == 2

\* What the intake writes into the row of a signal, the refused ones included.
Parities == {"PARITY_OK", "FINGERPRINT_MISSING", "PARITY_MISMATCH"}

\* A row is [parity, measured, complete, cashflows, since].  measured: filled,
\* times and realized R, overwritten by every delivery; complete and cashflows:
\* outcome_history_complete and cashflows_known, null until they are sent;
\* since: received_at.
NoOutcome == [parity |-> "none"]
Flags == {"complete", "cashflows"}

Proven(x) == \A f \in Flags : x[f] = "yes"
Denied(x) == \E f \in Flags : x[f] = "no"

\* What the EA sends: everything, an outcome whose deals or costs it could not
\* follow to the end, the smaller payload of an older build, or an outcome under
\* another fingerprint than the decision's.
Full == [matches |-> TRUE, measured |-> TRUE, complete |-> "yes", cashflows |-> "yes"]
Uncosted == [Full EXCEPT !.cashflows = "no"]
Partial == [Uncosted EXCEPT !.complete = "no"]
Reduced == [Full EXCEPT !.measured = FALSE, !.complete = "null", !.cashflows = "null"]
Other == [Full EXCEPT !.matches = FALSE]
Payloads == {Full, Uncosted, Partial, Reduced, Other}

Idle == [at |-> "idle"]

-----------------------------------------------------------------------------
(* Outcomes                                                                 *)

\* Faulty variant: an outcome without a signal is taken at its word.
ParityTrusting(stored, payload) ==
  IF stored = "absent" THEN "PARITY_OK"
  ELSE IF ~payload.matches /\ stored = "PARITY_OK" THEN "PARITY_MISMATCH" ELSE stored

Parity(stored, payload) ==
  IF stored = "absent" THEN "ORPHAN_SIGNAL"
  ELSE IF ~payload.matches /\ stored = "PARITY_OK" THEN "PARITY_MISMATCH" ELSE stored

\* Faulty variant: a flag missing from the payload clears the stored one.
AppliedErasing(row, stored, payload) ==
  [row EXCEPT !.parity = Parity(stored, payload), !.measured = payload.measured,
              !.complete = payload.complete, !.cashflows = payload.cashflows]

Given(sent, stored) == IF sent = "null" THEN stored ELSE sent

\* _apply_outcome_fields: missing optional fields keep what is stored, the others
\* replace it, a false one a true one too.
Applied(row, stored, payload) ==
  [row EXCEPT !.parity = Parity(stored, payload), !.measured = payload.measured,
              !.complete = Given(payload.complete, @),
              !.cashflows = Given(payload.cashflows, @)]

\* SQLAlchemy updates the columns that differ from the row it loaded.
Updated(row, loaded, new) ==
  [f \in DOMAIN row |-> IF new[f] = loaded[f] THEN row[f] ELSE new[f]]

Blank == [parity |-> "ORPHAN_SIGNAL", measured |-> FALSE,
          complete |-> "null", cashflows |-> "null", since |-> time]

\* The signal itself is stored, by another request.
StoreSignal(s, parity) ==
  /\ source[s] = "absent"
  /\ source' = [source EXCEPT ![s] = parity]
  /\ UNCHANGED <<time, outcome, cycles, cards, work, told>>

Receive(w, s, payload) ==
  /\ work[w] = Idle /\ told.sent[s] < MaxSent
  /\ told' = [told EXCEPT !.sent[s] = @ + 1]
  /\ work' = [work EXCEPT ![w] =
       [at |-> "apply", signal |-> s, payload |-> payload,
        loaded |-> outcome[s], stored |-> source[s]]]
  /\ UNCHANGED <<time, source, outcome, cycles, cards>>

\* A flag the worker found true has been denied by another delivery since: what
\* it found it does not write again.
Overtaken(w) ==
  LET loaded == work[w].loaded
  IN  /\ loaded # NoOutcome
      /\ \E f \in Flags : loaded[f] = "yes" /\ outcome[work[w].signal][f] = "no"

\* A row answered with status 200, or refused as PARITY_MISMATCH but stored.
Answered(w, new) ==
  LET s == work[w].signal
      payload == work[w].payload
      accepted == Proven(payload) /\ new.parity # "PARITY_MISMATCH" /\ ~Overtaken(w)
  IN  /\ work' = [work EXCEPT ![w] = Idle]
      /\ told' = [told EXCEPT !.proven =
           IF Denied(payload) THEN @ \ {s} ELSE IF accepted THEN @ \cup {s} ELSE @]

Insert(w) ==
  /\ work[w].at = "apply" /\ work[w].loaded = NoOutcome
  /\ LET s == work[w].signal
         new == Applied(Blank, work[w].stored, work[w].payload)
     IN  /\ outcome[s] = NoOutcome
         /\ outcome' = [outcome EXCEPT ![s] = new]
         /\ Answered(w, new)
  /\ UNCHANGED <<time, source, cycles, cards>>

\* IntegrityError: another delivery inserted the row; load it and apply again.
InsertRefused(w) ==
  /\ work[w].at = "apply" /\ work[w].loaded = NoOutcome
  /\ LET s == work[w].signal
     IN  /\ outcome[s] # NoOutcome
         /\ work' = [work EXCEPT ![w].loaded = outcome[s], ![w].stored = source[s]]
  /\ UNCHANGED <<time, source, outcome, cycles, cards, told>>

Update(w) ==
  /\ work[w].at = "apply" /\ work[w].loaded # NoOutcome
  /\ LET s == work[w].signal
         new == Applied(work[w].loaded, work[w].stored, work[w].payload)
     IN  /\ outcome' = [outcome EXCEPT ![s] = Updated(@, work[w].loaded, new)]
         /\ Answered(w, new)
  /\ UNCHANGED <<time, source, cycles, cards>>

-----------------------------------------------------------------------------
(* The statistics of a cycle                                                *)

\* research_ineligibility_reason is None.  A row that is PARITY_OK carries
\* the fingerprint of the decision.
Eligible(row) ==
  /\ row # NoOutcome
  /\ row.measured /\ Proven(row) /\ row.parity = "PARITY_OK"

Scored(metric, rows) == {s \in rows : metric \in DOMAIN GradeOf[s]}

Grades(metric, rows) == {GradeOf[s][metric] : s \in Scored(metric, rows)}

Estimable(metric, rows) == Scored(metric, rows) # {}

Interval(metric, rows) ==
  [low |-> Min(Grades(metric, rows)), high |-> Max(Grades(metric, rows))]

\* direction(prior, latest) when the intervals do not overlap, else none.
Moved(metric, prior, latest) ==
  IF ~Estimable(metric, prior) \/ ~Estimable(metric, latest) THEN "none"
  ELSE LET a == Interval(metric, prior)
           b == Interval(metric, latest)
       IN  IF a.high < b.low THEN "up" ELSE IF b.high < a.low THEN "down" ELSE "none"

OfVersion(v, rows) == {s \in rows : VersionOf[s] = v}
OfRegime(r, rows) == {s \in rows : RegimeOf[s] = r}

\* The n-th smallest number in S.
Nth(S, n) == CHOOSE i \in S : Cardinality({j \in S : j <= i}) = n

\* load_cycles_from_db: a cycle that did not see the version is left out.
History(v) ==
  LET seen == {i \in DOMAIN cycles : OfVersion(v, cycles[i].counted) # {}}
  IN  [n \in 1..Cardinality(seen) |-> OfVersion(v, cycles[Nth(seen, n)].counted)]

Recent(metric, history, n) ==
  {Moved(metric, history[i - 1], history[i]) : i \in (Len(history) - n + 1)..Len(history)}

\* Faulty variant: the last move is enough.
DecideAtOnce(history) ==
  IF Len(history) < MIN_PERSISTENCE + 1 THEN "INSUFFICIENT_DATA"
  ELSE IF \A m \in Metrics : Recent(m, history, 1) = {"up"} THEN "PROMOTE"
  ELSE "HOLD"

Decide(history) ==
  LET recent == [m \in Metrics |-> Recent(m, history, MIN_PERSISTENCE)]
      resolved(m) == "none" \notin recent[m]
  IN  IF Len(history) < MIN_PERSISTENCE + 1 THEN "INSUFFICIENT_DATA"
      ELSE IF \E m \in Metrics : resolved(m) /\ Cardinality(recent[m]) > 1 THEN "ROLLBACK"
      ELSE IF \E m \in Metrics : ~resolved(m) THEN "HOLD"
      ELSE IF \A m \in Metrics : recent[m] = {"down"} THEN "ROLLBACK"
      ELSE IF \A m \in Metrics : recent[m] = {"up"} THEN "PROMOTE"
      ELSE "HOLD"

\* Enough trades, win rate, average R and a bounded drawdown; no loss counted.
Qualified(rows) ==
  rows # {} /\ \A s \in rows : GradeOf[s]["win_rate"] >= 2

Target(rows) == Min({4, 1 + Max(Grades("win_rate", rows))})

\* Faulty variant: thin evidence moves the allocation too.
ProposeMultiplierAnyway(rows, previous) == Target(rows)

ProposeMultiplier(rows, previous) == IF Qualified(rows) THEN Target(rows) ELSE previous

\* build_regime_allocations: only regimes with evidence are in the report,
\* and one that is not in the previous report starts from the default.
Allocations(rows, previous) ==
  [r \in {RegimeOf[s] : s \in rows} |->
     ProposeMultiplier(OfRegime(r, rows),
       IF r \in DOMAIN previous THEN previous[r] ELSE DefaultMultiplier)]

-----------------------------------------------------------------------------
(* A cycle                                                                  *)

Window == {s \in Signals : /\ outcome[s] # NoOutcome
                           /\ outcome[s].since >= time - CYCLE_WINDOW_WEEKS}

\* _fetch_window_rows and compute_report; the report is stamped here.
FetchRows(w) ==
  /\ work[w] = Idle /\ told.started < MaxCycles
  /\ Window # {}
  /\ work' = [work EXCEPT ![w] =
       [at |-> "allocate", counted |-> {s \in Window : Eligible(outcome[s])},
        stamp |-> told.started + 1]]
  /\ told' = [told EXCEPT !.started = @ + 1]
  /\ UNCHANGED <<time, source, outcome, cycles, cards>>

\* _latest_regime_allocations and build_regime_allocations.
Allocate(w) ==
  /\ work[w].at = "allocate"
  /\ LET previous == IF cycles = << >> THEN << >> ELSE Last(cycles).allocations
     IN  work' = [work EXCEPT ![w] =
           [at |-> "persist", cycle |->
              [stamp |-> work[w].stamp, counted |-> work[w].counted,
               allocations |-> Allocations(work[w].counted, previous)]]]
  /\ UNCHANGED <<time, source, outcome, cycles, cards, told>>

\* Cycles are read in the order of generated_at, not of their commits.
Persist(w) ==
  /\ work[w].at = "persist"
  /\ LET c == work[w].cycle
         earlier == {i \in DOMAIN cycles : cycles[i].stamp < c.stamp}
     IN  cycles' = InsertAt(cycles, 1 + Cardinality(earlier), c)
  /\ work' = [work EXCEPT ![w] =
       [at |-> "decide", versions |-> {VersionOf[s] : s \in work[w].cycle.counted}]]
  /\ UNCHANGED <<time, source, outcome, cards, told>>

\* One weight version of the report: load its history, decide, ask.
DecideVersion(w, v) ==
  /\ work[w].at = "decide" /\ v \in work[w].versions
  /\ work' = [work EXCEPT ![w].versions = @ \ {v}]
  /\ LET action == Decide(History(v))
     IN  cards' = IF action \notin {"PROMOTE", "ROLLBACK"} THEN cards
                  ELSE Append(cards,
                    [version |-> v, action |-> action, basis |-> History(v),
                     status |-> IF action = "PROMOTE" THEN "pending" ELSE "auto_executed"])
  /\ UNCHANGED <<time, source, outcome, cycles, told>>

\* The cycle is over, or its process dies and leaves it there.
EndCycle(w) ==
  /\ work[w].at \in {"allocate", "persist", "decide"}
  /\ work' = [work EXCEPT ![w] = Idle]
  /\ UNCHANGED <<time, source, outcome, cycles, cards, told>>

Tick ==
  /\ time < MaxTime
  /\ time' = time + 1
  /\ UNCHANGED <<source, outcome, cycles, cards, work, told>>

-----------------------------------------------------------------------------

Init ==
  /\ time = 0
  /\ source = [s \in Signals |-> "absent"]
  /\ outcome = [s \in Signals |-> NoOutcome]
  /\ cycles = << >> /\ cards = << >>
  /\ work = [w \in Workers |-> Idle]
  /\ told = [proven |-> {}, sent |-> [s \in Signals |-> 0], started |-> 0]

Next ==
  \/ Tick
  \/ \E s \in Signals, p \in Parities : StoreSignal(s, p)
  \/ \E w \in Workers :
       \/ \E s \in Signals, p \in Payloads : Receive(w, s, p)
       \/ Insert(w) \/ InsertRefused(w) \/ Update(w)
       \/ FetchRows(w) \/ Allocate(w) \/ Persist(w)
       \/ \E v \in Versions : DecideVersion(w, v)
       \/ EndCycle(w)

Spec == Init /\ [][Next]_vars

-----------------------------------------------------------------------------
(* Properties                                                               *)

\* An outcome delivered with complete broker evidence and accepted keeps it until
\* a delivery says that the evidence is incomplete: smaller payloads, repeats and
\* deliveries that loaded the row before take nothing away.  An acceptance that
\* such a denial overtook is the exception.
EvidenceIsKept ==
  \A s \in told.proven : outcome[s] # NoOutcome /\ Proven(outcome[s])

\* A cycle counts only outcomes of decisions the bridge had stored with a
\* verified fingerprint, in whatever order signal and outcome arrived.
CountedIsVerified ==
  \A i \in DOMAIN cycles : \A s \in cycles[i].counted :
    source[s] = "PARITY_OK"

\* What the operator is asked to promote improved twice in every metric, on
\* three different bodies of evidence: cycles run again over the same outcomes
\* are no persistence.
PromotionIsPersistent ==
  \A i \in DOMAIN cards : cards[i].action = "PROMOTE" =>
    LET history == cards[i].basis
        n == Len(history)
    IN  /\ n >= 3
        /\ history[n] # history[n - 1] /\ history[n - 1] # history[n - 2]
        /\ \A m \in Metrics :
             Max(Grades(m, history[n - 2])) < Min(Grades(m, history[n]))

\* A multiplier other than the default was once earned by qualified evidence.
MultiplierIsEarned ==
  \A i \in DOMAIN cycles : \A r \in DOMAIN cycles[i].allocations :
    \/ cycles[i].allocations[r] = DefaultMultiplier
    \/ \E j \in DOMAIN cycles :
         LET rows == OfRegime(r, cycles[j].counted)
         IN  Qualified(rows) /\ Target(rows) = cycles[i].allocations[r]

=============================================================================
