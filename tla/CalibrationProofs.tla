--------------------------- MODULE CalibrationProofs ---------------------------
(***************************************************************************)
(* The outcomes of Calibration, the cycles that count them, the promotions *)
(* and the multipliers that follow, for any signals, grades, workers and   *)
(* bounds.                                                                 *)
(***************************************************************************)
EXTENDS Calibration, FiniteSetTheorems, SequenceTheorems, WellFoundedInduction, TLAPS

Values == {"null", "yes", "no"}

Rows == [parity : Parities \cup {"ORPHAN_SIGNAL"}, measured : BOOLEAN,
         complete : Values, cashflows : Values, since : Nat]
Sent == [matches : BOOLEAN, measured : BOOLEAN, complete : Values, cashflows : Values]

Applying == [at : {"apply"}, signal : Signals, payload : Payloads,
             loaded : Rows \cup {NoOutcome}, stored : Parities \cup {"absent"}]
Allocating == [at : {"allocate"}, counted : SUBSET Signals, stamp : Nat]
Deciding == [at : {"decide"}, versions : SUBSET Versions]

TablesTyped ==
  /\ time \in Nat
  /\ source \in [Signals -> Parities \cup {"absent"}]
  /\ outcome \in [Signals -> Rows \cup {NoOutcome}]
  /\ told \in [proven : SUBSET Signals, sent : [Signals -> Nat], started : Nat]
  /\ DOMAIN work = Workers
  /\ \A w \in Workers :
       \/ work[w] \in {Idle} \cup Applying \cup Allocating \cup Deciding
       \/ work[w].at = "persist" /\ work[w].cycle.counted \subseteq Signals

(***************************************************************************)
(* The strengthening.  What a delivery loaded is never ahead of the row: a *)
(* flag it saw given is given still, and a decision it saw is stored.      *)
(***************************************************************************)
Verified == {s \in Signals : source[s] = "PARITY_OK"}

LoadedIsBehind ==
  \A w \in Workers : work[w].at = "apply" =>
    LET s == work[w].signal
        loaded == work[w].loaded
    IN  /\ loaded # NoOutcome => outcome[s] # NoOutcome
        /\ loaded # NoOutcome => \A f \in Flags : loaded[f] # "null" => outcome[s][f] # "null"
        /\ loaded # NoOutcome /\ loaded.parity = "PARITY_OK" => s \in Verified
        /\ work[w].stored = "PARITY_OK" => s \in Verified

RowsAreVerified ==
  \A s \in Signals :
    outcome[s] # NoOutcome /\ outcome[s].parity = "PARITY_OK" => s \in Verified

CountsAreVerified ==
  /\ \A w \in Workers : work[w].at = "allocate" => work[w].counted \subseteq Verified
  /\ \A w \in Workers : work[w].at = "persist" => work[w].cycle.counted \subseteq Verified
  /\ \E S : cycles \in Seq(S) /\ \A c \in S : c.counted \subseteq Verified

EvidenceInv ==
  /\ TablesTyped /\ LoadedIsBehind /\ RowsAreVerified
  /\ EvidenceIsKept

CountInv == EvidenceInv /\ CountsAreVerified

-----------------------------------------------------------------------------

LEMMA Constants ==
  /\ NoOutcome \notin Rows
  /\ Payloads \subseteq Sent
  /\ Idle \notin Applying \cup Allocating \cup Deciding /\ Idle.at = "idle"
<1>1. NoOutcome.parity = "none" /\ \A r \in Rows : r.parity # "none"
  BY DEF NoOutcome, Rows, Parities
<1>2. Payloads \subseteq Sent
  <2>1. Full \in Sent
    BY DEF Full, Sent, Values
  <2>2. Uncosted \in Sent /\ Other \in Sent
    BY <2>1 DEF Sent, Values, Uncosted, Other
  <2>3. Partial \in Sent /\ Reduced \in Sent
    BY <2>1, <2>2 DEF Sent, Values, Partial, Reduced
  <2> QED BY <2>1, <2>2, <2>3 DEF Payloads
<1>3. Idle.at = "idle" /\ \A x \in Applying \cup Allocating \cup Deciding : x.at # "idle"
  BY DEF Idle, Applying, Allocating, Deciding
<1> QED BY <1>1, <1>2, <1>3

LEMMA CalibrationInit == Init => CountInv
<1> SUFFICES ASSUME Init PROVE CountInv
  OBVIOUS
<1>1. TablesTyped
  BY DEF Init, TablesTyped
<1>2. \A w \in Workers : work[w].at = "idle"
  BY DEF Init, Idle
<1>3. LoadedIsBehind /\ RowsAreVerified /\ EvidenceIsKept
  BY <1>2 DEF Init, LoadedIsBehind, RowsAreVerified, EvidenceIsKept
<1>4. cycles \in Seq({})
  BY DEF Init
<1>5. CountsAreVerified
  BY <1>2, <1>4 DEF CountsAreVerified
<1> QED BY <1>1, <1>3, <1>5 DEF CountInv, EvidenceInv

(***************************************************************************)
(* What a delivery writes: a flag it brings replaces the stored one, and a *)
(* row becomes PARITY_OK only for a verified decision.                     *)
(***************************************************************************)
LEMMA AppliedRow ==
  ASSUME NEW row \in Rows, NEW stored \in Parities \cup {"absent"}, NEW payload \in Payloads
  PROVE  /\ Applied(row, stored, payload) \in Rows
         /\ \A f \in Flags : Applied(row, stored, payload)[f] = Given(payload[f], row[f])
         /\ Applied(row, stored, payload).parity = "PARITY_OK" => stored = "PARITY_OK"
<1>1. Parity(stored, payload) \in Parities \cup {"ORPHAN_SIGNAL"}
      /\ (Parity(stored, payload) = "PARITY_OK" => stored = "PARITY_OK")
  BY DEF Parity, Parities
<1>2. payload.measured \in BOOLEAN /\ payload.complete \in Values /\ payload.cashflows \in Values
  BY Constants DEF Sent
<1>3. /\ Given(payload.complete, row.complete) \in Values
      /\ Given(payload.cashflows, row.cashflows) \in Values
  BY <1>2 DEF Given, Rows
<1>4. Applied(row, stored, payload)
        = [parity |-> Parity(stored, payload), measured |-> payload.measured,
           complete |-> Given(payload.complete, row.complete),
           cashflows |-> Given(payload.cashflows, row.cashflows), since |-> row.since]
  <2> DEFINE p == Parity(stored, payload)
             m == payload.measured
             c == Given(payload.complete, row.complete)
             x == Given(payload.cashflows, row.cashflows)
  <2>1. Applied(row, stored, payload)
          = [[[[row EXCEPT !.parity = p] EXCEPT !.measured = m] EXCEPT !.complete = c]
               EXCEPT !.cashflows = x]
    BY DEF Applied
  <2> HIDE DEF p, m, c, x
  <2>2. [row EXCEPT !.parity = p]
          = [parity |-> p, measured |-> row.measured, complete |-> row.complete,
             cashflows |-> row.cashflows, since |-> row.since]
    BY DEF Rows
  <2>3. [[parity |-> p, measured |-> row.measured, complete |-> row.complete,
          cashflows |-> row.cashflows, since |-> row.since] EXCEPT !.measured = m]
          = [parity |-> p, measured |-> m, complete |-> row.complete,
             cashflows |-> row.cashflows, since |-> row.since]
    OBVIOUS
  <2>4. [[parity |-> p, measured |-> m, complete |-> row.complete,
          cashflows |-> row.cashflows, since |-> row.since] EXCEPT !.complete = c]
          = [parity |-> p, measured |-> m, complete |-> c,
             cashflows |-> row.cashflows, since |-> row.since]
    OBVIOUS
  <2>5. [[parity |-> p, measured |-> m, complete |-> c,
          cashflows |-> row.cashflows, since |-> row.since] EXCEPT !.cashflows = x]
          = [parity |-> p, measured |-> m, complete |-> c, cashflows |-> x, since |-> row.since]
    OBVIOUS
  <2> QED BY <2>1, <2>2, <2>3, <2>4, <2>5 DEF p, m, c, x
<1> QED BY <1>1, <1>2, <1>3, <1>4 DEF Rows, Flags

LEMMA UpdatedRow ==
  ASSUME NEW row \in Rows, NEW loaded \in Rows, NEW new \in Rows
  PROVE  /\ Updated(row, loaded, new) \in Rows
         /\ \A f \in Flags : Updated(row, loaded, new)[f]
              = IF new[f] = loaded[f] THEN row[f] ELSE new[f]
         /\ Updated(row, loaded, new).parity
              = IF new.parity = loaded.parity THEN row.parity ELSE new.parity
BY DEF Updated, Rows, Flags

-----------------------------------------------------------------------------
(***************************************************************************)
(* Steps that change no table of outcomes or signals.                      *)
(***************************************************************************)
LEMMA OtherSteps ==
  ASSUME EvidenceInv, UNCHANGED <<source, outcome>>,
         told'.proven = told.proven,
         TablesTyped',
         \A w \in Workers : work'[w].at = "apply" =>
           \/ work'[w] = work[w]
           \/ /\ work'[w].loaded = outcome[work'[w].signal]
              /\ work'[w].stored = source[work'[w].signal]
              /\ work'[w].signal \in Signals
  PROVE  EvidenceInv'
<1> USE DEF EvidenceInv
<1>1. Verified' = Verified
  BY DEF Verified
<1>2. RowsAreVerified' /\ EvidenceIsKept'
  BY <1>1 DEF RowsAreVerified, EvidenceIsKept
<1>3. LoadedIsBehind'
  BY <1>1 DEF LoadedIsBehind, RowsAreVerified, Verified
<1> QED BY <1>2, <1>3

LEMMA StoreSignalStep ==
  ASSUME EvidenceInv, NEW s \in Signals, NEW p \in Parities, StoreSignal(s, p)
  PROVE  EvidenceInv' /\ Verified \subseteq Verified'
<1> USE DEF EvidenceInv
<1>1. /\ source[s] = "absent" /\ source' = [source EXCEPT ![s] = p]
      /\ UNCHANGED <<time, outcome, work, told>>
  BY DEF StoreSignal
<1>2. Verified \subseteq Verified'
  BY <1>1 DEF Verified, TablesTyped
<1>3. TablesTyped'
  BY <1>1 DEF TablesTyped
<1>4. RowsAreVerified' /\ EvidenceIsKept'
  BY <1>1, <1>2 DEF RowsAreVerified, EvidenceIsKept
<1>5. LoadedIsBehind'
  BY <1>1, <1>2 DEF LoadedIsBehind
<1> QED BY <1>2, <1>3, <1>4, <1>5

(***************************************************************************)
(* A delivery commits its row: the first one inserts it, the others update *)
(* the columns that differ from what they loaded.                          *)
(***************************************************************************)
LEMMA CommitStep ==
  ASSUME EvidenceInv, NEW w \in Workers, work[w] \in Applying,
         NEW new \in Rows, NEW written \in Rows,
         outcome' = [outcome EXCEPT ![work[w].signal] = written],
         Answered(w, new), UNCHANGED <<time, source>>,
         written.parity = "PARITY_OK" => work[w].signal \in Verified,
         outcome[work[w].signal] # NoOutcome =>
           \A f \in Flags : outcome[work[w].signal][f] # "null" => written[f] # "null",
         /\ outcome[work[w].signal] # NoOutcome /\ Proven(outcome[work[w].signal])
         /\ ~Denied(work[w].payload)
         => Proven(written),
         Proven(work[w].payload) /\ ~Overtaken(w) => Proven(written)
  PROVE  EvidenceInv'
<1> USE DEF EvidenceInv
<1> DEFINE s == work[w].signal
<1>1. s \in Signals /\ written # NoOutcome
  BY Constants DEF Applying
<1>2. /\ outcome'[s] = written /\ outcome' \in [Signals -> Rows \cup {NoOutcome}]
      /\ \A k \in Signals : k # s => outcome'[k] = outcome[k]
  BY <1>1 DEF TablesTyped
<1>3. Verified' = Verified
  BY DEF Verified
<1>4. /\ work' = [work EXCEPT ![w] = Idle]
      /\ \A k \in told'.proven :
           \/ k \in told.proven /\ (k = s => ~Denied(work[w].payload))
           \/ k = s /\ Proven(work[w].payload) /\ ~Overtaken(w)
      /\ told' \in [proven : SUBSET Signals, sent : [Signals -> Nat], started : Nat]
  BY <1>1 DEF Answered, TablesTyped
<1>5. TablesTyped'
  BY <1>2, <1>4 DEF TablesTyped
<1>6. RowsAreVerified'
  BY <1>1, <1>2, <1>3 DEF RowsAreVerified
<1>7. EvidenceIsKept'
  BY <1>1, <1>2, <1>4 DEF EvidenceIsKept, TablesTyped
<1>8. \A k \in Signals :
        /\ outcome[k] # NoOutcome => outcome'[k] # NoOutcome
        /\ outcome[k] # NoOutcome =>
             \A f \in Flags : outcome[k][f] # "null" => outcome'[k][f] # "null"
  BY <1>1, <1>2
<1>9. LoadedIsBehind'
  <2> SUFFICES ASSUME NEW v \in Workers, work'[v].at = "apply"
               PROVE  LET k == work'[v].signal
                          loaded == work'[v].loaded
                      IN  /\ loaded # NoOutcome => outcome'[k] # NoOutcome
                          /\ loaded # NoOutcome =>
                               \A f \in Flags : loaded[f] # "null" => outcome'[k][f] # "null"
                          /\ loaded # NoOutcome /\ loaded.parity = "PARITY_OK" => k \in Verified'
                          /\ work'[v].stored = "PARITY_OK" => k \in Verified'
    BY DEF LoadedIsBehind
  <2>1. v # w /\ work'[v] = work[v]
    BY <1>4, Constants DEF TablesTyped
  <2>2. work[v].signal \in Signals
    <3>1. work[v] \in Applying
      BY <2>1, Constants DEF TablesTyped, Applying, Allocating, Deciding
    <3> QED BY <3>1 DEF Applying
  <2> QED BY <1>3, <1>8, <2>1, <2>2 DEF LoadedIsBehind
<1> QED BY <1>5, <1>6, <1>7, <1>9

-----------------------------------------------------------------------------

LEMMA InsertStep ==
  ASSUME EvidenceInv, NEW w \in Workers, Insert(w)
  PROVE  EvidenceInv'
<1> DEFINE s == work[w].signal
           new == Applied(Blank, work[w].stored, work[w].payload)
<1>1. /\ work[w].at = "apply" /\ outcome[s] = NoOutcome
      /\ outcome' = [outcome EXCEPT ![s] = new] /\ Answered(w, new)
      /\ UNCHANGED <<time, source>>
  BY DEF Insert
<1>2. work[w] \in Applying
  BY <1>1, Constants DEF EvidenceInv, TablesTyped, Applying, Allocating, Deciding
<1>3. Blank \in Rows
  BY DEF Blank, Rows, Values, EvidenceInv, TablesTyped
<1>4. work[w].stored \in Parities \cup {"absent"} /\ work[w].payload \in Payloads
  BY <1>2 DEF Applying
<1>5. /\ new \in Rows /\ \A f \in Flags : new[f] = Given(work[w].payload[f], Blank[f])
      /\ new.parity = "PARITY_OK" => work[w].stored = "PARITY_OK"
  BY <1>3, <1>4, AppliedRow
<1>6. new.parity = "PARITY_OK" => s \in Verified
  BY <1>1, <1>5 DEF EvidenceInv, LoadedIsBehind
<1>7. Proven(work[w].payload) => Proven(new)
  BY <1>5 DEF Proven, Given
<1> HIDE DEF new
<1> QED BY <1>1, <1>2, <1>5, <1>6, <1>7, CommitStep

LEMMA UpdateStep ==
  ASSUME EvidenceInv, NEW w \in Workers, Update(w)
  PROVE  EvidenceInv'
<1> DEFINE s == work[w].signal
           loaded == work[w].loaded
           new == Applied(loaded, work[w].stored, work[w].payload)
           written == Updated(outcome[s], loaded, new)
<1>1. /\ work[w].at = "apply" /\ loaded # NoOutcome
      /\ outcome' = [outcome EXCEPT ![s] = written] /\ Answered(w, new)
      /\ UNCHANGED <<time, source>>
  BY DEF Update
<1>2. work[w] \in Applying
  BY <1>1, Constants DEF EvidenceInv, TablesTyped, Applying, Allocating, Deciding
<1>3. /\ outcome[s] # NoOutcome
      /\ \A f \in Flags : loaded[f] # "null" => outcome[s][f] # "null"
      /\ loaded.parity = "PARITY_OK" => s \in Verified
      /\ work[w].stored = "PARITY_OK" => s \in Verified
  BY <1>1 DEF EvidenceInv, LoadedIsBehind
<1>4. /\ loaded \in Rows /\ outcome[s] \in Rows
      /\ work[w].stored \in Parities \cup {"absent"} /\ work[w].payload \in Payloads
  <2>1. s \in Signals
    BY <1>2 DEF Applying
  <2>2. loaded \in Rows \cup {NoOutcome}
    BY <1>2 DEF Applying
  <2>3. outcome[s] \in Rows \cup {NoOutcome}
    BY <2>1 DEF EvidenceInv, TablesTyped
  <2>4. work[w].stored \in Parities \cup {"absent"} /\ work[w].payload \in Payloads
    BY <1>2 DEF Applying
  <2> QED BY <1>1, <1>3, <2>2, <2>3, <2>4
<1>5. /\ new \in Rows /\ \A f \in Flags : new[f] = Given(work[w].payload[f], loaded[f])
      /\ new.parity = "PARITY_OK" => work[w].stored = "PARITY_OK"
  BY <1>4, AppliedRow
<1> HIDE DEF new
<1>6. /\ written \in Rows
      /\ \A f \in Flags :
           written[f] = IF new[f] = loaded[f] THEN outcome[s][f] ELSE new[f]
      /\ written.parity = IF new.parity = loaded.parity THEN outcome[s].parity ELSE new.parity
  BY <1>4, <1>5, UpdatedRow
<1> HIDE DEF written
<1>7. s \in Signals /\ (outcome[s].parity = "PARITY_OK" => s \in Verified)
  <2>1. s \in Signals
    BY <1>2 DEF Applying
  <2> QED BY <1>3, <2>1 DEF EvidenceInv, RowsAreVerified
<1>8. written.parity = "PARITY_OK" => s \in Verified
  BY <1>3, <1>5, <1>6, <1>7
<1>9. \A f \in Flags : /\ loaded[f] \in Values /\ outcome[s][f] \in Values
                       /\ work[w].payload[f] \in Values
  BY <1>4, Constants DEF Rows, Sent, Flags
\* A column is written only with what the delivery brings for it.
<1>10. \A f \in Flags :
         \/ written[f] = outcome[s][f]
            /\ (work[w].payload[f] = "null" \/ work[w].payload[f] = loaded[f])
         \/ written[f] = work[w].payload[f] /\ work[w].payload[f] # "null"
  BY <1>5, <1>6 DEF Given
<1>11. \A f \in Flags : outcome[s][f] # "null" => written[f] # "null"
  BY <1>10
<1>12. Proven(outcome[s]) /\ ~Denied(work[w].payload) => Proven(written)
  BY <1>9, <1>10 DEF Proven, Denied, Values
<1>13. Proven(work[w].payload) /\ ~Overtaken(w) => Proven(written)
  BY <1>1, <1>3, <1>9, <1>10 DEF Proven, Overtaken, Values
<1> QED BY <1>1, <1>2, <1>5, <1>6, <1>8, <1>11, <1>12, <1>13, CommitStep

LEMMA EvidenceStep == EvidenceInv /\ [Next]_vars => EvidenceInv'
<1> SUFFICES ASSUME EvidenceInv, [Next]_vars PROVE EvidenceInv'
  OBVIOUS
<1>1. TablesTyped
  BY DEF EvidenceInv
\* A step of one worker that touches neither signals nor outcomes.
<1>2. ASSUME NEW w \in Workers, NEW x,
             \/ x \in {Idle} \cup Allocating \cup Deciding
             \/ x.at = "persist" /\ x.cycle.counted \subseteq Signals
             \/ /\ x \in Applying
                /\ x.loaded = outcome[x.signal] /\ x.stored = source[x.signal],
             work' = [work EXCEPT ![w] = x],
             UNCHANGED <<time, source, outcome>>,
             told' \in [proven : SUBSET Signals, sent : [Signals -> Nat], started : Nat],
             told'.proven = told.proven
      PROVE  EvidenceInv'
  <2>1. TablesTyped'
    BY <1>1, <1>2 DEF TablesTyped
  <2>2. \A v \in Workers : work'[v] = work[v] \/ (v = w /\ work'[v] = x)
    BY <1>1, <1>2 DEF TablesTyped
  <2>3. x.at = "apply" => x \in Applying
    BY <1>2, Constants DEF Allocating, Deciding
  <2>4. x \in Applying => x.signal \in Signals
    BY DEF Applying
  <2>5. x.at = "apply" => /\ x.loaded = outcome[x.signal] /\ x.stored = source[x.signal]
                         /\ x.signal \in Signals
    BY <1>2, <2>3, <2>4, Constants DEF Allocating, Deciding
  <2> QED BY <1>2, <2>1, <2>2, <2>5, OtherSteps
<1>3. CASE Tick
  <2>1. TablesTyped' /\ UNCHANGED <<source, outcome, work, told>>
    BY <1>1, <1>3 DEF Tick, TablesTyped
  <2> QED BY <2>1, OtherSteps
<1>4. ASSUME NEW s \in Signals, NEW p \in Parities, StoreSignal(s, p) PROVE EvidenceInv'
  BY <1>4, StoreSignalStep
<1>5. ASSUME NEW w \in Workers, NEW s \in Signals, NEW p \in Payloads, Receive(w, s, p)
      PROVE  EvidenceInv'
  <2> DEFINE x == [at |-> "apply", signal |-> s, payload |-> p,
                   loaded |-> outcome[s], stored |-> source[s]]
  <2>1. x \in Applying /\ x.loaded = outcome[x.signal] /\ x.stored = source[x.signal]
    BY <1>1 DEF Applying, TablesTyped
  <2>2. /\ work' = [work EXCEPT ![w] = x] /\ UNCHANGED <<time, source, outcome>>
        /\ told' = [told EXCEPT !.sent[s] = @ + 1]
    BY <1>5 DEF Receive
  <2> HIDE DEF x
  <2>3. told' \in [proven : SUBSET Signals, sent : [Signals -> Nat], started : Nat]
        /\ told'.proven = told.proven
    BY <1>1, <2>2 DEF TablesTyped
  <2> QED BY <1>2, <2>1, <2>2, <2>3
<1>6. ASSUME NEW w \in Workers, Insert(w) \/ Update(w) PROVE EvidenceInv'
  BY <1>6, InsertStep, UpdateStep
<1>7. ASSUME NEW w \in Workers, InsertRefused(w) PROVE EvidenceInv'
  <2> DEFINE s == work[w].signal
             x == [work[w] EXCEPT !.loaded = outcome[s], !.stored = source[s]]
  <2>1. work[w] \in Applying
    BY <1>1, <1>7, Constants DEF InsertRefused, TablesTyped, Applying, Allocating, Deciding
  <2>2. s \in Signals /\ outcome[s] \in Rows \cup {NoOutcome} /\ source[s] \in Parities \cup {"absent"}
    BY <1>1, <2>1 DEF Applying, TablesTyped
  <2>3. x \in Applying /\ x.loaded = outcome[x.signal] /\ x.stored = source[x.signal]
    BY <2>1, <2>2 DEF Applying
  <2>4. work' = [work EXCEPT ![w] = x] /\ UNCHANGED <<time, source, outcome, told>>
    BY <1>7 DEF InsertRefused
  <2> HIDE DEF x
  <2> QED BY <1>1, <1>2, <2>3, <2>4 DEF TablesTyped
<1>8. ASSUME NEW w \in Workers, FetchRows(w) PROVE EvidenceInv'
  <2> DEFINE x == [at |-> "allocate", counted |-> {s \in Window : Eligible(outcome[s])},
                   stamp |-> told.started + 1]
  <2>1. x \in Allocating
    BY <1>1 DEF Allocating, Window, TablesTyped
  <2>2. /\ work' = [work EXCEPT ![w] = x] /\ UNCHANGED <<time, source, outcome>>
        /\ told' = [told EXCEPT !.started = @ + 1]
    BY <1>8 DEF FetchRows
  <2> HIDE DEF x
  <2>3. told' \in [proven : SUBSET Signals, sent : [Signals -> Nat], started : Nat]
        /\ told'.proven = told.proven
    BY <1>1, <2>2 DEF TablesTyped
  <2> QED BY <1>2, <2>1, <2>2, <2>3
<1>9. ASSUME NEW w \in Workers, Allocate(w) PROVE EvidenceInv'
  <2>1. work[w] \in Allocating
    BY <1>1, <1>9, Constants DEF Allocate, TablesTyped, Applying, Allocating, Deciding
  <2>2. PICK allocations :
          work' = [work EXCEPT ![w] =
            [at |-> "persist", cycle |-> [stamp |-> work[w].stamp, counted |-> work[w].counted,
                                          allocations |-> allocations]]]
    BY <1>9 DEF Allocate
  <2>3. UNCHANGED <<time, source, outcome, told>> /\ work[w].counted \subseteq Signals
    BY <1>9, <2>1 DEF Allocate, Allocating
  <2> QED BY <1>1, <1>2, <2>2, <2>3 DEF TablesTyped
<1>10. ASSUME NEW w \in Workers, NEW v \in Versions, DecideVersion(w, v) PROVE EvidenceInv'
  <2>1. work[w] \in Deciding
    BY <1>1, <1>10, Constants DEF DecideVersion, TablesTyped, Applying, Allocating, Deciding
  <2> DEFINE x == [work[w] EXCEPT !.versions = @ \ {v}]
  <2>2. x \in Deciding
    BY <2>1 DEF Deciding
  <2>3. work' = [work EXCEPT ![w] = x] /\ UNCHANGED <<time, source, outcome, told>>
    BY <1>10 DEF DecideVersion
  <2> HIDE DEF x
  <2> QED BY <1>1, <1>2, <2>2, <2>3 DEF TablesTyped
<1>11. ASSUME NEW w \in Workers, EndCycle(w) PROVE EvidenceInv'
  BY <1>1, <1>2, <1>11 DEF EndCycle, TablesTyped
<1>12. CASE UNCHANGED vars
  <2>1. TablesTyped' /\ UNCHANGED <<source, outcome, work, told>>
    BY <1>1, <1>12 DEF vars, TablesTyped
  <2> QED BY <2>1, OtherSteps
<1>13. ASSUME NEW w \in Workers, Persist(w) PROVE EvidenceInv'
  <2> DEFINE x == [at |-> "decide", versions |-> {VersionOf[s] : s \in work[w].cycle.counted}]
  <2>1. work[w].cycle.counted \subseteq Signals
    BY <1>1, <1>13, Constants DEF Persist, TablesTyped, Applying, Allocating, Deciding
  <2>2. x \in Deciding
    BY <2>1 DEF Deciding, Versions
  <2>3. work' = [work EXCEPT ![w] = x] /\ UNCHANGED <<time, source, outcome, told>>
    BY <1>13 DEF Persist
  <2> HIDE DEF x
  <2> QED BY <1>1, <1>2, <2>2, <2>3 DEF TablesTyped
<1> QED
  BY <1>3, <1>4, <1>5, <1>6, <1>7, <1>8, <1>9, <1>10, <1>11, <1>12, <1>13 DEF Next

(***************************************************************************)
(* _apply_outcome_fields: once a delivery with complete broker evidence is *)
(* accepted, its flags stay set however often and however concurrently the *)
(* outcome is delivered again, in whatever smaller payload, until a        *)
(* delivery denies them.                                                   *)
(***************************************************************************)
THEOREM AcceptedEvidenceStays == Spec => []EvidenceIsKept
<1>1. Init => EvidenceInv
  BY CalibrationInit DEF CountInv
<1>2. EvidenceInv => EvidenceIsKept
  BY DEF EvidenceInv
<1> QED BY <1>1, <1>2, EvidenceStep, PTL DEF Spec

-----------------------------------------------------------------------------
(***************************************************************************)
(* Cycles keep what they counted, and verified decisions stay verified.    *)
(***************************************************************************)
\* t is the sequence s over S with c put in somewhere.
Extends(S, s, c, t) ==
  /\ t \in Seq(S \cup {c})
  /\ \E j \in DOMAIN t : t[j] = c
  /\ \A i \in DOMAIN s : \E j \in DOMAIN t : t[j] = s[i]

LEMMA InsertedCycles ==
  ASSUME NEW S, NEW s \in Seq(S), NEW c, NEW X, X \subseteq DOMAIN s,
         NEW t, t = InsertAt(s, 1 + Cardinality(X), c)
  PROVE  Extends(S, s, c, t)
<1> DEFINE n == Cardinality(X)
           T == S \cup {c}
<1>1. Len(s) \in Nat /\ DOMAIN s = 1..Len(s)
  BY LenProperties
<1>2. n \in Nat /\ n <= Len(s)
  <2>1. IsFiniteSet(1..Len(s)) /\ Cardinality(1..Len(s)) = Len(s)
    <3>1. \A k \in Nat : IsFiniteSet(1..k) /\ Cardinality(1..k) = k
      BY FS_Interval
    <3> QED BY <1>1, <3>1
  <2>2. X \subseteq 1..Len(s)
    BY <1>1
  <2>3. IsFiniteSet(X) /\ n <= Len(s)
    BY <2>1, <2>2, FS_Subset
  <2> QED BY <2>3, FS_CardinalityType
<1> HIDE DEF n
<1>3. s \in Seq(T) /\ <<c>> \in Seq(T)
  BY SeqMonotonic
<1>4. SubSeq(s, 1, (1 + n) - 1) \in Seq(T) /\ SubSeq(s, 1 + n, Len(s)) \in Seq(T)
  <2> HIDE DEF T
  <2>1. \A i \in 1..n : s[i] \in T
    BY <1>1, <1>2, <1>3, ElementOfSeq
  <2>2. \A i \in (1 + n)..Len(s) : s[i] \in T
    BY <1>1, <1>2, <1>3, ElementOfSeq
  <2> QED BY <1>1, <1>2, <1>3, <2>1, <2>2, SubSeqProperties
<1> DEFINE A == SubSeq(s, 1, (1 + n) - 1)
           B == SubSeq(s, 1 + n, Len(s))
<1>5. t = (A \o <<c>>) \o B
  BY DEF InsertAt, n
<1>6. /\ Len(A) = n /\ \A i \in 1..n : A[i] = s[i]
      /\ Len(B) = Len(s) - n /\ \A i \in 1..(Len(s) - n) : B[i] = s[n + i]
  <2> HIDE DEF T
  <2>1. \A i \in 1..((1 + n) - 1) : s[i] \in T
    BY <1>1, <1>2, <1>3, ElementOfSeq
  <2>2. \A i \in (1 + n)..Len(s) : s[i] \in T
    BY <1>1, <1>2, <1>3, ElementOfSeq
  <2>3. /\ Len(A) = (IF 1 <= (1 + n) - 1 THEN (1 + n) - 1 - 1 + 1 ELSE 0)
        /\ \A i \in 1..((1 + n) - 1 - 1 + 1) : A[i] = s[1 + i - 1]
    BY <1>1, <1>2, <2>1, SubSeqProperties
  <2>4. /\ Len(B) = (IF 1 + n <= Len(s) THEN Len(s) - (1 + n) + 1 ELSE 0)
        /\ \A i \in 1..(Len(s) - (1 + n) + 1) : B[i] = s[(1 + n) + i - 1]
    BY <1>1, <1>2, <2>2, SubSeqProperties
  <2> HIDE DEF A, B
  <2>5. Len(A) = n /\ Len(B) = Len(s) - n
    <3>1. \A k, l \in Nat : k <= l =>
            /\ (IF 1 <= (1 + k) - 1 THEN (1 + k) - 1 - 1 + 1 ELSE 0) = k
            /\ (IF 1 + k <= l THEN l - (1 + k) + 1 ELSE 0) = l - k
      OBVIOUS
    <3> QED BY <1>1, <1>2, <2>3, <2>4, <3>1
  <2>6. ASSUME NEW i \in 1..n PROVE A[i] = s[i]
    <3>1. i \in 1..((1 + n) - 1 - 1 + 1) /\ 1 + i - 1 = i
      BY <1>2
    <3> QED BY <2>3, <3>1
  <2>7. ASSUME NEW i \in 1..(Len(s) - n) PROVE B[i] = s[n + i]
    <3>1. i \in 1..(Len(s) - (1 + n) + 1) /\ (1 + n) + i - 1 = n + i
      BY <1>1, <1>2
    <3> QED BY <2>4, <3>1
  <2> QED BY <2>5, <2>6, <2>7
<1> HIDE DEF A, B, T
<1>7. /\ A \o <<c>> \in Seq(T) /\ Len(A \o <<c>>) = n + 1
      /\ \A i \in 1..(n + 1) : (A \o <<c>>)[i] = IF i <= n THEN s[i] ELSE c
  BY <1>2, <1>3, <1>4, <1>6, ConcatProperties DEF A
<1>8. /\ t \in Seq(T) /\ Len(t) = Len(s) + 1
      /\ \A i \in 1..(Len(s) + 1) :
           t[i] = IF i <= n + 1 THEN (A \o <<c>>)[i] ELSE B[i - (n + 1)]
  <2>1. A \o <<c>> \in Seq(T) /\ B \in Seq(T)
    BY <1>4, <1>7 DEF B
  <2>2. Len(A \o <<c>>) + Len(B) = Len(s) + 1
    <3>1. Len(A \o <<c>>) = n + 1 /\ Len(B) = Len(s) - n
      BY <1>6, <1>7
    <3> QED BY <1>1, <1>2, <3>1
  <2> DEFINE u == A \o <<c>>
  <2> HIDE DEF u
  <2>3. u \in Seq(T) /\ Len(u) = n + 1 /\ t = u \o B /\ Len(u) + Len(B) = Len(s) + 1
    BY <1>5, <1>7, <2>2 DEF u
  <2>4. /\ t \in Seq(T) /\ Len(t) = Len(u) + Len(B)
        /\ \A i \in 1..(Len(u) + Len(B)) : t[i] = IF i <= Len(u) THEN u[i] ELSE B[i - Len(u)]
    <3>1. u \in Seq(T) /\ B \in Seq(T)
      BY <2>1, <2>3
    <3>2. /\ u \o B \in Seq(T) /\ Len(u \o B) = Len(u) + Len(B)
          /\ \A i \in 1..(Len(u) + Len(B)) :
               (u \o B)[i] = IF i <= Len(u) THEN u[i] ELSE B[i - Len(u)]
      BY ONLY <3>1, ConcatProperties
    <3> QED BY <2>3, <3>2
  <2>5. /\ t \in Seq(T) /\ Len(t) = Len(s) + 1
        /\ \A i \in 1..(Len(s) + 1) : t[i] = IF i <= n + 1 THEN u[i] ELSE B[i - (n + 1)]
    <3>1. Len(u) = n + 1 /\ Len(u) + Len(B) = Len(s) + 1
      BY <2>3
    <3> QED BY ONLY <2>4, <3>1
  <2> QED BY <2>5 DEF u
<1>9. DOMAIN t = 1..(Len(s) + 1)
  BY <1>8, LenProperties
<1>10. t[n + 1] = c /\ n + 1 \in DOMAIN t
  BY <1>1, <1>2, <1>7, <1>8, <1>9
<1>11. ASSUME NEW i \in DOMAIN s PROVE \E j \in DOMAIN t : t[j] = s[i]
  <2>1. CASE i <= n
    <3>1. i \in DOMAIN t /\ i \in 1..(n + 1) /\ i <= n + 1
      BY <1>1, <1>2, <1>9, <2>1
    <3> QED BY <1>7, <1>8, <1>9, <2>1, <3>1
  <2>2. CASE i > n
    <3>1. i + 1 \in DOMAIN t /\ ~(i + 1 <= n + 1) /\ i - n \in 1..(Len(s) - n)
      BY <1>1, <1>2, <1>9, <2>2
    <3>2. t[i + 1] = B[i - n] /\ B[i - n] = s[i]
      <4>1. (i + 1) - (n + 1) = i - n /\ n + (i - n) = i
        BY <1>1, <1>2
      <4> QED BY <1>6, <1>8, <1>9, <3>1, <4>1
    <3> QED BY <3>1, <3>2
  <2> QED BY <1>1, <1>2, <2>1, <2>2
<1>12. /\ t \in Seq(T)
       /\ \E j \in DOMAIN t : t[j] = c
       /\ \A i \in DOMAIN s : \E j \in DOMAIN t : t[j] = s[i]
  BY <1>8, <1>10, <1>11
<1> QED BY <1>12 DEF T, Extends

LEMMA VerifiedStays == TablesTyped /\ [Next]_vars => Verified \subseteq Verified'
<1> SUFFICES ASSUME TablesTyped, [Next]_vars PROVE Verified \subseteq Verified'
  OBVIOUS
<1>1. CASE UNCHANGED source
  BY <1>1 DEF Verified
<1>2. ASSUME NEW s \in Signals, NEW p \in Parities, StoreSignal(s, p)
      PROVE  Verified \subseteq Verified'
  BY <1>2 DEF StoreSignal, Verified, TablesTyped
<1>3. UNCHANGED source \/ \E s \in Signals, p \in Parities : StoreSignal(s, p)
  BY DEF Next, Tick, Receive, Insert, InsertRefused, Update, FetchRows, Allocate, Persist,
         DecideVersion, EndCycle, vars
<1> QED BY <1>1, <1>2, <1>3

LEMMA CountStep == CountInv /\ [Next]_vars => CountInv'
<1> SUFFICES ASSUME CountInv, [Next]_vars PROVE CountsAreVerified'
  BY EvidenceStep DEF CountInv
<1> USE DEF CountInv, CountsAreVerified
<1>1. TablesTyped /\ RowsAreVerified /\ Verified \subseteq Verified'
  BY VerifiedStays DEF EvidenceInv
<1>2. PICK S : cycles \in Seq(S) /\ \A c \in S : c.counted \subseteq Verified
  OBVIOUS
\* Steps that store no cycle; w is the worker that moved.
<1>3. ASSUME UNCHANGED cycles,
             \A w \in Workers :
               \/ work'[w] = work[w]
               \/ work'[w].at \notin {"allocate", "persist"}
               \/ work'[w].at = "allocate" /\ work'[w].counted \subseteq Verified
               \/ work'[w].at = "persist" /\ work'[w].cycle.counted \subseteq Verified
      PROVE  CountsAreVerified'
  <2>1. \A w \in Workers :
          /\ work'[w].at = "allocate" => work'[w].counted \subseteq Verified'
          /\ work'[w].at = "persist" => work'[w].cycle.counted \subseteq Verified'
    BY <1>1, <1>3
  <2>2. cycles' \in Seq(S) /\ \A c \in S : c.counted \subseteq Verified'
    BY <1>1, <1>2, <1>3
  <2> QED BY <2>1, <2>2
<1>4. ASSUME NEW w \in Workers, FetchRows(w) PROVE CountsAreVerified'
  <2> DEFINE counted == {s \in Window : Eligible(outcome[s])}
  <2>1. /\ work' = [work EXCEPT ![w] = [at |-> "allocate", counted |-> counted,
                                        stamp |-> told.started + 1]]
        /\ UNCHANGED cycles
    BY <1>4 DEF FetchRows
  <2>2. counted \subseteq Verified
    BY <1>1 DEF Window, Eligible, RowsAreVerified
  <2> HIDE DEF counted
  <2> QED BY <1>1, <1>3, <2>1, <2>2 DEF TablesTyped
<1>5. ASSUME NEW w \in Workers, Allocate(w) PROVE CountsAreVerified'
  <2>1. PICK allocations :
          work' = [work EXCEPT ![w] =
            [at |-> "persist", cycle |-> [stamp |-> work[w].stamp, counted |-> work[w].counted,
                                          allocations |-> allocations]]]
    BY <1>5 DEF Allocate
  <2>2. work[w].counted \subseteq Verified /\ UNCHANGED cycles
    BY <1>5 DEF Allocate
  <2> QED BY <1>1, <1>3, <2>1, <2>2 DEF TablesTyped
<1>6. ASSUME NEW w \in Workers, Persist(w) PROVE CountsAreVerified'
  <2> DEFINE c == work[w].cycle
             X == {j \in DOMAIN cycles : cycles[j].stamp < c.stamp}
             T == S \cup {c}
  <2>1. c.counted \subseteq Verified
    BY <1>6 DEF Persist
  <2>2. cycles' \in Seq(T)
    <3>1. cycles' = InsertAt(cycles, 1 + Cardinality(X), c)
      BY <1>6 DEF Persist
    <3>2. X \subseteq DOMAIN cycles
      OBVIOUS
    <3> HIDE DEF X, c, T
    <3>3. Extends(S, cycles, c, cycles')
      BY <1>2, <3>1, <3>2, InsertedCycles
    <3> QED BY <3>3 DEF T, Extends
  <2>3. \A k \in T : k.counted \subseteq Verified'
    BY <1>1, <1>2, <2>1
  <2>4. \A v \in Workers : work'[v] = work[v] \/ work'[v].at = "decide"
    BY <1>1, <1>6 DEF Persist, TablesTyped
  <2>5. \A v \in Workers :
          /\ work'[v].at = "allocate" => work'[v].counted \subseteq Verified'
          /\ work'[v].at = "persist" => work'[v].cycle.counted \subseteq Verified'
    BY <1>1, <2>4
  <2> HIDE DEF T
  <2> QED BY <2>2, <2>3, <2>5
<1>7. ASSUME NEW w \in Workers,
             \/ \E s \in Signals, p \in Payloads : Receive(w, s, p)
             \/ Insert(w) \/ Update(w) \/ EndCycle(w)
      PROVE  CountsAreVerified'
  <2>1. UNCHANGED cycles
    BY <1>7 DEF Receive, Insert, Update, EndCycle
  <2>2. \A v \in Workers : work'[v] = work[v] \/ work'[v].at \notin {"allocate", "persist"}
    BY <1>1, <1>7 DEF Receive, Insert, Update, EndCycle, Answered, Idle, TablesTyped
  <2> QED BY <1>3, <2>1, <2>2
<1>8. ASSUME NEW w \in Workers, InsertRefused(w) \/ \E v \in Versions : DecideVersion(w, v)
      PROVE  CountsAreVerified'
  <2>1. UNCHANGED cycles
    BY <1>8 DEF InsertRefused, DecideVersion
  <2>2. work[w] \in Applying \cup Deciding
    BY <1>1, <1>8, Constants
       DEF InsertRefused, DecideVersion, TablesTyped, Applying, Allocating, Deciding
  <2>3. ASSUME NEW x, work' = [work EXCEPT ![w] = x], x.at \notin {"allocate", "persist"}
        PROVE  \A v \in Workers : work'[v] = work[v] \/ work'[v].at \notin {"allocate", "persist"}
    BY <1>1, <2>3 DEF TablesTyped
  <2>4. CASE InsertRefused(w)
    <3> DEFINE k == work[w].signal
               x == [work[w] EXCEPT !.loaded = outcome[k], !.stored = source[k]]
    <3>1. work' = [work EXCEPT ![w] = x]
      BY <2>4 DEF InsertRefused
    <3>2. x.at \notin {"allocate", "persist"}
      BY <2>2 DEF Applying, Deciding
    <3> QED BY <1>3, <2>1, <2>3, <3>1, <3>2
  <2>5. ASSUME NEW v \in Versions, DecideVersion(w, v) PROVE CountsAreVerified'
    <3> DEFINE x == [work[w] EXCEPT !.versions = @ \ {v}]
    <3>1. work' = [work EXCEPT ![w] = x]
      BY <2>5 DEF DecideVersion
    <3>2. x.at \notin {"allocate", "persist"}
      BY <2>2 DEF Applying, Deciding
    <3> QED BY <1>3, <2>1, <2>3, <3>1, <3>2
  <2> QED BY <1>8, <2>4, <2>5
<1>9. CASE UNCHANGED <<cycles, work>>
  BY <1>3, <1>9
<1>10. ASSUME \/ Tick \/ UNCHANGED vars
              \/ \E s \in Signals, p \in Parities : StoreSignal(s, p)
       PROVE  CountsAreVerified'
  BY <1>9, <1>10 DEF Tick, StoreSignal, vars
<1> QED BY <1>4, <1>5, <1>6, <1>7, <1>8, <1>10 DEF Next

(***************************************************************************)
(* research_ineligibility_reason: no calibration cycle, for any windows,   *)
(* workers and deliveries, counts an outcome whose decision the bridge     *)
(* does not hold under a verified fingerprint.                             *)
(***************************************************************************)
THEOREM CyclesCountVerified == Spec => []CountedIsVerified
<1>1. CountInv => CountedIsVerified
  <2> SUFFICES ASSUME CountInv, NEW i \in DOMAIN cycles, NEW s \in cycles[i].counted
               PROVE  source[s] = "PARITY_OK"
    BY DEF CountedIsVerified
  <2>1. PICK S : cycles \in Seq(S) /\ \A c \in S : c.counted \subseteq Verified
    BY DEF CountInv, CountsAreVerified
  <2>2. cycles[i] \in S
    BY <2>1, ElementOfSeq, LenProperties
  <2> QED BY <2>1, <2>2 DEF Verified
<1> QED BY <1>1, CalibrationInit, CountStep, PTL DEF Spec

-----------------------------------------------------------------------------
(***************************************************************************)
(* Grades: the least and the greatest of finitely many naturals.           *)
(***************************************************************************)
LEMMA MinOfNaturals ==
  ASSUME NEW S, S \subseteq Nat, S # {}
  PROVE  Min(S) \in S /\ \A x \in S : Min(S) <= x
<1> DEFINE Less == {pair \in Nat \X Nat : pair[1] < pair[2]}
<1>1. IsWellFoundedOn(Less, Nat)
  BY NatLessThanWellFounded DEF OpToRel
<1> \A x \in S : x \in Nat
  OBVIOUS
<1>2. PICK y \in S : \A x \in S : <<x, y>> \notin Less
  <2> HIDE DEF Less
  <2> QED BY <1>1, WFMin
<1>3. ASSUME NEW x \in S PROVE y <= x
  <2>1. <<x, y>> \in Nat \X Nat /\ <<x, y>>[1] = x /\ <<x, y>>[2] = y
    OBVIOUS
  <2>2. ~(x < y)
    BY <1>2, <2>1
  <2> QED BY <2>1, <2>2
<1> QED BY <1>3 DEF Min

LEMMA MaxOfNaturals ==
  ASSUME NEW S, S \subseteq Nat, S # {}, IsFiniteSet(S)
  PROVE  Max(S) \in S /\ \A x \in S : x <= Max(S)
<1> DEFINE Above(x) == {y \in S : y > x}
           Sizes == {Cardinality(Above(x)) : x \in S}
<1> \A x \in S : x \in Nat
  OBVIOUS
<1>1. \A x \in S : /\ IsFiniteSet(Above(x)) /\ Cardinality(Above(x)) \in Nat
  <2> TAKE x \in S
  <2>1. Above(x) \subseteq S
    OBVIOUS
  <2> HIDE DEF Above
  <2> QED BY <2>1, FS_Subset, FS_CardinalityType
<1>2. Min(Sizes) \in Sizes /\ \A n \in Sizes : Min(Sizes) <= n
  <2>1. Sizes \subseteq Nat /\ Sizes # {}
    BY <1>1
  <2> HIDE DEF Sizes
  <2> QED BY <2>1, MinOfNaturals
<1>3. PICK x \in S : Cardinality(Above(x)) = Min(Sizes)
  BY <1>2
<1>4. ASSUME NEW z \in S, z > x PROVE FALSE
  <2>1. Above(z) \subseteq Above(x) /\ z \in Above(x) /\ z \notin Above(z)
    <3>1. \A y \in S : y > z => y > x
      BY <1>4
    <3>2. ~(z > z)
      OBVIOUS
    <3> QED BY <1>4, <3>1, <3>2
  <2>2. Cardinality(Above(z)) \in Sizes
    OBVIOUS
  <2>3. Cardinality(Above(x)) <= Cardinality(Above(z))
    BY <1>2, <1>3, <2>2
  <2> HIDE DEF Above, Sizes
  <2>4. Cardinality(Above(z)) <= Cardinality(Above(x))
    BY <1>1, <2>1, FS_Subset
  <2>5. Cardinality(Above(x)) = Cardinality(Above(z))
    BY <1>1, <2>3, <2>4
  <2>6. Above(z) = Above(x)
    BY <1>1, <2>1, <2>5, FS_Subset
  <2> QED BY <2>1, <2>6
<1>5. \A y \in S : x >= y
  BY <1>4
<1> QED BY <1>5 DEF Max

LEMMA GradesInOrder ==
  ASSUME NEW rows, rows \subseteq Signals, NEW m, Estimable(m, rows)
  PROVE  /\ Min(Grades(m, rows)) \in Nat /\ Max(Grades(m, rows)) \in Nat
         /\ Min(Grades(m, rows)) <= Max(Grades(m, rows))
<1> DEFINE f == [s \in Scored(m, rows) |-> GradeOf[s][m]]
<1>1. Scored(m, rows) \subseteq Signals
  BY DEF Scored
<1>2. f \in Surjection(Scored(m, rows), Grades(m, rows))
  BY DEF Surjection, Grades
<1>3. IsFiniteSet(Scored(m, rows))
  BY <1>1, GradesAssumption, FS_Subset
<1>4. IsFiniteSet(Grades(m, rows))
  BY <1>2, <1>3, FS_Surjection
<1>5. Grades(m, rows) \subseteq Nat /\ Grades(m, rows) # {}
  BY <1>1, GradesAssumption DEF Grades, Scored, Estimable
<1> QED BY <1>4, <1>5, MinOfNaturals, MaxOfNaturals

(***************************************************************************)
(* The history of a version: the cycles that saw it, in their order.       *)
(***************************************************************************)
LEMMA NthOf ==
  ASSUME NEW S, S \subseteq Nat, IsFiniteSet(S), NEW n \in 1..Cardinality(S)
  PROVE  Nth(S, n) \in S
<1> DEFINE Upto(i) == {j \in S : j <= i}
           rank == [i \in S |-> Cardinality(Upto(i))]
           T == 1..Cardinality(S)
<1> \A i \in S : i \in Nat
  OBVIOUS
<1>1. \A i \in S : /\ IsFiniteSet(Upto(i)) /\ Upto(i) \subseteq S /\ i \in Upto(i)
                   /\ Cardinality(Upto(i)) \in T
  <2> SUFFICES ASSUME NEW i \in S
               PROVE  /\ IsFiniteSet(Upto(i)) /\ Upto(i) \subseteq S /\ i \in Upto(i)
                      /\ Cardinality(Upto(i)) \in T
    OBVIOUS
  <2>1. Upto(i) \subseteq S /\ i \in Upto(i)
    OBVIOUS
  <2> HIDE DEF Upto
  <2>2. IsFiniteSet(Upto(i)) /\ Cardinality(Upto(i)) <= Cardinality(S)
    BY <2>1, FS_Subset
  <2>3. Cardinality(Upto(i)) # 0
    BY <2>1, <2>2, FS_EmptySet
  <2>4. Cardinality(Upto(i)) \in Nat /\ Cardinality(S) \in Nat
    BY <2>2, FS_CardinalityType
  <2> QED BY <2>1, <2>2, <2>3, <2>4
<1>2. ASSUME NEW i \in S, NEW k \in S, i < k
      PROVE  Cardinality(Upto(i)) # Cardinality(Upto(k))
  <2>1. Upto(i) \subseteq Upto(k) /\ k \in Upto(k) /\ k \notin Upto(i)
    <3>1. (\A j \in S : j <= i => j <= k) /\ k <= k /\ ~(k <= i)
      BY <1>2
    <3> QED BY <3>1
  <2> HIDE DEF Upto
  <2> QED BY <1>1, <2>1, FS_Subset
<1>3. rank \in Injection(S, T)
  <2>1. rank \in [S -> T]
    BY <1>1
  <2>2. \A i, k \in S : rank[i] = rank[k] => i = k
    <3> HIDE DEF Upto
    <3> QED BY <1>2
  <2> HIDE DEF rank
  <2> QED BY <2>1, <2>2 DEF Injection, IsInjective
<1>4. IsFiniteSet(T) /\ Cardinality(T) = Cardinality(S)
  BY FS_CardinalityType, FS_Interval
<1>5. rank \in Surjection(S, T)
  <2> HIDE DEF rank, T
  <2> QED BY <1>3, <1>4, FS_Injection
<1>6. PICK i \in S : rank[i] = n
  <2> HIDE DEF rank
  <2> QED BY <1>5 DEF Surjection
<1>7. Cardinality({j \in S : j <= i}) = n
  BY <1>6
<1> QED BY <1>7 DEF Nth

LEMMA HistoryOfVersion ==
  ASSUME NEW S, cycles \in Seq(S), \A c \in S : c.counted \subseteq Signals, NEW v
  PROVE  /\ History(v) \in Seq(SUBSET Signals)
         /\ Len(History(v)) \in Nat
<1> DEFINE seen == {i \in DOMAIN cycles : OfVersion(v, cycles[i].counted) # {}}
           N == Cardinality(seen)
<1>1. DOMAIN cycles = 1..Len(cycles) /\ Len(cycles) \in Nat /\ \A i \in DOMAIN cycles : cycles[i] \in S
  BY LenProperties, ElementOfSeq
<1>2. seen \subseteq 1..Len(cycles) /\ IsFiniteSet(1..Len(cycles))
  BY <1>1, FS_Interval
<1>3. \A i \in seen : OfVersion(v, cycles[i].counted) \in SUBSET Signals
  BY <1>1 DEF OfVersion
<1>4. History(v) = [n \in 1..N |-> OfVersion(v, cycles[Nth(seen, n)].counted)]
  BY DEF History
<1> HIDE DEF seen
<1>5. IsFiniteSet(seen) /\ N \in Nat /\ seen \subseteq Nat
  <2>1. 1..Len(cycles) \subseteq Nat
    BY <1>1
  <2>2. IsFiniteSet(seen)
    BY <1>2, FS_Subset
  <2> QED BY <1>2, <2>1, <2>2, FS_CardinalityType
<1>6. \A n \in 1..N : Nth(seen, n) \in seen
  BY <1>5, NthOf
<1>7. \A n \in 1..N : OfVersion(v, cycles[Nth(seen, n)].counted) \in SUBSET Signals
  BY <1>3, <1>6
<1> HIDE DEF N
<1>8. History(v) \in Seq(SUBSET Signals)
  BY <1>4, <1>5, <1>7, IsASeq
<1> QED BY <1>8, LenProperties

(***************************************************************************)
(* A card asks to promote only what the gate found persistent.             *)
(***************************************************************************)
Persistent(history) ==
  LET n == Len(history)
  IN  /\ n >= 3
      /\ history[n] # history[n - 1] /\ history[n - 1] # history[n - 2]
      /\ \A m \in Metrics :
           Max(Grades(m, history[n - 2])) < Min(Grades(m, history[n]))

CardsArePersistent ==
  \E S : cards \in Seq(S) /\ \A c \in S : c.action = "PROMOTE" => Persistent(c.basis)

LEMMA MovedUp ==
  ASSUME NEW a, NEW b, a \subseteq Signals, b \subseteq Signals, NEW m, Moved(m, a, b) = "up"
  PROVE  /\ Max(Grades(m, a)) < Min(Grades(m, b)) /\ a # b
         /\ Min(Grades(m, a)) \in Nat /\ Max(Grades(m, a)) \in Nat
         /\ Min(Grades(m, b)) \in Nat /\ Max(Grades(m, b)) \in Nat
         /\ Min(Grades(m, b)) <= Max(Grades(m, b))
<1>1. Estimable(m, a) /\ Estimable(m, b)
  BY DEF Moved
<1>2. Interval(m, a).high < Interval(m, b).low
  BY <1>1 DEF Moved
<1>3. Max(Grades(m, a)) < Min(Grades(m, b))
  BY <1>2 DEF Interval
<1>4. /\ Min(Grades(m, a)) \in Nat /\ Max(Grades(m, a)) \in Nat
      /\ Min(Grades(m, a)) <= Max(Grades(m, a))
      /\ Min(Grades(m, b)) \in Nat /\ Max(Grades(m, b)) \in Nat
      /\ Min(Grades(m, b)) <= Max(Grades(m, b))
  BY <1>1, GradesInOrder
<1>5. a # b
  <2> SUFFICES ASSUME a = b PROVE FALSE
    OBVIOUS
  <2> QED BY <1>3, <1>4
<1> QED BY <1>3, <1>4, <1>5

LEMMA PromotedHistory ==
  ASSUME NEW history \in Seq(SUBSET Signals), Decide(history) = "PROMOTE"
  PROVE  Persistent(history)
<1> DEFINE n == Len(history)
           up(m) == Recent(m, history, MIN_PERSISTENCE) = {"up"}
<1>1. n \in Nat
  BY LenProperties
<1>2. ~(n < MIN_PERSISTENCE + 1) /\ \A m \in Metrics : up(m)
  BY DEF Decide
<1>3. n >= 3
  BY <1>1, <1>2 DEF MIN_PERSISTENCE
<1>4. /\ n \in 1..n /\ n - 1 \in 1..n /\ n - 2 \in 1..n /\ (n - 1) - 1 = n - 2
      /\ n \in (n - MIN_PERSISTENCE + 1)..n /\ n - 1 \in (n - MIN_PERSISTENCE + 1)..n
  BY <1>1, <1>3 DEF MIN_PERSISTENCE
<1>5. history[n] \subseteq Signals /\ history[n - 1] \subseteq Signals /\ history[n - 2] \subseteq Signals
  BY <1>4, ElementOfSeq
<1>6. ASSUME NEW m \in Metrics
      PROVE  /\ Moved(m, history[n - 1], history[n]) = "up"
             /\ Moved(m, history[n - 2], history[n - 1]) = "up"
  <2>1. up(m)
    BY <1>2
  <2>2. Recent(m, history, MIN_PERSISTENCE) =
          {Moved(m, history[i - 1], history[i]) : i \in (n - MIN_PERSISTENCE + 1)..n}
    BY DEF Recent
  <2>3. /\ Moved(m, history[n - 1], history[n]) \in Recent(m, history, MIN_PERSISTENCE)
        /\ Moved(m, history[(n - 1) - 1], history[n - 1]) \in Recent(m, history, MIN_PERSISTENCE)
    BY <1>4, <2>2
  <2> QED BY <1>4, <2>1, <2>3
<1>7. \A m \in Metrics : Max(Grades(m, history[n - 2])) < Min(Grades(m, history[n]))
  <2> TAKE m \in Metrics
  <2> DEFINE top == Max(Grades(m, history[n - 2]))
             low == Min(Grades(m, history[n - 1]))
             high == Max(Grades(m, history[n - 1]))
             bottom == Min(Grades(m, history[n]))
  <2>1. top < low /\ low <= high /\ top \in Nat /\ low \in Nat /\ high \in Nat
    BY <1>5, <1>6, MovedUp
  <2>2. high < bottom /\ bottom \in Nat
    BY <1>5, <1>6, MovedUp
  <2> HIDE DEF top, low, high, bottom
  <2>3. top < bottom
    BY <2>1, <2>2
  <2> QED BY <2>3 DEF top, bottom
<1>8. history[n] # history[n - 1] /\ history[n - 1] # history[n - 2]
  <2>1. "win_rate" \in Metrics
    BY DEF Metrics
  <2> QED BY <1>5, <1>6, <2>1, MovedUp
<1> QED BY <1>3, <1>7, <1>8 DEF Persistent

LEMMA CardStep == CountInv /\ CardsArePersistent /\ [Next]_vars => CardsArePersistent'
<1> SUFFICES ASSUME CountInv, CardsArePersistent, [Next]_vars PROVE CardsArePersistent'
  OBVIOUS
<1>1. PICK S : cards \in Seq(S) /\ \A c \in S : c.action = "PROMOTE" => Persistent(c.basis)
  BY DEF CardsArePersistent
<1>2. CASE UNCHANGED cards
  BY <1>1, <1>2 DEF CardsArePersistent
<1>3. ASSUME NEW w \in Workers, NEW v \in Versions, DecideVersion(w, v)
      PROVE  CardsArePersistent'
  <2> DEFINE history == History(v)
             action == Decide(history)
             card == [version |-> v, action |-> action, basis |-> history,
                      status |-> IF action = "PROMOTE" THEN "pending" ELSE "auto_executed"]
  <2>1. cards' = cards \/ cards' = Append(cards, card)
    BY <1>3 DEF DecideVersion
  <2>2. PICK T : cycles \in Seq(T) /\ \A c \in T : c.counted \subseteq Verified
    BY DEF CountInv, CountsAreVerified
  <2>3. history \in Seq(SUBSET Signals)
    <3>1. \A c \in T : c.counted \subseteq Signals
      BY <2>2 DEF Verified
    <3> QED BY <2>2, <3>1, HistoryOfVersion
  <2>4. card.action = "PROMOTE" => Persistent(card.basis)
    <3>1. card.action = action /\ card.basis = history
      OBVIOUS
    <3> HIDE DEF card
    <3> QED BY <2>3, <3>1, PromotedHistory
  <2> HIDE DEF card
  <2>5. CASE cards' = Append(cards, card)
    <3>1. cards \in Seq(S \cup {card})
      BY <1>1, SeqMonotonic
    <3>2. cards' \in Seq(S \cup {card})
      BY <2>5, <3>1, AppendProperties
    <3>3. \A c \in S \cup {card} : c.action = "PROMOTE" => Persistent(c.basis)
      BY <1>1, <2>4
    <3> QED BY <3>2, <3>3 DEF CardsArePersistent
  <2> QED BY <1>2, <2>1, <2>5
<1>4. UNCHANGED cards \/ \E w \in Workers, v \in Versions : DecideVersion(w, v)
  BY DEF Next, Tick, StoreSignal, Receive, Insert, InsertRefused, Update, FetchRows, Allocate,
         Persist, EndCycle, vars
<1> QED BY <1>2, <1>3, <1>4

(***************************************************************************)
(* tools/gating.py decide: whatever cycles run at once, run again or are   *)
(* read in another order than they were committed, a version is proposed   *)
(* for promotion only after two improvements in every metric, each on new  *)
(* evidence.                                                               *)
(***************************************************************************)
THEOREM PromotionNeedsPersistence == Spec => []PromotionIsPersistent
<1>1. Init => CardsArePersistent
  <2> SUFFICES ASSUME Init PROVE CardsArePersistent
    OBVIOUS
  <2>1. cards \in Seq({})
    BY DEF Init
  <2> QED BY <2>1 DEF CardsArePersistent
<1>2. CardsArePersistent => PromotionIsPersistent
  <2> SUFFICES ASSUME CardsArePersistent, NEW i \in DOMAIN cards, cards[i].action = "PROMOTE"
               PROVE  Persistent(cards[i].basis)
    BY DEF PromotionIsPersistent, Persistent
  <2>1. PICK S : cards \in Seq(S) /\ \A c \in S : c.action = "PROMOTE" => Persistent(c.basis)
    BY DEF CardsArePersistent
  <2>2. cards[i] \in S
    BY <2>1, ElementOfSeq, LenProperties
  <2> QED BY <2>1, <2>2
<1> QED BY <1>1, <1>2, CalibrationInit, CountStep, CardStep, PTL DEF Spec

-----------------------------------------------------------------------------
(***************************************************************************)
(* Multipliers: each is the default, or some cycle earned it, the one      *)
(* being computed or a stored one.                                         *)
(***************************************************************************)
Stored(S) == cycles \in Seq(S) /\ \A c \in S : \E i \in DOMAIN cycles : cycles[i] = c

EarnedBy(c, r, m) == LET rows == OfRegime(r, c.counted) IN Qualified(rows) /\ Target(rows) = m

Earned(S, r, m) == m = DefaultMultiplier \/ \E c \in S : EarnedBy(c, r, m)

AllEarned(S, c) == \A r \in DOMAIN c.allocations : Earned(S, r, c.allocations[r])

MultipliersInv ==
  \E S : /\ Stored(S)
         /\ \A c \in S : AllEarned(S, c)
         /\ \A w \in Workers : work[w].at = "persist" =>
              AllEarned(S \cup {work[w].cycle}, work[w].cycle)

LEMMA AllocationsAreEarned ==
  ASSUME NEW S, NEW previous, NEW c,
         \A r \in DOMAIN previous : Earned(S, r, previous[r]),
         c.allocations = Allocations(c.counted, previous)
  PROVE  AllEarned(S \cup {c}, c)
<1> SUFFICES ASSUME NEW r \in DOMAIN c.allocations
             PROVE  Earned(S \cup {c}, r, c.allocations[r])
  BY DEF AllEarned
<1> DEFINE before == IF r \in DOMAIN previous THEN previous[r] ELSE DefaultMultiplier
           rows == OfRegime(r, c.counted)
<1>1. c.allocations[r] = ProposeMultiplier(rows, before)
  BY DEF Allocations
<1>2. Earned(S, r, before)
  BY DEF Earned
<1> HIDE DEF before
<1>3. CASE Qualified(rows)
  BY <1>1, <1>3 DEF ProposeMultiplier, Earned, EarnedBy
<1>4. CASE ~Qualified(rows)
  BY <1>1, <1>2, <1>4 DEF ProposeMultiplier, Earned
<1> QED BY <1>3, <1>4

LEMMA MultipliersStep == TablesTyped /\ MultipliersInv /\ [Next]_vars => MultipliersInv'
<1> SUFFICES ASSUME TablesTyped, MultipliersInv, [Next]_vars PROVE MultipliersInv'
  OBVIOUS
<1>1. PICK S : /\ Stored(S)
               /\ \A c \in S : AllEarned(S, c)
               /\ \A w \in Workers : work[w].at = "persist" =>
                    AllEarned(S \cup {work[w].cycle}, work[w].cycle)
  BY DEF MultipliersInv
<1>2. cycles \in Seq(S) /\ \A c \in S : \E i \in DOMAIN cycles : cycles[i] = c
  BY <1>1 DEF Stored
\* Steps that store no cycle.
<1>3. ASSUME UNCHANGED cycles,
             \A w \in Workers : \/ work'[w] = work[w]
                                \/ work'[w].at # "persist"
                                \/ AllEarned(S \cup {work'[w].cycle}, work'[w].cycle)
      PROVE  MultipliersInv'
  <2>1. Stored(S)'
    BY <1>2, <1>3 DEF Stored
  <2>2. \A w \in Workers : work'[w].at = "persist" =>
          AllEarned(S \cup {work'[w].cycle}, work'[w].cycle)
    BY <1>1, <1>3
  <2>3. \A c : AllEarned(S, c) => AllEarned(S, c)'
    BY DEF AllEarned, Earned, EarnedBy
  <2> QED BY <1>1, <2>1, <2>2 DEF MultipliersInv
<1>4. ASSUME NEW w \in Workers, Allocate(w) PROVE MultipliersInv'
  <2> DEFINE previous == IF cycles = << >> THEN << >> ELSE Last(cycles).allocations
             c == [stamp |-> work[w].stamp, counted |-> work[w].counted,
                   allocations |-> Allocations(work[w].counted, previous)]
  <2>1. work' = [work EXCEPT ![w] = [at |-> "persist", cycle |-> c]] /\ UNCHANGED cycles
    BY <1>4 DEF Allocate
  <2>2. \A r \in DOMAIN previous : Earned(S, r, previous[r])
    <3>1. CASE cycles = << >>
      BY <3>1
    <3>2. CASE cycles # << >>
      <4>1. Last(cycles) \in S
        BY <1>2, <3>2, ElementOfSeq, EmptySeq, LenProperties DEF Last
      <4> QED BY <1>1, <3>2, <4>1 DEF AllEarned
    <3> QED BY <3>1, <3>2
  <2>3. c.allocations = Allocations(c.counted, previous)
    OBVIOUS
  <2> HIDE DEF previous, c
  <2>4. AllEarned(S \cup {c}, c)
    BY <2>2, <2>3, AllocationsAreEarned
  <2>5. \A v \in Workers : work'[v] = work[v] \/ work'[v] = [at |-> "persist", cycle |-> c]
    BY <2>1 DEF TablesTyped
  <2> QED BY <1>3, <2>1, <2>4, <2>5
<1>5. ASSUME NEW w \in Workers, Persist(w) PROVE MultipliersInv'
  <2>1. PICK c : c = work[w].cycle /\ work[w].at = "persist"
    BY <1>5 DEF Persist
  <2> DEFINE X == {j \in DOMAIN cycles : cycles[j].stamp < c.stamp}
             T == S \cup {c}
  <2>2. X \subseteq DOMAIN cycles /\ cycles' = InsertAt(cycles, 1 + Cardinality(X), c)
    BY <1>5, <2>1 DEF Persist
  <2> HIDE DEF X
  <2>3. /\ cycles' \in Seq(T)
        /\ \E j \in DOMAIN cycles' : cycles'[j] = c
        /\ \A i \in DOMAIN cycles : \E j \in DOMAIN cycles' : cycles'[j] = cycles[i]
    <3>1. Extends(S, cycles, c, cycles')
      BY <1>2, <2>2, InsertedCycles
    <3> QED BY <3>1 DEF Extends
  <2>4. \A k \in T : \E j \in DOMAIN cycles' : cycles'[j] = k
    BY <1>2, <2>3
  <2>5. Stored(T)'
    BY <2>3, <2>4 DEF Stored
  <2>6. \A k : \A U : AllEarned(U, k) => AllEarned(U \cup {c}, k)
    BY DEF AllEarned, Earned
  <2>7. \A k \in T : AllEarned(T, k)
    BY <1>1, <2>1, <2>6
  <2>8. \A v \in Workers : work'[v] = work[v] \/ work'[v].at = "decide"
    BY <1>5 DEF Persist, TablesTyped
  <2>9. \A v \in Workers : work'[v].at = "persist" =>
          AllEarned(T \cup {work'[v].cycle}, work'[v].cycle)
    <3> SUFFICES ASSUME NEW v \in Workers, work'[v].at = "persist"
                 PROVE  AllEarned(T \cup {work'[v].cycle}, work'[v].cycle)
      OBVIOUS
    <3>1. AllEarned(S \cup {work'[v].cycle}, work'[v].cycle)
      BY <1>1, <2>8
    <3>2. AllEarned((S \cup {work'[v].cycle}) \cup {c}, work'[v].cycle)
      BY <2>6, <3>1
    <3>3. (S \cup {work'[v].cycle}) \cup {c} = T \cup {work'[v].cycle}
      OBVIOUS
    <3> QED BY <3>2, <3>3
  <2>10. \A k \in T : AllEarned(T, k)'
    BY <2>7 DEF AllEarned, Earned, EarnedBy
  <2> HIDE DEF T
  <2> QED BY <2>5, <2>9, <2>10 DEF MultipliersInv, AllEarned, Earned, EarnedBy
<1>6. ASSUME NEW w \in Workers,
             \/ \E s \in Signals, p \in Payloads : Receive(w, s, p)
             \/ Insert(w) \/ Update(w) \/ EndCycle(w) \/ FetchRows(w)
      PROVE  MultipliersInv'
  <2>1. UNCHANGED cycles
    BY <1>6 DEF Receive, Insert, Update, EndCycle, FetchRows
  <2>2. \A v \in Workers : work'[v] = work[v] \/ work'[v].at # "persist"
    BY <1>6 DEF Receive, Insert, Update, EndCycle, FetchRows, Answered, Idle, TablesTyped
  <2> QED BY <1>3, <2>1, <2>2
<1>7. ASSUME NEW w \in Workers, InsertRefused(w) \/ \E v \in Versions : DecideVersion(w, v)
      PROVE  MultipliersInv'
  <2>1. UNCHANGED cycles
    BY <1>7 DEF InsertRefused, DecideVersion
  <2>2. work[w] \in Applying \cup Deciding
    BY <1>7, Constants
       DEF InsertRefused, DecideVersion, TablesTyped, Applying, Allocating, Deciding
  <2>3. PICK x : work' = [work EXCEPT ![w] = x] /\ x.at # "persist"
    <3> DEFINE k == work[w].signal
               y == [work[w] EXCEPT !.loaded = outcome[k], !.stored = source[k]]
               z(v) == [work[w] EXCEPT !.versions = @ \ {v}]
    <3>1. CASE InsertRefused(w)
      <4>1. work' = [work EXCEPT ![w] = y]
        BY <3>1 DEF InsertRefused
      <4>2. y.at # "persist"
        BY <2>2 DEF Applying, Deciding
      <4> QED BY <4>1, <4>2
    <3>2. ASSUME NEW v \in Versions, DecideVersion(w, v)
          PROVE  \E x : work' = [work EXCEPT ![w] = x] /\ x.at # "persist"
      <4>1. work' = [work EXCEPT ![w] = z(v)]
        BY <3>2 DEF DecideVersion
      <4>2. z(v).at # "persist"
        BY <2>2 DEF Applying, Deciding
      <4> QED BY <4>1, <4>2
    <3> QED BY <1>7, <3>1, <3>2
  <2>4. \A v \in Workers : work'[v] = work[v] \/ work'[v].at # "persist"
    BY <2>3 DEF TablesTyped
  <2> QED BY <1>3, <2>1, <2>4
<1>8. ASSUME \/ Tick \/ UNCHANGED vars
             \/ \E s \in Signals, p \in Parities : StoreSignal(s, p)
      PROVE  MultipliersInv'
  BY <1>3, <1>8 DEF Tick, StoreSignal, vars
<1> QED BY <1>4, <1>5, <1>6, <1>7, <1>8 DEF Next

(***************************************************************************)
(* tools/regime_allocation.py: a multiplier in a stored cycle that differs *)
(* from the default was earned by the qualified evidence of a stored       *)
(* cycle, however often thin windows carried it over and whatever cycles   *)
(* were lost between.                                                      *)
(***************************************************************************)
THEOREM MultipliersAreEarned == Spec => []MultiplierIsEarned
<1>1. Init => MultipliersInv
  <2> SUFFICES ASSUME Init PROVE MultipliersInv
    OBVIOUS
  <2>1. Stored({})
    BY DEF Init, Stored
  <2>2. \A w \in Workers : work[w].at = "idle"
    BY DEF Init, Idle
  <2> QED BY <2>1, <2>2 DEF MultipliersInv
<1>2. MultipliersInv => MultiplierIsEarned
  <2> SUFFICES ASSUME MultipliersInv, NEW i \in DOMAIN cycles,
                      NEW r \in DOMAIN cycles[i].allocations
               PROVE  \/ cycles[i].allocations[r] = DefaultMultiplier
                      \/ \E j \in DOMAIN cycles : EarnedBy(cycles[j], r, cycles[i].allocations[r])
    BY DEF MultiplierIsEarned, EarnedBy
  <2>1. PICK S : Stored(S) /\ \A c \in S : AllEarned(S, c)
    BY DEF MultipliersInv
  <2>2. cycles[i] \in S
    BY <2>1, ElementOfSeq, LenProperties DEF Stored
  <2>3. Earned(S, r, cycles[i].allocations[r])
    BY <2>1, <2>2 DEF AllEarned
  <2> QED BY <2>1, <2>3 DEF Earned, Stored
<1>3. EvidenceInv => TablesTyped
  BY DEF EvidenceInv
<1>4. Init => EvidenceInv
  BY CalibrationInit DEF CountInv
<1> QED BY <1>1, <1>2, <1>3, <1>4, EvidenceStep, MultipliersStep, PTL DEF Spec

=============================================================================
