--------------------------- MODULE ExecutionLedger ---------------------------
(***************************************************************************)
(* The bridge's durable execution ledger: admission of risk, the state of  *)
(* every execution request, reconciliation with what the broker shows, and *)
(* the write-ahead log of stop modifications                               *)
(* (telegram-bridge/app/execution_control.py, served by                    *)
(* telegram-bridge/app/api/execution_ledger.py).                           *)
(*                                                                         *)
(* One action is one HTTP handler: a handler is one database transaction,  *)
(* so a handler that answers 4xx rolls back and is not a step here, and    *)
(* its early returns are the guards of the action.  How concurrent         *)
(* transactions interleave is the subject of LedgerTransactions.           *)
(*                                                                         *)
(* Abstractions.  Risk is counted in whole units of R; identities are      *)
(* model values and NoRef is a null column; a stop is a natural number     *)
(* that grows with the protection it gives, so BUY and SELL are the same   *)
(* case; symbols, volatility, factor exposures, take-profits, time stamps  *)
(* and the JSON audit payloads, which no handler decides on, are left out. *)
(***************************************************************************)
EXTENDS Integers, FiniteSets, Functions

CONSTANTS
  Portfolios,  \* portfolio keys: server, login and magic number
  Requests,    \* request ids, the unique key of a ledger row
  Orders,      \* broker order tickets
  Positions,   \* broker position identifiers
  Deals,       \* broker deal tickets
  Events,      \* ids of stop-modification intents
  Risks,       \* sizes of risk a caller may name, in units of R
  Stops,       \* stop levels, ordered by the protection they give
  MaxHeat,     \* MAX_PORTFOLIO_HEAT_R, in the same units as Risks
  NoRef        \* a null column

ASSUME SizesAssumption ==
  /\ Risks \subseteq Nat \ {0}
  /\ Stops \subseteq Nat \ {0}
  /\ MaxHeat \in Nat

ASSUME NullAssumption ==
  NoRef \notin Portfolios \cup Orders \cup Positions \cup Deals

VARIABLES
  ledger,       \* execution_ledger, by request id
  reservation,  \* portfolio_reservations, by request id
  expired,      \* the requests whose lease_until has passed
  deals,        \* execution_deal_events, by portfolio and deal
  mods          \* execution_position_modifications, by portfolio and event

vars == <<ledger, reservation, expired, deals, mods>>

-----------------------------------------------------------------------------
(* The tables *)

Terminal == {"REJECTED", "CANCELLED", "RECONCILED"}

States == {"RESERVED", "CHECKED", "SENT", "ACKED", "RECOVERING", "FILLED"}
            \cup Terminal

\* Faulty variant: CANCELLED is not treated as terminal, so a late fill is a
\* legal move out of it.
AllowedTransitionsReopening ==
  [s \in States |-> IF s \in {"REJECTED", "RECONCILED"} THEN {} ELSE States]

AllowedTransitions ==
  [s \in States |->
    CASE s = "RESERVED"   -> {"CHECKED", "REJECTED", "CANCELLED"}
      [] s = "CHECKED"    -> {"SENT", "FILLED", "RECOVERING", "REJECTED",
                              "CANCELLED"}
      [] s = "SENT"       -> {"ACKED", "FILLED", "RECOVERING", "REJECTED",
                              "CANCELLED"}
      [] s = "ACKED"      -> {"FILLED", "RECOVERING", "REJECTED", "CANCELLED"}
      [] s = "RECOVERING" -> {"ACKED", "FILLED", "REJECTED", "CANCELLED",
                              "RECONCILED"}
      [] s = "FILLED"     -> {"RECONCILED"}
      [] s \in Terminal   -> {}]

\* The states a lapsed lease turns into RECOVERING.
Leased == {"RESERVED", "CHECKED", "SENT", "ACKED"}

OrNull(S) == S \cup {NoRef}

Row == [portfolio : OrNull(Portfolios), state : States \cup {"ABSENT"},
        order : OrNull(Orders), deal : OrNull(Deals),
        position : OrNull(Positions)]

NoRow == [portfolio |-> NoRef, state |-> "ABSENT", order |-> NoRef,
          deal |-> NoRef, position |-> NoRef]

Reservation == [portfolio : OrNull(Portfolios),
                status : {"NONE", "ACTIVE", "RELEASED"}, risk : Risks \cup {0}]

NoReservation == [portfolio |-> NoRef, status |-> "NONE", risk |-> 0]

\* The immutable columns of a deal, which its fingerprint covers.  Every
\* closing entry type (OUT, OUT_BY, INOUT) is treated as OUT.
Deal == [order : OrNull(Orders), position : Positions, entry : {"IN", "OUT"}]

NoDeal == [order |-> NoRef, position |-> NoRef, entry |-> "NONE"]

Modification == [request : Requests, position : Positions, old : Stops \cup {0},
                 proposed : Stops, actual : Stops \cup {0},
                 status : {"PENDING", "APPLIED", "SNAPSHOT_RECONCILED",
                           "POSITION_CLOSED"}]

NoModification == [request |-> NoRef, position |-> NoRef, old |-> 0,
                   proposed |-> 0, actual |-> 0, status |-> "NONE"]

TypeOK ==
  /\ ledger \in [Requests -> Row]
  /\ reservation \in [Requests -> Reservation]
  /\ expired \subseteq Requests
  /\ deals \in [Portfolios -> [Deals -> Deal \cup {NoDeal}]]
  /\ mods \in [Portfolios -> [Events -> Modification \cup {NoModification}]]

Init ==
  /\ ledger = [r \in Requests |-> NoRow]
  /\ reservation = [r \in Requests |-> NoReservation]
  /\ expired = {}
  /\ deals = [p \in Portfolios |-> [d \in Deals |-> NoDeal]]
  /\ mods = [p \in Portfolios |-> [e \in Events |-> NoModification]]

-----------------------------------------------------------------------------
(* Queries *)

Known(r) == ledger[r].state # "ABSENT"

Active(p) == {r \in Requests : /\ reservation[r].status = "ACTIVE"
                               /\ reservation[r].portfolio = p}

HeatOf(S) == SumFunctionOnSet([r \in Requests |-> reservation[r].risk], S)

\* sum(abs(item.risk_r) for item in active)
Heat(p) == HeatOf(Active(p))

PendingIn(p) == {e \in Events : mods[p][e].status = "PENDING"}

PendingOn(p, pos) == {e \in PendingIn(p) : mods[p][e].position = pos}

HasBrokerReference(row) ==
  row.order # NoRef \/ row.deal # NoRef \/ row.position # NoRef

RowsByPosition(p, pos) ==
  {r \in Requests : /\ Known(r)
                    /\ ledger[r].portfolio = p
                    /\ pos # NoRef
                    /\ ledger[r].position = pos}

RowsByOrder(p, ord) ==
  {r \in Requests : /\ Known(r)
                    /\ ledger[r].portfolio = p
                    /\ ord # NoRef
                    /\ ledger[r].order = ord}

\* The rows a broker identity may resolve to.  The query has no ORDER BY and
\* no identity column is unique: when several rows match, which one the
\* database returns first is not determined.
BrokerRecords(p, pos, ord) ==
  IF RowsByPosition(p, pos) # {} THEN RowsByPosition(p, pos)
                                 ELSE RowsByOrder(p, ord)

\* A column that an update sets only when the message carries a value.
Given(new, old) == IF new # NoRef THEN new ELSE old

-----------------------------------------------------------------------------
(* Effects shared by several handlers.  An existing row keeps its portfolio: *)
(* a handler that meets a row of another portfolio fails.                    *)

SetRow(r, row) == ledger' = [ledger EXCEPT ![r] = row]

\* Faulty variant: an observation adds to the risk instead of replacing it.
HoldAdding(r, p, k) ==
  /\ reservation[r].status = "NONE" \/ reservation[r].portfolio = p
  /\ reservation' = [reservation EXCEPT
       ![r] = [portfolio |-> p, status |-> "ACTIVE", risk |-> @.risk + k]]

\* _upsert_active_reservation
Hold(r, p, k) ==
  /\ reservation[r].status = "NONE" \/ reservation[r].portfolio = p
  /\ reservation' = [reservation EXCEPT
       ![r] = [portfolio |-> p, status |-> "ACTIVE", risk |-> k]]

\* reservation.status = "RELEASED", when the request has a reservation
Release(r) ==
  reservation' = [reservation EXCEPT
    ![r].status = IF @ = "NONE" THEN @ ELSE "RELEASED"]

RenewLease(r) == expired' = expired \ {r}

\* What a broker snapshot that shows stop level stop says of intent m.
SnapshotVerdict(m, stop) ==
  [m EXCEPT !.status = IF stop >= m.proposed THEN "APPLIED"
                                             ELSE "SNAPSHOT_RECONCILED",
            !.actual = stop]

\* A snapshot resolves the pending intents of the position, unless it carries
\* no stop.
ResolveBySnapshot(p, pos, stop) ==
  mods' = [mods EXCEPT ![p] = [e \in Events |->
    IF stop > 0 /\ e \in PendingOn(p, pos)
      THEN SnapshotVerdict(mods[p][e], stop)
      ELSE mods[p][e]]]

ResolveByClose(p, pos) ==
  mods' = [mods EXCEPT ![p] = [e \in Events |->
    IF e \in PendingOn(p, pos)
      THEN [mods[p][e] EXCEPT !.status = "POSITION_CLOSED"]
      ELSE mods[p][e]]]

-----------------------------------------------------------------------------
(* Admission *)

\* Faulty variant: the request's own risk is not counted against the ceiling.
ReserveUncounted(p, r, k) ==
  /\ ~Known(r)
  /\ PendingIn(p) = {}
  /\ Heat(p) <= MaxHeat
  /\ SetRow(r, [NoRow EXCEPT !.portfolio = p, !.state = "RESERVED"])
  /\ Hold(r, p, k)
  /\ RenewLease(r)
  /\ UNCHANGED <<deals, mods>>

\* Faulty variant: admission ignores unresolved stop modifications.
ReserveUnblocked(p, r, k) ==
  /\ ~Known(r)
  /\ Heat(p) + k <= MaxHeat
  /\ SetRow(r, [NoRow EXCEPT !.portfolio = p, !.state = "RESERVED"])
  /\ Hold(r, p, k)
  /\ RenewLease(r)
  /\ UNCHANGED <<deals, mods>>

\* reserve_execution: the caller may only lower the ceiling, which a refusal
\* at a lower ceiling, no step, already covers.
Reserve(p, r, k) ==
  /\ ~Known(r)
  /\ PendingIn(p) = {}
  /\ Heat(p) + k <= MaxHeat
  /\ SetRow(r, [NoRow EXCEPT !.portfolio = p, !.state = "RESERVED"])
  /\ reservation' = [reservation EXCEPT
       ![r] = [portfolio |-> p, status |-> "ACTIVE", risk |-> k]]
  /\ RenewLease(r)
  /\ UNCHANGED <<deals, mods>>

-----------------------------------------------------------------------------
(* Transitions the EA reports.  A result carries identities and, when the    *)
(* move asks for one, a claim.                                               *)

Claims == {"none", "acknowledged", "filled", "reconciled", "found_absent",
           "terminal", "not_submitted"}

Identities == [order : OrNull(Orders), deal : OrNull(Deals),
               position : OrNull(Positions)]

\* The claims that satisfy a move of row to state s; "none" when the move
\* looks at none.  "terminal", "not_submitted" and "found_absent" come with a
\* non-blank evidence_ref; "found_absent" is broker_reconciled with
\* broker_order_found = False.
ClaimsAccepted(row, s) ==
  CASE s = "ACKED"      -> {"acknowledged"}
    [] s = "FILLED"     -> {"filled"}
    [] s = "RECONCILED" -> {"reconciled", "found_absent"}
    [] s \in {"REJECTED", "CANCELLED"}
         /\ row.state \in {"SENT", "ACKED", "RECOVERING"}
                        -> {"terminal", "not_submitted"}
    [] OTHER            -> {"none"}

\* Faulty variant: the identities of a claimed move are not looked at.
HasEvidenceByClaim(row, s, claim, ids) == claim \in ClaimsAccepted(row, s)

HasEvidence(row, s, claim, ids) ==
  /\ claim \in ClaimsAccepted(row, s)
  /\ s = "ACKED" => ids.order # NoRef \/ row.order # NoRef
  /\ s = "FILLED" => HasBrokerReference(ids)
  /\ s = "RECONCILED" =>
       \/ HasBrokerReference(ids)
       \/ HasBrokerReference(row)
       \/ claim = "found_absent" /\ row.state = "RECOVERING"

Conflicts(row, ids) ==
  \/ row.order # NoRef /\ ids.order \notin {NoRef, row.order}
  \/ row.deal # NoRef /\ ids.deal \notin {NoRef, row.deal}
  \/ row.position # NoRef /\ ids.position \notin {NoRef, row.position}

\* transition_execution, a legal move: later identities replace earlier ones.
Advance(r, s, claim, ids) ==
  /\ Known(r)
  /\ s \in AllowedTransitions[ledger[r].state]
  /\ HasEvidence(ledger[r], s, claim, ids)
  /\ SetRow(r, [ledger[r] EXCEPT !.state = s,
                                 !.order = Given(ids.order, @),
                                 !.deal = Given(ids.deal, @),
                                 !.position = Given(ids.position, @)])
  /\ IF s \in Terminal THEN Release(r) ELSE UNCHANGED reservation
  /\ UNCHANGED <<expired, deals, mods>>

\* transition_execution, the state the row is already in: a repeated report
\* may fill in missing identities and may not contradict known ones.  RESERVED
\* is not a state a report may name.
Repeat(r, ids) ==
  /\ Known(r)
  /\ ledger[r].state # "RESERVED"
  /\ ~Conflicts(ledger[r], ids)
  /\ SetRow(r, [ledger[r] EXCEPT !.order = Given(@, ids.order),
                                 !.deal = Given(@, ids.deal),
                                 !.position = Given(@, ids.position)])
  /\ UNCHANGED <<reservation, expired, deals, mods>>

\* Time: lease_until, set 30 s after the last renewal, passes.
LapseLease(r) ==
  /\ ledger[r].state \in Leased \cup {"RECOVERING"}
  /\ r \notin expired
  /\ expired' = expired \cup {r}
  /\ UNCHANGED <<ledger, reservation, deals, mods>>

Late(r) == r \in expired /\ ledger[r].state \in Leased

\* Faulty variant: a lapsed lease gives its risk back.
RecoverExpiredReleasing ==
  \E r \in Requests :
    /\ Late(r)
    /\ SetRow(r, [ledger[r] EXCEPT !.state = "RECOVERING"])
    /\ Release(r)
    /\ UNCHANGED <<expired, deals, mods>>

\* recover_expired_leases sweeps every portfolio and releases nothing.  It
\* compares with the clock it read first: a lease that lapses later is missed.
RecoverExpired ==
  \E late \in SUBSET {r \in Requests : Late(r)} :
    /\ late # {}
    /\ ledger' = [r \in Requests |->
         IF r \in late THEN [ledger[r] EXCEPT !.state = "RECOVERING"]
                       ELSE ledger[r]]
    /\ UNCHANGED <<reservation, expired, deals, mods>>

-----------------------------------------------------------------------------
(* Reconciliation with broker observations *)

\* The row an observed open position is written to: one the broker identity
\* resolves to, else the named request, which must be new or free for it.
AdoptionTargets(p, r, pos, ord) ==
  IF BrokerRecords(p, pos, ord) # {} THEN BrokerRecords(p, pos, ord)
  ELSE {t \in {r} : \/ ~Known(t)
                    \/ /\ ledger[t].portfolio = p
                       /\ ledger[t].position \in {NoRef, pos}}

\* reconcile_open_position
AdoptOpenPosition(p, r, pos, ord, deal, k, stop) ==
  /\ \E t \in AdoptionTargets(p, r, pos, ord) :
       /\ SetRow(t, [portfolio |-> p,
                     state |-> "FILLED",
                     order |-> Given(ord, ledger[t].order),
                     deal |-> Given(deal, ledger[t].deal),
                     position |-> pos])
       /\ Hold(t, p, k)
       /\ RenewLease(t)
  /\ ResolveBySnapshot(p, pos, stop)

\* POST /sync-position
SyncPosition(p, r, pos, ord, deal, k, stop) ==
  /\ AdoptOpenPosition(p, r, pos, ord, deal, k, stop)
  /\ UNCHANGED deals

\* update_position_risk
UpdatePositionRisk(p, pos, k) ==
  /\ \E t \in RowsByPosition(p, pos) :
       /\ SetRow(t, [ledger[t] EXCEPT
                       !.state = IF @ \in Terminal THEN "FILLED" ELSE @])
       /\ Hold(t, p, k)
  /\ UNCHANGED <<expired, deals, mods>>

ClosureTargets(p, r, pos) ==
  IF RowsByPosition(p, pos) # {} THEN RowsByPosition(p, pos)
  ELSE {t \in {r} : Known(t) /\ ledger[t].portfolio = p}

\* reconcile_closed_position
RecordClosure(p, r, pos, deal) ==
  /\ \E t \in ClosureTargets(p, r, pos) :
       /\ ledger[t].portfolio = p
       /\ SetRow(t, [ledger[t] EXCEPT !.state = "RECONCILED",
                                      !.position = pos,
                                      !.deal = deal])
       /\ Release(t)
  /\ ResolveByClose(p, pos)
  /\ UNCHANGED expired

\* POST /position-closed, and /sync-closed-position, which answers an unknown
\* position with success and no change.
ClosePosition(p, r, pos, deal) ==
  /\ RecordClosure(p, r, pos, deal)
  /\ UNCHANGED deals

PendingOrderTargets(p, r, ord) ==
  IF RowsByOrder(p, ord) # {} THEN RowsByOrder(p, ord)
  ELSE {t \in {r} : ~Known(t) \/ ledger[t].portfolio = p}

\* sync_pending_order: the reservation becomes ACTIVE whatever the state.
SyncPendingOrder(p, r, ord, k) ==
  /\ \E t \in PendingOrderTargets(p, r, ord) :
       /\ SetRow(t, [ledger[t] EXCEPT
                       !.portfolio = p,
                       !.state = IF @ \in Terminal \cup {"FILLED"} THEN @
                                                                  ELSE "ACKED",
                       !.order = ord])
       /\ Hold(t, p, k)
       /\ RenewLease(t)
  /\ UNCHANGED <<deals, mods>>

\* reconcile_terminal_order
TerminalOrder(p, ord, s) ==
  /\ \E t \in RowsByOrder(p, ord) :
       /\ ledger[t].state \notin {"FILLED", "RECONCILED"}
       /\ SetRow(t, [ledger[t] EXCEPT !.state = s])
       /\ Release(t)
  /\ UNCHANGED <<expired, deals, mods>>

\* ingest_deal_event: a deal is stored once; each delivery, first or repeated,
\* then reconciles the position as it was when the EA read it.
DealEvent(p, r, d, event, open, k) ==
  /\ deals[p][d] \in {NoDeal, event}
  /\ deals' = [deals EXCEPT ![p][d] = event]
  /\ \/ /\ open
        /\ AdoptOpenPosition(p, r, event.position, event.order, d, k, 0)
     \/ /\ ~open
        /\ event.entry = "OUT"
        /\ RecordClosure(p, r, event.position, d)
     \/ /\ ~open
        /\ event.entry = "OUT" => ClosureTargets(p, r, event.position) = {}
        /\ UNCHANGED <<ledger, reservation, expired, mods>>

-----------------------------------------------------------------------------
(* Stop modifications: intent before the broker call, outcome after it *)

SameIntent(m, pos, old, proposed) ==
  m.position = pos /\ m.old = old /\ m.proposed = proposed

\* An old stop of zero is "no stop".
Loosens(old, proposed) == old > 0 /\ proposed < old

\* Faulty variant: every resolved intent may be armed again.
RearmsResolved(m) == m.status \notin {"NONE", "PENDING"}

\* A resolved intent that is prepared again with the same data is armed again
\* only if its first attempt left the broker's stop as it was.  (The code also
\* names a status BROKER_NO_CHANGE here, which nothing ever sets.)
Rearms(m) == m.status = "SNAPSHOT_RECONCILED"

\* prepare_position_modification
PrepareModification(p, e, pos, old, proposed) ==
  /\ ~Loosens(old, proposed)
  /\ \E t \in RowsByPosition(p, pos) :
       /\ ledger[t].state = "FILLED"
       /\ \/ /\ mods[p][e] = NoModification
             /\ mods' = [mods EXCEPT ![p][e] =
                  [request |-> t, position |-> pos, old |-> old,
                   proposed |-> proposed, actual |-> 0, status |-> "PENDING"]]
          \/ /\ Rearms(mods[p][e])
             /\ SameIntent(mods[p][e], pos, old, proposed)
             /\ mods' = [mods EXCEPT ![p][e] =
                  [@ EXCEPT !.status = "PENDING", !.actual = 0]]
  /\ UNCHANGED <<ledger, reservation, expired, deals>>

\* Faulty variant: a confirmation may name more risk than is held.
ConfirmModificationRaising(p, e, actual, k) ==
  LET m == mods[p][e]
  IN  /\ m.status = "PENDING"
      /\ actual >= m.proposed
      /\ ledger[m.request].portfolio = p
      /\ ledger[m.request].position = m.position
      /\ reservation[m.request].portfolio = p
      /\ reservation[m.request].status = "ACTIVE"
      /\ mods' = [mods EXCEPT ![p][e] =
           [@ EXCEPT !.status = "APPLIED", !.actual = actual]]
      /\ reservation' = [reservation EXCEPT ![m.request].risk = k]
      /\ UNCHANGED <<ledger, expired, deals>>

\* confirm_position_modification
ConfirmModification(p, e, actual, k) ==
  LET m == mods[p][e]
  IN  /\ m.status = "PENDING"
      /\ actual >= m.proposed
      /\ ledger[m.request].portfolio = p
      /\ ledger[m.request].position = m.position
      /\ reservation[m.request].portfolio = p
      /\ reservation[m.request].status = "ACTIVE"
      /\ k <= reservation[m.request].risk
      /\ mods' = [mods EXCEPT ![p][e] =
           [@ EXCEPT !.status = "APPLIED", !.actual = actual]]
      /\ reservation' = [reservation EXCEPT ![m.request].risk = k]
      /\ UNCHANGED <<ledger, expired, deals>>

-----------------------------------------------------------------------------

Admission == \E p \in Portfolios, r \in Requests, k \in Risks : Reserve(p, r, k)

Report ==
  \E r \in Requests, ids \in Identities :
    \/ \E s \in States, c \in Claims : Advance(r, s, c, ids)
    \/ Repeat(r, ids)

Leasing == RecoverExpired \/ \E r \in Requests : LapseLease(r)

Reconciliation ==
  \E p \in Portfolios, pos \in Positions :
    \/ \E r \in Requests, ord \in OrNull(Orders), d \in OrNull(Deals),
          k \in Risks \cup {0}, stop \in Stops \cup {0} :
         SyncPosition(p, r, pos, ord, d, k, stop)
    \/ \E k \in Risks \cup {0} : UpdatePositionRisk(p, pos, k)
    \/ \E r \in Requests, d \in Deals : ClosePosition(p, r, pos, d)

DealReporting ==
  \E p \in Portfolios, r \in Requests, d \in Deals, event \in Deal :
    \/ \E k \in Risks \cup {0} : DealEvent(p, r, d, event, TRUE, k)
    \/ DealEvent(p, r, d, event, FALSE, 0)

OrderReconciliation ==
  \E p \in Portfolios, ord \in Orders :
    \/ \E r \in Requests, k \in Risks : SyncPendingOrder(p, r, ord, k)
    \/ \E s \in {"CANCELLED", "REJECTED"} : TerminalOrder(p, ord, s)

Modifying ==
  \E p \in Portfolios, e \in Events :
    \/ \E pos \in Positions, old \in Stops \cup {0}, new \in Stops :
         PrepareModification(p, e, pos, old, new)
    \/ \E stop \in Stops, k \in Risks \cup {0} :
         ConfirmModification(p, e, stop, k)

Next ==
  \/ Admission
  \/ Report
  \/ Leasing
  \/ Reconciliation
  \/ DealReporting
  \/ OrderReconciliation
  \/ Modifying

Spec == Init /\ [][Next]_vars

-----------------------------------------------------------------------------
(* Properties *)

\* The states in which an order of the request may be at the broker, or be on
\* its way there.
Live == States \ Terminal

\* No handler, in any order of calls, leaves a request that may still have an
\* order or a position at the broker without its risk held in its own
\* portfolio's book: only a terminal request's reservation is ever RELEASED.
LiveRequestHoldsRisk ==
  \A r \in Requests :
    ledger[r].state \in Live =>
      /\ reservation[r].status = "ACTIVE"
      /\ reservation[r].portfolio = ledger[r].portfolio

\* A request in a state that asserts something of the broker names the order
\* (ACKED) or some broker object (FILLED) the assertion is about.
BrokerStatesAreBacked ==
  \A r \in Requests :
    /\ ledger[r].state = "ACKED" => ledger[r].order # NoRef
    /\ ledger[r].state = "FILLED" => HasBrokerReference(ledger[r])

\* The ledger implements the risk book: seen through its reservations, every
\* handler is an admission under the ceiling, an observation of the broker, a
\* reduction or a release.
Book == INSTANCE RiskBook WITH
          book    <- reservation,
          backed  <- {r \in Requests : HasBrokerReference(ledger[r])},
          blocked <- {p \in Portfolios : PendingIn(p) # {}},
          None    <- NoRef

KeepsRiskBook == Book!Spec

\* What that promise is for: the heat of a portfolio that no broker identity
\* backs never exceeds the ceiling, whatever observations, modifications,
\* releases and revivals come between two admissions.
UnbackedHeatBounded == Book!UnbackedHeatBounded

\* The risk of a request that was admitted is raised, or held again after it
\* was released.
RiskRises(r) ==
  /\ Known(r)
  /\ reservation'[r].status = "ACTIVE"
  /\ \/ reservation[r].status = "RELEASED"
     \/ reservation'[r].risk > reservation[r].risk

\* A finished request comes back to life.
Revives(r) ==
  ledger[r].state \in Terminal /\ ledger'[r].state \notin Terminal

\* A report of the EA led to the state the row is in now.
Reported ==
  \E r \in Requests, ids \in Identities :
    Repeat(r, ids) \/ \E c \in Claims : Advance(r, ledger'[r].state, c, ids)

\* Once a request is admitted, its risk is raised, or held again, only by an
\* observation of the broker that puts an order or a position on the row, and
\* a finished request comes back only as FILLED, by the observation of an open
\* position.  No admission, report of the EA, lapse of a lease or stop
\* modification does either, however late it arrives or often it is repeated.
RiskRisesOnlyByObservation ==
  [][\A r \in Requests :
       /\ RiskRises(r) \/ Revives(r) =>
            ~ (Admission \/ Reported \/ Leasing \/ Modifying)
       /\ RiskRises(r) => ledger'[r].order # NoRef \/ ledger'[r].position # NoRef
       /\ Revives(r) => /\ ledger'[r].state = "FILLED"
                        /\ ledger'[r].position # NoRef
                        /\ reservation'[r].status = "ACTIVE"]_vars

\* An outcome that is final stays: an APPLIED or POSITION_CLOSED intent is
\* never armed again, by any later delivery.
FinalOutcomesStay ==
  [][\A p \in Portfolios, e \in Events :
       mods[p][e].status \in {"APPLIED", "POSITION_CLOSED"} =>
         mods'[p][e] = mods[p][e]]_vars

=============================================================================
