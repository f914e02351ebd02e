-------------------------- MODULE SubmissionRecovery --------------------------
(***************************************************************************)
(* How the Expert Advisor keeps the execution ledger, the broker and its   *)
(* own readiness together (EA/MedisTouch_v2.8.mq5, with                    *)
(* EA/includes/Execution/ExecutionLedgerClient.mqh): a reservation and the *)
(* intent to send are durable before the broker is called, what the broker *)
(* answers is reported after it, every broker deal is reported as the      *)
(* terminal announces it, and a snapshot of the broker repairs the ledger  *)
(* after a restart or a failure.                                           *)
(*                                                                         *)
(* The EA runs one event handler at a time and blocks on every call.  A    *)
(* call may be lost, its reply may be lost, and a call the EA has given up *)
(* may reach the bridge later.  The terminal may crash between any two     *)
(* steps.  The broker acts on its own: it executes orders it never         *)
(* acknowledged, fills, cancels, and closes positions at their stops.  The *)
(* account's owner closes positions by hand, with orders that bear another *)
(* magic number than the EA's; which closures are his is left open.        *)
(*                                                                         *)
(* Abstractions.  One account on a hedging server, the ledger required (as *)
(* by default).  A decision is one leg of one decision id, which is never  *)
(* used twice; its order and its position are named after it, and it has   *)
(* two deals, "in" and "out": a position is opened and closed at once.     *)
(* Every decision risks one unit.  Order comments survive at the broker,   *)
(* so a snapshot knows the decision of an order or a position.             *)
(***************************************************************************)
EXTENDS Integers, FiniteSets, Sequences

CONSTANTS
  Decisions,  \* legs the EA may submit
  MaxHeat,    \* the ceiling of the account's admitted heat
  MaxLate,    \* bound on the calls given up by the EA and still under way
  NoRef

ASSUME BoundsAssumption == MaxHeat \in Nat /\ MaxLate \in Nat

VARIABLES
  ledger, reservation, expired, deals, mods,  \* the bridge, see ExecutionLedger
  broker,     \* the broker's state of each decision
  queue,      \* deals the terminal has announced, not yet handled
  used,       \* decision ids the EA has allocated (durable DecisionStore)
  pc,         \* what the EA is doing
  leg,        \* the decision being submitted
  ids,        \* the identities the broker returned for it
  todo,       \* what the current stage of a reconciliation has still to send
  allOk,      \* ReconcileBrokerStateSnapshot's allOk
  missed,     \* history: deals passed over in silence since the last
              \* reconciliation began, while nothing else was known to be wrong
  healthy,    \* g_executionLedgerHealthy
  admission,  \* m_admissionHealthy
  late,       \* calls under way that the EA has given up
  slow        \* whether the network lets such calls arrive after all

bridge == <<ledger, reservation, expired, deals, mods>>
ea == <<pc, leg, ids, todo, allOk, missed, healthy, admission, used>>
net == <<late, slow>>
vars == <<bridge, broker, queue, ea, net>>

Account == "account"
Requests == {"decision", "position"} \X Decisions
Deals == {"in", "out"} \X Decisions

\* Orders and positions bear the name of their decision.
Ledger == INSTANCE ExecutionLedger WITH
  Portfolios <- {Account}, Orders <- Decisions, Positions <- Decisions,
  Events <- {}, Risks <- {1}, Stops <- {}

ByDecision(d) == <<"decision", d>>  \* RequestIdForDecision
ByPosition(d) == <<"position", d>>  \* RequestIdForPosition

ASSUME NullAssumption ==
  NoRef \notin {Account} \cup Decisions \cup Deals \cup Requests

NoIds == [order |-> NoRef, deal |-> NoRef, position |-> NoRef]

\* "sent" is an order whose fate neither side has settled yet, "working" one
\* that rests at the broker, "gone" one that was rejected or cancelled.
BrokerStates == {"none", "sent", "working", "open", "closed", "gone"}

Stages == {"recover", "positions", "orders", "deals", "closed"}

TypeOK ==
  /\ Ledger!TypeOK
  /\ broker \in [Decisions -> BrokerStates]
  /\ queue \in Seq(Deals)
  /\ used \subseteq Decisions
  /\ pc \in {"down", "idle", "reserve", "checked", "sent", "submit", "ack",
             "fill", "ambiguous"} \cup Stages
  /\ leg \in Decisions \cup {NoRef}
  /\ todo \subseteq Decisions \cup Deals
  /\ missed \subseteq Deals
  /\ {allOk, healthy, admission} \subseteq BOOLEAN
  /\ Cardinality(late) <= MaxLate /\ slow \in BOOLEAN

Init ==
  /\ Ledger!Init
  /\ broker = [d \in Decisions |-> "none"]
  /\ queue = <<>>
  /\ used \in SUBSET Decisions  \* by an earlier life, to no effect
  /\ pc = "down" /\ leg = NoRef /\ ids = NoIds
  /\ todo = {} /\ allOk = FALSE /\ missed = {}
  /\ healthy = FALSE /\ admission = FALSE
  /\ late = {} /\ slow \in {b \in BOOLEAN : b => MaxLate > 0}

-----------------------------------------------------------------------------
(* Calls to the bridge *)

Call(op, d) == [op |-> op, decision |-> d, state |-> "ABSENT", ids |-> NoIds,
                entry |-> "none", open |-> FALSE]

Reserve(d) == Call("reserve", d)

Transition(d, s, i) == [Call("transition", d) EXCEPT !.state = s, !.ids = i]

\* SendLedgerDealEvent: the deal, and whether the position is open by now.
DealReport(deal) == [Call("deal", deal[2]) EXCEPT
  !.entry = deal[1], !.open = broker[deal[2]] = "open"]

\* The claim that comes with each transition the EA reports.
Claim(s) == CASE s = "ACKED" -> "acknowledged"
              [] s = "FILLED" -> "filled"
              [] OTHER -> "none"

\* What the bridge does when it accepts call c.
Handle(c) ==
  LET d == c.decision
      r == ByDecision(d)
      out == <<"out", d>>
  IN  CASE c.op = "reserve" -> Ledger!Reserve(Account, r, 1)
        [] c.op = "transition" ->
             \/ Ledger!Advance(r, c.state, Claim(c.state), c.ids)
             \/ ledger[r].state = c.state /\ Ledger!Repeat(r, c.ids)
        [] c.op = "recover" ->
             \/ Ledger!RecoverExpired
             \/ UNCHANGED bridge
        [] c.op = "position" ->
             Ledger!SyncPosition(Account, r, d, d, <<"in", d>>, 1, 0)
        [] c.op = "order" -> Ledger!SyncPendingOrder(Account, r, d, 1)
        [] c.op = "deal" ->
             Ledger!DealEvent(Account, ByPosition(d), <<c.entry, d>>,
               [order |-> IF c.entry = "in" THEN d ELSE NoRef, position |-> d,
                entry |-> IF c.entry = "in" THEN "IN" ELSE "OUT"],
               c.open, 1)
        [] c.op = "closed" ->
             IF Ledger!ClosureTargets(Account, r, d) = {}
             THEN UNCHANGED bridge
             ELSE Ledger!ClosePosition(Account, r, d, out)

\* PostJson answers true.
Posted(c) == Handle(c) /\ UNCHANGED <<net, admission>>

\* PostJson answers false: the call did not arrive or was refused, its reply
\* did not arrive, or it is still under way.
NotPosted(c) ==
  /\ admission' = FALSE
  /\ \/ UNCHANGED <<bridge, net>>
     \/ Handle(c) /\ UNCHANGED net
     \/ /\ slow /\ Cardinality(late) < MaxLate
        /\ late' = late \cup {c} /\ UNCHANGED slow
        /\ UNCHANGED bridge

\* A call the EA has given up arrives, or turns out to be lost.
Arrive(c) ==
  /\ Handle(c) \/ UNCHANGED bridge
  /\ late' = late \ {c} /\ UNCHANGED slow
  /\ UNCHANGED <<broker, queue, ea>>

-----------------------------------------------------------------------------
(* Submission *)

Idle == pc' = "idle" /\ leg' = NoRef /\ ids' = NoIds

Elsewhere == UNCHANGED <<broker, queue, used, todo, allOk, missed>>

Enter(d) ==
  /\ pc = "idle"
  /\ admission
  /\ d \notin used
  /\ used' = used \cup {d}
  /\ pc' = "reserve" /\ leg' = d
  /\ UNCHANGED <<bridge, broker, queue, ids, todo, allOk, missed, healthy, admission,
                 net>>

\* OnTick
AutomatedEntry(d) == healthy /\ Enter(d)

\* ManualMarketEntry; a further leg of an automated decision starts like it.
ManualEntry(d) == Enter(d)

\* PrepareLedgerForSubmit.  Only a failure after the reservation makes the
\* ledger unhealthy.
ReserveRisk ==
  /\ pc = "reserve"
  /\ \/ Posted(Reserve(leg)) /\ pc' = "checked" /\ UNCHANGED <<leg, ids>>
     \/ NotPosted(Reserve(leg)) /\ Idle
  /\ UNCHANGED healthy /\ Elsewhere

WriteChecked ==
  LET c == Transition(leg, "CHECKED", NoIds)
  IN  /\ pc = "checked"
      /\ \/ Posted(c) /\ pc' = "sent" /\ UNCHANGED <<leg, ids, healthy>>
         \/ NotPosted(c) /\ Idle /\ healthy' = FALSE
      /\ Elsewhere

\* Faulty variant: the order is sent although its intent is not durable.
WriteSentUnheeded ==
  LET c == Transition(leg, "SENT", NoIds)
  IN  /\ pc = "sent"
      /\ pc' = "submit" /\ UNCHANGED <<leg, ids, healthy>>
      /\ Posted(c) \/ NotPosted(c)
      /\ Elsewhere

WriteSent ==
  LET c == Transition(leg, "SENT", NoIds)
  IN  /\ pc = "sent"
      /\ \/ Posted(c) /\ pc' = "submit" /\ UNCHANGED <<leg, ids, healthy>>
         \/ NotPosted(c) /\ Idle /\ healthy' = FALSE
      /\ Elsewhere

\* The terminal announces a deal to a running EA.
Announce(deal) ==
  queue' = IF pc = "down" THEN queue ELSE Append(queue, deal)

\* What the broker's answer to an executed order names.  The terminal's history
\* may not show the deal's position yet.
ExecutedAnswers(d) ==
  {[order |-> d, deal |-> <<"in", d>>, position |-> p] : p \in {d, NoRef}}
    \cup {[NoIds EXCEPT !.order = d]}

\* COrderManager::Submit through CBrokerAdapter.  An order that is not refused
\* before it is sent is executed, rests, is dropped, or its fate is open; the EA
\* takes an answer of success at its word and every other one, a definitive
\* rejection and a refusal of its own included, for ambiguous.
Submit ==
  /\ pc = "submit"
  /\ \/ /\ broker' = [broker EXCEPT ![leg] = "open"]
        /\ Announce(<<"in", leg>>)
        /\ \/ pc' = "ack" /\ ids' \in ExecutedAnswers(leg)
           \/ pc' = "ambiguous" /\ UNCHANGED ids
     \/ /\ broker' = [broker EXCEPT ![leg] = "working"]
        /\ pc' = "ack" /\ ids' = [NoIds EXCEPT !.order = leg]
        /\ UNCHANGED queue
     \/ /\ \E s \in {"sent", "working", "gone"} :
             broker' = [broker EXCEPT ![leg] = s]
        /\ pc' = "ambiguous"
        /\ UNCHANGED <<queue, ids>>
  /\ UNCHANGED <<bridge, used, leg, todo, allOk, missed, healthy, admission, net>>

\* MarkLedgerSubmissionAccepted, the acknowledgement.
MarkAcknowledged ==
  LET c == Transition(leg, "ACKED", ids)
  IN  /\ pc = "ack"
      /\ \/ Posted(c) /\ pc' = "fill" /\ UNCHANGED <<leg, ids, healthy>>
         \/ NotPosted(c) /\ Idle /\ healthy' = FALSE
      /\ Elsewhere

\* MarkLedgerSubmissionAccepted, the fill.
MarkFilled ==
  LET c == Transition(leg, "FILLED", ids)
  IN  /\ pc = "fill"
      /\ IF ids.deal # NoRef /\ ids.position # NoRef
           THEN \/ Posted(c) /\ UNCHANGED healthy
                \/ NotPosted(c) /\ healthy' = FALSE
           ELSE UNCHANGED <<bridge, healthy, admission, net>>
      /\ Idle /\ Elsewhere

\* MarkLedgerSubmissionAmbiguous
MarkAmbiguous ==
  LET c == Transition(leg, "RECOVERING", NoIds)
  IN  /\ pc = "ambiguous"
      /\ \/ Posted(c) /\ UNCHANGED healthy
         \/ NotPosted(c) /\ healthy' = FALSE
      /\ Idle /\ Elsewhere

-----------------------------------------------------------------------------
(* Deals as the terminal announces them *)

\* The deal cannot be selected, does not bear the EA's magic number or names no
\* position: the handler returns, and the ledger stays healthy.
PassOver(deal) ==
  /\ missed' = IF healthy THEN missed \cup {deal} ELSE missed
  /\ UNCHANGED <<bridge, net, healthy, admission>>

\* Faulty variant: a report that failed is forgotten.
OnTradeTransactionUnheeded ==
  /\ pc = "idle" /\ queue # <<>>
  /\ queue' = Tail(queue)
  /\ \/ Posted(DealReport(Head(queue))) /\ UNCHANGED <<healthy, missed>>
     \/ NotPosted(DealReport(Head(queue))) /\ UNCHANGED <<healthy, missed>>
     \/ UNCHANGED <<bridge, net, admission, healthy, missed>>
     \/ PassOver(Head(queue))
  /\ UNCHANGED <<broker, used, pc, leg, ids, todo, allOk>>

\* OnTradeTransaction.  SendLedgerDealEvent also fails without a call, when the
\* deal has gone from the history or the risk of its position is unknown.
OnTradeTransaction ==
  /\ pc = "idle" /\ queue # <<>>
  /\ queue' = Tail(queue)
  /\ \/ Posted(DealReport(Head(queue))) /\ UNCHANGED <<healthy, missed>>
     \/ NotPosted(DealReport(Head(queue))) /\ healthy' = FALSE /\ UNCHANGED missed
     \/ healthy' = FALSE /\ UNCHANGED <<bridge, net, admission, missed>>
     \/ PassOver(Head(queue))
  /\ UNCHANGED <<broker, used, pc, leg, ids, todo, allOk>>

-----------------------------------------------------------------------------
(* Reconciliation with a snapshot of the broker, one call at a time *)

Begin == pc' = "recover" /\ allOk' = TRUE /\ todo' = {} /\ missed' = {}

\* OnInit: the ledger client starts anew.
OnInit ==
  /\ pc = "down"
  /\ Begin
  /\ healthy' = FALSE /\ admission' = TRUE
  /\ UNCHANGED <<bridge, broker, queue, used, leg, ids, net>>

\* OnTimer
OnTimer ==
  /\ pc = "idle"
  /\ ~healthy \/ ~admission
  /\ Begin
  /\ UNCHANGED <<bridge, broker, queue, used, leg, ids, healthy, admission, net>>

BrokerIs(S) == {d \in Decisions : broker[d] \in S}

\* HistorySelect
DealHistory == ({"in"} \X BrokerIs({"open", "closed"}))
                 \cup ({"out"} \X BrokerIs({"closed"}))

\* Faulty variant: closures are replayed without asking whether the position is
\* still open.
NextStageUnchecked(stage) ==
  CASE stage = "recover"   -> <<"positions", BrokerIs({"open"})>>
    [] stage = "positions" -> <<"orders", BrokerIs({"working"})>>
    [] stage = "orders"    -> <<"deals", DealHistory>>
    [] stage = "deals"     -> <<"closed", BrokerIs({"open", "closed"})>>

\* The next stage and what the terminal shows for it when it starts.
NextStage(stage) ==
  CASE stage = "recover"   -> <<"positions", BrokerIs({"open"})>>
    [] stage = "positions" -> <<"orders", BrokerIs({"working"})>>
    [] stage = "orders"    -> <<"deals", DealHistory>>
    [] stage = "deals"     -> <<"closed", BrokerIs({"closed"})>>

Turn(stage) == pc' = NextStage(stage)[1] /\ todo' = NextStage(stage)[2]

Recover ==
  /\ pc = "recover"
  /\ \/ Posted(Call("recover", NoRef)) /\ UNCHANGED allOk
     \/ NotPosted(Call("recover", NoRef)) /\ allOk' = FALSE
  /\ Turn("recover")
  /\ UNCHANGED <<broker, queue, used, leg, ids, missed, healthy>>

\* One item of a stage: it is reported, or it is a failure without a call, its
\* risk or identity unknown to the terminal.
Item(x, call) ==
  /\ \/ Posted(call) /\ UNCHANGED allOk
     \/ NotPosted(call) /\ allOk' = FALSE
     \/ allOk' = FALSE /\ UNCHANGED <<bridge, net, admission>>
  /\ todo' = todo \ {x}
  /\ UNCHANGED <<broker, queue, used, pc, leg, ids, missed, healthy>>

\* Or it is passed over in silence.
Skip(x) ==
  /\ todo' = todo \ {x}
  /\ UNCHANGED <<bridge, broker, queue, used, pc, leg, ids, allOk, healthy, admission, net>>

\* A position or an order that is gone by now is passed over.
ImportPosition ==
  /\ pc = "positions"
  /\ \E d \in todo :
       IF broker[d] = "open" THEN Item(d, Call("position", d))
                             ELSE Skip(d) /\ UNCHANGED missed

ImportOrder ==
  /\ pc = "orders"
  /\ \E d \in todo :
       IF broker[d] = "working" THEN Item(d, Call("order", d))
                                ELSE Skip(d) /\ UNCHANGED missed

\* SyncHistoricalDealEvents, in the order of the history.  A closing deal that
\* does not bear the EA's magic number is passed over.
ReplayDeal ==
  /\ pc = "deals"
  /\ \E deal \in todo :
       /\ deal[1] = "out" => <<"in", deal[2]>> \notin todo
       /\ \/ Item(deal, DealReport(deal))
          \/ deal[1] = "out" /\ Skip(deal) /\ UNCHANGED missed

\* SyncHistoricalClosedPositions, whoever closed the position.  One whose
\* history cannot be selected is passed over.
ReplayClosure ==
  /\ pc = "closed"
  /\ \E d \in todo :
       \/ Item(d, Call("closed", d))
       \/ /\ Skip(d)
          /\ missed' = IF allOk THEN missed \cup {<<"out", d>>} ELSE missed

EndStage ==
  /\ pc \in {"positions", "orders", "deals"}
  /\ todo = {}
  /\ Turn(pc)
  /\ UNCHANGED <<bridge, broker, queue, used, leg, ids, allOk, missed, healthy,
                 admission, net>>

\* Faulty variant: MarkReconciled is not called.
FinishUnmarked ==
  /\ pc = "closed" /\ todo = {}
  /\ healthy' = allOk
  /\ Idle
  /\ UNCHANGED <<bridge, broker, queue, used, todo, allOk, missed, admission, net>>

\* Faulty variant: a reconciliation that failed in part counts as complete.
FinishPartial ==
  /\ pc = "closed" /\ todo = {}
  /\ healthy' = TRUE /\ admission' = TRUE
  /\ Idle
  /\ UNCHANGED <<bridge, broker, queue, used, todo, allOk, missed, net>>

Finish ==
  /\ pc = "closed" /\ todo = {}
  /\ healthy' = allOk
  /\ admission' = (admission \/ allOk)
  /\ Idle
  /\ UNCHANGED <<bridge, broker, queue, used, todo, allOk, missed, net>>

-----------------------------------------------------------------------------
(* The broker, time and the terminal *)

OpenAtBroker(d) ==
  /\ broker[d] \in {"sent", "working"}
  /\ broker' = [broker EXCEPT ![d] = "open"]
  /\ Announce(<<"in", d>>)
  /\ UNCHANGED <<bridge, ea, net>>

RestAtBroker(d) ==
  /\ broker[d] = "sent"
  /\ broker' = [broker EXCEPT ![d] = "working"]
  /\ UNCHANGED <<bridge, queue, ea, net>>

DropAtBroker(d) ==
  /\ broker[d] \in {"sent", "working"}
  /\ broker' = [broker EXCEPT ![d] = "gone"]
  /\ UNCHANGED <<bridge, queue, ea, net>>

CloseAtBroker(d) ==
  /\ broker[d] = "open"
  /\ broker' = [broker EXCEPT ![d] = "closed"]
  /\ Announce(<<"out", d>>)
  /\ UNCHANGED <<bridge, ea, net>>

Lapse(r) == Ledger!LapseLease(r) /\ UNCHANGED <<broker, queue, ea, net>>

Crash ==
  /\ pc # "down"
  /\ pc' = "down" /\ leg' = NoRef /\ ids' = NoIds
  /\ queue' = <<>> /\ todo' = {} /\ allOk' = FALSE /\ missed' = {}
  /\ healthy' = FALSE /\ admission' = FALSE
  /\ UNCHANGED <<bridge, broker, used, net>>

-----------------------------------------------------------------------------

Submission ==
  \/ ReserveRisk \/ WriteChecked \/ WriteSent \/ Submit
  \/ MarkAcknowledged \/ MarkFilled \/ MarkAmbiguous

Reconciliation ==
  \/ OnInit \/ OnTimer \/ Recover \/ ImportPosition \/ ImportOrder
  \/ ReplayDeal \/ ReplayClosure \/ EndStage \/ Finish

Broker ==
  \E d \in Decisions :
    \/ OpenAtBroker(d) \/ RestAtBroker(d) \/ DropAtBroker(d) \/ CloseAtBroker(d)

EA ==
  \/ \E d \in Decisions : AutomatedEntry(d) \/ ManualEntry(d)
  \/ Submission
  \/ OnTradeTransaction
  \/ Reconciliation

Next ==
  \/ EA
  \/ Broker
  \/ \E r \in Requests : Lapse(r)
  \/ \E c \in late : Arrive(c)
  \/ Crash

Spec == Init /\ [][Next]_vars

\* A running terminal goes on delivering events, and one that crashed is
\* started again.
FairSpec == Spec /\ WF_vars(EA)

-----------------------------------------------------------------------------
(* Properties *)

Exposed == BrokerIs({"sent", "working", "open"})

Held(r) == reservation[r].status = "ACTIVE"

\* The order goes to the broker only after its intent is durable: the request
\* is SENT, or RECOVERING because the bridge swept it meanwhile, and its risk is
\* held.
IntentIsDurable ==
  pc = "submit" =>
    /\ ledger[ByDecision(leg)].state \in {"SENT", "RECOVERING"}
    /\ Held(ByDecision(leg))

\* Whatever is lost, delayed or repeated between the EA and the bridge, and
\* whenever the terminal crashes, the risk of an order or position that is, or
\* may yet be, at the broker stays held in the book.
ExposureIsHeld ==
  \A d \in Exposed : Held(ByDecision(d)) \/ Held(ByPosition(d))

\* So the ledger bounds what is really at the broker, not only its own book.
ExposureIsBounded == Cardinality(Exposed) <= MaxHeat

\* A running EA that has handled every deal and holds the ledger for healthy
\* and open for admission is right about what has ended: a row that names a
\* closed position still holds risk only if the EA passed the closure over in
\* silence, and no reconciliation has begun since.  A network in which calls
\* arrive after the EA has given them up is excluded.
AgreesWhenHealthy ==
  ~slow /\ pc = "idle" /\ queue = <<>> /\ healthy /\ admission =>
    \A r \in Requests :
      LET d == ledger[r].position
      IN  d # NoRef /\ broker[d] = "closed" => ~Held(r) \/ <<"out", d>> \in missed

\* It is right about what is open, too: each open position, unless the EA passed
\* over its opening in silence and no reconciliation has begun since, is the
\* position of a FILLED row whose risk is held.
OpenIsFilledWhenHealthy ==
  ~slow /\ pc = "idle" /\ queue = <<>> /\ healthy /\ admission =>
    \A d \in {x \in BrokerIs({"open"}) : <<"in", x>> \notin missed} :
      \E r \in Requests :
        ledger[r].position = d /\ ledger[r].state = "FILLED" /\ Held(r)

\* Reconciliation does not get stuck: once the terminal stays up and nothing a
\* reconciliation needs fails any more, the EA is ready for entries again and
\* again, whatever state the failures before left in the ledger.
AdmissionReturns ==
  <>[][pc' # "down" /\ (allOk => allOk')]_vars => []<>(healthy /\ admission)

\* Claimed in execution_control.py:440, not so: when a reconciliation is about
\* to declare the ledger healthy, the request of every open position the EA
\* submitted has been repaired to FILLED.  A deal event that came before the
\* snapshot has bound the position to a row of its own.
RestartRepairs ==
  pc = "closed" /\ todo = {} /\ allOk /\ queue = <<>> =>
    \A d \in BrokerIs({"open"}) :
      ledger[ByDecision(d)].state = "FILLED"

\* Claimed in MedisTouch_v2.8.mq5:870, not so: while reconciliation is
\* incomplete no order is on its way to the broker.  ManualMarketEntry asks for
\* admission only.
EntriesOnlyWhileHealthy == pc = "submit" => healthy

=============================================================================
