----------------------- MODULE SubmissionRecoveryProofs -----------------------
(***************************************************************************)
(* Proofs about SubmissionRecovery, along three inductive invariants.      *)
(*                                                                         *)
(* SubmissionInv ties the rows of the ledger, the broker, the EA's step    *)
(* and every call under way together: a call, however late, was legal when *)
(* it was made and says only what has happened, so whatever it does to the *)
(* ledger when it arrives is one of the changes that RowFine allows.       *)
(*                                                                         *)
(* BoundInv counts the decisions that the ceiling admitted; that the       *)
(* reservations of an account add up to no more than the ceiling is        *)
(* HeatCovers of ExecutionLedgerProofs, instantiated as LP.                *)
(*                                                                         *)
(* OrderlyInv, ClosedInv and OpenInv hold in a network without late calls: *)
(* one row for each position, and for each position that the ledger does   *)
(* not know to be open or closed, a step to come that will tell it, or a   *)
(* failure that the EA has noted.                                          *)
(***************************************************************************)
EXTENDS SubmissionRecovery, FiniteSetTheorems, TLAPS

Known(r) == ledger[r].state # "ABSENT"

Executed == {"open", "closed"}

\* What is so of a row r of the ledger and its reservation.
RowFine(r) ==
  LET d == r[2]
  IN  /\ ledger[r].order \in {NoRef, d}
      /\ ledger[r].position \in {NoRef, d}
      /\ ledger[r].position = d => broker[d] \in Executed
      /\ IF Known(r)
           THEN /\ d \in used
                /\ ledger[r].portfolio = Account
                /\ reservation[r].portfolio = Account
                /\ reservation[r].status \in {"ACTIVE", "RELEASED"}
                /\ reservation[r].risk = 1
                /\ reservation[r].status = "RELEASED" => broker[d] = "closed"
           ELSE ledger[r] = Ledger!NoRow /\ reservation[r].status = "NONE"

Answers(d) == [order : {NoRef, d}, deal : {NoRef, <<"in", d>>}, position : {NoRef, d}]

\* The calls the EA may have made of decision d, at any time until now.
MayReport(d, s, i) ==
  \/ s \in {"CHECKED", "SENT"} /\ i = NoIds
  \/ s = "RECOVERING" /\ i = NoIds /\ broker[d] # "none"
  \/ /\ s \in {"ACKED", "FILLED"} /\ i \in Answers(d) /\ broker[d] # "none"
     /\ i.position = d => broker[d] \in Executed

MayReportDeal(e, o, d) ==
  \/ e = "in" /\ o \in BOOLEAN /\ broker[d] \in Executed
  \/ e = "out" /\ o = FALSE /\ broker[d] = "closed"

MayCall(c) ==
  \/ c = Call("recover", NoRef)
  \/ \E d \in used :
       \/ c = Reserve(d)
       \/ \E s \in {"CHECKED", "SENT", "RECOVERING", "ACKED", "FILLED"}, i \in Answers(d) :
            MayReport(d, s, i) /\ c = Transition(d, s, i)
       \/ c = Call("position", d) /\ broker[d] \in Executed
       \/ c = Call("order", d) /\ broker[d] # "none"
       \/ \E e \in {"in", "out"}, o \in BOOLEAN :
            /\ MayReportDeal(e, o, d)
            /\ c = [Call("deal", d) EXCEPT !.entry = e, !.open = o]
       \/ c = Call("closed", d) /\ broker[d] = "closed"

Before == {"reserve", "checked", "sent", "submit"}
After == {"ack", "fill", "ambiguous"}

HasHappened(deal) ==
  deal[1] \in {"in", "out"} /\ deal[2] \in used
    /\ broker[deal[2]] \in (IF deal[1] = "out" THEN {"closed"} ELSE Executed)

Ordered(d) == d \in used /\ Known(ByDecision(d))

Rows == Ledger!TypeOK /\ \A r \in Requests : RowFine(r)

Typed ==
  /\ broker \in [Decisions -> BrokerStates]
  /\ queue \in Seq(Deals)
  /\ used \subseteq Decisions
  /\ pc \in {"down", "idle"} \cup Before \cup After \cup Stages
  /\ leg \in Decisions \cup {NoRef}
  /\ allOk \in BOOLEAN /\ healthy \in BOOLEAN /\ admission \in BOOLEAN
  /\ slow \in BOOLEAN

\* What has been at the broker had been admitted before.
AtBroker == \A d \in Decisions : broker[d] # "none" => Ordered(d)

Announced == \A i \in 1..Len(queue) : HasHappened(queue[i])

Travelling ==
  IsFiniteSet(late) /\ Cardinality(late) <= MaxLate /\ \A c \in late : MayCall(c)

Submitting ==
  /\ pc \in Before \cup After => leg \in used
  /\ pc \in Before => broker[leg] = "none"
  /\ pc \in Before \ {"reserve"} => Known(ByDecision(leg))
  /\ pc = "submit" => ledger[ByDecision(leg)].state \in {"SENT", "RECOVERING"}
  /\ pc \in After => broker[leg] # "none"
  /\ pc \in {"ack", "fill"} =>
       ids \in Answers(leg) /\ (ids.position = leg => broker[leg] \in Executed)

Reconciling ==
  /\ todo \subseteq Decisions \cup Deals
  /\ pc \in {"positions", "orders", "closed"} => todo \subseteq Decisions
  /\ pc = "deals" => \A deal \in todo : deal \in Deals /\ HasHappened(deal)
  /\ pc = "closed" => \A d \in todo : d \in used /\ broker[d] = "closed"

SubmissionInv ==
  /\ Rows /\ Typed /\ AtBroker /\ Announced /\ Travelling
  /\ Submitting /\ Reconciling

\* The decisions that count against the ceiling: at the broker, or admitted and
\* on the way there.
Counted == Exposed \cup {d \in {leg} : pc \in {"checked", "sent", "submit"}}

BoundInv ==
  /\ IsFiniteSet(Ledger!Active(Account))
  /\ IsFiniteSet(Counted) /\ Cardinality(Counted) <= MaxHeat

\* Nothing overtakes in a network without late calls.
Queued(deal) == \E i \in 1..Len(queue) : queue[i] = deal
In(d) == Queued(<<"in", d>>)
Out(d) == Queued(<<"out", d>>)

Trusted == healthy /\ admission

\* No two rows bear one position.
OneRowEach ==
  \A r, t \in Requests :
    ledger[r].position # NoRef /\ ledger[r].position = ledger[t].position => r = t

OrderlyInv ==
  ~slow =>
    /\ late = {}
    /\ pc = "down" => ~healthy
    /\ pc \in Before \cup After => ~Known(ByPosition(leg))
    /\ pc \in After /\ broker[leg] = "closed" => Out(leg)
    /\ OneRowEach

Overheld(d) == \E r \in Requests : ledger[r].position = d /\ Held(r) /\ broker[d] = "closed"

\* A step to come releases the risk of the closed position d, or is known to
\* have failed, or the closure has been passed over in silence.
ClosureToCome(d) ==
  \/ Out(d)
  \/ <<"out", d>> \in missed
  \/ pc \in {"recover", "positions", "orders", "deals"}
  \/ pc = "closed" /\ (d \in todo \/ ~allOk)
  \/ pc \notin Stages /\ ~Trusted

ClosedInv == ~slow => \A d \in Decisions : Overheld(d) => ClosureToCome(d)

Filled(d) == \E r \in Requests : ledger[r].position = d /\ ledger[r].state = "FILLED" /\ Held(r)

\* A step to come adopts the open position d, or is known to have failed, or the
\* opening has been passed over in silence.
AdoptionToCome(d) ==
  \/ In(d)
  \/ <<"in", d>> \in missed
  \/ pc = "recover"
  \/ pc \in Stages /\ ~allOk
  \/ pc = "positions" /\ d \in todo
  \/ pc \notin Stages /\ ~Trusted

OpenInv == ~slow => \A d \in BrokerIs({"open"}) : Filled(d) \/ AdoptionToCome(d)

-----------------------------------------------------------------------------
(***************************************************************************)
(* What each call does to the ledger.                                      *)
(***************************************************************************)

SetTo(r, row) == ledger' = [ledger EXCEPT ![r] = row]

Hold(r) == reservation' = [reservation EXCEPT
             ![r] = [portfolio |-> Account, status |-> "ACTIVE", risk |-> 1]]

\* A row, column by column, and a row with all columns but its portfolio set.
RowOf(p, s, o, l, n) ==
  [portfolio |-> p, state |-> s, order |-> o, deal |-> l, position |-> n]

With(row, s, o, l, n) ==
  [row EXCEPT !.state = s, !.order = o, !.deal = l, !.position = n]

Named(d) == {ByDecision(d), ByPosition(d)}

\* The row of a position is the one that bears it, if any does.
Bears(t, d) == ledger[t].position = d \/ \A u \in Requests : ledger[u].position # d

Admits(d) ==
  /\ ~Known(ByDecision(d))
  /\ Ledger!Heat(Account) + 1 <= MaxHeat
  /\ SetTo(ByDecision(d), RowOf(Account, "RESERVED", NoRef, NoRef, NoRef))
  /\ Hold(ByDecision(d))

Advances(d, s, i) ==
  LET r == ByDecision(d)
  IN  /\ Known(r)
      /\ s \in Ledger!AllowedTransitions[ledger[r].state] \/ ledger[r].state = s
      /\ \E o \in {ledger[r].order, i.order}, l \in {ledger[r].deal, i.deal},
            n \in {ledger[r].position, i.position} :
           /\ ledger[r].position # NoRef => n # NoRef
           /\ SetTo(r, RowOf(ledger[r].portfolio, s, o, l, n))
      /\ UNCHANGED reservation

Swept(r) ==
  ledger[r].state \in Ledger!Leased /\ ledger'[r] = [ledger[r] EXCEPT !.state = "RECOVERING"]

Sweeps ==
  /\ ledger' \in [Requests -> Ledger!Row]
  /\ \A r \in Requests : ledger'[r] = ledger[r] \/ Swept(r)
  /\ UNCHANGED reservation

Adopts(d) ==
  \E t \in Named(d), o \in {NoRef, d}, l \in Deals \cup {NoRef} :
    /\ Bears(t, d)
    /\ SetTo(t, RowOf(Account, "FILLED", o, l, d))
    /\ Hold(t)

Shows(d) ==
  \E t \in Named(d), s \in Ledger!Terminal \cup {"FILLED", "ACKED"} :
    /\ s = ledger[t].state \/ (s = "ACKED" /\ ledger[t].state # "FILLED")
    /\ SetTo(t, RowOf(Account, s, d, ledger[t].deal, ledger[t].position))
    /\ Hold(t)

Closes(d) ==
  \E t \in Named(d) :
    /\ Known(t) /\ Bears(t, d)
    /\ \E l \in Deals : SetTo(t, RowOf(Account, "RECONCILED", ledger[t].order, l, d))
    /\ reservation' = [reservation EXCEPT
         ![t] = [portfolio |-> Account, status |-> "RELEASED", risk |-> 1]]

LEMMA RequestsOf ==
  /\ \A d \in Decisions : /\ ByDecision(d) \in Requests /\ ByPosition(d) \in Requests
                          /\ ByDecision(d)[2] = d /\ ByPosition(d)[2] = d
                          /\ ByDecision(d) # ByPosition(d)
  /\ \A r \in Requests : r[2] \in Decisions /\ r \in Named(r[2])
  /\ \A d, e \in Decisions : \A r \in Named(d) \cap Named(e) : d = e
BY DEF Requests, ByDecision, ByPosition, Named

LEMMA RowTypes ==
  ASSUME Rows, NEW r \in Requests
  PROVE  /\ ledger[r] \in Ledger!Row /\ reservation[r] \in Ledger!Reservation
         /\ RowFine(r)
BY DEF Rows, Ledger!TypeOK

\* Updating columns one by one, spelled out for the provers.
LEMMA RowWith ==
  ASSUME NEW row \in Ledger!Row, NEW s, NEW o, NEW l, NEW n
  PROVE  With(row, s, o, l, n) = RowOf(row.portfolio, s, o, l, n)
<1> DEFINE p == row.portfolio
<1>1. [row EXCEPT !.state = s, !.order = o, !.deal = l, !.position = n]
        = [[[[row EXCEPT !.state = s] EXCEPT !.order = o] EXCEPT !.deal = l] EXCEPT !.position = n]
  OBVIOUS
<1>2. [row EXCEPT !.state = s]
        = [portfolio |-> p, state |-> s, order |-> row.order, deal |-> row.deal,
           position |-> row.position]
  BY DEF Ledger!Row
<1>3. [[portfolio |-> p, state |-> s, order |-> row.order, deal |-> row.deal,
        position |-> row.position] EXCEPT !.order = o]
        = [portfolio |-> p, state |-> s, order |-> o, deal |-> row.deal,
           position |-> row.position]
  OBVIOUS
<1>4. [[portfolio |-> p, state |-> s, order |-> o, deal |-> row.deal,
        position |-> row.position] EXCEPT !.deal = l]
        = [portfolio |-> p, state |-> s, order |-> o, deal |-> l, position |-> row.position]
  OBVIOUS
<1>5. [[portfolio |-> p, state |-> s, order |-> o, deal |-> l,
        position |-> row.position] EXCEPT !.position = n]
        = [portfolio |-> p, state |-> s, order |-> o, deal |-> l, position |-> n]
  OBVIOUS
<1> HIDE DEF p
<1> QED BY <1>1, <1>2, <1>3, <1>4, <1>5 DEF p, With, RowOf

LEMMA ReserveEffect ==
  ASSUME Rows, NEW d \in Decisions, Handle(Reserve(d))
  PROVE  Admits(d)
<1>1. Ledger!Reserve(Account, ByDecision(d), 1)
  BY DEF Handle, Reserve, Call
<1>2. [Ledger!NoRow EXCEPT !.portfolio = Account, !.state = "RESERVED"]
        = RowOf(Account, "RESERVED", NoRef, NoRef, NoRef)
  <2>1. [Ledger!NoRow EXCEPT !.portfolio = Account, !.state = "RESERVED"]
          = [[Ledger!NoRow EXCEPT !.portfolio = Account] EXCEPT !.state = "RESERVED"]
    OBVIOUS
  <2>2. [Ledger!NoRow EXCEPT !.portfolio = Account]
          = [portfolio |-> Account, state |-> "ABSENT", order |-> NoRef,
             deal |-> NoRef, position |-> NoRef]
    BY DEF Ledger!NoRow
  <2>3. [[portfolio |-> Account, state |-> "ABSENT", order |-> NoRef, deal |-> NoRef,
          position |-> NoRef] EXCEPT !.state = "RESERVED"]
          = [portfolio |-> Account, state |-> "RESERVED", order |-> NoRef,
             deal |-> NoRef, position |-> NoRef]
    OBVIOUS
  <2> QED BY <2>1, <2>2, <2>3 DEF RowOf
<1> QED BY <1>1, <1>2 DEF Admits, Ledger!Reserve, Ledger!SetRow, SetTo, Hold,
                          Ledger!Known, Known

LEMMA TransitionEffect ==
  ASSUME Rows, NEW d \in Decisions, NEW s \in {"CHECKED", "SENT", "RECOVERING", "ACKED", "FILLED"},
         NEW i \in Answers(d), Handle(Transition(d, s, i))
  PROVE  Advances(d, s, i)
<1> DEFINE r == ByDecision(d)
<1>1. \/ Ledger!Advance(r, s, Claim(s), i)
      \/ ledger[r].state = s /\ Ledger!Repeat(r, i)
  BY DEF Handle, Transition, Call
<1>2. ledger[r] \in Ledger!Row
  BY RowTypes, RequestsOf
<1> DEFINE Set(o, l, n) == SetTo(r, RowOf(ledger[r].portfolio, s, o, l, n))
<1>3. CASE Ledger!Advance(r, s, Claim(s), i)
  <2> DEFINE o == Ledger!Given(i.order, ledger[r].order)
             l == Ledger!Given(i.deal, ledger[r].deal)
             n == Ledger!Given(i.position, ledger[r].position)
  <2>1. ledger' = [ledger EXCEPT ![r] =
          [ledger[r] EXCEPT !.state = s, !.order = o, !.deal = l, !.position = n]]
    BY <1>3 DEF Ledger!Advance, Ledger!SetRow
  <2>2. Set(o, l, n)
    <3> HIDE DEF o, l, n, r
    <3>1. With(ledger[r], s, o, l, n) = RowOf(ledger[r].portfolio, s, o, l, n)
      BY <1>2, RowWith
    <3> QED BY <2>1, <3>1 DEF SetTo, With
  <2>3. /\ o \in {ledger[r].order, i.order} /\ l \in {ledger[r].deal, i.deal}
        /\ n \in {ledger[r].position, i.position}
        /\ ledger[r].position # NoRef => n # NoRef
    BY DEF Ledger!Given
  <2>4. s \notin Ledger!Terminal
    BY DEF Ledger!Terminal
  <2> QED BY <1>3, <2>2, <2>3, <2>4 DEF Advances, Ledger!Advance, Known, Ledger!Known
<1>4. CASE ledger[r].state = s /\ Ledger!Repeat(r, i)
  <2> DEFINE o == Ledger!Given(ledger[r].order, i.order)
             l == Ledger!Given(ledger[r].deal, i.deal)
             n == Ledger!Given(ledger[r].position, i.position)
  <2>1. ledger' = [ledger EXCEPT ![r] =
          [ledger[r] EXCEPT !.order = o, !.deal = l, !.position = n]]
    BY <1>4 DEF Ledger!Repeat, Ledger!SetRow
  <2>2. [ledger[r] EXCEPT !.order = o, !.deal = l, !.position = n]
          = [ledger[r] EXCEPT !.state = s, !.order = o, !.deal = l, !.position = n]
    BY <1>2, <1>4 DEF Ledger!Row
  <2>3. Set(o, l, n)
    <3> HIDE DEF o, l, n, r
    <3>1. With(ledger[r], s, o, l, n) = RowOf(ledger[r].portfolio, s, o, l, n)
      BY <1>2, RowWith
    <3> QED BY <2>1, <2>2, <3>1 DEF SetTo, With
  <2>4. /\ o \in {ledger[r].order, i.order} /\ l \in {ledger[r].deal, i.deal}
        /\ n \in {ledger[r].position, i.position}
        /\ ledger[r].position # NoRef => n # NoRef
    BY DEF Ledger!Given
  <2> QED BY <1>4, <2>3, <2>4 DEF Advances, Ledger!Repeat, Known, Ledger!Known
<1> QED BY <1>1, <1>3, <1>4

LEMMA RecoverEffect ==
  ASSUME Rows, Handle(Call("recover", NoRef))
  PROVE  Sweeps
<1>1. Ledger!RecoverExpired \/ UNCHANGED bridge
  BY DEF Handle, Call
<1>2. ledger \in [Requests -> Ledger!Row]
  BY DEF Rows, Ledger!TypeOK
<1>3. \A r \in Requests : [ledger[r] EXCEPT !.state = "RECOVERING"] \in Ledger!Row
  BY <1>2 DEF Ledger!Row, Ledger!States
<1>4. CASE Ledger!RecoverExpired
  BY <1>2, <1>3, <1>4 DEF Ledger!RecoverExpired, Ledger!Late, Sweeps, Swept
<1>5. CASE UNCHANGED bridge
  BY <1>2, <1>5 DEF bridge, Sweeps
<1> QED BY <1>1, <1>4, <1>5

LEMMA RowsByPositionOf ==
  ASSUME Rows, NEW d \in Decisions
  PROVE  /\ Ledger!RowsByPosition(Account, d) \subseteq Named(d)
         /\ \A t \in Ledger!RowsByPosition(Account, d) :
              Known(t) /\ ledger[t].position = d
         /\ Ledger!RowsByPosition(Account, d) = {} =>
              \A u \in Requests : ledger[u].position # d \/ d = NoRef
<1>1. \A t \in Requests : ledger[t].position = d /\ d # NoRef => t \in Named(d)
  BY RequestsOf DEF Rows, RowFine
<1>2. \A u \in Requests : ledger[u].position = d /\ d # NoRef =>
        Known(u) /\ ledger[u].portfolio = Account
  BY DEF Rows, RowFine, Ledger!NoRow
<1> QED BY <1>1, <1>2 DEF Ledger!RowsByPosition, Known, Ledger!Known

LEMMA AdoptEffect ==
  ASSUME Rows, NEW d \in Decisions, NEW r \in Named(d), NEW l \in Deals,
         NEW o \in {NoRef, d}, Ledger!AdoptOpenPosition(Account, r, d, o, l, 1, 0)
  PROVE  Adopts(d)
<1>1. PICK t \in Ledger!AdoptionTargets(Account, r, d, o) :
        /\ Ledger!SetRow(t, [portfolio |-> Account, state |-> "FILLED",
             order |-> Ledger!Given(o, ledger[t].order),
             deal |-> Ledger!Given(l, ledger[t].deal), position |-> d])
        /\ Ledger!Hold(t, Account, 1)
  BY DEF Ledger!AdoptOpenPosition
<1>2. t \in Named(d) /\ Bears(t, d)
  <2>1. CASE Ledger!RowsByPosition(Account, d) # {}
    BY <1>1, <2>1, RowsByPositionOf DEF Bears, Ledger!AdoptionTargets, Ledger!BrokerRecords
  <2>2. CASE Ledger!RowsByPosition(Account, d) = {}
    <3>1. Ledger!RowsByOrder(Account, o) \subseteq Named(d)
      BY RequestsOf DEF Ledger!RowsByOrder, Rows, RowFine
    <3>2. t \in Named(d)
      BY <1>1, <2>2, <3>1 DEF Ledger!AdoptionTargets, Ledger!BrokerRecords
    <3> QED BY <2>2, <3>2, RowsByPositionOf, NullAssumption DEF Bears
  <2> QED BY <2>1, <2>2
<1>3. t \in Requests /\ ledger[t] \in Ledger!Row /\ RowFine(t)
  BY <1>2, RequestsOf, RowTypes DEF Named
<1>4. /\ Ledger!Given(o, ledger[t].order) \in {NoRef, d}
      /\ Ledger!Given(l, ledger[t].deal) \in Deals \cup {NoRef}
  <2>1. ledger[t].order \in {NoRef, t[2]} /\ t[2] = d
    BY <1>2, <1>3, RequestsOf DEF RowFine, Named
  <2> QED BY <1>3, <2>1 DEF Ledger!Given, Ledger!Row, Ledger!OrNull
<1> QED BY <1>1, <1>2, <1>4 DEF Adopts, RowOf, SetTo, Hold, Ledger!SetRow, Ledger!Hold

LEMMA PositionEffect ==
  ASSUME Rows, NEW d \in Decisions, Handle(Call("position", d))
  PROVE  Adopts(d)
<1>1. Ledger!SyncPosition(Account, ByDecision(d), d, d, <<"in", d>>, 1, 0)
  BY DEF Handle, Call
<1>2. Ledger!AdoptOpenPosition(Account, ByDecision(d), d, d, <<"in", d>>, 1, 0)
  BY <1>1 DEF Ledger!SyncPosition
<1>3. <<"in", d>> \in Deals /\ ByDecision(d) \in Named(d)
  BY DEF Deals, Named
<1> QED BY <1>2, <1>3, AdoptEffect

LEMMA OrderEffect ==
  ASSUME Rows, NEW d \in Decisions, Handle(Call("order", d))
  PROVE  Shows(d)
<1>1. Ledger!SyncPendingOrder(Account, ByDecision(d), d, 1)
  BY DEF Handle, Call
<1> DEFINE S(t) == IF ledger[t].state \in Ledger!Terminal \cup {"FILLED"}
                     THEN ledger[t].state ELSE "ACKED"
<1>2. PICK t \in Ledger!PendingOrderTargets(Account, ByDecision(d), d) :
        /\ Ledger!SetRow(t, [ledger[t] EXCEPT !.portfolio = Account,
                               !.state = S(t), !.order = d])
        /\ Ledger!Hold(t, Account, 1)
  BY <1>1 DEF Ledger!SyncPendingOrder
<1>3. t \in Named(d)
  <2>1. Ledger!RowsByOrder(Account, d) \subseteq Named(d)
    BY RequestsOf DEF Ledger!RowsByOrder, Rows, RowFine
  <2> QED BY <1>2, <2>1 DEF Ledger!PendingOrderTargets, Named
<1>4. ledger[t] \in Ledger!Row
  BY <1>3, RequestsOf, RowTypes DEF Named
<1>5. S(t) \in Ledger!Terminal \cup {"FILLED", "ACKED"}
      /\ (S(t) = ledger[t].state \/ (S(t) = "ACKED" /\ ledger[t].state # "FILLED"))
  OBVIOUS
<1>6. [ledger[t] EXCEPT !.portfolio = Account, !.state = S(t), !.order = d]
        = [portfolio |-> Account, state |-> S(t), order |-> d,
           deal |-> ledger[t].deal, position |-> ledger[t].position]
  <2> DEFINE row == ledger[t]
             s == S(t)
  <2> HIDE DEF row, s
  <2>0. row \in Ledger!Row
    BY <1>4 DEF row
  <2>1. [row EXCEPT !.portfolio = Account, !.state = s, !.order = d]
          = [[[row EXCEPT !.portfolio = Account] EXCEPT !.state = s] EXCEPT !.order = d]
    OBVIOUS
  <2>2. [row EXCEPT !.portfolio = Account]
          = [portfolio |-> Account, state |-> row.state, order |-> row.order,
             deal |-> row.deal, position |-> row.position]
    BY <2>0 DEF Ledger!Row
  <2>3. [[portfolio |-> Account, state |-> row.state, order |-> row.order,
          deal |-> row.deal, position |-> row.position] EXCEPT !.state = s]
          = [portfolio |-> Account, state |-> s, order |-> row.order,
             deal |-> row.deal, position |-> row.position]
    OBVIOUS
  <2>4. [[portfolio |-> Account, state |-> s, order |-> row.order,
          deal |-> row.deal, position |-> row.position] EXCEPT !.order = d]
          = [portfolio |-> Account, state |-> s, order |-> d,
             deal |-> row.deal, position |-> row.position]
    OBVIOUS
  <2> QED BY <2>1, <2>2, <2>3, <2>4 DEF row, s
<1> HIDE DEF S
<1> QED BY <1>2, <1>3, <1>5, <1>6 DEF Shows, RowOf, SetTo, Hold, Ledger!SetRow, Ledger!Hold

LEMMA ClosureEffect ==
  ASSUME Rows, NEW d \in Decisions, NEW r \in Named(d), NEW l \in Deals,
         Ledger!RecordClosure(Account, r, d, l)
  PROVE  Closes(d)
<1>1. PICK t \in Ledger!ClosureTargets(Account, r, d) :
        /\ Ledger!SetRow(t, [ledger[t] EXCEPT !.state = "RECONCILED",
                                              !.position = d, !.deal = l])
        /\ Ledger!Release(t) /\ ledger[t].portfolio = Account
  BY DEF Ledger!RecordClosure
<1>2. t \in Named(d) /\ Known(t) /\ Bears(t, d)
  <2>1. CASE Ledger!RowsByPosition(Account, d) # {}
    BY <1>1, <2>1, RowsByPositionOf DEF Bears, Ledger!ClosureTargets
  <2>2. CASE Ledger!RowsByPosition(Account, d) = {}
    BY <1>1, <2>2, RowsByPositionOf, NullAssumption
      DEF Bears, Ledger!ClosureTargets, Known, Ledger!Known
  <2> QED BY <2>1, <2>2
<1>3. t \in Requests /\ ledger[t] \in Ledger!Row /\ RowFine(t)
      /\ reservation[t] \in Ledger!Reservation
  BY <1>2, RequestsOf, RowTypes DEF Named
<1>4. [ledger[t] EXCEPT !.state = "RECONCILED", !.position = d, !.deal = l]
        = [portfolio |-> Account, state |-> "RECONCILED", order |-> ledger[t].order,
           deal |-> l, position |-> d]
  <2> DEFINE o == ledger[t].order
             row == ledger[t]
  <2>1. [row EXCEPT !.state = "RECONCILED", !.position = d, !.deal = l]
          = [row EXCEPT !.state = "RECONCILED", !.order = o, !.deal = l, !.position = d]
    BY <1>3 DEF Ledger!Row
  <2>2. With(row, "RECONCILED", o, l, d) = RowOf(row.portfolio, "RECONCILED", o, l, d)
    BY <1>3, RowWith
  <2>3. row.portfolio = Account
    BY <1>1
  <2> HIDE DEF row, o
  <2> QED BY <2>1, <2>2, <2>3 DEF row, o, With, RowOf
<1>5. reservation' = [reservation EXCEPT
        ![t] = [portfolio |-> Account, status |-> "RELEASED", risk |-> 1]]
  <2>1. reservation' = [reservation EXCEPT ![t] = [reservation[t] EXCEPT !.status = "RELEASED"]]
    BY <1>1, <1>2, <1>3 DEF Ledger!Release, RowFine
  <2>2. [reservation[t] EXCEPT !.status = "RELEASED"]
          = [portfolio |-> Account, status |-> "RELEASED", risk |-> 1]
    BY <1>2, <1>3 DEF Ledger!Reservation, RowFine
  <2> QED BY <2>1, <2>2
<1> QED BY <1>1, <1>2, <1>4, <1>5 DEF Closes, RowOf, SetTo, Ledger!SetRow

LEMMA DealEffect ==
  ASSUME Rows, NEW d \in Decisions, NEW e \in {"in", "out"}, NEW o \in BOOLEAN,
         Handle([Call("deal", d) EXCEPT !.entry = e, !.open = o])
  PROVE  \/ o /\ Adopts(d)
         \/ ~o /\ e = "out" /\ Closes(d)
         \/ ~o /\ UNCHANGED <<ledger, reservation>>
            /\ (e = "out" => Ledger!ClosureTargets(Account, ByPosition(d), d) = {})
<1> DEFINE event == [order |-> IF e = "in" THEN d ELSE NoRef, position |-> d,
                     entry |-> IF e = "in" THEN "IN" ELSE "OUT"]
<1>1. Ledger!DealEvent(Account, ByPosition(d), <<e, d>>, event, o, 1)
  BY DEF Handle, Call
<1>2. <<e, d>> \in Deals /\ ByPosition(d) \in Named(d)
  BY DEF Deals, Named
<1>3. /\ event.position = d /\ event.order \in {NoRef, d}
      /\ event.entry = "OUT" <=> e = "out"
  OBVIOUS
<1> HIDE DEF event
<1>4. CASE o /\ Ledger!AdoptOpenPosition(Account, ByPosition(d), event.position, event.order, <<e, d>>, 1, 0)
  BY <1>2, <1>3, <1>4, AdoptEffect
<1>5. CASE ~o /\ event.entry = "OUT" /\ Ledger!RecordClosure(Account, ByPosition(d), event.position, <<e, d>>)
  BY <1>2, <1>3, <1>5, ClosureEffect
<1> QED BY <1>1, <1>3, <1>4, <1>5 DEF Ledger!DealEvent

LEMMA ClosedEffect ==
  ASSUME Rows, NEW d \in Decisions, Handle(Call("closed", d))
  PROVE  \/ Closes(d)
         \/ UNCHANGED <<ledger, reservation>>
            /\ Ledger!ClosureTargets(Account, ByDecision(d), d) = {}
<1>1. \/ Ledger!ClosePosition(Account, ByDecision(d), d, <<"out", d>>)
      \/ UNCHANGED bridge /\ Ledger!ClosureTargets(Account, ByDecision(d), d) = {}
  BY DEF Handle, Call
<1>2. <<"out", d>> \in Deals /\ ByDecision(d) \in Named(d)
  BY DEF Deals, Named
<1> QED BY <1>1, <1>2, ClosureEffect DEF Ledger!ClosePosition, bridge

-----------------------------------------------------------------------------
(***************************************************************************)
(* Every call keeps the rows fine, and forgets none.                       *)
(***************************************************************************)

RowsKept ==
  /\ ledger' \in [Requests -> Ledger!Row]
  /\ reservation' \in [Requests -> Ledger!Reservation]
  /\ \A r \in Requests : RowFine(r)' /\ (Known(r) => Known(r)')

LEMMA RowSet ==
  ASSUME Rows, UNCHANGED <<broker, used>>,
         NEW d \in Decisions, d \in used, NEW t \in Named(d),
         NEW s \in Ledger!States, NEW o \in {NoRef, d}, NEW l \in Deals \cup {NoRef},
         NEW n \in {NoRef, d}, SetTo(t, RowOf(Account, s, o, l, n)),
         n = d => broker[d] \in Executed,
         NEW v \in {"ACTIVE", "RELEASED"}, v = "RELEASED" => broker[d] = "closed",
         reservation' = [reservation EXCEPT
           ![t] = [portfolio |-> Account, status |-> v, risk |-> 1]]
  PROVE  RowsKept
<1> DEFINE res == [portfolio |-> Account, status |-> v, risk |-> 1]
<1>1. RowOf(Account, s, o, l, n) \in Ledger!Row /\ res \in Ledger!Reservation
  BY DEF RowOf, Ledger!Row, Ledger!Reservation, Ledger!OrNull
<1>2. t \in Requests /\ t[2] = d
  BY RequestsOf DEF Named
<1>3. /\ ledger' \in [Requests -> Ledger!Row]
      /\ reservation' \in [Requests -> Ledger!Reservation]
      /\ ledger'[t] = RowOf(Account, s, o, l, n) /\ reservation'[t] = res
      /\ \A r \in Requests : r # t => ledger'[r] = ledger[r] /\ reservation'[r] = reservation[r]
  BY <1>1, <1>2 DEF SetTo, Rows, Ledger!TypeOK
<1>4. Known(t)' /\ RowFine(t)'
  <2>1. s # "ABSENT"
    BY DEF Ledger!States, Ledger!Terminal
  <2> QED BY <1>2, <1>3, <2>1 DEF Known, RowFine, RowOf
<1>5. ASSUME NEW r \in Requests, r # t PROVE RowFine(r)' /\ (Known(r) => Known(r)')
  <2>1. RowFine(r)
    BY DEF Rows
  <2> QED BY <1>3, <1>5, <2>1 DEF RowFine, Known
<1> QED BY <1>3, <1>4, <1>5 DEF RowsKept

LEMMA AdmitsKeepsRows ==
  ASSUME Rows, UNCHANGED <<broker, used>>, NEW d \in Decisions, d \in used, Admits(d)
  PROVE  RowsKept
<1>1. /\ ByDecision(d) \in Named(d) /\ "RESERVED" \in Ledger!States
  BY DEF Named, Ledger!States
<1> QED BY <1>1, RowSet, NullAssumption DEF Admits, Hold

LEMMA AdvancesKeepsRows ==
  ASSUME Rows, UNCHANGED <<broker, used>>, NEW d \in Decisions, d \in used,
         NEW s \in {"CHECKED", "SENT", "RECOVERING", "ACKED", "FILLED"},
         NEW i \in Answers(d), i.position = d => broker[d] \in Executed,
         Advances(d, s, i)
  PROVE  RowsKept
<1> DEFINE r == ByDecision(d)
<1>1. r \in Named(d) /\ r \in Requests /\ r[2] = d
  BY RequestsOf DEF Named
<1>2. ledger[r] \in Ledger!Row /\ reservation[r] \in Ledger!Reservation /\ RowFine(r)
  BY <1>1, RowTypes
<1>3. Known(r)
  BY DEF Advances
<1>4. PICK o \in {ledger[r].order, i.order}, l \in {ledger[r].deal, i.deal},
           n \in {ledger[r].position, i.position} :
             SetTo(r, RowOf(ledger[r].portfolio, s, o, l, n))
  BY DEF Advances
<1>5. /\ ledger[r].portfolio = Account
      /\ o \in {NoRef, d} /\ n \in {NoRef, d} /\ (n = d => broker[d] \in Executed)
  BY <1>1, <1>2, <1>3 DEF RowFine, Answers
<1>6. l \in Deals \cup {NoRef}
  BY <1>2 DEF Ledger!Row, Ledger!OrNull, Answers, Deals
<1>7. /\ reservation[r].status \in {"ACTIVE", "RELEASED"}
      /\ reservation[r].status = "RELEASED" => broker[d] = "closed"
      /\ reservation[r] = [portfolio |-> Account, status |-> reservation[r].status, risk |-> 1]
  BY <1>1, <1>2, <1>3 DEF RowFine, Ledger!Reservation
<1>8. reservation' = [reservation EXCEPT ![r] =
        [portfolio |-> Account, status |-> reservation[r].status, risk |-> 1]]
  <2>1. reservation \in [Requests -> Ledger!Reservation] /\ reservation' = reservation
    BY DEF Advances, Rows, Ledger!TypeOK
  <2> HIDE DEF r
  <2> QED BY <1>7, <2>1
<1>9. s \in Ledger!States
  BY DEF Ledger!States
<1> HIDE DEF r
<1> QED BY <1>1, <1>4, <1>5, <1>6, <1>7, <1>8, <1>9, RowSet

LEMMA SweepsKeepsRows ==
  ASSUME Rows, UNCHANGED <<broker, used>>, Sweeps
  PROVE  RowsKept
<1> SUFFICES ASSUME NEW r \in Requests PROVE RowFine(r)' /\ (Known(r) => Known(r)')
  BY DEF RowsKept, Sweeps, Rows, Ledger!TypeOK
<1>1. ledger[r] \in Ledger!Row /\ RowFine(r) /\ reservation' = reservation
  BY RowTypes DEF Sweeps
<1>2. CASE ledger'[r] = ledger[r]
  BY <1>1, <1>2 DEF RowFine, Known
<1>3. CASE Swept(r)
  <2>1. /\ ledger'[r].order = ledger[r].order /\ ledger'[r].position = ledger[r].position
        /\ ledger'[r].portfolio = ledger[r].portfolio /\ ledger'[r].state = "RECOVERING"
        /\ Known(r)
    BY <1>1, <1>3 DEF Swept, Ledger!Row, Ledger!Leased, Known
  <2> QED BY <1>1, <2>1 DEF RowFine, Known
<1> QED BY <1>2, <1>3 DEF Sweeps

LEMMA AdoptsKeepsRows ==
  ASSUME Rows, UNCHANGED <<broker, used>>, NEW d \in Decisions, d \in used,
         broker[d] \in Executed, Adopts(d)
  PROVE  RowsKept
<1>1. "FILLED" \in Ledger!States
  BY DEF Ledger!States
<1> QED BY <1>1, RowSet DEF Adopts, Hold

LEMMA ShowsKeepsRows ==
  ASSUME Rows, UNCHANGED <<broker, used>>, NEW d \in Decisions, d \in used, Shows(d)
  PROVE  RowsKept
<1>1. PICK t \in Named(d), s \in Ledger!Terminal \cup {"FILLED", "ACKED"} :
        /\ SetTo(t, RowOf(Account, s, d, ledger[t].deal, ledger[t].position))
        /\ Hold(t)
  BY DEF Shows
<1>2. t \in Requests /\ t[2] = d /\ ledger[t] \in Ledger!Row /\ RowFine(t)
  BY RequestsOf, RowTypes DEF Named
<1>3. /\ ledger[t].deal \in Deals \cup {NoRef} /\ ledger[t].position \in {NoRef, d}
      /\ ledger[t].position = d => broker[d] \in Executed
      /\ s \in Ledger!States
  BY <1>2 DEF RowFine, Ledger!Row, Ledger!OrNull, Ledger!States
<1> QED BY <1>1, <1>3, RowSet DEF Hold

LEMMA ClosesKeepsRows ==
  ASSUME Rows, UNCHANGED <<broker, used>>, NEW d \in Decisions, d \in used,
         broker[d] = "closed", Closes(d)
  PROVE  RowsKept
<1>1. PICK t \in Named(d), l \in Deals :
        /\ SetTo(t, RowOf(Account, "RECONCILED", ledger[t].order, l, d))
        /\ reservation' = [reservation EXCEPT
             ![t] = [portfolio |-> Account, status |-> "RELEASED", risk |-> 1]]
  BY DEF Closes
<1>2. t \in Requests /\ t[2] = d /\ RowFine(t)
  BY RequestsOf, RowTypes DEF Named
<1>3. ledger[t].order \in {NoRef, d} /\ "RECONCILED" \in Ledger!States
  BY <1>2 DEF RowFine, Ledger!States, Ledger!Terminal
<1>4. broker[d] \in Executed
  BY DEF Executed
<1> QED BY <1>1, <1>3, <1>4, RowSet

\* The effects a call may have, under the conditions it was made in.
Effect ==
  \/ UNCHANGED <<ledger, reservation>>
  \/ Sweeps
  \/ \E d \in used :
       \/ Admits(d)
       \/ \E s \in {"CHECKED", "SENT", "RECOVERING", "ACKED", "FILLED"}, i \in Answers(d) :
            MayReport(d, s, i) /\ Advances(d, s, i)
       \/ broker[d] \in Executed /\ Adopts(d)
       \/ broker[d] # "none" /\ Shows(d)
       \/ broker[d] = "closed" /\ Closes(d)

LEMMA CallHasEffect ==
  ASSUME Rows, used \subseteq Decisions, NEW c, MayCall(c), Handle(c)
  PROVE  Effect
<1>1. CASE c = Call("recover", NoRef)
  BY <1>1, RecoverEffect DEF Effect
<1>2. ASSUME NEW d \in used, c = Reserve(d) PROVE Effect
  BY <1>2, ReserveEffect DEF Effect
<1>3. ASSUME NEW d \in used, NEW s \in {"CHECKED", "SENT", "RECOVERING", "ACKED", "FILLED"},
             NEW i \in Answers(d), MayReport(d, s, i), c = Transition(d, s, i)
      PROVE  Effect
  BY <1>3, TransitionEffect DEF Effect
<1>4. ASSUME NEW d \in used, c = Call("position", d), broker[d] \in Executed PROVE Effect
  BY <1>4, PositionEffect DEF Effect
<1>5. ASSUME NEW d \in used, c = Call("order", d), broker[d] # "none" PROVE Effect
  BY <1>5, OrderEffect DEF Effect
<1>6. ASSUME NEW d \in used, NEW e \in {"in", "out"}, NEW o \in BOOLEAN,
             MayReportDeal(e, o, d), c = [Call("deal", d) EXCEPT !.entry = e, !.open = o]
      PROVE  Effect
  <2>1. broker[d] \in Executed
    BY <1>6 DEF MayReportDeal, Executed
  <2>2. e = "out" => broker[d] = "closed"
    BY <1>6 DEF MayReportDeal
  <2> QED BY <1>6, <2>1, <2>2, DealEffect DEF Effect
<1>7. ASSUME NEW d \in used, c = Call("closed", d), broker[d] = "closed" PROVE Effect
  BY <1>7, ClosedEffect DEF Effect
<1> QED BY <1>1, <1>2, <1>3, <1>4, <1>5, <1>6, <1>7 DEF MayCall

LEMMA EffectKeepsRows ==
  ASSUME Rows, used \subseteq Decisions, UNCHANGED <<broker, used>>, Effect
  PROVE  RowsKept
<1>1. CASE UNCHANGED <<ledger, reservation>>
  BY <1>1 DEF RowsKept, Rows, Ledger!TypeOK, RowFine, Known
<1>2. ASSUME NEW d \in used,
             NEW s \in {"CHECKED", "SENT", "RECOVERING", "ACKED", "FILLED"}, NEW i \in Answers(d),
             MayReport(d, s, i), Advances(d, s, i)
      PROVE  RowsKept
  <2>1. i.position = d => broker[d] \in Executed
    BY <1>2, NullAssumption DEF MayReport, NoIds
  <2> QED BY <1>2, <2>1, AdvancesKeepsRows
<1> QED BY <1>1, <1>2, SweepsKeepsRows, AdmitsKeepsRows, AdoptsKeepsRows, ShowsKeepsRows,
           ClosesKeepsRows DEF Effect

\* At most one reservation changes.
LEMMA EffectTouchesOne ==
  ASSUME Rows, Effect
  PROVE  \E r : \A t \in Requests : t # r => reservation'[t] = reservation[t]
BY DEF Effect, Sweeps, Admits, Advances, Adopts, Shows, Closes, Hold, Rows, Ledger!TypeOK

\* Nothing but the intent to send and a sweep reaches a request before the
\* broker knows its order.
LEMMA EffectKeepsIntent ==
  ASSUME Rows, used \subseteq Decisions, Effect, NEW e \in Decisions, broker[e] = "none",
         ledger[ByDecision(e)].state \in {"SENT", "RECOVERING"}
  PROVE  ledger'[ByDecision(e)].state \in {"SENT", "RECOVERING"}
<1> DEFINE r == ByDecision(e)
<1>1. r \in Requests /\ \A d \in Decisions : d # e => r \notin Named(d)
  BY RequestsOf DEF Named
<1>2. ledger \in [Requests -> Ledger!Row]
  BY DEF Rows, Ledger!TypeOK
<1>3. CASE Sweeps
  BY <1>1, <1>2, <1>3 DEF Sweeps, Swept, Ledger!Row
<1>4. ASSUME NEW d \in used, NEW t \in Named(d), d # e, NEW row, SetTo(t, row)
      PROVE  ledger'[r] = ledger[r]
  BY <1>1, <1>2, <1>4 DEF SetTo
<1>5. ASSUME NEW d \in used, Admits(d)
      PROVE  ledger'[r] = ledger[r]
  <2>1. d # e
    BY <1>5 DEF Admits, Known
  <2> QED BY <1>4, <1>5, <2>1 DEF Admits, Named
<1>6. ASSUME NEW d \in used,
             NEW s \in {"CHECKED", "SENT", "RECOVERING", "ACKED", "FILLED"}, NEW i \in Answers(d),
             MayReport(d, s, i), Advances(d, s, i)
      PROVE  ledger'[r].state \in {"SENT", "RECOVERING"}
  <2>1. CASE d # e
    BY <1>4, <1>6, <2>1 DEF Advances, Named
  <2>2. CASE d = e
    <3>1. s \in {"CHECKED", "SENT"}
      BY <1>6, <2>2 DEF MayReport
    <3>2. s \notin Ledger!AllowedTransitions[ledger[r].state]
      BY <3>1 DEF Ledger!AllowedTransitions, Ledger!States, Ledger!Terminal
    <3>3. s = "SENT"
      BY <1>6, <2>2, <3>1, <3>2 DEF Advances
    <3>4. ledger'[r].state = s
      BY <1>1, <1>2, <1>6, <2>2 DEF Advances, SetTo, RowOf
    <3> QED BY <3>3, <3>4
  <2> QED BY <2>1, <2>2
<1>7. ASSUME NEW d \in used, broker[d] # "none", Adopts(d) \/ Shows(d) \/ Closes(d)
      PROVE  ledger'[r] = ledger[r]
  <2>1. d # e
    BY <1>7
  <2> QED BY <1>4, <1>7, <2>1 DEF Adopts, Shows, Closes
<1> HIDE DEF r
<1>8. CASE UNCHANGED <<ledger, reservation>>
  BY <1>8 DEF r
<1> QED BY <1>3, <1>5, <1>6, <1>7, <1>8 DEF Effect, Executed, r

\* The leases, the stored deals and the modifications keep their types.
Tables ==
  /\ expired \subseteq Requests
  /\ deals \in [{Account} -> [Deals -> Ledger!Deal \cup {Ledger!NoDeal}]]
  /\ mods \in [{Account} -> [{} -> Ledger!Modification \cup {Ledger!NoModification}]]

LEMMA LedgerTypes ==
  Ledger!TypeOK <=> /\ ledger \in [Requests -> Ledger!Row]
                    /\ reservation \in [Requests -> Ledger!Reservation]
                    /\ Tables
BY DEF Ledger!TypeOK, Tables

LEMMA AdoptionTables ==
  ASSUME Tables, NEW r \in Requests, NEW d \in Decisions, NEW o, NEW l,
         Ledger!AdoptOpenPosition(Account, r, d, o, l, 1, 0)
  PROVE  /\ expired' \subseteq Requests
         /\ mods' \in [{Account} -> [{} -> Ledger!Modification \cup {Ledger!NoModification}]]
BY DEF Tables, Ledger!AdoptOpenPosition, Ledger!RenewLease, Ledger!ResolveBySnapshot

LEMMA ClosureTables ==
  ASSUME Tables, NEW r \in Requests, NEW d \in Decisions, NEW l,
         Ledger!RecordClosure(Account, r, d, l)
  PROVE  /\ expired' \subseteq Requests
         /\ mods' \in [{Account} -> [{} -> Ledger!Modification \cup {Ledger!NoModification}]]
BY DEF Tables, Ledger!RecordClosure, Ledger!ResolveByClose

LEMMA HandleKeepsTables ==
  ASSUME Tables, used \subseteq Decisions, NEW c, MayCall(c), Handle(c)
  PROVE  Tables'
<1>1. CASE c = Call("recover", NoRef)
  <2>1. UNCHANGED <<expired, deals, mods>>
    BY <1>1 DEF Handle, Call, Ledger!RecoverExpired, bridge
  <2> QED BY <2>1 DEF Tables
<1>2. ASSUME NEW d \in used, c = Reserve(d) PROVE Tables'
  <2>1. Ledger!Reserve(Account, ByDecision(d), 1)
    BY <1>2 DEF Handle, Reserve, Call
  <2> QED BY <2>1 DEF Ledger!Reserve, Ledger!RenewLease, Tables
<1>3. ASSUME NEW d \in used, NEW s \in {"CHECKED", "SENT", "RECOVERING", "ACKED", "FILLED"},
             NEW i \in Answers(d), c = Transition(d, s, i)
      PROVE  Tables'
  <2>1. \/ Ledger!Advance(ByDecision(d), s, Claim(s), i)
        \/ Ledger!Repeat(ByDecision(d), i)
    BY <1>3 DEF Handle, Transition, Call
  <2> QED BY <2>1 DEF Ledger!Advance, Ledger!Repeat, Tables
<1>4. ASSUME NEW d \in used, c = Call("position", d) PROVE Tables'
  <2>1. Ledger!SyncPosition(Account, ByDecision(d), d, d, <<"in", d>>, 1, 0)
    BY <1>4 DEF Handle, Call
  <2>2. UNCHANGED deals
    BY <2>1 DEF Ledger!SyncPosition
  <2> QED BY <2>1, <2>2, RequestsOf, AdoptionTables DEF Ledger!SyncPosition, Tables
<1>5. ASSUME NEW d \in used, c = Call("order", d) PROVE Tables'
  <2>1. Ledger!SyncPendingOrder(Account, ByDecision(d), d, 1)
    BY <1>5 DEF Handle, Call
  <2> QED BY <2>1 DEF Ledger!SyncPendingOrder, Ledger!RenewLease, Tables
<1>6. ASSUME NEW d \in used, NEW e \in {"in", "out"}, NEW o \in BOOLEAN,
             c = [Call("deal", d) EXCEPT !.entry = e, !.open = o]
      PROVE  Tables'
  <2> DEFINE event == [order |-> IF e = "in" THEN d ELSE NoRef, position |-> d,
                       entry |-> IF e = "in" THEN "IN" ELSE "OUT"]
  <2>1. Ledger!DealEvent(Account, ByPosition(d), <<e, d>>, event, o, 1)
    BY <1>6 DEF Handle, Call
  <2>2. event \in Ledger!Deal /\ event.position = d
    BY DEF Ledger!Deal, Ledger!OrNull
  <2> HIDE DEF event
  <2>3. deals' \in [{Account} -> [Deals -> Ledger!Deal \cup {Ledger!NoDeal}]]
    BY <2>1, <2>2 DEF Ledger!DealEvent, Tables
  <2>4. /\ expired' \subseteq Requests
        /\ mods' \in [{Account} -> [{} -> Ledger!Modification \cup {Ledger!NoModification}]]
    <3>1. CASE o /\ Ledger!AdoptOpenPosition(Account, ByPosition(d), d, event.order, <<e, d>>, 1, 0)
      BY <3>1, RequestsOf, AdoptionTables
    <3>2. CASE ~o /\ Ledger!RecordClosure(Account, ByPosition(d), d, <<e, d>>)
      BY <3>2, RequestsOf, ClosureTables
    <3>3. CASE UNCHANGED <<ledger, reservation, expired, mods>>
      BY <3>3 DEF Tables
    <3> QED BY <2>1, <2>2, <3>1, <3>2, <3>3 DEF Ledger!DealEvent
  <2> QED BY <2>3, <2>4 DEF Tables
<1>7. ASSUME NEW d \in used, c = Call("closed", d) PROVE Tables'
  <2>1. \/ Ledger!ClosePosition(Account, ByDecision(d), d, <<"out", d>>)
        \/ UNCHANGED bridge
    BY <1>7 DEF Handle, Call
  <2>2. CASE UNCHANGED bridge
    BY <2>2 DEF bridge, Tables
  <2>3. CASE Ledger!ClosePosition(Account, ByDecision(d), d, <<"out", d>>)
    <3>1. UNCHANGED deals
      BY <2>3 DEF Ledger!ClosePosition
    <3> QED BY <2>3, <3>1, RequestsOf, ClosureTables DEF Ledger!ClosePosition, Tables
  <2> QED BY <2>1, <2>2, <2>3
<1> QED BY <1>1, <1>2, <1>3, <1>4, <1>5, <1>6, <1>7 DEF MayCall

-----------------------------------------------------------------------------
(***************************************************************************)
(* The steps of the system, and first what all of them keep.               *)
(***************************************************************************)

\* The broker and the decision store only move on.
Onward ==
  /\ used \subseteq used'
  /\ \A d \in Decisions :
       /\ broker[d] # "none" => broker'[d] # "none"
       /\ broker[d] \in Executed => broker'[d] \in Executed
       /\ broker[d] = "closed" => broker'[d] = "closed"

LEMMA StillMayCall ==
  ASSUME used \subseteq Decisions, Onward, NEW c, MayCall(c)
  PROVE  MayCall(c)'
<1>1. \A d \in used : \A s, i : MayReport(d, s, i) => MayReport(d, s, i)'
  BY DEF Onward, MayReport
<1>2. \A d \in used : \A e, o : MayReportDeal(e, o, d) => MayReportDeal(e, o, d)'
  BY DEF Onward, MayReportDeal
<1>3. CASE c = Call("recover", NoRef)
  BY <1>3 DEF MayCall
<1>4. ASSUME NEW d \in used, NEW s \in {"CHECKED", "SENT", "RECOVERING", "ACKED", "FILLED"},
             NEW i \in Answers(d), MayReport(d, s, i), c = Transition(d, s, i)
      PROVE  MayCall(c)'
  <2>1. d \in used' /\ MayReport(d, s, i)'
    BY <1>1, <1>4 DEF Onward
  <2> QED BY <1>4, <2>1 DEF MayCall
<1>5. ASSUME NEW d \in used, NEW e \in {"in", "out"}, NEW o \in BOOLEAN,
             MayReportDeal(e, o, d), c = [Call("deal", d) EXCEPT !.entry = e, !.open = o]
      PROVE  MayCall(c)'
  <2>1. d \in used' /\ MayReportDeal(e, o, d)'
    BY <1>2, <1>5 DEF Onward
  <2>2. \E a \in used' : \E b \in {"in", "out"}, p \in BOOLEAN :
          MayReportDeal(b, p, a)' /\ c = [Call("deal", a) EXCEPT !.entry = b, !.open = p]
    BY <1>5, <2>1
  <2> QED BY <2>2 DEF MayCall
<1>6. ASSUME NEW d \in used,
             \/ c = Reserve(d)
             \/ c = Call("position", d) /\ broker[d] \in Executed
             \/ c = Call("order", d) /\ broker[d] # "none"
             \/ c = Call("closed", d) /\ broker[d] = "closed"
      PROVE  MayCall(c)'
  <2>1. d \in used' /\ d \in Decisions
    BY DEF Onward
  <2>2. CASE c = Reserve(d)
    BY <2>1, <2>2 DEF MayCall
  <2>3. CASE c = Call("position", d) /\ broker[d] \in Executed
    BY <2>1, <2>3 DEF MayCall, Onward
  <2>4. CASE c = Call("order", d) /\ broker[d] # "none"
    BY <2>1, <2>4 DEF MayCall, Onward
  <2>5. CASE c = Call("closed", d) /\ broker[d] = "closed"
    BY <2>1, <2>5 DEF MayCall, Onward
  <2> QED BY <1>6, <2>2, <2>3, <2>4, <2>5
<1> QED BY <1>3, <1>4, <1>5, <1>6 DEF MayCall

LEMMA StillHappened ==
  ASSUME used \subseteq Decisions, Onward, NEW deal, HasHappened(deal)
  PROVE  HasHappened(deal)'
BY DEF Onward, HasHappened

\* What a call leaves, whether it arrives or not.
LEMMA CallStep ==
  ASSUME SubmissionInv, NEW c, MayCall(c), UNCHANGED <<broker, used>>,
         Handle(c) \/ UNCHANGED bridge
  PROVE  Rows' /\ AtBroker' /\ \A r \in Requests : Known(r) => Known(r)'
<1>1. used \subseteq Decisions /\ Rows
  BY DEF SubmissionInv, Typed
<1>2. RowsKept
  BY <1>1, CallHasEffect, EffectKeepsRows DEF bridge, Effect
<1>3. Tables'
  BY <1>1, HandleKeepsTables, LedgerTypes DEF Rows, bridge, Tables
<1>4. Ledger!TypeOK'
  BY <1>2, <1>3 DEF RowsKept, Ledger!TypeOK, Tables
<1>5. AtBroker'
  BY <1>2, RequestsOf DEF SubmissionInv, AtBroker, Ordered, RowsKept
<1> QED BY <1>2, <1>4, <1>5 DEF Rows, RowsKept

LEMMA LateStep ==
  ASSUME SubmissionInv, Onward, NEW c, MayCall(c),
         \/ UNCHANGED late
         \/ Cardinality(late) < MaxLate /\ late' = late \cup {c}
         \/ late' = late \ {c}
  PROVE  Travelling'
<1>1. \A b \in late : MayCall(b)'
  BY StillMayCall DEF SubmissionInv, Travelling, Typed
<1>2. MayCall(c)'
  BY StillMayCall DEF SubmissionInv, Typed
<1>3. IsFiniteSet(late) /\ Cardinality(late) \in Nat /\ Cardinality(late) <= MaxLate
  BY FS_CardinalityType DEF SubmissionInv, Travelling
<1>4. CASE UNCHANGED late
  BY <1>1, <1>3, <1>4 DEF Travelling
<1>5. CASE Cardinality(late) < MaxLate /\ late' = late \cup {c}
  <2>1. IsFiniteSet(late') /\ Cardinality(late') <= Cardinality(late) + 1 /\ Cardinality(late') \in Nat
    BY <1>3, <1>5, FS_AddElement, FS_CardinalityType
  <2>2. Cardinality(late') <= MaxLate
    BY <1>3, <1>5, <2>1, BoundsAssumption
  <2> QED BY <1>1, <1>2, <1>5, <2>1, <2>2 DEF Travelling
<1>6. CASE late' = late \ {c}
  <2>1. IsFiniteSet(late') /\ Cardinality(late') <= Cardinality(late) /\ Cardinality(late') \in Nat
    BY <1>3, <1>6, FS_Subset, FS_CardinalityType
  <2>2. Cardinality(late') <= MaxLate
    BY <1>3, <2>1, BoundsAssumption
  <2> QED BY <1>1, <1>6, <2>1, <2>2 DEF Travelling
<1> QED BY <1>4, <1>5, <1>6

\* Where the broker or the store moves on, the bridge does not.
LEMMA OnwardStep ==
  ASSUME SubmissionInv, Onward, UNCHANGED <<bridge, late>>
  PROVE  Rows' /\ Travelling' /\ \A r \in Requests : Known(r)' = Known(r)
<1>1. \A r \in Requests : RowFine(r)'
  BY RequestsOf DEF SubmissionInv, Rows, RowFine, Onward, bridge, Known
<1>2. Ledger!TypeOK'
  BY DEF SubmissionInv, Rows, bridge, Ledger!TypeOK
<1>3. Travelling'
  BY StillMayCall DEF SubmissionInv, Travelling, Typed
<1> QED BY <1>1, <1>2, <1>3 DEF Rows, bridge, Known

LEMMA SendStep ==
  ASSUME SubmissionInv, NEW c, MayCall(c), Posted(c) \/ NotPosted(c),
         UNCHANGED <<broker, used>>
  PROVE  /\ Rows' /\ AtBroker' /\ Travelling' /\ Onward
         /\ \A r \in Requests : Known(r) => Known(r)'
         /\ slow' = slow /\ admission' \in BOOLEAN
<1>1. Onward
  BY DEF Onward
<1>2. Handle(c) \/ UNCHANGED bridge
  BY DEF Posted, NotPosted
<1>3. UNCHANGED late \/ (Cardinality(late) < MaxLate /\ late' = late \cup {c})
  BY DEF Posted, NotPosted, net
<1>4. slow' = slow /\ admission' \in BOOLEAN
  BY DEF Posted, NotPosted, net, SubmissionInv, Typed
<1> QED BY <1>1, <1>2, <1>3, <1>4, CallStep, LateStep

LEMMA AnnouncedKept ==
  ASSUME SubmissionInv, Onward, UNCHANGED queue
  PROVE  Announced'
BY StillHappened DEF SubmissionInv, Announced, Typed

LEMMA AnnouncedAfter ==
  ASSUME SubmissionInv, Onward, NEW deal \in Deals, HasHappened(deal)',
         queue' = Append(queue, deal)
  PROVE  queue' \in Seq(Deals) /\ Announced'
<1>1. \A x : HasHappened(x) => HasHappened(x)'
  BY StillHappened DEF SubmissionInv, Typed
<1>2. /\ Len(queue') = Len(queue) + 1 /\ Len(queue) \in Nat
      /\ queue' \in Seq(Deals)
      /\ \A i \in 1..Len(queue) : queue'[i] = queue[i]
      /\ queue'[Len(queue) + 1] = deal
  BY DEF SubmissionInv, Typed
<1>3. \A i \in 1..Len(queue') : \E x : x = queue'[i] /\ HasHappened(x)'
  <2>1. ASSUME NEW i \in 1..Len(queue') PROVE \E x : x = queue'[i] /\ HasHappened(x)'
    <3>1. i \in 1..Len(queue) \/ i = Len(queue) + 1
      BY <1>2
    <3>2. CASE i \in 1..Len(queue)
      BY <1>1, <1>2, <3>2 DEF SubmissionInv, Announced
    <3>3. CASE i = Len(queue) + 1
      BY <1>2, <3>3
    <3> QED BY <3>1, <3>2, <3>3
  <2> QED BY <2>1
<1> QED BY <1>2, <1>3 DEF Announced, HasHappened

LEMMA ReconcilingKept ==
  ASSUME SubmissionInv, Onward, todo' \subseteq todo,
         pc' = pc \/ pc' \notin {"positions", "orders", "deals", "closed"}
  PROVE  Reconciling'
<1>1. \A deal \in todo : HasHappened(deal) => HasHappened(deal)'
  BY StillHappened DEF SubmissionInv, Typed
<1>2. Reconciling /\ used \subseteq Decisions
  BY DEF SubmissionInv, Typed
<1>3. \A d \in Decisions : broker[d] = "closed" => broker'[d] = "closed"
  BY DEF Onward
<1>4. used \subseteq used'
  BY DEF Onward
<1> QED BY <1>1, <1>2, <1>3, <1>4 DEF Reconciling

LEMMA EnterKeeps ==
  ASSUME SubmissionInv, NEW d \in Decisions, Enter(d)
  PROVE  SubmissionInv'
<1>1. Onward
  BY DEF Enter, Onward
<1>2. Rows' /\ Travelling' /\ \A r \in Requests : Known(r)' = Known(r)
  BY <1>1, OnwardStep DEF Enter, net
<1>3. Typed'
  BY DEF SubmissionInv, Typed, Enter, net, Before
<1>4. AtBroker'
  BY <1>2, RequestsOf DEF SubmissionInv, AtBroker, Ordered, Enter
<1>5. Announced' /\ Reconciling'
  BY <1>1, AnnouncedKept, ReconcilingKept DEF Enter
<1>6. Submitting'
  <2>1. broker[d] = "none" /\ d \in used'
    BY DEF SubmissionInv, AtBroker, Ordered, Enter
  <2> QED BY <2>1 DEF Enter, Submitting, Before, After
<1> QED BY <1>2, <1>3, <1>4, <1>5, <1>6 DEF SubmissionInv

\* A step that submits the order or reports on it, with a call to the bridge.
LEMMA ReportKeeps ==
  ASSUME SubmissionInv, pc \in Before \cup After, NEW c, MayCall(c),
         Posted(c) \/ NotPosted(c), UNCHANGED <<broker, used, queue, todo, allOk>>,
         healthy' \in BOOLEAN, pc' \in {"idle"} \cup Before \cup After,
         leg' \in Decisions \cup {NoRef}, Submitting'
  PROVE  SubmissionInv'
<1>1. Rows' /\ AtBroker' /\ Travelling' /\ Onward /\ slow' = slow /\ admission' \in BOOLEAN
  BY SendStep
<1>2. Announced' /\ Reconciling'
  <2>1. pc' \notin {"positions", "orders", "deals", "closed"}
    BY DEF Before, After
  <2> QED BY <1>1, <2>1, AnnouncedKept, ReconcilingKept
<1>3. Typed'
  BY <1>1 DEF SubmissionInv, Typed
<1> QED BY <1>1, <1>2, <1>3 DEF SubmissionInv

LEMMA IdleSubmitting == pc' = "idle" => Submitting'
BY DEF Submitting, Before, After

LEMMA LegOf ==
  ASSUME SubmissionInv, pc \in Before \cup After
  PROVE  /\ leg \in used /\ leg \in Decisions
         /\ NoIds \in Answers(leg)
         /\ ByDecision(leg) \in Requests
BY RequestsOf DEF SubmissionInv, Submitting, Typed, Answers, NoIds

LEMMA ReserveRiskKeeps ==
  ASSUME SubmissionInv, ReserveRisk
  PROVE  SubmissionInv'
<1>1. pc = "reserve" /\ leg \in used /\ leg \in Decisions
  BY LegOf DEF ReserveRisk, Before
<1>2. MayCall(Reserve(leg))
  BY <1>1 DEF MayCall
<1>3. UNCHANGED <<broker, used, queue, todo, allOk, healthy>>
  BY DEF ReserveRisk, Elsewhere
<1>4. CASE Posted(Reserve(leg)) /\ pc' = "checked" /\ UNCHANGED <<leg, ids>>
  <2>1. Admits(leg)
    BY <1>1, <1>4, ReserveEffect DEF Posted, SubmissionInv
  <2>2. Known(ByDecision(leg))'
    <3>1. ledger' = [ledger EXCEPT ![ByDecision(leg)] =
                       RowOf(Account, "RESERVED", NoRef, NoRef, NoRef)]
      BY <2>1 DEF Admits, SetTo
    <3>2. ledger'[ByDecision(leg)].state = "RESERVED"
      BY <1>1, <3>1, RequestsOf DEF RowOf, SubmissionInv, Rows, Ledger!TypeOK
    <3> QED BY <1>4, <3>2 DEF Known
  <2>3. Submitting'
    BY <1>1, <1>3, <1>4, <2>2 DEF SubmissionInv, Submitting, Before, After
  <2> QED BY <1>1, <1>2, <1>3, <1>4, <2>3, ReportKeeps DEF Before, SubmissionInv, Typed
<1>5. CASE NotPosted(Reserve(leg)) /\ Idle
  BY <1>1, <1>2, <1>3, <1>5, IdleSubmitting, ReportKeeps DEF Before, SubmissionInv, Typed, Idle
<1> QED BY <1>4, <1>5 DEF ReserveRisk

LEMMA WriteCheckedKeeps ==
  ASSUME SubmissionInv, WriteChecked
  PROVE  SubmissionInv'
<1> DEFINE c == Transition(leg, "CHECKED", NoIds)
<1>1. pc = "checked" /\ leg \in used /\ leg \in Decisions
  BY LegOf DEF WriteChecked, Before
<1>2. MayCall(c)
  BY <1>1, LegOf DEF MayCall, MayReport, Before
<1>3. UNCHANGED <<broker, used, queue, todo, allOk>>
  BY DEF WriteChecked, Elsewhere
<1>4. CASE Posted(c) /\ pc' = "sent" /\ UNCHANGED <<leg, ids, healthy>>
  <2>1. Known(ByDecision(leg)) /\ broker[leg] = "none"
    BY <1>1 DEF SubmissionInv, Submitting, Before
  <2>2. Known(ByDecision(leg))'
    BY <1>1, <1>2, <1>3, <1>4, <2>1, SendStep, RequestsOf
  <2>3. Submitting'
    BY <1>1, <1>3, <1>4, <2>1, <2>2 DEF Submitting, Before, After
  <2> QED BY <1>1, <1>2, <1>3, <1>4, <2>3, ReportKeeps DEF Before, SubmissionInv, Typed
<1>5. CASE NotPosted(c) /\ Idle /\ healthy' = FALSE
  BY <1>1, <1>2, <1>3, <1>5, IdleSubmitting, ReportKeeps DEF Before, SubmissionInv, Typed, Idle
<1> QED BY <1>4, <1>5 DEF WriteChecked

\* The order may go out only when SENT has been written.
LEMMA WriteSentKeeps ==
  ASSUME SubmissionInv, WriteSent
  PROVE  SubmissionInv'
<1> DEFINE c == Transition(leg, "SENT", NoIds)
<1>1. pc = "sent" /\ leg \in used /\ leg \in Decisions /\ NoIds \in Answers(leg)
  BY LegOf DEF WriteSent, Before
<1>2. MayCall(c)
  BY <1>1 DEF MayCall, MayReport
<1>3. UNCHANGED <<broker, used, queue, todo, allOk>>
  BY DEF WriteSent, Elsewhere
<1>4. CASE Posted(c) /\ pc' = "submit" /\ UNCHANGED <<leg, ids, healthy>>
  <2>1. broker[leg] = "none"
    BY <1>1 DEF SubmissionInv, Submitting, Before
  <2>2. Advances(leg, "SENT", NoIds)
    BY <1>1, <1>4, TransitionEffect DEF Posted, SubmissionInv
  <2>3. ledger'[ByDecision(leg)].state = "SENT"
    BY <1>1, <2>2, RequestsOf DEF Advances, SetTo, RowOf, SubmissionInv, Rows, Ledger!TypeOK
  <2>4. Submitting'
    BY <1>1, <1>3, <1>4, <2>1, <2>3 DEF Submitting, Before, After, Known
  <2> QED BY <1>1, <1>2, <1>3, <1>4, <2>4, ReportKeeps DEF Before, SubmissionInv, Typed
<1>5. CASE NotPosted(c) /\ Idle /\ healthy' = FALSE
  BY <1>1, <1>2, <1>3, <1>5, IdleSubmitting, ReportKeeps DEF Before, SubmissionInv, Typed, Idle
<1> QED BY <1>4, <1>5 DEF WriteSent

LEMMA SubmitKeeps ==
  ASSUME SubmissionInv, Submit
  PROVE  SubmissionInv'
<1>1. pc = "submit" /\ leg \in used /\ leg \in Decisions
  BY LegOf DEF Submit, Before
<1>2. PICK s \in {"open", "sent", "working", "gone"} : broker' = [broker EXCEPT ![leg] = s]
  BY DEF Submit
<1>3. broker[leg] = "none" /\ Known(ByDecision(leg)) /\ broker \in [Decisions -> BrokerStates]
  BY <1>1 DEF SubmissionInv, Submitting, Before, Typed
<1>4. Onward
  BY <1>1, <1>2, <1>3 DEF Onward, Executed, Submit
<1>5. Rows' /\ Travelling' /\ \A r \in Requests : Known(r)' = Known(r)
  BY <1>4, OnwardStep DEF Submit, net
<1>6. AtBroker'
  BY <1>1, <1>2, <1>3, <1>5, RequestsOf DEF SubmissionInv, AtBroker, Ordered, Submit
<1>7. queue' \in Seq(Deals) /\ Announced'
  <2>1. CASE UNCHANGED queue
    BY <1>4, <2>1, AnnouncedKept DEF SubmissionInv, Typed
  <2>2. CASE queue' = Append(queue, <<"in", leg>>) /\ broker' = [broker EXCEPT ![leg] = "open"]
    <3>1. HasHappened(<<"in", leg>>)' /\ <<"in", leg>> \in Deals
      BY <1>1, <1>3, <2>2 DEF HasHappened, Executed, Deals, Submit
    <3> DEFINE deal == <<"in", leg>>
    <3>2. deal' = deal
      BY DEF Submit
    <3> QED BY <1>4, <2>2, <3>1, <3>2, AnnouncedAfter
  <2> QED BY <1>1, <2>1, <2>2 DEF Submit, Announce
<1>8. Reconciling'
  BY <1>4, ReconcilingKept DEF Submit
<1>9. Submitting'
  <2>1. broker'[leg] # "none" /\ leg \in used'
    BY <1>1, <1>2, <1>3 DEF Submit
  <2>2. pc' = "ack" => /\ ids' \in Answers(leg)
                       /\ ids'.position = leg => broker'[leg] \in Executed
    BY <1>1, <1>3, NullAssumption
      DEF Submit, ExecutedAnswers, Answers, NoIds, Executed
  <2> QED BY <2>1, <2>2 DEF Submit, Submitting, Before, After
<1>10. Typed'
  BY <1>1, <1>2, <1>3, <1>7 DEF SubmissionInv, Typed, Submit, BrokerStates, net, After
<1> QED BY <1>5, <1>6, <1>7, <1>8, <1>9, <1>10 DEF SubmissionInv

LEMMA MarkAcknowledgedKeeps ==
  ASSUME SubmissionInv, MarkAcknowledged
  PROVE  SubmissionInv'
<1> DEFINE c == Transition(leg, "ACKED", ids)
<1>1. pc = "ack" /\ leg \in used /\ leg \in Decisions
  BY LegOf DEF MarkAcknowledged, After
<1>2. /\ broker[leg] # "none" /\ ids \in Answers(leg)
      /\ ids.position = leg => broker[leg] \in Executed
  BY <1>1 DEF SubmissionInv, Submitting, After
<1>3. MayCall(c)
  BY <1>1, <1>2 DEF MayCall, MayReport
<1>4. UNCHANGED <<broker, used, queue, todo, allOk>>
  BY DEF MarkAcknowledged, Elsewhere
<1>5. CASE Posted(c) /\ pc' = "fill" /\ UNCHANGED <<leg, ids, healthy>>
  <2>1. Submitting'
    BY <1>1, <1>2, <1>4, <1>5 DEF Submitting, Before, After
  <2> QED BY <1>1, <1>3, <1>4, <1>5, <2>1, ReportKeeps DEF After, SubmissionInv, Typed
<1>6. CASE NotPosted(c) /\ Idle /\ healthy' = FALSE
  BY <1>1, <1>3, <1>4, <1>6, IdleSubmitting, ReportKeeps DEF After, SubmissionInv, Typed, Idle
<1> QED BY <1>5, <1>6 DEF MarkAcknowledged

\* A step that ends an activity of the EA without a call.
LEMMA QuietKeeps ==
  ASSUME SubmissionInv, UNCHANGED <<bridge, broker, used, late, slow>>,
         queue' = queue \/ queue' = <<>>, todo' \subseteq todo,
         pc' \in {"idle", "down", "recover"}, leg' \in Decisions \cup {NoRef},
         allOk' \in BOOLEAN, healthy' \in BOOLEAN, admission' \in BOOLEAN
  PROVE  SubmissionInv'
<1>1. Onward
  BY DEF Onward
<1>2. Rows' /\ Travelling' /\ \A r \in Requests : Known(r)' = Known(r)
  BY <1>1, OnwardStep
<1>3. AtBroker'
  BY <1>2, RequestsOf DEF SubmissionInv, AtBroker, Ordered
<1>4. Announced' /\ queue' \in Seq(Deals)
  <2>1. CASE queue' = queue
    BY <1>1, <2>1, AnnouncedKept DEF SubmissionInv, Typed
  <2>2. CASE queue' = <<>>
    BY <2>2 DEF Announced
  <2> QED BY <2>1, <2>2
<1>5. Reconciling'
  BY <1>1, ReconcilingKept
<1>6. Submitting'
  BY DEF Submitting, Before, After
<1>7. Typed'
  BY <1>4 DEF SubmissionInv, Typed, Stages
<1> QED BY <1>2, <1>3, <1>4, <1>5, <1>6, <1>7 DEF SubmissionInv

LEMMA MarkFilledKeeps ==
  ASSUME SubmissionInv, MarkFilled
  PROVE  SubmissionInv'
<1> DEFINE c == Transition(leg, "FILLED", ids)
<1>1. pc = "fill" /\ leg \in used /\ leg \in Decisions
  BY LegOf DEF MarkFilled, After
<1>2. /\ broker[leg] # "none" /\ ids \in Answers(leg)
      /\ ids.position = leg => broker[leg] \in Executed
  BY <1>1 DEF SubmissionInv, Submitting, After
<1>3. MayCall(c)
  BY <1>1, <1>2 DEF MayCall, MayReport
<1>4. UNCHANGED <<broker, used, queue, todo, allOk>> /\ Idle
  BY DEF MarkFilled, Elsewhere
<1>5. CASE Posted(c) \/ NotPosted(c)
  BY <1>1, <1>3, <1>4, <1>5, IdleSubmitting, ReportKeeps
    DEF After, SubmissionInv, Typed, Idle, MarkFilled
<1>6. CASE UNCHANGED <<bridge, healthy, admission, net>>
  BY <1>4, <1>6, QuietKeeps DEF Idle, SubmissionInv, Typed, net
<1> QED BY <1>5, <1>6 DEF MarkFilled

LEMMA MarkAmbiguousKeeps ==
  ASSUME SubmissionInv, MarkAmbiguous
  PROVE  SubmissionInv'
<1> DEFINE c == Transition(leg, "RECOVERING", NoIds)
<1>1. /\ pc = "ambiguous" /\ leg \in used /\ leg \in Decisions
      /\ NoIds \in Answers(leg) /\ broker[leg] # "none"
  BY LegOf DEF MarkAmbiguous, After, SubmissionInv, Submitting
<1>2. MayCall(c)
  BY <1>1 DEF MayCall, MayReport
<1>3. UNCHANGED <<broker, used, queue, todo, allOk>> /\ Idle
  BY DEF MarkAmbiguous, Elsewhere
<1> QED BY <1>1, <1>2, <1>3, IdleSubmitting, ReportKeeps
      DEF After, SubmissionInv, Typed, Idle, MarkAmbiguous

LEMMA DealMayBeReported ==
  ASSUME SubmissionInv, NEW deal \in Deals, HasHappened(deal)
  PROVE  MayCall(DealReport(deal))
<1> DEFINE o == (broker[deal[2]] = "open")
<1>1. DealReport(deal) = [Call("deal", deal[2]) EXCEPT !.entry = deal[1], !.open = o]
  BY DEF DealReport
<1>2. deal[2] \in used /\ deal[1] \in {"in", "out"} /\ o \in BOOLEAN
  BY DEF HasHappened
<1>3. MayReportDeal(deal[1], o, deal[2])
  BY <1>2 DEF MayReportDeal, HasHappened, Executed
<1> HIDE DEF o
<1> QED BY <1>1, <1>2, <1>3 DEF MayCall

LEMMA TailOfDeals ==
  ASSUME SubmissionInv, queue # <<>>
  PROVE  /\ Head(queue) \in Deals /\ HasHappened(Head(queue))
         /\ Tail(queue) \in Seq(Deals)
         /\ Len(Tail(queue)) = Len(queue) - 1
         /\ \A i \in 1..Len(Tail(queue)) : i + 1 \in 1..Len(queue) /\ Tail(queue)[i] = queue[i + 1]
<1>1. queue \in Seq(Deals) /\ Len(queue) \in Nat /\ 1 \in 1..Len(queue)
  BY DEF SubmissionInv, Typed
<1>2. Head(queue) = queue[1]
  BY <1>1
<1> QED BY <1>1, <1>2 DEF SubmissionInv, Announced

LEMMA OnTradeTransactionKeeps ==
  ASSUME SubmissionInv, OnTradeTransaction
  PROVE  SubmissionInv'
<1> DEFINE c == DealReport(Head(queue))
<1>1. /\ pc = "idle" /\ queue # <<>> /\ queue' = Tail(queue)
      /\ UNCHANGED <<broker, used, pc, leg, ids, todo, allOk>>
  BY DEF OnTradeTransaction
<1>2. MayCall(c)
  BY <1>1, TailOfDeals, DealMayBeReported
<1>3. Onward
  BY <1>1 DEF Onward
<1>4. Rows' /\ AtBroker' /\ Travelling' /\ slow' = slow /\ admission' \in BOOLEAN
  <2>1. CASE Posted(c) \/ NotPosted(c)
    BY <1>1, <1>2, <2>1, SendStep
  <2>2. CASE UNCHANGED <<bridge, net, admission>>
    BY <1>1, <1>2, <1>3, <2>2, CallStep, OnwardStep DEF net, SubmissionInv, Typed
  <2> QED BY <2>1, <2>2 DEF OnTradeTransaction, PassOver
<1>5. queue' \in Seq(Deals) /\ Announced'
  <2>1. \A x : HasHappened(x) => HasHappened(x)'
    BY <1>3, StillHappened DEF SubmissionInv, Typed
  <2>2. \A i \in 1..Len(queue') : \E x : x = queue'[i] /\ HasHappened(x)'
    BY <1>1, <2>1, TailOfDeals DEF SubmissionInv, Announced
  <2> QED BY <1>1, <2>2, TailOfDeals DEF Announced, HasHappened
<1>6. Submitting'
  BY <1>1 DEF Submitting, Before, After
<1>7. Reconciling'
  BY <1>1, <1>3, ReconcilingKept
<1>8. Typed'
  BY <1>1, <1>4, <1>5 DEF SubmissionInv, Typed, OnTradeTransaction, PassOver
<1> QED BY <1>4, <1>5, <1>6, <1>7, <1>8 DEF SubmissionInv

LEMMA BeginKeeps ==
  ASSUME SubmissionInv, OnInit \/ OnTimer
  PROVE  SubmissionInv'
<1>1. /\ UNCHANGED <<bridge, broker, used, late, slow, queue, leg>>
      /\ todo' = {} /\ pc' = "recover" /\ allOk' = TRUE
      /\ healthy' \in BOOLEAN /\ admission' \in BOOLEAN
  BY DEF OnInit, OnTimer, Begin, net, SubmissionInv, Typed
<1> QED BY <1>1, QuietKeeps DEF SubmissionInv, Typed

LEMMA CrashKeeps ==
  ASSUME SubmissionInv, Crash
  PROVE  SubmissionInv'
BY QuietKeeps DEF Crash, net

LEMMA FinishKeeps ==
  ASSUME SubmissionInv, Finish
  PROVE  SubmissionInv'
BY QuietKeeps DEF Finish, Idle, net, SubmissionInv, Typed

\* What a stage starts with is so when it starts.
LEMMA TurnStarts ==
  ASSUME SubmissionInv, NEW stage \in Stages \ {"closed"}, Turn(stage),
         UNCHANGED <<broker, used>>
  PROVE  pc' \in Stages /\ pc' # "recover" /\ Reconciling'
<1>1. \A d \in Decisions : broker[d] # "none" => d \in used
  BY DEF SubmissionInv, AtBroker, Ordered
<1>2. CASE stage = "recover"
  <2>1. pc' = "positions" /\ todo' = BrokerIs({"open"})
    BY <1>2 DEF Turn, NextStage
  <2> QED BY <2>1 DEF Reconciling, BrokerIs, Stages
<1>3. CASE stage = "positions"
  <2>1. pc' = "orders" /\ todo' = BrokerIs({"working"})
    BY <1>3 DEF Turn, NextStage
  <2> QED BY <2>1 DEF Reconciling, BrokerIs, Stages
<1>4. CASE stage = "orders"
  <2>1. pc' = "deals" /\ todo' = DealHistory
    BY <1>4 DEF Turn, NextStage
  <2>2. \A deal \in DealHistory : deal \in Deals /\ HasHappened(deal)
    BY <1>1 DEF DealHistory, BrokerIs, Deals, HasHappened, Executed
  <2>3. \A deal \in todo' : deal \in Deals /\ HasHappened(deal)'
    BY <2>1, <2>2 DEF HasHappened
  <2> QED BY <2>1, <2>3 DEF Reconciling, Stages, HasHappened
<1>5. CASE stage = "deals"
  <2>1. pc' = "closed" /\ todo' = BrokerIs({"closed"})
    BY <1>5 DEF Turn, NextStage
  <2> QED BY <1>1, <2>1 DEF Reconciling, BrokerIs, Stages
<1> QED BY <1>2, <1>3, <1>4, <1>5 DEF Stages

LEMMA StagesApart == \A s \in Stages : s \notin Before \cup After
BY DEF Stages, Before, After

LEMMA StageSubmitting == pc' \in Stages => Submitting'
BY DEF Submitting, Stages, Before, After

LEMMA RecoverKeeps ==
  ASSUME SubmissionInv, Recover
  PROVE  SubmissionInv'
<1> DEFINE c == Call("recover", NoRef)
<1>1. /\ MayCall(c) /\ UNCHANGED <<broker, queue, used, leg, ids, healthy>>
      /\ Posted(c) \/ NotPosted(c)
  BY DEF Recover, MayCall
<1>2. /\ Rows' /\ AtBroker' /\ Travelling' /\ Onward
      /\ slow' = slow /\ admission' \in BOOLEAN
  BY <1>1, SendStep
<1>3. pc' \in Stages /\ Reconciling'
  BY <1>1, TurnStarts DEF Recover, Stages
<1>4. Submitting'
  BY <1>3, StageSubmitting
<1>5. Announced'
  BY <1>1, <1>2, AnnouncedKept
<1>6. Typed'
  BY <1>1, <1>2, <1>3 DEF SubmissionInv, Typed, Recover
<1> QED BY <1>2, <1>3, <1>4, <1>5, <1>6 DEF SubmissionInv

LEMMA EndStageKeeps ==
  ASSUME SubmissionInv, EndStage
  PROVE  SubmissionInv'
<1>1. UNCHANGED <<bridge, broker, queue, used, leg, ids, allOk, healthy, admission, late, slow>>
  BY DEF EndStage, net
<1>2. Onward
  BY <1>1 DEF Onward
<1>3. Rows' /\ Travelling' /\ \A r \in Requests : Known(r)' = Known(r)
  BY <1>1, <1>2, OnwardStep
<1>4. AtBroker'
  BY <1>1, <1>3, RequestsOf DEF SubmissionInv, AtBroker, Ordered
<1>5. pc' \in Stages /\ Reconciling'
  BY <1>1, TurnStarts DEF EndStage, Stages
<1>6. Submitting'
  BY <1>5, StageSubmitting
<1>7. Announced'
  BY <1>1, <1>2, AnnouncedKept
<1>8. Typed'
  BY <1>1, <1>5 DEF SubmissionInv, Typed
<1> QED BY <1>3, <1>4, <1>5, <1>6, <1>7, <1>8 DEF SubmissionInv

\* An item is reported if it is still shown, or passed over.
Tries(x, shown, c) == (shown /\ Item(x, c)) \/ Skip(x)

LEMMA ItemKeeps ==
  ASSUME SubmissionInv, pc \in Stages, NEW x, NEW shown, NEW c, shown => MayCall(c),
         Tries(x, shown, c)
  PROVE  SubmissionInv'
<1>1. UNCHANGED <<broker, queue, used, pc, leg, ids, healthy>> /\ todo' \subseteq todo
  BY DEF Tries, Item, Skip
<1>2. Onward
  BY <1>1 DEF Onward
<1>3. Rows' /\ AtBroker' /\ Travelling' /\ slow' = slow /\ admission' \in BOOLEAN
  <2>1. CASE shown /\ (Posted(c) \/ NotPosted(c))
    BY <1>1, <2>1, SendStep
  <2>2. CASE UNCHANGED <<bridge, net, admission>>
    <3>1. Rows' /\ Travelling' /\ \A r \in Requests : Known(r)' = Known(r)
      BY <1>2, <2>2, OnwardStep DEF net
    <3>2. AtBroker'
      BY <1>1, <3>1, RequestsOf DEF SubmissionInv, AtBroker, Ordered
    <3> QED BY <2>2, <3>1, <3>2 DEF net, SubmissionInv, Typed
  <2> QED BY <2>1, <2>2 DEF Tries, Item, Skip
<1>4. Reconciling'
  BY <1>1, <1>2, ReconcilingKept
<1>5. Submitting'
  <2>1. pc' \in Stages
    BY <1>1
  <2> QED BY <2>1, StageSubmitting
<1>6. Announced'
  BY <1>1, <1>2, AnnouncedKept
<1>7. Typed'
  BY <1>1, <1>3 DEF SubmissionInv, Typed, Tries, Item, Skip
<1> QED BY <1>3, <1>4, <1>5, <1>6, <1>7 DEF SubmissionInv

LEMMA ReconciliationKeeps ==
  ASSUME SubmissionInv, Reconciliation
  PROVE  SubmissionInv'
<1>1. \A d \in Decisions : broker[d] # "none" => d \in used
  BY DEF SubmissionInv, AtBroker, Ordered
<1>2. CASE ImportPosition
  <2>1. PICK d \in todo : Tries(d, broker[d] = "open", Call("position", d))
    BY <1>2 DEF ImportPosition, Tries
  <2>2. pc = "positions" /\ d \in Decisions
    BY <1>2 DEF ImportPosition, SubmissionInv, Reconciling
  <2>3. broker[d] = "open" => MayCall(Call("position", d))
    BY <1>1, <2>2 DEF MayCall, Executed
  <2> QED BY <2>1, <2>2, <2>3, ItemKeeps DEF Stages
<1>3. CASE ImportOrder
  <2>1. PICK d \in todo : Tries(d, broker[d] = "working", Call("order", d))
    BY <1>3 DEF ImportOrder, Tries
  <2>2. pc = "orders" /\ d \in Decisions
    BY <1>3 DEF ImportOrder, SubmissionInv, Reconciling
  <2>3. broker[d] = "working" => MayCall(Call("order", d))
    BY <1>1, <2>2 DEF MayCall
  <2> QED BY <2>1, <2>2, <2>3, ItemKeeps DEF Stages
<1>4. CASE ReplayDeal
  <2>1. PICK deal \in todo : Tries(deal, TRUE, DealReport(deal))
    BY <1>4 DEF ReplayDeal, Tries
  <2>2. pc = "deals" /\ deal \in Deals /\ HasHappened(deal)
    BY <1>4 DEF ReplayDeal, SubmissionInv, Reconciling
  <2> QED BY <2>1, <2>2, DealMayBeReported, ItemKeeps DEF Stages
<1>5. CASE ReplayClosure
  <2>1. PICK d \in todo : Tries(d, TRUE, Call("closed", d))
    BY <1>5 DEF ReplayClosure, Tries
  <2>2. pc = "closed" /\ d \in used /\ broker[d] = "closed"
    BY <1>5 DEF ReplayClosure, SubmissionInv, Reconciling
  <2>3. MayCall(Call("closed", d))
    BY <2>2 DEF MayCall
  <2> QED BY <2>1, <2>2, <2>3, ItemKeeps DEF Stages
<1> QED BY <1>2, <1>3, <1>4, <1>5, BeginKeeps, RecoverKeeps, EndStageKeeps, FinishKeeps
      DEF Reconciliation

\* What the broker does by itself.
LEMMA BrokerKeeps ==
  ASSUME SubmissionInv, NEW d \in Decisions,
         OpenAtBroker(d) \/ RestAtBroker(d) \/ DropAtBroker(d) \/ CloseAtBroker(d)
  PROVE  SubmissionInv'
<1>1. PICK s \in {"open", "working", "gone", "closed"} :
        /\ broker' = [broker EXCEPT ![d] = s]
        /\ broker[d] \in {"sent", "working", "open"}
        /\ broker[d] = "open" <=> s = "closed"
  BY DEF OpenAtBroker, RestAtBroker, DropAtBroker, CloseAtBroker
<1>2. UNCHANGED <<bridge, ledger, used, pc, leg, ids, todo, allOk, healthy, admission, late, slow>>
  BY DEF OpenAtBroker, RestAtBroker, DropAtBroker, CloseAtBroker, ea, net, bridge
<1>3. broker \in [Decisions -> BrokerStates]
  BY DEF SubmissionInv, Typed
<1>4. Onward
  BY <1>1, <1>2, <1>3 DEF Onward, Executed
<1>5. Rows' /\ Travelling' /\ \A r \in Requests : Known(r)' = Known(r)
  BY <1>2, <1>4, OnwardStep
<1>6. AtBroker'
  BY <1>1, <1>2, <1>3, <1>5, RequestsOf DEF SubmissionInv, AtBroker, Ordered
<1>7. queue' \in Seq(Deals) /\ Announced'
  <2>1. CASE UNCHANGED queue
    BY <1>4, <2>1, AnnouncedKept DEF SubmissionInv, Typed
  <2>2. ASSUME NEW e \in {"in", "out"}, queue' = Append(queue, <<e, d>>),
               broker' = [broker EXCEPT ![d] = IF e = "in" THEN "open" ELSE "closed"]
        PROVE  queue' \in Seq(Deals) /\ Announced'
    <3>1. d \in used
      BY <1>1 DEF SubmissionInv, AtBroker, Ordered
    <3>2. HasHappened(<<e, d>>)' /\ <<e, d>> \in Deals
      BY <1>2, <1>3, <2>2, <3>1 DEF HasHappened, Executed, Deals
    <3> QED BY <1>4, <2>2, <3>2, AnnouncedAfter
  <2>3. CASE OpenAtBroker(d)
    BY <2>1, <2>2, <2>3 DEF OpenAtBroker, Announce
  <2>4. CASE CloseAtBroker(d)
    BY <2>1, <2>2, <2>4 DEF CloseAtBroker, Announce
  <2> QED BY <2>1, <2>3, <2>4 DEF RestAtBroker, DropAtBroker
<1>8. Reconciling'
  BY <1>2, <1>4, ReconcilingKept
<1>9. Submitting'
  <2>1. pc \in Before \cup After => leg \in Decisions
    BY LegOf
  <2>2. pc \in Before => leg # d
    BY <1>1 DEF SubmissionInv, Submitting
  <2>3. broker[leg] \in Executed /\ leg \in Decisions => broker'[leg] \in Executed
    BY <1>4 DEF Onward
  <2>4. broker[leg] # "none" /\ leg \in Decisions => broker'[leg] # "none"
    BY <1>4 DEF Onward
  <2>5. pc \in Before => broker'[leg] = "none"
    BY <1>1, <1>3, <2>1, <2>2 DEF SubmissionInv, Submitting
  <2> QED BY <1>2, <2>1, <2>3, <2>4, <2>5
        DEF SubmissionInv, Submitting, Known, ByDecision, After
<1>10. Typed'
  BY <1>1, <1>2, <1>3, <1>7 DEF SubmissionInv, Typed, BrokerStates
<1> QED BY <1>5, <1>6, <1>7, <1>8, <1>9, <1>10 DEF SubmissionInv

LEMMA LapseKeeps ==
  ASSUME SubmissionInv, NEW r \in Requests, Lapse(r)
  PROVE  SubmissionInv'
<1>1. /\ UNCHANGED <<ledger, reservation, deals, mods, broker, queue, ea, net>>
      /\ expired' = expired \cup {r}
  BY DEF Lapse, Ledger!LapseLease
<1>2. Rows'
  BY <1>1 DEF SubmissionInv, Rows, Ledger!TypeOK, RowFine, Known, ea
<1>3. Onward /\ UNCHANGED late
  BY <1>1 DEF Onward, ea, net
<1>4. Travelling'
  BY <1>3, StillMayCall DEF SubmissionInv, Travelling, Typed
<1>5. Announced' /\ Reconciling'
  BY <1>1, <1>3, AnnouncedKept, ReconcilingKept DEF ea
<1>6. Typed' /\ AtBroker' /\ Submitting'
  BY <1>1 DEF SubmissionInv, Typed, AtBroker, Ordered, Submitting, Known, ea, net
<1> QED BY <1>2, <1>4, <1>5, <1>6 DEF SubmissionInv

\* A call the EA gave up arrives, at any later moment.
LEMMA ArriveKeeps ==
  ASSUME SubmissionInv, NEW c \in late, Arrive(c)
  PROVE  SubmissionInv'
<1>1. MayCall(c)
  BY DEF SubmissionInv, Travelling
<1>2. /\ UNCHANGED <<broker, queue, used, pc, leg, ids, todo, allOk, healthy, admission, slow>>
      /\ Handle(c) \/ UNCHANGED bridge
      /\ late' = late \ {c}
  BY DEF Arrive, ea
<1>3. Rows' /\ AtBroker' /\ \A r \in Requests : Known(r) => Known(r)'
  BY <1>1, <1>2, CallStep
<1>4. Onward
  BY <1>2 DEF Onward
<1>5. Travelling'
  BY <1>1, <1>2, <1>4, LateStep
<1>6. Announced' /\ Reconciling'
  BY <1>2, <1>4, AnnouncedKept, ReconcilingKept
<1>7. Submitting'
  <2>1. pc \in Before \cup After => leg \in Decisions /\ ByDecision(leg) \in Requests
    BY LegOf
  <2>2. pc \in Before \ {"reserve"} => Known(ByDecision(leg))'
    BY <1>2, <1>3, <2>1 DEF SubmissionInv, Submitting
  <2>3. pc = "submit" => ledger'[ByDecision(leg)].state \in {"SENT", "RECOVERING"}
    <3> SUFFICES ASSUME pc = "submit"
                 PROVE  ledger'[ByDecision(leg)].state \in {"SENT", "RECOVERING"}
      OBVIOUS
    <3>1. /\ ledger[ByDecision(leg)].state \in {"SENT", "RECOVERING"}
          /\ broker[leg] = "none" /\ leg \in Decisions
      BY <2>1 DEF SubmissionInv, Submitting, Before
    <3>2. CASE Handle(c)
      <4>1. Effect
        BY <1>1, <3>2, CallHasEffect DEF SubmissionInv, Typed
      <4> QED BY <3>1, <4>1, EffectKeepsIntent DEF SubmissionInv, Typed
    <3> QED BY <1>2, <3>1, <3>2 DEF bridge
  <2> QED BY <1>2, <2>2, <2>3 DEF SubmissionInv, Submitting
<1>8. Typed'
  BY <1>2 DEF SubmissionInv, Typed
<1> QED BY <1>3, <1>5, <1>6, <1>7, <1>8 DEF SubmissionInv

-----------------------------------------------------------------------------
(***************************************************************************)
(* The invariant, and what follows from it.                                *)
(***************************************************************************)

LEMMA InitInv == Init => SubmissionInv
<1> SUFFICES ASSUME Init PROVE SubmissionInv
  OBVIOUS
<1>1. Ledger!TypeOK
  BY DEF Init, Ledger!Init, Ledger!TypeOK, Ledger!NoRow, Ledger!NoReservation, Ledger!Row,
         Ledger!Reservation, Ledger!States, Ledger!Terminal, Ledger!OrNull
<1>2. \A r \in Requests : ledger[r] = Ledger!NoRow /\ reservation[r].status = "NONE"
  BY DEF Init, Ledger!Init, Ledger!NoReservation
<1>3. Rows
  BY <1>1, <1>2, NullAssumption, RequestsOf DEF Rows, RowFine, Known, Ledger!NoRow
<1>4. Typed
  <2>1. allOk \in BOOLEAN /\ healthy \in BOOLEAN /\ admission \in BOOLEAN /\ slow \in BOOLEAN
    BY Zenon DEF Init
  <2>2. /\ broker = [d \in Decisions |-> "none"] /\ queue = <<>> /\ used \in SUBSET Decisions
        /\ pc = "down" /\ leg = NoRef
    BY Zenon DEF Init
  <2> QED BY <2>1, <2>2 DEF Typed, BrokerStates
<1>5. Travelling
  BY FS_EmptySet, BoundsAssumption DEF Init, Travelling
<1> QED BY <1>3, <1>4, <1>5
      DEF Init, SubmissionInv, AtBroker, Announced, Submitting, Reconciling, Before, After

LEMMA StepInv == SubmissionInv /\ [Next]_vars => SubmissionInv'
<1> SUFFICES ASSUME SubmissionInv, [Next]_vars PROVE SubmissionInv'
  OBVIOUS
<1>1. CASE Submission
  BY <1>1, ReserveRiskKeeps, WriteCheckedKeeps, WriteSentKeeps, SubmitKeeps,
     MarkAcknowledgedKeeps, MarkFilledKeeps, MarkAmbiguousKeeps DEF Submission
<1>2. ASSUME NEW d \in Decisions, AutomatedEntry(d) \/ ManualEntry(d) PROVE SubmissionInv'
  BY <1>2, EnterKeeps DEF AutomatedEntry, ManualEntry
<1>3. CASE EA
  BY <1>1, <1>2, <1>3, OnTradeTransactionKeeps, ReconciliationKeeps DEF EA
<1>4. CASE Broker
  BY <1>4, BrokerKeeps DEF Broker
<1>5. CASE UNCHANGED vars
  <2>1. UNCHANGED <<bridge, ledger, broker, queue, used, pc, leg, ids, todo, allOk, healthy,
                    admission, late, slow>>
    BY <1>5 DEF vars, ea, net, bridge
  <2>2. Onward
    BY <2>1 DEF Onward
  <2>3. Rows' /\ Travelling' /\ Announced' /\ Reconciling'
    BY <2>1, <2>2, OnwardStep, AnnouncedKept, ReconcilingKept
  <2>4. Typed' /\ AtBroker' /\ Submitting'
    BY <2>1 DEF SubmissionInv, Typed, AtBroker, Ordered, Submitting, Known
  <2> QED BY <2>3, <2>4 DEF SubmissionInv
<1> QED BY <1>3, <1>4, <1>5, LapseKeeps, ArriveKeeps, CrashKeeps DEF Next

\* The invariant the theorems of this module rest on.
THEOREM Invariance == Spec => []SubmissionInv
BY InitInv, StepInv, PTL DEF Spec

\* Only deals are passed over: of the queue, or of a position that is replayed.
LEMMA StepMissed ==
  ASSUME SubmissionInv, missed \subseteq Deals, [Next]_vars
  PROVE  missed' \subseteq Deals
<1>1. CASE Submission
  BY <1>1 DEF Submission, ReserveRisk, WriteChecked, WriteSent, Submit, MarkAcknowledged,
     MarkFilled, MarkAmbiguous, Elsewhere
<1>2. CASE ReplayClosure
  <2>1. \A d \in todo : <<"out", d>> \in Deals
    BY <1>2 DEF ReplayClosure, SubmissionInv, Reconciling, Deals
  <2> QED BY <1>2, <2>1 DEF ReplayClosure, Item
<1>3. CASE Reconciliation /\ ~ReplayClosure
  BY <1>3 DEF Reconciliation, OnInit, OnTimer, Begin, Recover, ImportPosition, ImportOrder,
     ReplayDeal, Item, EndStage, Finish
<1>4. CASE OnTradeTransaction
  BY <1>4, TailOfDeals DEF OnTradeTransaction, PassOver
<1>5. ASSUME NEW d \in Decisions, AutomatedEntry(d) \/ ManualEntry(d) PROVE UNCHANGED missed
  BY <1>5 DEF AutomatedEntry, ManualEntry, Enter
<1>6. CASE Broker \/ UNCHANGED vars \/ \E r \in Requests : Lapse(r)
  BY <1>6 DEF Broker, OpenAtBroker, RestAtBroker, DropAtBroker, CloseAtBroker, Lapse, vars, ea
<1>7. ASSUME NEW c \in late, Arrive(c) PROVE UNCHANGED missed
  BY <1>7 DEF Arrive, ea
<1>8. CASE Crash
  BY <1>8 DEF Crash
<1> QED BY <1>1, <1>2, <1>3, <1>4, <1>5, <1>6, <1>7, <1>8 DEF Next, EA

\* The ledger's tables, the broker's states, what the EA is doing and what is
\* under way stay of their types, and at most MaxLate calls are under way.
THEOREM TypeCorrect == Spec => []TypeOK
<1>1. SubmissionInv /\ missed \subseteq Deals => TypeOK
  BY DEF SubmissionInv, Rows, Typed, Travelling, Reconciling, TypeOK, Before, After
<1>2. Init => missed \subseteq Deals
  BY DEF Init
<1>3. SubmissionInv /\ missed \subseteq Deals /\ [Next]_vars => (missed \subseteq Deals)'
  BY StepMissed
<1> QED BY <1>1, <1>2, <1>3, Invariance, PTL DEF Spec

\* PrepareLedgerForSubmit: an order goes to the broker only when its request is
\* SENT in the ledger, or was swept to RECOVERING meanwhile, and its risk is
\* held.
THEOREM IntentPrecedesOrder == Spec => []IntentIsDurable
<1>1. SubmissionInv => IntentIsDurable
  <2> SUFFICES ASSUME SubmissionInv, pc = "submit" PROVE IntentIsDurable
    BY DEF IntentIsDurable
  <2>1. /\ leg \in Decisions /\ broker[leg] = "none" /\ Known(ByDecision(leg))
        /\ ledger[ByDecision(leg)].state \in {"SENT", "RECOVERING"}
        /\ ByDecision(leg) \in Requests /\ ByDecision(leg)[2] = leg
    BY LegOf, RequestsOf DEF SubmissionInv, Submitting, Before
  <2>2. RowFine(ByDecision(leg))
    BY <2>1, RowTypes DEF SubmissionInv
  <2> QED BY <2>1, <2>2 DEF RowFine, IntentIsDurable, Held
<1> QED BY <1>1, Invariance, PTL

\* Whatever the network loses, delays or lets arrive after the EA gave it up,
\* and wherever the terminal crashes, the risk of what is or may yet be at the
\* broker is held in the book.
THEOREM ExposureStaysHeld == Spec => []ExposureIsHeld
<1>1. SubmissionInv => ExposureIsHeld
  <2> SUFFICES ASSUME SubmissionInv, NEW d \in Exposed PROVE Held(ByDecision(d))
    BY DEF ExposureIsHeld
  <2>1. d \in Decisions /\ broker[d] \in {"sent", "working", "open"}
    BY DEF Exposed, BrokerIs
  <2>2. /\ Known(ByDecision(d)) /\ ByDecision(d) \in Requests /\ ByDecision(d)[2] = d
        /\ RowFine(ByDecision(d))
    BY <2>1, RequestsOf, RowTypes DEF SubmissionInv, AtBroker, Ordered
  <2> QED BY <2>1, <2>2 DEF RowFine, Held
<1> QED BY <1>1, Invariance, PTL

-----------------------------------------------------------------------------
(***************************************************************************)
(* The ledger bounds what is at the broker.  What a step does to the       *)
(* ledger is the effect of a call, and only an admission adds to what      *)
(* counts against the ceiling.                                             *)
(***************************************************************************)

LEMMA CallEffect ==
  ASSUME SubmissionInv, NEW c, MayCall(c), Posted(c) \/ NotPosted(c)
  PROVE  Effect
<1>1. Handle(c) \/ UNCHANGED bridge
  BY DEF Posted, NotPosted
<1>2. CASE Handle(c)
  BY <1>2, CallHasEffect DEF SubmissionInv, Typed
<1>3. CASE UNCHANGED bridge
  BY <1>3 DEF bridge, Effect
<1> QED BY <1>1, <1>2, <1>3

LEMMA QuietEffect == UNCHANGED bridge => Effect
BY DEF bridge, Effect

LEMMA ReportMayBeMade ==
  ASSUME SubmissionInv, pc \in Before \cup After
  PROVE  /\ MayCall(Reserve(leg))
         /\ \A s \in {"CHECKED", "SENT"} : MayCall(Transition(leg, s, NoIds))
         /\ pc \in {"ack", "fill"} =>
              \A s \in {"ACKED", "FILLED"} : MayCall(Transition(leg, s, ids))
         /\ pc = "ambiguous" => MayCall(Transition(leg, "RECOVERING", NoIds))
<1>1. leg \in used /\ NoIds \in Answers(leg)
  BY LegOf
<1>2. pc \in After => broker[leg] # "none"
  BY DEF SubmissionInv, Submitting
<1>3. pc \in {"ack", "fill"} =>
        ids \in Answers(leg) /\ (ids.position = leg => broker[leg] \in Executed)
  BY DEF SubmissionInv, Submitting
<1> QED BY <1>1, <1>2, <1>3 DEF MayCall, MayReport, After

LEMMA ItemMayBeSent ==
  ASSUME SubmissionInv
  PROVE  /\ \A d \in Decisions : broker[d] = "open" => MayCall(Call("position", d))
         /\ \A d \in Decisions : broker[d] = "working" => MayCall(Call("order", d))
         /\ pc = "deals" => \A deal \in todo : MayCall(DealReport(deal))
         /\ pc = "closed" => \A d \in todo : MayCall(Call("closed", d))
<1>1. \A d \in Decisions : broker[d] # "none" => d \in used
  BY DEF SubmissionInv, AtBroker, Ordered
<1>2. pc = "deals" => \A deal \in todo : MayCall(DealReport(deal))
  BY DealMayBeReported DEF SubmissionInv, Reconciling
<1>3. pc = "closed" => \A d \in todo : MayCall(Call("closed", d))
  BY DEF MayCall, SubmissionInv, Reconciling
<1>4. \A d \in Decisions : broker[d] = "open" => MayCall(Call("position", d))
  BY <1>1 DEF MayCall, Executed
<1>5. \A d \in Decisions : broker[d] = "working" => MayCall(Call("order", d))
  BY <1>1 DEF MayCall
<1> QED BY <1>2, <1>3, <1>4, <1>5

LEMMA StepEffect ==
  ASSUME SubmissionInv, [Next]_vars
  PROVE  Effect
<1>1. CASE Submission
  <2>1. pc \in Before \cup After
    BY <1>1 DEF Submission, ReserveRisk, WriteChecked, WriteSent, Submit, MarkAcknowledged,
                MarkFilled, MarkAmbiguous, Before, After
  <2>2. \/ UNCHANGED bridge
        \/ \E c : MayCall(c) /\ (Posted(c) \/ NotPosted(c))
    BY <1>1, <2>1, ReportMayBeMade DEF Submission, ReserveRisk, WriteChecked, WriteSent, Submit,
       MarkAcknowledged, MarkFilled, MarkAmbiguous
  <2> QED BY <2>2, CallEffect, QuietEffect
<1>2. CASE Reconciliation
  <2>1. CASE ImportPosition \/ ImportOrder \/ ReplayDeal \/ ReplayClosure
    <3>1. pc \in {"positions", "orders"} => todo \subseteq Decisions
      BY DEF SubmissionInv, Reconciling
    <3>2. \/ UNCHANGED bridge
          \/ \E c : MayCall(c) /\ (Posted(c) \/ NotPosted(c))
      BY <2>1, <3>1, ItemMayBeSent DEF ImportPosition, ImportOrder, ReplayDeal, ReplayClosure, Item, Skip
    <3> QED BY <3>2, CallEffect, QuietEffect
  <2>2. CASE Recover
    <3>1. MayCall(Call("recover", NoRef))
      BY DEF MayCall
    <3> QED BY <2>2, <3>1, CallEffect DEF Recover
  <2>3. CASE OnInit \/ OnTimer \/ EndStage \/ Finish
    BY <2>3, QuietEffect DEF OnInit, OnTimer, EndStage, Finish
  <2> QED BY <1>2, <2>1, <2>2, <2>3 DEF Reconciliation
<1>3. CASE OnTradeTransaction
  <2>1. MayCall(DealReport(Head(queue)))
    BY <1>3, TailOfDeals, DealMayBeReported DEF OnTradeTransaction
  <2> QED BY <1>3, <2>1, CallEffect, QuietEffect DEF OnTradeTransaction, PassOver
<1>4. ASSUME NEW d \in Decisions, AutomatedEntry(d) \/ ManualEntry(d) PROVE UNCHANGED bridge
  BY <1>4 DEF AutomatedEntry, ManualEntry, Enter
<1>5. CASE Broker
  BY <1>5, QuietEffect DEF Broker, OpenAtBroker, RestAtBroker, DropAtBroker, CloseAtBroker
<1>6. ASSUME NEW c \in late, Arrive(c) PROVE Effect
  BY <1>6, CallHasEffect, QuietEffect DEF Arrive, SubmissionInv, Travelling, Typed
<1>7. ASSUME NEW r \in Requests, Lapse(r) PROVE Effect
  BY <1>7 DEF Lapse, Ledger!LapseLease, Effect
<1>8. CASE Crash \/ UNCHANGED vars
  BY <1>8, QuietEffect DEF Crash, vars
<1> QED BY <1>1, <1>2, <1>3, <1>4, <1>5, <1>6, <1>7, <1>8, QuietEffect DEF Next, EA

LP == INSTANCE ExecutionLedgerProofs WITH
  Portfolios <- {Account}, Orders <- Decisions, Positions <- Decisions,
  Events <- {}, Risks <- {1}, Stops <- {},
  Sessions <- {}, Reports <- {}, call <- <<>>, lock <- <<>>

\* The book is the one ExecutionLedgerProofs speaks of.
LEMMA SameHeat ==
  Ledger!Active(Account) = LP!Active(Account) /\ Ledger!Heat(Account) = LP!Heat(Account)
BY DEF Ledger!Active, LP!Active, Ledger!Heat, LP!Heat, Ledger!HeatOf, LP!HeatOf,
       Ledger!SumFunctionOnSet, LP!SumFunctionOnSet, Ledger!FoldFunctionOnSet,
       LP!FoldFunctionOnSet, Ledger!MapThenFoldSet, LP!MapThenFoldSet

\* What is at the broker is no more than what the book holds.
LEMMA ExposedIsCovered ==
  ASSUME SubmissionInv, IsFiniteSet(Ledger!Active(Account))
  PROVE  /\ IsFiniteSet(Exposed)
         /\ Cardinality(Exposed) \in Nat /\ Ledger!Heat(Account) \in Int
         /\ Cardinality(Exposed) <= Ledger!Heat(Account)
<1> DEFINE A == Ledger!Active(Account)
           f == [d \in Exposed |-> ByDecision(d)]
<1>1. \A d \in Exposed : ByDecision(d) \in A
  <2> SUFFICES ASSUME NEW d \in Exposed PROVE ByDecision(d) \in A
    OBVIOUS
  <2>1. d \in Decisions /\ broker[d] \in {"sent", "working", "open"}
    BY DEF Exposed, BrokerIs
  <2>2. /\ Known(ByDecision(d)) /\ ByDecision(d) \in Requests /\ ByDecision(d)[2] = d
        /\ RowFine(ByDecision(d))
    BY <2>1, RequestsOf, RowTypes DEF SubmissionInv, AtBroker, Ordered
  <2> QED BY <2>1, <2>2 DEF RowFine, Ledger!Active
<1>2. f \in Injection(Exposed, A)
  BY <1>1 DEF Injection, IsInjective, ByDecision
<1>3. IsFiniteSet(Exposed) /\ Cardinality(Exposed) <= Cardinality(A)
  <2> HIDE DEF f, A
  <2>1. IsFiniteSet(A)
    BY DEF A
  <2> QED BY <1>2, <2>1, FS_Injection
<1>4. \A r \in A : reservation[r].risk \in Nat \ {0}
  <2> SUFFICES ASSUME NEW r \in A PROVE reservation[r].risk \in Nat \ {0}
    OBVIOUS
  <2>1. r \in Requests /\ reservation[r].status = "ACTIVE" /\ RowFine(r)
    BY RowTypes DEF Ledger!Active, SubmissionInv
  <2> QED BY <2>1 DEF RowFine
<1>5. Cardinality(A) <= Ledger!Heat(Account) /\ Ledger!Heat(Account) \in Int
  <2>1. LP!IsFiniteSet(LP!Active(Account))
    BY SameHeat DEF LP!IsFiniteSet, IsFiniteSet
  <2>2. \A r \in LP!Active(Account) : reservation[r].risk \in Nat \ {0}
    BY <1>4, SameHeat
  <2>3. {1} \subseteq Nat \ {0} /\ {} \subseteq Nat \ {0}
    OBVIOUS
  <2>4. LP!Cardinality(LP!Active(Account)) <= LP!Heat(Account) /\ LP!Heat(Account) \in Int
    BY <2>1, <2>2, <2>3, LP!HeatCovers, NullAssumption, BoundsAssumption
  <2>5. LP!Cardinality(LP!Active(Account)) = Cardinality(A)
    BY SameHeat DEF LP!Cardinality, Cardinality
  <2> QED BY <2>4, <2>5, SameHeat
<1>6. Cardinality(Exposed) \in Nat /\ Cardinality(A) \in Nat
  BY <1>3, FS_CardinalityType
<1> HIDE DEF A
<1> QED BY <1>3, <1>5, <1>6

LEMMA ActiveStaysFinite ==
  ASSUME SubmissionInv, Effect, IsFiniteSet(Ledger!Active(Account))
  PROVE  IsFiniteSet(Ledger!Active(Account)')
<1> DEFINE A == Ledger!Active(Account)
<1>1. PICK r : \A t \in Requests : t # r => reservation'[t] = reservation[t]
  BY EffectTouchesOne DEF SubmissionInv
<1>2. A' \subseteq A \cup {r}
  BY <1>1 DEF Ledger!Active
<1>3. IsFiniteSet(A \cup {r})
  BY FS_AddElement
<1> HIDE DEF A
<1>4. IsFiniteSet(A')
  BY <1>2, <1>3, FS_Subset
<1> QED BY <1>4 DEF A

\* Only an admission adds to what counts: every other step of the EA goes on
\* with the decision it has, and the broker settles what it knows of.
LEMMA OnlyAdmissionCounts ==
  ASSUME SubmissionInv, [Next]_vars
  PROVE  \/ Counted' \subseteq Counted
         \/ Admits(leg) /\ Counted' \subseteq Exposed \cup {leg}
<1> DEFINE Kept == UNCHANGED <<pc, leg>> \/ pc' \notin {"checked", "sent", "submit"}
<1>1. broker \in [Decisions -> BrokerStates]
  BY DEF SubmissionInv, Typed
<1>2. ASSUME UNCHANGED broker, Kept PROVE Counted' \subseteq Counted
  BY <1>2 DEF Counted, Exposed, BrokerIs
<1>3. CASE ReserveRisk
  <2>1. pc = "reserve" /\ leg \in Decisions /\ UNCHANGED broker
    BY <1>3, LegOf DEF ReserveRisk, Before, Elsewhere
  <2>2. CASE Posted(Reserve(leg)) /\ pc' = "checked" /\ UNCHANGED <<leg, ids>>
    <3>1. Admits(leg)
      BY <2>1, <2>2, ReserveEffect DEF Posted, SubmissionInv
    <3> QED BY <2>1, <2>2, <3>1 DEF Counted, Exposed, BrokerIs
  <2>3. CASE Idle
    BY <1>2, <2>1, <2>3 DEF Idle
  <2> QED BY <1>3, <2>2, <2>3 DEF ReserveRisk
<1>4. CASE WriteChecked \/ WriteSent
  BY <1>4 DEF WriteChecked, WriteSent, Elsewhere, Idle, Counted, Exposed, BrokerIs
<1>5. CASE Submit
  <2>1. pc = "submit" /\ leg \in Decisions /\ pc' \in {"ack", "ambiguous"}
    BY <1>5, LegOf DEF Submit, Before
  <2>2. \E s : broker' = [broker EXCEPT ![leg] = s]
    BY <1>5 DEF Submit
  <2> QED BY <1>1, <2>1, <2>2 DEF Counted, Exposed, BrokerIs
<1>6. CASE MarkAcknowledged \/ MarkFilled \/ MarkAmbiguous
  BY <1>2, <1>6 DEF MarkAcknowledged, MarkFilled, MarkAmbiguous, Elsewhere, Idle
<1>7. ASSUME NEW d \in Decisions, AutomatedEntry(d) \/ ManualEntry(d)
      PROVE  Counted' \subseteq Counted
  BY <1>2, <1>7 DEF AutomatedEntry, ManualEntry, Enter
<1>8. CASE OnTradeTransaction
  BY <1>2, <1>8 DEF OnTradeTransaction
<1>9. CASE Reconciliation
  <2>1. UNCHANGED broker /\ Kept
    BY <1>9 DEF Reconciliation, OnInit, OnTimer, Begin, Recover, Turn, NextStage, ImportPosition,
       ImportOrder, ReplayDeal, ReplayClosure, Item, Skip, EndStage, Finish, Idle
  <2> QED BY <1>2, <2>1
<1>10. CASE Broker
  <2>1. UNCHANGED <<pc, leg>>
    BY <1>10 DEF Broker, OpenAtBroker, RestAtBroker, DropAtBroker, CloseAtBroker, ea
  <2>2. Exposed' \subseteq Exposed
    BY <1>1, <1>10 DEF Broker, OpenAtBroker, RestAtBroker, DropAtBroker, CloseAtBroker,
       Exposed, BrokerIs
  <2> QED BY <2>1, <2>2 DEF Counted
<1>11. ASSUME NEW c \in late, Arrive(c) PROVE Counted' \subseteq Counted
  BY <1>2, <1>11 DEF Arrive, ea
<1>12. ASSUME NEW r \in Requests, Lapse(r) PROVE Counted' \subseteq Counted
  BY <1>2, <1>12 DEF Lapse, ea
<1>13. CASE Crash \/ UNCHANGED vars
  BY <1>2, <1>13 DEF Crash, vars, ea
<1> QED BY <1>3, <1>4, <1>5, <1>6, <1>7, <1>8, <1>9, <1>10, <1>11, <1>12, <1>13
      DEF Next, EA, Submission

LEMMA StepBound == SubmissionInv /\ BoundInv /\ [Next]_vars => BoundInv'
<1> SUFFICES ASSUME SubmissionInv, BoundInv, [Next]_vars PROVE BoundInv'
  OBVIOUS
<1>1. IsFiniteSet(Ledger!Active(Account)')
  BY StepEffect, ActiveStaysFinite DEF BoundInv
<1>2. CASE Counted' \subseteq Counted
  <2>1. IsFiniteSet(Counted) /\ Cardinality(Counted) <= MaxHeat
    BY DEF BoundInv
  <2>2. /\ IsFiniteSet(Counted') /\ Cardinality(Counted') <= Cardinality(Counted)
        /\ Cardinality(Counted') \in Nat /\ Cardinality(Counted) \in Nat
    BY <1>2, <2>1, FS_Subset, FS_CardinalityType
  <2> QED BY <1>1, <2>1, <2>2, BoundsAssumption DEF BoundInv
<1>3. CASE Admits(leg) /\ Counted' \subseteq Exposed \cup {leg}
  <2> DEFINE E == Exposed \cup {leg}
  <2>1. /\ IsFiniteSet(Exposed)
        /\ Cardinality(Exposed) \in Nat /\ Ledger!Heat(Account) \in Int
        /\ Cardinality(Exposed) <= Ledger!Heat(Account)
    BY ExposedIsCovered DEF BoundInv
  <2>2. IsFiniteSet(E) /\ Cardinality(E) <= Cardinality(Exposed) + 1 /\ Cardinality(E) \in Nat
    BY <2>1, FS_AddElement, FS_CardinalityType
  <2> HIDE DEF E
  <2>3. /\ IsFiniteSet(Counted') /\ Cardinality(Counted') <= Cardinality(E)
        /\ Cardinality(Counted') \in Nat
    BY <1>3, <2>2, FS_Subset, FS_CardinalityType DEF E
  <2>4. Ledger!Heat(Account) + 1 <= MaxHeat
    BY <1>3 DEF Admits
  <2> QED BY <1>1, <2>1, <2>2, <2>3, <2>4, BoundsAssumption DEF BoundInv
<1> QED BY <1>2, <1>3, OnlyAdmissionCounts

\* So the ceiling of the book is a ceiling of what is, or may yet be, at the
\* broker, through every loss, delay and crash.
THEOREM ExposureStaysBounded == Spec => []ExposureIsBounded
<1>1. Init => BoundInv
  <2> SUFFICES ASSUME Init PROVE BoundInv
    OBVIOUS
  <2>1. Ledger!Active(Account) = {}
    BY DEF Init, Ledger!Init, Ledger!Active, Ledger!NoReservation
  <2>2. Counted = {}
    BY DEF Init, Counted, Exposed, BrokerIs
  <2> QED BY <2>1, <2>2, FS_EmptySet, BoundsAssumption DEF BoundInv
<1>2. BoundInv => ExposureIsBounded
  <2> SUFFICES ASSUME BoundInv PROVE ExposureIsBounded
    OBVIOUS
  <2>1. Exposed \subseteq Counted
    BY DEF Counted
  <2>2. IsFiniteSet(Counted) /\ Cardinality(Counted) <= MaxHeat
    BY DEF BoundInv
  <2>3. /\ Cardinality(Exposed) <= Cardinality(Counted)
        /\ Cardinality(Exposed) \in Nat /\ Cardinality(Counted) \in Nat
    BY <2>1, <2>2, FS_Subset, FS_CardinalityType
  <2> QED BY <2>2, <2>3, BoundsAssumption DEF ExposureIsBounded
<1> QED BY <1>1, <1>2, InitInv, StepInv, StepBound, PTL DEF Spec

-----------------------------------------------------------------------------
(***************************************************************************)
(* Where no call arrives late, nothing overtakes: what a step does to the  *)
(* ledger fits what the broker shows at that moment.                       *)
(***************************************************************************)

OrderlyEffect ==
  \/ UNCHANGED <<ledger, reservation>>
  \/ Sweeps
  \/ pc = "reserve" /\ Admits(leg)
  \/ /\ pc \in Before \cup After
     /\ \E s \in {"CHECKED", "SENT", "RECOVERING", "ACKED", "FILLED"}, i \in Answers(leg) :
          MayReport(leg, s, i) /\ Advances(leg, s, i)
  \/ \E d \in used : broker[d] = "open" /\ Adopts(d)
  \/ \E d \in used : broker[d] = "working" /\ Shows(d)
  \/ \E d \in used : broker[d] = "closed" /\ Closes(d)

LEMMA ReportOrderly ==
  ASSUME SubmissionInv, Submission
  PROVE  OrderlyEffect
<1>1. pc \in Before \cup After
  BY DEF Submission, ReserveRisk, WriteChecked, WriteSent, Submit, MarkAcknowledged,
     MarkFilled, MarkAmbiguous, Before, After
<1>2. leg \in used /\ leg \in Decisions /\ NoIds \in Answers(leg) /\ Rows
  BY <1>1, LegOf DEF SubmissionInv
<1>3. CASE UNCHANGED bridge
  BY <1>3 DEF bridge, OrderlyEffect
<1>4. CASE pc = "reserve" /\ Handle(Reserve(leg))
  BY <1>2, <1>4, ReserveEffect DEF OrderlyEffect
<1>5. ASSUME NEW s \in {"CHECKED", "SENT", "RECOVERING", "ACKED", "FILLED"},
             NEW i \in Answers(leg), MayReport(leg, s, i), Handle(Transition(leg, s, i))
      PROVE  OrderlyEffect
  BY <1>1, <1>2, <1>5, TransitionEffect DEF OrderlyEffect
<1>6. pc \in After => broker[leg] # "none"
  BY DEF SubmissionInv, Submitting
<1>7. pc \in {"ack", "fill"} =>
        ids \in Answers(leg) /\ (ids.position = leg => broker[leg] \in Executed)
  BY DEF SubmissionInv, Submitting
<1>8. /\ MayReport(leg, "CHECKED", NoIds) /\ MayReport(leg, "SENT", NoIds)
      /\ pc \in {"ack", "fill"} => MayReport(leg, "ACKED", ids) /\ MayReport(leg, "FILLED", ids)
      /\ pc = "ambiguous" => MayReport(leg, "RECOVERING", NoIds)
  BY <1>6, <1>7 DEF MayReport, After
<1>9. \/ UNCHANGED bridge
      \/ pc = "reserve" /\ Handle(Reserve(leg))
      \/ \E s \in {"CHECKED", "SENT", "RECOVERING", "ACKED", "FILLED"}, i \in Answers(leg) :
           MayReport(leg, s, i) /\ Handle(Transition(leg, s, i))
  BY <1>2, <1>7, <1>8 DEF Submission, ReserveRisk, WriteChecked, WriteSent, Submit,
     MarkAcknowledged, MarkFilled, MarkAmbiguous, Posted, NotPosted
<1> QED BY <1>3, <1>4, <1>5, <1>9

LEMMA DealOrderly ==
  ASSUME SubmissionInv, NEW deal \in Deals, HasHappened(deal), Handle(DealReport(deal))
  PROVE  OrderlyEffect
<1> DEFINE d == deal[2]
           o == (broker[d] = "open")
<1>1. DealReport(deal) = [Call("deal", d) EXCEPT !.entry = deal[1], !.open = o]
  BY DEF DealReport
<1>2. d \in used /\ d \in Decisions /\ deal[1] \in {"in", "out"} /\ o \in BOOLEAN /\ Rows
  BY DEF HasHappened, Deals, SubmissionInv
<1>3. ~o => broker[d] = "closed"
  BY DEF HasHappened, Executed
<1>4. \/ o /\ Adopts(d)
      \/ ~o /\ Closes(d)
      \/ UNCHANGED <<ledger, reservation>>
  <2> HIDE DEF o, d
  <2> QED BY <1>1, <1>2, DealEffect
<1> QED BY <1>2, <1>3, <1>4 DEF OrderlyEffect

LEMMA ItemOrderly ==
  ASSUME SubmissionInv, ImportPosition \/ ImportOrder \/ ReplayDeal \/ ReplayClosure
  PROVE  OrderlyEffect
<1>1. \A d \in Decisions : broker[d] # "none" => d \in used
  BY DEF SubmissionInv, AtBroker, Ordered
<1>2. Rows
  BY DEF SubmissionInv
<1>3. CASE UNCHANGED bridge
  BY <1>3 DEF bridge, OrderlyEffect
<1>4. ASSUME NEW d \in Decisions, broker[d] = "open", Handle(Call("position", d))
      PROVE  OrderlyEffect
  BY <1>1, <1>2, <1>4, PositionEffect DEF OrderlyEffect
<1>5. ASSUME NEW d \in Decisions, broker[d] = "working", Handle(Call("order", d))
      PROVE  OrderlyEffect
  BY <1>1, <1>2, <1>5, OrderEffect DEF OrderlyEffect
<1>6. ASSUME NEW d \in used, broker[d] = "closed", Handle(Call("closed", d))
      PROVE  OrderlyEffect
  BY <1>2, <1>6, ClosedEffect DEF OrderlyEffect, SubmissionInv, Typed
<1>7. CASE ImportPosition
  <2>1. PICK d \in todo : Tries(d, broker[d] = "open", Call("position", d))
    BY <1>7 DEF ImportPosition, Tries
  <2>2. d \in Decisions
    BY <1>7 DEF ImportPosition, SubmissionInv, Reconciling
  <2> QED BY <1>3, <1>4, <2>1, <2>2 DEF Tries, Item, Skip, Posted, NotPosted
<1>8. CASE ImportOrder
  <2>1. PICK d \in todo : Tries(d, broker[d] = "working", Call("order", d))
    BY <1>8 DEF ImportOrder, Tries
  <2>2. d \in Decisions
    BY <1>8 DEF ImportOrder, SubmissionInv, Reconciling
  <2> QED BY <1>3, <1>5, <2>1, <2>2 DEF Tries, Item, Skip, Posted, NotPosted
<1>9. CASE ReplayDeal
  <2>1. PICK deal \in todo : Tries(deal, TRUE, DealReport(deal))
    BY <1>9 DEF ReplayDeal, Tries
  <2>2. deal \in Deals /\ HasHappened(deal)
    BY <1>9 DEF ReplayDeal, SubmissionInv, Reconciling
  <2> QED BY <1>3, <2>1, <2>2, DealOrderly DEF Tries, Item, Skip, Posted, NotPosted
<1>10. CASE ReplayClosure
  <2>1. PICK d \in todo : Tries(d, TRUE, Call("closed", d))
    BY <1>10 DEF ReplayClosure, Tries
  <2>2. d \in used /\ broker[d] = "closed"
    BY <1>10 DEF ReplayClosure, SubmissionInv, Reconciling
  <2> QED BY <1>3, <1>6, <2>1, <2>2 DEF Tries, Item, Skip, Posted, NotPosted
<1> QED BY <1>7, <1>8, <1>9, <1>10

\* Either the ledger stands still or the broker does.
LEMMA StepOrderly ==
  ASSUME SubmissionInv, [Next]_vars, late = {}
  PROVE  \/ UNCHANGED <<ledger, reservation>>
         \/ OrderlyEffect /\ UNCHANGED broker
<1>1. CASE Submission
  <2>1. UNCHANGED bridge \/ UNCHANGED broker
    BY <1>1 DEF Submission, ReserveRisk, WriteChecked, WriteSent, Submit,
       MarkAcknowledged, MarkFilled, MarkAmbiguous, Elsewhere
  <2> QED BY <1>1, <2>1, ReportOrderly DEF bridge
<1>2. CASE OnTradeTransaction
  <2>1. HasHappened(Head(queue)) /\ Head(queue) \in Deals
    BY <1>2, TailOfDeals DEF OnTradeTransaction
  <2>2. /\ UNCHANGED broker
        /\ UNCHANGED bridge \/ Handle(DealReport(Head(queue)))
    BY <1>2 DEF OnTradeTransaction, PassOver, Posted, NotPosted
  <2> QED BY <2>1, <2>2, DealOrderly DEF bridge
<1>3. CASE ImportPosition \/ ImportOrder \/ ReplayDeal \/ ReplayClosure
  BY <1>3, ItemOrderly DEF ImportPosition, ImportOrder, ReplayDeal, ReplayClosure, Item, Skip
<1>4. CASE Recover
  <2>1. UNCHANGED broker /\ (UNCHANGED bridge \/ Handle(Call("recover", NoRef)))
    BY <1>4 DEF Recover, Posted, NotPosted
  <2>2. Rows
    BY DEF SubmissionInv
  <2> QED BY <2>1, <2>2, RecoverEffect DEF bridge, OrderlyEffect
<1>5. CASE OnInit \/ OnTimer \/ EndStage \/ Finish \/ Crash \/ UNCHANGED vars
  BY <1>5 DEF OnInit, OnTimer, EndStage, Finish, Crash, vars, bridge
<1>6. ASSUME NEW d \in Decisions, AutomatedEntry(d) \/ ManualEntry(d)
      PROVE  UNCHANGED <<ledger, reservation>>
  BY <1>6 DEF AutomatedEntry, ManualEntry, Enter, bridge
<1>7. CASE Broker
  BY <1>7 DEF Broker, OpenAtBroker, RestAtBroker, DropAtBroker, CloseAtBroker, bridge
<1>8. ASSUME NEW r \in Requests, Lapse(r) PROVE UNCHANGED <<ledger, reservation>>
  BY <1>8 DEF Lapse, Ledger!LapseLease
<1> QED BY <1>1, <1>2, <1>3, <1>4, <1>5, <1>6, <1>7, <1>8 DEF Next, EA, Reconciliation

\* A step keeps the number of rows that bear a position at one.
LEMMA OrderlyKeepsOneRow ==
  ASSUME Rows, used \subseteq Decisions, OneRowEach, OrderlyEffect,
         pc \in Before \cup After => leg \in used /\ ~Known(ByPosition(leg))
  PROVE  OneRowEach'
<1>1. ledger \in [Requests -> Ledger!Row]
  BY DEF Rows, Ledger!TypeOK
<1>2. \A r \in Requests : ledger[r].position \in {NoRef, r[2]}
  BY DEF Rows, RowFine
<1>3. ASSUME NEW t \in Requests, NEW row,
             SetTo(t, row), row.position \in {NoRef, ledger[t].position} \/ Bears(t, row.position)
      PROVE  OneRowEach'
  <2>1. \A u \in Requests : u # t => ledger'[u] = ledger[u]
    BY <1>1, <1>3 DEF SetTo
  <2>2. ledger'[t] = row
    BY <1>1, <1>3 DEF SetTo
  <2>3. \A u \in Requests : u # t /\ row.position # NoRef => ledger[u].position # row.position
    BY <1>3 DEF OneRowEach, Bears
  <2> QED BY <2>1, <2>2, <2>3 DEF OneRowEach
<1>4. CASE UNCHANGED <<ledger, reservation>>
  BY <1>4 DEF OneRowEach
<1>5. CASE Sweeps
  <2>1. \A r \in Requests : ledger'[r].position = ledger[r].position
    BY <1>1, <1>5 DEF Sweeps, Swept, Ledger!Row
  <2> QED BY <2>1 DEF OneRowEach
<1>6. ASSUME NEW d \in Decisions, Admits(d) PROVE OneRowEach'
  BY <1>3, <1>6, RequestsOf DEF Admits, RowOf
<1>7. ASSUME NEW d \in used, ~Known(ByPosition(d)), NEW i \in Answers(d), NEW s, Advances(d, s, i)
      PROVE  OneRowEach'
  <2>1. d \in Decisions /\ ByDecision(d) \in Requests
    BY RequestsOf
  <2>2. PICK o \in {ledger[ByDecision(d)].order, i.order},
             l \in {ledger[ByDecision(d)].deal, i.deal},
             n \in {ledger[ByDecision(d)].position, i.position} :
          SetTo(ByDecision(d), RowOf(ledger[ByDecision(d)].portfolio, s, o, l, n))
    BY <1>7 DEF Advances
  <2>3. \A u \in Requests : u # ByDecision(d) => ledger[u].position # d
    <3>1. ledger[ByPosition(d)].position = NoRef
      BY <1>7, <2>1, RequestsOf, RowTypes DEF RowFine, Ledger!NoRow
    <3>2. \A u \in Requests : ledger[u].position = d => u \in Named(d)
      BY <1>2, <2>1, RequestsOf, NullAssumption
    <3> QED BY <2>1, <3>1, <3>2, NullAssumption DEF Named
  <2>4. n \in {NoRef, ledger[ByDecision(d)].position, d}
    BY <1>7 DEF Answers
  <2> DEFINE row == RowOf(ledger[ByDecision(d)].portfolio, s, o, l, n)
  <2>5. row.position = n
    BY DEF RowOf
  <2> HIDE DEF row
  <2>6. SetTo(ByDecision(d), row)
    BY <2>2 DEF row
  <2>7. row.position \in {NoRef, ledger[ByDecision(d)].position} \/ Bears(ByDecision(d), row.position)
    BY <2>3, <2>4, <2>5 DEF Bears
  <2> QED BY <1>3, <2>1, <2>6, <2>7
<1>8. ASSUME NEW d \in used, Adopts(d) PROVE OneRowEach'
  BY <1>3, <1>8, RequestsOf DEF Adopts, RowOf, Named
<1>9. ASSUME NEW d \in used, Shows(d) PROVE OneRowEach'
  BY <1>3, <1>9, RequestsOf DEF Shows, RowOf, Named
<1>10. ASSUME NEW d \in used, Closes(d) PROVE OneRowEach'
  BY <1>3, <1>10, RequestsOf DEF Closes, RowOf, Named
<1>11. pc = "reserve" => leg \in Decisions
  BY DEF Before
<1> QED BY <1>4, <1>5, <1>6, <1>7, <1>8, <1>9, <1>10, <1>11 DEF OrderlyEffect

LEMMA QueueGrows ==
  ASSUME queue \in Seq(Deals), NEW deal \in Deals, NEW e \in Deals,
         queue' = Append(queue, deal)
  PROVE  Queued(deal)' /\ (Queued(e) => Queued(e)')
BY DEF Queued

LEMMA QueueShrinks ==
  ASSUME SubmissionInv, queue # <<>>, queue' = Tail(queue), NEW e \in Deals, Queued(e)
  PROVE  e = Head(queue) \/ Queued(e)'
<1>1. queue \in Seq(Deals)
  BY DEF SubmissionInv, Typed
<1>2. PICK i \in 1..Len(queue) : queue[i] = e
  BY DEF Queued
<1>3. CASE i = 1
  BY <1>1, <1>2, <1>3
<1>4. CASE i # 1
  <2>1. i - 1 \in 1..Len(queue') /\ queue'[i - 1] = e
    BY <1>1, <1>2, <1>4
  <2> QED BY <2>1 DEF Queued
<1> QED BY <1>3, <1>4

\* The steps by which the EA submits and reports an order.
LEMMA OrderlySubmission ==
  ASSUME SubmissionInv, Submission, late = {}, ~slow,
         ~Known(ByPosition(leg)), broker[leg] = "closed" /\ pc \in After => Out(leg)
  PROVE  /\ late' = {} /\ pc' # "down"
         /\ pc' \in Before \cup After =>
              /\ leg' = leg /\ ~Known(ByPosition(leg))'
              /\ pc' \in After /\ broker'[leg] = "closed" => Out(leg)'
<1>1. pc \in Before \cup After
  BY DEF Submission, ReserveRisk, WriteChecked, WriteSent, Submit, MarkAcknowledged,
     MarkFilled, MarkAmbiguous, Before, After
<1>2. leg \in Decisions /\ ByDecision(leg) # ByPosition(leg) /\ ByPosition(leg) \in Requests
  BY <1>1, LegOf, RequestsOf
<1>3. late' = {} /\ pc' # "down" /\ (leg' = leg \/ pc' = "idle")
  BY DEF Submission, ReserveRisk, WriteChecked, WriteSent, Submit, MarkAcknowledged,
     MarkFilled, MarkAmbiguous, Posted, NotPosted, net, Idle
<1>4. ledger'[ByPosition(leg)] = ledger[ByPosition(leg)]
  <2>1. CASE UNCHANGED bridge
    BY <2>1 DEF bridge
  <2>2. CASE ~UNCHANGED bridge
    <3>1. \/ Handle(Reserve(leg))
          \/ \E s \in {"CHECKED", "SENT", "RECOVERING", "ACKED", "FILLED"}, i \in Answers(leg) :
               Handle(Transition(leg, s, i))
      <4>1. NoIds \in Answers(leg) /\ (pc \in {"ack", "fill"} => ids \in Answers(leg))
        BY <1>1, LegOf DEF SubmissionInv, Submitting
      <4> QED BY <2>2, <4>1 DEF Submission, ReserveRisk, WriteChecked, WriteSent, Submit,
            MarkAcknowledged, MarkFilled, MarkAmbiguous, Posted, NotPosted
    <3>2. \/ Admits(leg)
          \/ \E s \in {"CHECKED", "SENT", "RECOVERING", "ACKED", "FILLED"}, i \in Answers(leg) :
               Advances(leg, s, i)
      BY <1>2, <3>1, ReserveEffect, TransitionEffect DEF SubmissionInv
    <3>3. \E row : SetTo(ByDecision(leg), row)
      BY <3>2 DEF Admits, Advances
    <3> QED BY <1>2, <3>3 DEF SetTo, SubmissionInv, Rows, Ledger!TypeOK
  <2> QED BY <2>1, <2>2
<1>5. CASE Submit
  <2>1. \E s : s # "closed" /\ broker' = [broker EXCEPT ![leg] = s]
    BY <1>5 DEF Submit
  <2>2. broker'[leg] # "closed"
    BY <1>2, <2>1 DEF SubmissionInv, Typed
  <2> QED BY <1>3, <1>4, <1>5, <2>2 DEF Known, Submit, ByPosition, After
<1>6. CASE ~Submit
  <2>1. UNCHANGED <<queue, broker>> /\ (pc' \in After => pc \in After)
    BY <1>6 DEF Submission, ReserveRisk, WriteChecked, WriteSent, MarkAcknowledged,
       MarkFilled, MarkAmbiguous, Elsewhere, Idle, After
  <2>2. pc' \in After /\ broker'[leg] = "closed" => Out(leg)'
    <3>1. pc' \in After => leg' = leg
      BY <1>3 DEF After
    <3> QED BY <2>1, <3>1 DEF Out, Queued
  <2>3. pc' = "idle" => pc' \notin Before \cup After
    BY DEF Before, After
  <2> QED BY <1>3, <1>4, <2>2, <2>3 DEF Known, ByPosition
<1> QED BY <1>5, <1>6

LEMMA SlowStays ==
  ASSUME [Next]_vars
  PROVE  slow' = slow /\ (~slow /\ late = {} => late' = {})
<1>1. CASE Submission
  BY <1>1 DEF Submission, ReserveRisk, WriteChecked, WriteSent, Submit, MarkAcknowledged,
     MarkFilled, MarkAmbiguous, Posted, NotPosted, net
<1>2. CASE Reconciliation
  BY <1>2 DEF Reconciliation, OnInit, OnTimer, Recover, ImportPosition, ImportOrder,
     ReplayDeal, ReplayClosure, Item, Skip, EndStage, Finish, Posted, NotPosted, net
<1>3. CASE OnTradeTransaction
  BY <1>3 DEF OnTradeTransaction, PassOver, Posted, NotPosted, net
<1>4. ASSUME NEW d \in Decisions, AutomatedEntry(d) \/ ManualEntry(d)
      PROVE  UNCHANGED <<late, slow>>
  BY <1>4 DEF AutomatedEntry, ManualEntry, Enter, net
<1>5. CASE Broker
  BY <1>5 DEF Broker, OpenAtBroker, RestAtBroker, DropAtBroker, CloseAtBroker, net
<1>6. ASSUME NEW r \in Requests, Lapse(r) PROVE UNCHANGED <<late, slow>>
  BY <1>6 DEF Lapse, net
<1>7. ASSUME NEW c \in late, Arrive(c) PROVE slow' = slow
  BY <1>7 DEF Arrive
<1>8. CASE Crash \/ UNCHANGED vars
  BY <1>8 DEF Crash, vars, net
<1> QED BY <1>1, <1>2, <1>3, <1>4, <1>5, <1>6, <1>7, <1>8 DEF Next, EA

LEMMA StepOrderlyInv == SubmissionInv /\ OrderlyInv /\ [Next]_vars => OrderlyInv'
<1> SUFFICES ASSUME SubmissionInv, OrderlyInv, [Next]_vars, ~slow PROVE OrderlyInv'
  BY SlowStays DEF OrderlyInv
<1>1. /\ late = {} /\ OneRowEach /\ (pc = "down" => ~healthy)
      /\ pc \in Before \cup After => ~Known(ByPosition(leg))
      /\ pc \in After /\ broker[leg] = "closed" => Out(leg)
  BY DEF OrderlyInv
<1>2. late' = {}
  BY <1>1, SlowStays
<1>3. OneRowEach'
  <2>1. pc \in Before \cup After => leg \in used /\ ~Known(ByPosition(leg))
    BY <1>1, LegOf
  <2>2. CASE UNCHANGED <<ledger, reservation>>
    BY <1>1, <2>2 DEF OneRowEach
  <2>3. CASE OrderlyEffect
    BY <1>1, <2>1, <2>3, OrderlyKeepsOneRow DEF SubmissionInv, Typed
  <2> QED BY <1>1, <2>2, <2>3, StepOrderly
<1> DEFINE Reporting == pc \in Before \cup After =>
             /\ ~Known(ByPosition(leg))
             /\ pc \in After /\ broker[leg] = "closed" => Out(leg)
           Rest == (pc = "down" => ~healthy)' /\ Reporting'
<1> SUFFICES Rest
  BY <1>2, <1>3 DEF OrderlyInv, After
<1>4. CASE Submission
  <2>1. pc \in Before \cup After
    BY <1>4 DEF Submission, ReserveRisk, WriteChecked, WriteSent, Submit, MarkAcknowledged,
       MarkFilled, MarkAmbiguous, Before, After
  <2>2. /\ pc' # "down"
        /\ pc' \in Before \cup After =>
             /\ leg' = leg /\ ~Known(ByPosition(leg))'
             /\ pc' \in After /\ broker'[leg] = "closed" => Out(leg)'
    BY <1>1, <1>4, <2>1, OrderlySubmission
  <2> QED BY <2>2
<1>5. ASSUME NEW d \in Decisions, AutomatedEntry(d) \/ ManualEntry(d) PROVE Rest
  <2>1. d \notin used /\ pc' = "reserve" /\ leg' = d /\ UNCHANGED ledger
    BY <1>5 DEF AutomatedEntry, ManualEntry, Enter, bridge
  <2>2. ~Known(ByPosition(d))
    BY <2>1, RequestsOf, RowTypes DEF SubmissionInv, RowFine
  <2> QED BY <2>1, <2>2 DEF Known, Before, After
<1>6. ASSUME pc' \notin Before \cup After, pc' = "down" => ~healthy' PROVE Rest
  BY <1>6
<1>7. CASE OnTradeTransaction \/ Crash \/ Reconciliation
  <2>1. pc' \notin Before \cup After /\ (pc' = "down" => ~healthy')
    BY <1>7 DEF OnTradeTransaction, Crash, Reconciliation, OnInit, OnTimer, Begin, Recover, Turn,
       NextStage, ImportPosition, ImportOrder, ReplayDeal, ReplayClosure, Item, Skip, EndStage, Finish,
       Idle, Before, After
  <2> QED BY <1>6, <2>1
<1>8. CASE Broker
  <2>1. PICK d \in Decisions : OpenAtBroker(d) \/ RestAtBroker(d) \/ DropAtBroker(d) \/ CloseAtBroker(d)
    BY <1>8 DEF Broker
  <2>2. UNCHANGED <<ledger, pc, leg, healthy>>
    BY <2>1 DEF OpenAtBroker, RestAtBroker, DropAtBroker, CloseAtBroker, ea, bridge
  <2>3. ASSUME pc \in After, broker'[leg] = "closed" PROVE Out(leg)'
    <3>1. leg \in Decisions /\ broker \in [Decisions -> BrokerStates] /\ queue \in Seq(Deals)
      BY <2>3, LegOf DEF SubmissionInv, Typed
    <3>2. PICK e \in Decisions : e = leg
      BY <3>1
    <3>3. <<"out", e>> \in Deals /\ <<"in", d>> \in Deals /\ <<"out", d>> \in Deals
      BY DEF Deals
    <3>4. pc # "down"
      BY <2>3 DEF After
    <3>5. CASE broker[e] = "closed"
      <4>1. Queued(<<"out", e>>)
        BY <1>1, <2>3, <3>2, <3>5 DEF Out
      <4>2. Queued(<<"out", e>>)'
        BY <2>1, <3>1, <3>3, <3>4, <4>1, QueueGrows DEF OpenAtBroker, RestAtBroker, DropAtBroker,
           CloseAtBroker, Announce, Queued
      <4> QED BY <2>2, <3>2, <4>2 DEF Out, Queued
    <3>6. CASE broker[e] # "closed"
      <4>1. e = d /\ CloseAtBroker(d)
        BY <2>1, <2>3, <3>1, <3>2, <3>6 DEF OpenAtBroker, RestAtBroker, DropAtBroker, CloseAtBroker
      <4>2. Queued(<<"out", e>>)'
        BY <3>1, <3>3, <3>4, <4>1, QueueGrows DEF CloseAtBroker, Announce
      <4> QED BY <2>2, <3>2, <4>2 DEF Out, Queued
    <3> QED BY <3>5, <3>6
  <2> QED BY <1>1, <2>2, <2>3 DEF Known, ByPosition
<1>9. CASE UNCHANGED vars
  BY <1>1, <1>9 DEF vars, ea, bridge, Known, ByPosition, Out, Queued
<1>10. ASSUME NEW r \in Requests, Lapse(r) PROVE Rest
  BY <1>1, <1>10 DEF Lapse, Ledger!LapseLease, ea, Known, ByPosition, Out, Queued
<1> QED BY <1>1, <1>4, <1>5, <1>7, <1>8, <1>9, <1>10 DEF Next, EA

-----------------------------------------------------------------------------
(***************************************************************************)
(* What has closed is released, or a step to come will do it.              *)
(***************************************************************************)

\* Only a report on a submitted order gives a row the name of a position that
\* has closed by now.
LEMMA OverheldBefore ==
  ASSUME SubmissionInv, OrderlyEffect, UNCHANGED broker, NEW d \in Decisions, Overheld(d)'
  PROVE  Overheld(d) \/ (pc \in After /\ leg = d)
<1>1. ledger \in [Requests -> Ledger!Row] /\ reservation \in [Requests -> Ledger!Reservation]
  BY DEF SubmissionInv, Rows, Ledger!TypeOK
<1>2. PICK r \in Requests : ledger'[r].position = d /\ Held(r)' /\ broker[d] = "closed"
  BY DEF Overheld
<1>3. ASSUME ledger[r].position = d, Held(r) PROVE Overheld(d)
  BY <1>2, <1>3 DEF Overheld
<1>4. CASE UNCHANGED <<ledger, reservation>>
  BY <1>2, <1>3, <1>4 DEF Held
<1>5. CASE Sweeps
  BY <1>1, <1>2, <1>3, <1>5 DEF Sweeps, Swept, Held, Ledger!Row
<1>6. ASSUME NEW t \in Requests, NEW row, SetTo(t, row), t # r,
             UNCHANGED reservation \/ \E res : reservation' = [reservation EXCEPT ![t] = res]
      PROVE  Overheld(d)
  BY <1>1, <1>2, <1>3, <1>6 DEF SetTo, Held
<1>7. CASE pc = "reserve" /\ Admits(leg)
  <2>1. leg \in Decisions /\ ByDecision(leg) \in Requests
    BY <1>7, LegOf DEF Before
  <2>2. r # ByDecision(leg)
    BY <1>1, <1>2, <1>7, <2>1, NullAssumption DEF Admits, SetTo, RowOf
  <2> QED BY <1>6, <1>7, <2>1, <2>2 DEF Admits, Hold
<1>8. ASSUME pc \in Before \cup After, NEW s, NEW i \in Answers(leg), MayReport(leg, s, i),
             Advances(leg, s, i)
      PROVE  Overheld(d) \/ (pc \in After /\ leg = d)
  <2>1. leg \in Decisions /\ ByDecision(leg) \in Requests
    BY <1>8, LegOf
  <2>2. CASE r # ByDecision(leg)
    BY <1>6, <1>8, <2>1, <2>2 DEF Advances
  <2>3. CASE r = ByDecision(leg)
    <3>1. d \in {ledger[r].position, i.position} /\ UNCHANGED reservation
      BY <1>1, <1>2, <1>8, <2>1, <2>3 DEF Advances, SetTo, RowOf
    <3>2. CASE ledger[r].position = d
      BY <1>2, <1>3, <3>1, <3>2 DEF Held
    <3>3. CASE i.position = d
      <4>1. d = leg /\ i # NoIds
        BY <1>8, <3>3, NullAssumption DEF Answers, NoIds
      <4>2. broker[leg] # "none"
        BY <1>8, <4>1 DEF MayReport
      <4> QED BY <1>8, <4>1, <4>2 DEF SubmissionInv, Submitting
    <3> QED BY <3>1, <3>2, <3>3
  <2> QED BY <2>2, <2>3
<1>9. ASSUME NEW e \in used, broker[e] = "open", Adopts(e) PROVE Overheld(d)
  <2>1. PICK t \in Named(e), o \in {NoRef, e}, l \in Deals \cup {NoRef} :
          SetTo(t, RowOf(Account, "FILLED", o, l, e)) /\ Hold(t)
    BY <1>9 DEF Adopts
  <2>2. t \in Requests
    BY RequestsOf DEF Named, SubmissionInv, Typed
  <2>3. t # r
    BY <1>1, <1>2, <1>9, <2>1, <2>2 DEF SetTo, RowOf
  <2> QED BY <1>6, <2>1, <2>2, <2>3 DEF Hold
<1>10. ASSUME NEW e \in used, broker[e] = "working", Shows(e) PROVE Overheld(d)
  <2>1. PICK t \in Named(e), s \in Ledger!Terminal \cup {"FILLED", "ACKED"} :
          SetTo(t, RowOf(Account, s, e, ledger[t].deal, ledger[t].position)) /\ Hold(t)
    BY <1>10 DEF Shows
  <2>2. t \in Requests /\ t[2] = e /\ ledger[t].position \in {NoRef, e}
    BY RequestsOf, RowTypes DEF Named, SubmissionInv, Typed, RowFine
  <2>3. t # r
    BY <1>1, <1>2, <1>10, <2>1, <2>2, NullAssumption DEF SetTo, RowOf
  <2> QED BY <1>6, <2>1, <2>2, <2>3 DEF Hold
<1>11. ASSUME NEW e \in used, Closes(e) PROVE Overheld(d)
  <2>1. PICK t \in Named(e), l \in Deals :
          /\ SetTo(t, RowOf(Account, "RECONCILED", ledger[t].order, l, e))
          /\ reservation' = [reservation EXCEPT
               ![t] = [portfolio |-> Account, status |-> "RELEASED", risk |-> 1]]
    BY <1>11 DEF Closes
  <2>2. t \in Requests
    BY RequestsOf DEF Named, SubmissionInv, Typed
  <2>3. t # r
    BY <1>1, <1>2, <2>1, <2>2 DEF Held
  <2> QED BY <1>6, <2>1, <2>2, <2>3
<1> QED BY <1>4, <1>5, <1>7, <1>8, <1>9, <1>10, <1>11 DEF OrderlyEffect

\* A closure that reaches the bridge releases what the position holds.
LEMMA ClosureReleases ==
  ASSUME Rows, OneRowEach, NEW d \in Decisions, NEW r0,
         \/ Closes(d)
         \/ UNCHANGED <<ledger, reservation>> /\ Ledger!ClosureTargets(Account, r0, d) = {}
  PROVE  ~Overheld(d)'
<1>1. ledger \in [Requests -> Ledger!Row] /\ reservation \in [Requests -> Ledger!Reservation]
  BY DEF Rows, Ledger!TypeOK
<1>2. CASE Closes(d)
  <2>1. PICK t \in Named(d) :
          /\ Bears(t, d)
          /\ \E l \in Deals : SetTo(t, RowOf(Account, "RECONCILED", ledger[t].order, l, d))
          /\ reservation' = [reservation EXCEPT
               ![t] = [portfolio |-> Account, status |-> "RELEASED", risk |-> 1]]
    BY <1>2 DEF Closes
  <2>2. t \in Requests
    BY RequestsOf DEF Named
  <2>3. \A r \in Requests : r # t => ledger'[r].position # d
    BY <1>1, <2>1, <2>2, NullAssumption DEF SetTo, Bears, OneRowEach
  <2>4. ~Held(t)'
    BY <1>1, <2>1, <2>2 DEF Held
  <2> QED BY <2>3, <2>4 DEF Overheld
<1>3. CASE UNCHANGED <<ledger, reservation>> /\ Ledger!ClosureTargets(Account, r0, d) = {}
  <2>1. Ledger!RowsByPosition(Account, d) = {}
    BY <1>3 DEF Ledger!ClosureTargets
  <2>2. \A u \in Requests : ledger[u].position # d
    BY <2>1, RowsByPositionOf, NullAssumption
  <2> QED BY <1>3, <2>2 DEF Overheld
<1> QED BY <1>2, <1>3

\* The broker closes a position by a step of its own.
LEMMA OnlyTheBrokerCloses ==
  ASSUME SubmissionInv, [Next]_vars, NEW d \in Decisions, broker[d] # "closed",
         broker'[d] = "closed"
  PROVE  CloseAtBroker(d)
<1>1. broker \in [Decisions -> BrokerStates] /\ ~UNCHANGED broker
  BY DEF SubmissionInv, Typed
<1>2. CASE Submission
  <2>1. CASE Submit
    <3>1. \E s : s # "closed" /\ broker' = [broker EXCEPT ![leg] = s]
      BY <2>1 DEF Submit
    <3> QED BY <1>1, <3>1
  <2> QED BY <1>1, <1>2, <2>1 DEF Submission, ReserveRisk, WriteChecked, WriteSent,
        MarkAcknowledged, MarkFilled, MarkAmbiguous, Elsewhere
<1>3. ~Reconciliation
  BY <1>1 DEF Reconciliation, OnInit, OnTimer, Recover, ImportPosition, ImportOrder, ReplayDeal,
     ReplayClosure, Item, Skip, EndStage, Finish
<1>4. \A e \in Decisions : ~AutomatedEntry(e) /\ ~ManualEntry(e)
  BY <1>1 DEF AutomatedEntry, ManualEntry, Enter
<1>5. /\ ~OnTradeTransaction /\ ~Crash /\ ~UNCHANGED vars
      /\ \A r \in Requests : ~Lapse(r)
      /\ \A c \in late : ~Arrive(c)
  BY <1>1 DEF OnTradeTransaction, Crash, vars, Lapse, Arrive
<1>6. CASE Broker
  BY <1>1, <1>6 DEF Broker, OpenAtBroker, RestAtBroker, DropAtBroker, CloseAtBroker
<1> QED BY <1>2, <1>3, <1>4, <1>5, <1>6 DEF Next, EA

\* Outside a reconciliation nothing restores the EA's trust.
LEMMA TrustStays ==
  ASSUME Submission \/ OnTradeTransaction \/ \E d \in Decisions : AutomatedEntry(d) \/ ManualEntry(d)
  PROVE  /\ Trusted' => Trusted
         /\ pc \notin Stages /\ pc' \notin Stages
<1>1. CASE Submission
  BY <1>1 DEF Submission, ReserveRisk, WriteChecked, WriteSent, Submit, MarkAcknowledged,
     MarkFilled, MarkAmbiguous, Posted, NotPosted, Trusted, Idle, Stages
<1>2. CASE OnTradeTransaction
  BY <1>2 DEF OnTradeTransaction, PassOver, Posted, NotPosted, Trusted, Stages
<1>3. ASSUME NEW d \in Decisions, AutomatedEntry(d) \/ ManualEntry(d)
      PROVE  UNCHANGED <<healthy, admission>> /\ pc \notin Stages /\ pc' \notin Stages
  BY <1>3 DEF AutomatedEntry, ManualEntry, Enter, Stages
<1> QED BY <1>1, <1>2, <1>3 DEF Trusted

\* A deal announced stays announced until the EA takes it from the queue.
LEMMA QueuedStays ==
  ASSUME SubmissionInv, [Next]_vars, ~OnTradeTransaction, ~Crash, NEW e \in Deals, Queued(e)
  PROVE  Queued(e)'
<1>1. queue \in Seq(Deals)
  BY DEF SubmissionInv, Typed
<1>2. CASE UNCHANGED queue
  BY <1>2 DEF Queued
<1>3. CASE \E deal \in Deals : queue' = Append(queue, deal)
  BY <1>1, <1>3, QueueGrows
<1>4. CASE Submission
  <2>1. CASE Submit
    <3>1. leg \in Decisions
      BY <2>1, LegOf DEF Submit, Before
    <3>2. <<"in", leg>> \in Deals
      BY <3>1 DEF Deals
    <3> QED BY <1>2, <1>3, <2>1, <3>2 DEF Submit, Announce
  <2> QED BY <1>2, <1>4, <2>1 DEF Submission, ReserveRisk, WriteChecked, WriteSent,
        MarkAcknowledged, MarkFilled, MarkAmbiguous, Elsewhere
<1>5. CASE Reconciliation
  BY <1>2, <1>5 DEF Reconciliation, OnInit, OnTimer, Recover, ImportPosition, ImportOrder,
     ReplayDeal, ReplayClosure, Item, Skip, EndStage, Finish
<1>6. ASSUME NEW d \in Decisions, AutomatedEntry(d) \/ ManualEntry(d) PROVE UNCHANGED queue
  BY <1>6 DEF AutomatedEntry, ManualEntry, Enter
<1>7. ASSUME NEW d \in Decisions,
             OpenAtBroker(d) \/ RestAtBroker(d) \/ DropAtBroker(d) \/ CloseAtBroker(d)
      PROVE  Queued(e)'
  <2>1. <<"in", d>> \in Deals /\ <<"out", d>> \in Deals
    BY DEF Deals
  <2> QED BY <1>2, <1>3, <1>7, <2>1 DEF OpenAtBroker, RestAtBroker, DropAtBroker, CloseAtBroker, Announce
<1>8. CASE UNCHANGED vars
  BY <1>2, <1>8 DEF vars
<1>9. ASSUME NEW r \in Requests, Lapse(r) PROVE UNCHANGED queue
  BY <1>9 DEF Lapse
<1>10. ASSUME NEW c \in late, Arrive(c) PROVE UNCHANGED queue
  BY <1>10 DEF Arrive
<1> QED BY <1>2, <1>4, <1>5, <1>6, <1>7, <1>8, <1>9, <1>10 DEF Next, EA, Broker

\* What has been missed stays so until a reconciliation begins.
LEMMA MissedStays ==
  ASSUME [Next]_vars, ~Crash, pc' # "recover"
  PROVE  missed \subseteq missed'
<1>1. CASE Submission
  BY <1>1 DEF Submission, ReserveRisk, WriteChecked, WriteSent, Submit, MarkAcknowledged,
     MarkFilled, MarkAmbiguous, Elsewhere
<1>2. CASE Reconciliation
  BY <1>2 DEF Reconciliation, OnInit, OnTimer, Begin, Recover, ImportPosition, ImportOrder,
     ReplayDeal, ReplayClosure, Item, EndStage, Finish
<1>3. CASE OnTradeTransaction
  BY <1>3 DEF OnTradeTransaction, PassOver
<1>4. ASSUME NEW d \in Decisions, AutomatedEntry(d) \/ ManualEntry(d) PROVE UNCHANGED missed
  BY <1>4 DEF AutomatedEntry, ManualEntry, Enter
<1>5. CASE Broker \/ UNCHANGED vars \/ \E r \in Requests : Lapse(r)
  BY <1>5 DEF Broker, OpenAtBroker, RestAtBroker, DropAtBroker, CloseAtBroker, Lapse, vars, ea
<1>6. ASSUME NEW c \in late, Arrive(c) PROVE UNCHANGED missed
  BY <1>6 DEF Arrive, ea
<1> QED BY <1>1, <1>2, <1>3, <1>4, <1>5, <1>6 DEF Next, EA

\* A closed position's deal is taken from the queue: it releases the risk, or
\* the EA stops trusting the ledger.
LEMMA ClosureByDeal ==
  ASSUME SubmissionInv, OneRowEach, NEW d \in Decisions, broker[d] = "closed", Out(d),
         OnTradeTransaction, Overheld(d)'
  PROVE  Out(d)' \/ <<"out", d>> \in missed' \/ ~Trusted'
<1>1. pc = "idle" /\ queue # <<>> /\ queue' = Tail(queue) /\ <<"out", d>> \in Deals
  BY DEF OnTradeTransaction, Deals
<1>2. CASE Head(queue) # <<"out", d>>
  BY <1>1, <1>2, QueueShrinks DEF Out
<1>3. CASE Head(queue) = <<"out", d>> /\ Posted(DealReport(Head(queue)))
  <2>1. DealReport(<<"out", d>>) = [Call("deal", d) EXCEPT !.entry = "out", !.open = FALSE]
    BY DEF DealReport
  <2>2. \/ Closes(d)
        \/ /\ UNCHANGED <<ledger, reservation>>
           /\ Ledger!ClosureTargets(Account, ByPosition(d), d) = {}
    BY <1>3, <2>1, DealEffect DEF Posted, SubmissionInv
  <2> QED BY <2>2, ClosureReleases DEF SubmissionInv
<1>4. CASE Head(queue) = <<"out", d>> /\ PassOver(Head(queue))
  BY <1>4 DEF PassOver, Trusted
<1> QED BY <1>2, <1>3, <1>4 DEF OnTradeTransaction, Trusted

LEMMA ClosureByReplay ==
  ASSUME SubmissionInv, OneRowEach, NEW d \in Decisions, ReplayClosure, ClosureToCome(d),
         Out(d) => Out(d)', Overheld(d)'
  PROVE  ClosureToCome(d)'
<1>1. PICK x \in todo :
        \/ Item(x, Call("closed", x))
        \/ /\ Skip(x)
           /\ missed' = IF allOk THEN missed \cup {<<"out", x>>} ELSE missed
  BY DEF ReplayClosure
<1>2. /\ pc = "closed" /\ pc' = "closed" /\ todo' = todo \ {x} /\ (allOk' = allOk \/ ~allOk')
      /\ missed \subseteq missed'
  BY <1>1 DEF ReplayClosure, Item, Skip
<1>3. CASE x # d \/ ~allOk' \/ <<"out", d>> \in missed'
  BY <1>2, <1>3 DEF ClosureToCome, Stages
<1>4. CASE x = d /\ allOk' /\ <<"out", d>> \notin missed'
  <2>1. UNCHANGED allOk
    BY <1>2, <1>4
  <2>2. Posted(Call("closed", d)) \/ ~allOk'
    BY <1>1, <1>4 DEF Item, Skip
  <2>3. Handle(Call("closed", d)) /\ Rows
    BY <1>4, <2>2 DEF Posted, SubmissionInv
  <2> QED BY <2>3, ClosedEffect, ClosureReleases
<1> QED BY <1>3, <1>4

LEMMA StepClosedInv == SubmissionInv /\ OrderlyInv /\ ClosedInv /\ [Next]_vars => ClosedInv'
<1> SUFFICES ASSUME SubmissionInv, OrderlyInv, ClosedInv, [Next]_vars, ~slow,
                    NEW d \in Decisions, Overheld(d)'
             PROVE  ClosureToCome(d)'
  BY SlowStays DEF ClosedInv
<1>1. /\ late = {} /\ OneRowEach /\ (pc = "down" => ~healthy)
      /\ pc \in After /\ broker[leg] = "closed" => Out(leg)
  BY DEF OrderlyInv
<1>2. broker'[d] = "closed" /\ <<"out", d>> \in Deals /\ queue \in Seq(Deals)
  BY DEF Overheld, SubmissionInv, Typed, Deals
<1>3. CASE CloseAtBroker(d)
  <2>1. CASE pc = "down"
    <3>1. ~healthy' /\ pc' = "down"
      BY <1>1, <1>3, <2>1 DEF CloseAtBroker, ea
    <3> QED BY <3>1 DEF ClosureToCome, Trusted, Stages
  <2>2. CASE pc # "down"
    BY <1>2, <1>3, <2>2, QueueGrows DEF CloseAtBroker, Announce, ClosureToCome, Out
  <2> QED BY <2>1, <2>2
<1> SUFFICES ASSUME ~CloseAtBroker(d) PROVE ClosureToCome(d)'
  BY <1>3
<1>4. broker[d] = "closed"
  BY <1>2, OnlyTheBrokerCloses
<1>5. ClosureToCome(d)
  <2>1. Overheld(d) \/ (pc \in After /\ leg = d)
    <3>1. CASE UNCHANGED <<ledger, reservation>>
      BY <1>4, <3>1 DEF Overheld, Held
    <3>2. CASE OrderlyEffect /\ UNCHANGED broker
      BY <3>2, OverheldBefore
    <3> QED BY <1>1, <3>1, <3>2, StepOrderly
  <2> QED BY <1>1, <1>4, <2>1 DEF ClosedInv, ClosureToCome
<1>6. /\ ~OnTradeTransaction /\ ~Crash => (Out(d) => Out(d)')
      /\ ~Crash /\ pc' # "recover" => missed \subseteq missed'
  BY <1>2, QueuedStays, MissedStays DEF Out
<1>7. CASE Submission \/ \E e \in Decisions : AutomatedEntry(e) \/ ManualEntry(e)
  <2>1. (~OnTradeTransaction /\ ~Crash) \/ ~Trusted'
    BY <1>7 DEF Submission, ReserveRisk, WriteChecked, WriteSent, Submit, MarkAcknowledged,
       MarkFilled, MarkAmbiguous, AutomatedEntry, ManualEntry, Enter, OnTradeTransaction,
       Crash, Trusted
  <2>2. pc \notin Stages /\ pc' \notin Stages /\ (Trusted' => Trusted)
    BY <1>7, TrustStays
  <2>3. Crash \/ missed \subseteq missed'
    BY <1>6, <2>2 DEF Stages
  <2> QED BY <1>5, <1>6, <2>1, <2>2, <2>3 DEF ClosureToCome, Stages
<1>8. CASE OnTradeTransaction
  <2>1. pc \notin Stages /\ pc' \notin Stages /\ (Trusted' => Trusted)
    BY <1>8, TrustStays
  <2>2. Out(d) => Out(d)' \/ <<"out", d>> \in missed' \/ ~Trusted'
    BY <1>1, <1>4, <1>8, ClosureByDeal
  <2>3. missed \subseteq missed'
    BY <1>8 DEF OnTradeTransaction, PassOver
  <2> QED BY <1>5, <2>1, <2>2, <2>3 DEF ClosureToCome, Stages
<1>9. CASE ReplayClosure
  <2>1. Out(d) => Out(d)'
    BY <1>6, <1>9 DEF ReplayClosure, OnTradeTransaction, Item, Skip, Out, Queued
  <2> QED BY <1>1, <1>5, <1>9, <2>1, ClosureByReplay
<1>10. CASE pc' \in {"recover", "positions", "orders", "deals"}
  BY <1>10 DEF ClosureToCome
<1>11. CASE EndStage
  <2>1. CASE pc = "deals"
    <3>1. pc' = "closed" /\ todo' = BrokerIs({"closed"})
      BY <1>11, <2>1 DEF EndStage, Turn, NextStage
    <3> QED BY <1>4, <3>1 DEF BrokerIs, ClosureToCome
  <2> QED BY <1>10, <1>11, <2>1 DEF EndStage, Turn, NextStage
<1>12. CASE Finish
  <2>1. /\ UNCHANGED <<queue, missed>> /\ pc = "closed" /\ todo = {}
        /\ healthy' = allOk /\ pc' = "idle"
    BY <1>12 DEF Finish, Idle
  <2>2. Out(d) => Out(d)'
    BY <2>1 DEF Out, Queued
  <2> QED BY <1>5, <2>1, <2>2 DEF ClosureToCome, Trusted, Stages
<1>13. CASE Crash
  BY <1>13 DEF Crash, ClosureToCome, Trusted, Stages
<1>14. CASE UNCHANGED ea /\ (Out(d) => Out(d)')
  BY <1>5, <1>14 DEF ea, ClosureToCome, Trusted
<1>15. CASE Broker \/ UNCHANGED vars \/ \E r \in Requests : Lapse(r)
  <2>1. UNCHANGED ea
    BY <1>15 DEF Broker, OpenAtBroker, RestAtBroker, DropAtBroker, CloseAtBroker, vars, Lapse
  <2>2. CASE ~OnTradeTransaction /\ ~Crash
    BY <1>6, <1>14, <2>1, <2>2
  <2> QED BY <1>8, <1>13, <1>14, <2>1, <2>2
<1>16. CASE OnInit \/ OnTimer \/ Recover \/ ImportPosition \/ ImportOrder \/ ReplayDeal
  BY <1>10, <1>16 DEF OnInit, OnTimer, Begin, Recover, Turn, NextStage, ImportPosition,
     ImportOrder, ReplayDeal, Item, Skip
<1> QED BY <1>1, <1>7, <1>8, <1>9, <1>11, <1>12, <1>13, <1>15, <1>16
      DEF Next, EA, Reconciliation

-----------------------------------------------------------------------------
(***************************************************************************)
(* What is open is adopted, or a step to come will do it.                  *)
(***************************************************************************)

\* An adopted position stays adopted while it is open.
LEMMA FilledStays ==
  ASSUME SubmissionInv, OneRowEach, OrderlyEffect, NEW d \in Decisions, broker[d] = "open",
         Filled(d)
  PROVE  Filled(d)'
<1>1. ledger \in [Requests -> Ledger!Row] /\ reservation \in [Requests -> Ledger!Reservation]
  BY DEF SubmissionInv, Rows, Ledger!TypeOK
<1>2. PICK r \in Requests : ledger[r].position = d /\ ledger[r].state = "FILLED" /\ Held(r)
  BY DEF Filled
<1>3. r \in Named(d) /\ \A e \in Decisions : e # d => r \notin Named(e)
  BY <1>2, RequestsOf, NullAssumption DEF SubmissionInv, Rows, RowFine
<1>4. ASSUME NEW t, t # r, NEW row, SetTo(t, row),
             UNCHANGED reservation \/ \E res : reservation' = [reservation EXCEPT ![t] = res]
      PROVE  Filled(d)'
  BY <1>1, <1>2, <1>4 DEF SetTo, Filled, Held
<1>5. CASE UNCHANGED <<ledger, reservation>>
  BY <1>2, <1>5 DEF Filled, Held
<1>6. CASE Sweeps
  <2>1. ledger'[r] = ledger[r]
    BY <1>2, <1>6 DEF Sweeps, Swept, Ledger!Leased
  <2> QED BY <1>2, <1>6, <2>1 DEF Sweeps, Filled, Held
<1>7. CASE pc = "reserve" /\ Admits(leg)
  <2>1. r # ByDecision(leg)
    BY <1>2, <1>7 DEF Admits, Known
  <2> QED BY <1>4, <1>7, <2>1 DEF Admits, Hold
<1>8. ASSUME pc \in Before \cup After,
             NEW s \in {"CHECKED", "SENT", "RECOVERING", "ACKED", "FILLED"},
             NEW i \in Answers(leg), Advances(leg, s, i)
      PROVE  Filled(d)'
  <2>1. CASE r # ByDecision(leg)
    BY <1>4, <1>8, <2>1 DEF Advances
  <2>2. CASE r = ByDecision(leg)
    <3>1. leg \in Decisions /\ leg = d
      BY <1>3, <1>8, <2>2, LegOf DEF Named
    <3>2. s = "FILLED"
      BY <1>2, <1>8, <2>2 DEF Advances, Ledger!AllowedTransitions, Ledger!States, Ledger!Terminal
    <3>3. ledger'[r].position = d /\ ledger'[r].state = s /\ UNCHANGED reservation
      BY <1>1, <1>2, <1>8, <2>2, <3>1, NullAssumption DEF Advances, SetTo, RowOf, Answers
    <3> QED BY <1>2, <3>2, <3>3 DEF Filled, Held
  <2> QED BY <2>1, <2>2
<1>9. ASSUME NEW e \in used, Adopts(e) PROVE Filled(d)'
  <2>1. PICK t \in Named(e), o \in {NoRef, e}, l \in Deals \cup {NoRef} :
          SetTo(t, RowOf(Account, "FILLED", o, l, e)) /\ Hold(t)
    BY <1>9 DEF Adopts
  <2>2. t \in Requests /\ e \in Decisions
    BY RequestsOf DEF Named, SubmissionInv, Typed
  <2>3. CASE t # r
    BY <1>4, <2>1, <2>3 DEF Hold
  <2>4. CASE t = r
    <3>1. e = d
      BY <1>3, <2>2, <2>4
    <3> QED BY <1>1, <2>1, <2>2, <3>1 DEF SetTo, RowOf, Hold, Filled, Held
  <2> QED BY <2>3, <2>4
<1>10. ASSUME NEW e \in used, e # d, Shows(e) \/ Closes(e) PROVE Filled(d)'
  <2>1. e \in Decisions
    BY DEF SubmissionInv, Typed
  <2>2. PICK t \in Named(e) : /\ \E row : SetTo(t, row)
                              /\ \E res : reservation' = [reservation EXCEPT ![t] = res]
    BY <1>10 DEF Shows, Closes, Hold
  <2> QED BY <1>3, <1>4, <1>10, <2>1, <2>2
<1> QED BY <1>5, <1>6, <1>7, <1>8, <1>9, <1>10 DEF OrderlyEffect

LEMMA AdoptionFills ==
  ASSUME Rows, NEW d \in Decisions, Adopts(d)
  PROVE  Filled(d)'
<1>1. PICK t \in Named(d), o \in {NoRef, d}, l \in Deals \cup {NoRef} :
        SetTo(t, RowOf(Account, "FILLED", o, l, d)) /\ Hold(t)
  BY DEF Adopts
<1>2. t \in Requests
  BY RequestsOf DEF Named
<1>3. ledger'[t].position = d /\ ledger'[t].state = "FILLED" /\ reservation'[t].status = "ACTIVE"
  BY <1>1, <1>2 DEF SetTo, RowOf, Hold, Rows, Ledger!TypeOK
<1> QED BY <1>2, <1>3 DEF Filled, Held

\* The broker opens a position, and announces it to an EA that is up.
LEMMA OpeningAnnounced ==
  ASSUME SubmissionInv, [Next]_vars, NEW d \in Decisions, broker[d] # "open",
         broker'[d] = "open"
  PROVE  /\ UNCHANGED <<healthy, admission>>
         /\ IF pc = "down" THEN UNCHANGED pc ELSE In(d)'
<1>1. /\ broker \in [Decisions -> BrokerStates] /\ ~UNCHANGED broker
      /\ <<"in", d>> \in Deals /\ queue \in Seq(Deals)
  BY DEF SubmissionInv, Typed, Deals
<1>2. ASSUME pc # "down", queue' = Append(queue, <<"in", d>>) PROVE In(d)'
  BY <1>1, <1>2, QueueGrows DEF In
<1>3. CASE Submission
  <2>1. Submit
    BY <1>1, <1>3 DEF Submission, ReserveRisk, WriteChecked, WriteSent, MarkAcknowledged,
       MarkFilled, MarkAmbiguous, Elsewhere
  <2>2. leg \in Decisions
    BY <2>1, LegOf DEF Submit, Before
  <2>3. \E s : broker' = [broker EXCEPT ![leg] = s]
    BY <2>1 DEF Submit
  <2>4. leg = d
    BY <1>1, <2>2, <2>3
  <2>5. queue' = Append(queue, <<"in", leg>>)
    BY <1>1, <2>1, <2>2, <2>4 DEF Submit, Announce
  <2>6. pc = "submit" /\ UNCHANGED <<healthy, admission>>
    BY <2>1 DEF Submit
  <2> QED BY <1>2, <2>4, <2>5, <2>6
<1>4. ~Reconciliation
  BY <1>1 DEF Reconciliation, OnInit, OnTimer, Recover, ImportPosition, ImportOrder, ReplayDeal,
     ReplayClosure, Item, Skip, EndStage, Finish
<1>5. \A e \in Decisions : ~AutomatedEntry(e) /\ ~ManualEntry(e)
  BY <1>1 DEF AutomatedEntry, ManualEntry, Enter
<1>6. /\ ~OnTradeTransaction /\ ~Crash /\ ~UNCHANGED vars
      /\ \A r \in Requests : ~Lapse(r)
      /\ \A c \in late : ~Arrive(c)
  BY <1>1 DEF OnTradeTransaction, Crash, vars, Lapse, Arrive
<1>7. CASE Broker
  <2>1. PICK e \in Decisions : OpenAtBroker(e) \/ RestAtBroker(e) \/ DropAtBroker(e) \/ CloseAtBroker(e)
    BY <1>7 DEF Broker
  <2>2. e = d /\ OpenAtBroker(e)
    BY <1>1, <2>1 DEF OpenAtBroker, RestAtBroker, DropAtBroker, CloseAtBroker
  <2>3. UNCHANGED <<healthy, admission, pc>>
    BY <2>2 DEF OpenAtBroker, ea
  <2>4. queue' = IF pc = "down" THEN queue ELSE Append(queue, <<"in", d>>)
    BY <2>2 DEF OpenAtBroker, Announce
  <2> QED BY <1>2, <2>3, <2>4
<1> QED BY <1>3, <1>4, <1>5, <1>6, <1>7 DEF Next, EA

\* An open position's deal is taken from the queue: it adopts the position, or
\* the EA stops trusting the ledger.
LEMMA AdoptionByDeal ==
  ASSUME SubmissionInv, NEW d \in Decisions, broker[d] = "open", In(d), OnTradeTransaction
  PROVE  In(d)' \/ <<"in", d>> \in missed' \/ Filled(d)' \/ ~Trusted'
<1>1. pc = "idle" /\ queue # <<>> /\ queue' = Tail(queue) /\ <<"in", d>> \in Deals
  BY DEF OnTradeTransaction, Deals
<1>2. CASE Head(queue) # <<"in", d>>
  BY <1>1, <1>2, QueueShrinks DEF In
<1>3. CASE Head(queue) = <<"in", d>> /\ Posted(DealReport(Head(queue)))
  <2>1. DealReport(<<"in", d>>) = [Call("deal", d) EXCEPT !.entry = "in", !.open = TRUE]
    BY DEF DealReport
  <2>2. Adopts(d)
    BY <1>3, <2>1, DealEffect DEF Posted, SubmissionInv
  <2> QED BY <2>2, AdoptionFills DEF SubmissionInv
<1>4. CASE Head(queue) = <<"in", d>> /\ PassOver(Head(queue))
  BY <1>4 DEF PassOver, Trusted
<1> QED BY <1>2, <1>3, <1>4 DEF OnTradeTransaction, Trusted

LEMMA AdoptionByImport ==
  ASSUME SubmissionInv, NEW d \in Decisions, broker[d] = "open", ImportPosition, AdoptionToCome(d),
         In(d) => In(d)'
  PROVE  Filled(d)' \/ AdoptionToCome(d)'
<1>1. PICK x \in todo : IF broker[x] = "open" THEN Item(x, Call("position", x))
                                             ELSE Skip(x) /\ UNCHANGED missed
  BY DEF ImportPosition
<1>2. /\ pc = "positions" /\ pc' = "positions" /\ todo' = todo \ {x}
      /\ allOk' = allOk \/ ~allOk'
      /\ UNCHANGED missed
  BY <1>1 DEF ImportPosition, Item, Skip
<1>3. CASE x # d \/ ~allOk'
  BY <1>2, <1>3 DEF AdoptionToCome, Stages
<1>4. CASE x = d /\ allOk'
  <2>1. Posted(Call("position", d))
    BY <1>1, <1>4 DEF Item
  <2>2. Adopts(d)
    BY <2>1, PositionEffect DEF Posted, SubmissionInv
  <2> QED BY <2>2, AdoptionFills DEF SubmissionInv
<1> QED BY <1>3, <1>4

LEMMA StepOpenInv == SubmissionInv /\ OrderlyInv /\ OpenInv /\ [Next]_vars => OpenInv'
<1> SUFFICES ASSUME SubmissionInv, OrderlyInv, OpenInv, [Next]_vars, ~slow,
                    NEW d \in Decisions, broker'[d] = "open"
             PROVE  Filled(d)' \/ AdoptionToCome(d)'
  BY SlowStays DEF OpenInv, BrokerIs
<1>1. late = {} /\ OneRowEach /\ (pc = "down" => ~healthy)
  BY DEF OrderlyInv
<1>2. CASE broker[d] # "open"
  <2>1. CASE pc = "down"
    <3>1. pc' = "down" /\ ~healthy'
      BY <1>1, <1>2, <2>1, OpeningAnnounced
    <3> QED BY <3>1 DEF AdoptionToCome, Stages, Trusted
  <2>2. CASE pc # "down"
    BY <1>2, <2>2, OpeningAnnounced DEF AdoptionToCome
  <2> QED BY <2>1, <2>2
<1> SUFFICES ASSUME broker[d] = "open" PROVE Filled(d)' \/ AdoptionToCome(d)'
  BY <1>2
<1>3. Filled(d) \/ AdoptionToCome(d)
  BY DEF OpenInv, BrokerIs
<1>4. CASE Filled(d)
  <2>1. CASE UNCHANGED <<ledger, reservation>>
    BY <1>4, <2>1 DEF Filled, Held
  <2> QED BY <1>1, <1>4, <2>1, StepOrderly, FilledStays
<1> SUFFICES ASSUME AdoptionToCome(d) PROVE Filled(d)' \/ AdoptionToCome(d)'
  BY <1>3, <1>4
<1>5. <<"in", d>> \in Deals
  BY DEF Deals
<1>6. /\ ~OnTradeTransaction /\ ~Crash => (In(d) => In(d)')
      /\ ~Crash /\ pc' # "recover" => missed \subseteq missed'
  BY <1>5, QueuedStays, MissedStays DEF In
<1>7. CASE Submission \/ \E e \in Decisions : AutomatedEntry(e) \/ ManualEntry(e)
  <2>1. (~OnTradeTransaction /\ ~Crash) \/ ~Trusted'
    BY <1>7 DEF Submission, ReserveRisk, WriteChecked, WriteSent, Submit, MarkAcknowledged,
       MarkFilled, MarkAmbiguous, AutomatedEntry, ManualEntry, Enter, OnTradeTransaction,
       Crash, Trusted
  <2>2. pc \notin Stages /\ pc' \notin Stages /\ (Trusted' => Trusted)
    BY <1>7, TrustStays
  <2>3. Crash \/ missed \subseteq missed'
    BY <1>6, <2>2 DEF Stages
  <2> QED BY <1>6, <2>1, <2>2, <2>3 DEF AdoptionToCome, Stages
<1>8. CASE OnTradeTransaction
  <2>1. pc \notin Stages /\ pc' \notin Stages /\ (Trusted' => Trusted)
    BY <1>8, TrustStays
  <2>2. In(d) => In(d)' \/ <<"in", d>> \in missed' \/ Filled(d)' \/ ~Trusted'
    BY <1>8, AdoptionByDeal
  <2>3. missed \subseteq missed'
    BY <1>8 DEF OnTradeTransaction, PassOver
  <2> QED BY <2>1, <2>2, <2>3 DEF AdoptionToCome, Stages
<1>10. CASE ImportPosition
  <2>1. In(d) => In(d)'
    BY <1>10 DEF ImportPosition, Item, Skip, In, Queued
  <2> QED BY <1>10, <2>1, AdoptionByImport
<1>11. CASE OnInit \/ OnTimer
  BY <1>11 DEF OnInit, OnTimer, Begin, AdoptionToCome
<1>12. CASE Recover
  BY <1>12 DEF Recover, Turn, NextStage, BrokerIs, AdoptionToCome
<1>13. CASE ImportOrder \/ ReplayDeal \/ ReplayClosure
  <2>1. UNCHANGED <<queue, pc>> /\ pc \in Stages /\ pc \notin {"recover", "positions"}
    BY <1>13 DEF ImportOrder, ReplayDeal, ReplayClosure, Item, Skip, Stages
  <2>2. allOk' = allOk \/ ~allOk'
    BY <1>13 DEF ImportOrder, ReplayDeal, ReplayClosure, Item, Skip
  <2>3. missed \subseteq missed'
    BY <1>13 DEF ImportOrder, ReplayDeal, ReplayClosure, Item, Skip
  <2> QED BY <2>1, <2>2, <2>3 DEF AdoptionToCome, In, Queued
<1>14. CASE EndStage
  <2>1. /\ UNCHANGED <<queue, allOk, missed>> /\ pc \in Stages /\ pc # "recover" /\ pc' \in Stages /\ todo = {}
    BY <1>14 DEF EndStage, Turn, NextStage, Stages
  <2> QED BY <2>1 DEF AdoptionToCome, In, Queued
<1>15. CASE Finish
  <2>1. UNCHANGED <<queue, missed>> /\ pc = "closed" /\ healthy' = allOk /\ pc' = "idle"
    BY <1>15 DEF Finish, Idle
  <2> QED BY <2>1 DEF AdoptionToCome, In, Queued, Trusted, Stages
<1>16. CASE Crash
  BY <1>16 DEF Crash, AdoptionToCome, Trusted, Stages
<1>17. CASE Broker \/ UNCHANGED vars \/ \E r \in Requests : Lapse(r)
  <2>1. UNCHANGED ea
    BY <1>17 DEF Broker, OpenAtBroker, RestAtBroker, DropAtBroker, CloseAtBroker, vars, Lapse
  <2>2. CASE ~OnTradeTransaction /\ ~Crash
    BY <1>6, <2>1, <2>2 DEF ea, AdoptionToCome, Trusted
  <2> QED BY <1>8, <1>16, <2>2
<1> QED BY <1>1, <1>7, <1>8, <1>10, <1>11, <1>12, <1>13, <1>14, <1>15, <1>16, <1>17
      DEF Next, EA, Reconciliation

LEMMA InitHealthy == Init => OrderlyInv /\ ClosedInv /\ OpenInv
<1> SUFFICES ASSUME Init PROVE OrderlyInv /\ ClosedInv /\ OpenInv
  OBVIOUS
<1>1. \A d \in Decisions : broker[d] = "none"
  BY DEF Init
<1>2. \A r \in Requests : ledger[r].position = NoRef
  BY DEF Init, Ledger!Init, Ledger!NoRow
<1>3. OrderlyInv
  BY <1>2 DEF Init, OrderlyInv, OneRowEach, Before, After
<1>4. ClosedInv /\ OpenInv
  BY <1>1 DEF ClosedInv, Overheld, OpenInv, BrokerIs
<1> QED BY <1>3, <1>4

LEMMA HealthyInvariance == Spec => [](SubmissionInv /\ OrderlyInv /\ ClosedInv /\ OpenInv)
<1>1. /\ SubmissionInv /\ OrderlyInv /\ ClosedInv /\ OpenInv
      /\ [Next]_vars
      => (SubmissionInv /\ OrderlyInv /\ ClosedInv /\ OpenInv)'
  BY StepInv, StepOrderlyInv, StepClosedInv, StepOpenInv
<1> QED BY InitInv, InitHealthy, <1>1, PTL DEF Spec

\* OnTradeTransaction, ReconcileBrokerStateSnapshot: an EA that is idle, has
\* handled every deal and trusts the ledger is right about what has ended: no
\* row that names a closed position still holds risk, unless the EA passed the
\* closure over in silence.  Whatever else went wrong on the way has cost it its
\* trust.
THEOREM AgreementWhenHealthy == Spec => []AgreesWhenHealthy
<1>1. SubmissionInv /\ ClosedInv => AgreesWhenHealthy
  <2> SUFFICES ASSUME SubmissionInv, ClosedInv, ~slow, pc = "idle", queue = <<>>, healthy, admission,
                      NEW r \in Requests, ledger[r].position # NoRef,
                      broker[ledger[r].position] = "closed", Held(r),
                      <<"out", ledger[r].position>> \notin missed
               PROVE  FALSE
    BY DEF AgreesWhenHealthy
  <2>1. ledger[r].position \in Decisions
    <3>1. RowFine(r) /\ r[2] \in Decisions
      BY RowTypes DEF SubmissionInv, Requests
    <3> QED BY <3>1 DEF RowFine
  <2>2. ClosureToCome(ledger[r].position)
    BY <2>1 DEF ClosedInv, Overheld
  <2>3. ~Out(ledger[r].position)
    BY DEF Out, Queued
  <2> QED BY <2>2, <2>3 DEF ClosureToCome, Stages, Trusted
<1> QED BY <1>1, HealthyInvariance, PTL

\* Such an EA is right about what is open, too: each open position, unless the
\* EA passed its opening over in silence, is the position of a FILLED row whose
\* risk is held.
THEOREM OpenIsFilled == Spec => []OpenIsFilledWhenHealthy
<1>1. OpenInv => OpenIsFilledWhenHealthy
  <2> SUFFICES ASSUME OpenInv, ~slow, pc = "idle", queue = <<>>, healthy, admission,
                      NEW d \in BrokerIs({"open"}), <<"in", d>> \notin missed
               PROVE  Filled(d)
    BY DEF OpenIsFilledWhenHealthy, Filled
  <2>1. ~In(d)
    BY DEF In, Queued
  <2> QED BY <2>1 DEF OpenInv, AdoptionToCome, Stages, Trusted
<1> QED BY <1>1, HealthyInvariance, PTL

=============================================================================
