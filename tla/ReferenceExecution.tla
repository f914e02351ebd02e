-------------------------- MODULE ReferenceExecution --------------------------
(***************************************************************************)
(* The reference execution stack of medis_touch: the governed coordinator  *)
(* (execution_coordinator.py) with its durable recovery journal            *)
(* (execution_recovery.py) and its portfolio admission ledger              *)
(* (pretrade_risk.py), both SQLite files that several processes share.     *)
(*                                                                         *)
(* Each call of the journal or of the ledger is one IMMEDIATE transaction, *)
(* so one step; between two calls another process may run or this one may  *)
(* die.  What the broker did and what its answer says are two things: an   *)
(* order may be accepted and its answer lost.                              *)
(***************************************************************************)
EXTENDS Integers, Sequences, FiniteSets, Functions

CONSTANTS
  Orders,    \* parent orders handed to the coordinators
  Workers,   \* processes, each with a coordinator
  Slices,    \* how many children the schedule of an order has
  Quantity,  \* units of an order
  Prices,    \* what the venue may quote for a unit; the reference price is 1
  Limit,     \* max_portfolio_notional, and max_symbol_notional of the one symbol
  MaxFaults, \* bound: crashes, and broker answers that are lost
  MaxCalls,  \* bound: calls of execute_many
  None

ASSUME ReferenceAssumption ==
  /\ Slices \in [Orders -> Nat \ {0}] /\ Quantity \in Nat \ {0}
  /\ \A o \in Orders : Quantity % Slices[o] = 0
  /\ Prices \subseteq Nat \ {0} /\ Limit \in Nat
  /\ MaxFaults \in Nat /\ MaxCalls \in Nat
  /\ IsFiniteSet(Orders)

VARIABLES
  row,        \* table execution_recovery, with the deals of its fill ledger
  reserved,   \* table portfolio_admission_reservations: notional, 0 for no row
  lapsed,     \* the reservations whose expires_at has passed
  committed,  \* what each order added to portfolio_admission_exposure
  worker,     \* what each process is doing
  broker,     \* external: each child order as the broker has it
  sends,      \* history: how often each child was sent to the broker
  purged,     \* history: orders whose reservation lapsed and was deleted
  undercut,   \* history: orders another process cancelled or released
  faults,     \* crashes and lost answers so far
  calls       \* calls of execute_many so far

admission == <<reserved, lapsed, committed, purged>>
vars == <<row, reserved, lapsed, committed, worker, broker, sends, purged,
          undercut, faults, calls>>

-----------------------------------------------------------------------------

ChildrenOf(o) == {o} \X (1..Slices[o])
Children == UNION {ChildrenOf(o) : o \in Orders}
Ids == {<<o, 0>> : o \in Orders} \cup Children
Parent(o) == <<o, 0>>

Requested(id) ==
  IF id[2] = 0 THEN Quantity ELSE Quantity \div Slices[id[1]]

\* A deal's id is its number under its child; in the parent's ledger the
\* child's id comes before it.
Deals == [child : Children, no : 1..Quantity, qty : 1..Quantity]

Total(ds) == SumFunctionOnSet([d \in ds |-> d.qty], ds)

Row == [state : {"SUBMITTING", "UNKNOWN", "WORKING", "PARTIALLY_FILLED",
                 "FILLED", "CANCELLED"},
        filled : 0..Quantity,  \* filled_quantity
        deals : SUBSET Deals,  \* execution_recovery_fills
        complete : BOOLEAN]    \* fill_ledger_complete

\* No row of this id in the table.
NoRow == [state |-> "ABSENT"]

NewRow == [state |-> "SUBMITTING", filled |-> 0, deals |-> {},
           complete |-> TRUE]

\* The transitions _update allows between the states used here.
Moves == [SUBMITTING |-> {"SUBMITTING", "WORKING", "UNKNOWN", "CANCELLED"},
          UNKNOWN |-> {"UNKNOWN", "WORKING", "PARTIALLY_FILLED", "FILLED",
                       "CANCELLED"},
          WORKING |-> {"WORKING", "UNKNOWN", "PARTIALLY_FILLED", "FILLED",
                       "CANCELLED"},
          PARTIALLY_FILLED |-> {"PARTIALLY_FILLED", "UNKNOWN", "FILLED",
                                "CANCELLED"},
          FILLED |-> {"FILLED", "UNKNOWN"},
          CANCELLED |-> {"CANCELLED"}]

CanMove(id, s) == row[id] # NoRow /\ s \in Moves[row[id].state]

\* mark_unknown, mark_working, mark_cancelled; an illegal move raises and
\* changes nothing.
Mark(id, s) ==
  row' = IF CanMove(id, s) THEN [row EXCEPT ![id].state = s] ELSE row

FillState(id, q) == IF q >= Requested(id) THEN "FILLED" ELSE "PARTIALLY_FILLED"

\* A deal the row takes; one it knows already is answered and changes
\* nothing, any other raises.
Fillable(id, d) ==
  /\ row[id].state # "FILLED"
  /\ row[id].filled + d.qty <= Requested(id)

MarkFill(id, d) ==
  row' = IF d \in row[id].deals \/ ~Fillable(id, d) THEN row
         ELSE [row EXCEPT
                 ![id].state = FillState(id, row[id].filled + d.qty),
                 ![id].filled = @ + d.qty, ![id].deals = @ \cup {d}]

FillRaises(id, d) == d \notin row[id].deals /\ ~Fillable(id, d)

\* unresolved_records
Unresolved(id) ==
  /\ row[id] # NoRow
  /\ \/ row[id].state \in {"SUBMITTING", "UNKNOWN", "WORKING",
                           "PARTIALLY_FILLED"}
     \/ row[id].state = "FILLED" /\ ~row[id].complete

-----------------------------------------------------------------------------

\* pc: in execute, "check", "reserve", "begin", "route"; then for child i
\* "journal", "send", "unknown" (its call raised), "working", "deal", "fill"
\* (the child's row), "total" (the parent's), "observe"; then "finish" and
\* "commit".  "look", "cancel" and "release" undo an attempt that sent
\* nothing.
WorkerType ==
  [pc : {"idle", "check", "reserve", "begin", "route", "journal", "send",
         "unknown", "working", "deal", "fill", "total", "observe", "finish",
         "commit", "look", "cancel", "release"},
   todo : Seq(Orders),            \* what is left of execute_many's batch
   i : Nat,                       \* the child
   price : Prices \cup {0},
   filled : 0..Quantity,          \* what the OMS of this process counts
   deal : Deals \cup {None},
   refused : BOOLEAN,             \* the order had a row already
   unmatched : BOOLEAN]           \* a child did not reconcile

Idle == [pc |-> "idle", todo |-> <<>>, i |-> 0, price |-> 0, filled |-> 0,
         deal |-> None, refused |-> FALSE, unmatched |-> FALSE]

BrokerOrder == [open : BOOLEAN, deals : SUBSET Deals]

ASSUME NullAssumption == None \notin BrokerOrder

TypeOK ==
  /\ row \in [Ids -> Row \cup {NoRow}]
  /\ reserved \in [Orders -> Nat] /\ committed \in [Orders -> Nat]
  /\ lapsed \subseteq Orders /\ purged \subseteq Orders
  /\ undercut \subseteq Orders
  /\ worker \in [Workers -> WorkerType]
  /\ broker \in [Children -> BrokerOrder \cup {None}]
  /\ sends \in [Children -> Nat] /\ faults \in 0..MaxFaults
  /\ calls \in 0..MaxCalls

Init ==
  /\ row = [id \in Ids |-> NoRow]
  /\ reserved = [o \in Orders |-> 0] /\ committed = [o \in Orders |-> 0]
  /\ lapsed = {} /\ purged = {} /\ undercut = {}
  /\ worker = [w \in Workers |-> Idle]
  /\ broker = [c \in Children |-> None]
  /\ sends = [c \in Children |-> 0] /\ faults = 0 /\ calls = 0

Current(w) == Head(worker[w].todo)
Child(w) == <<Current(w), worker[w].i>>

\* From its first own row to its end, a process owns the order it executes.
Owns(w, o) ==
  /\ worker[w].pc \notin {"idle", "check", "reserve", "begin"}
  /\ ~worker[w].refused /\ Current(w) = o

At(w, pc) == worker[w].pc = pc
Goto(w, pc) == worker' = [worker EXCEPT ![w].pc = pc]

\* The exception leaves execute and, with it, the batch.
Raise(w) == worker' = [worker EXCEPT ![w] = Idle]

world == <<broker, sends>>
histories == <<purged, undercut, faults, calls>>

-----------------------------------------------------------------------------
(* The admission ledger *)

Notional == Quantity  \* at the reference price
Held == SumFunctionOnSet(reserved, Orders)
Exposure == SumFunctionOnSet(committed, Orders)

Purge == [o \in Orders |-> IF o \in lapsed THEN 0 ELSE reserved[o]]

\* Faulty variant: committed exposure is left out of the capacity.
ReserveUncommitted(w) ==
  LET o == Current(w)
      fits == SumFunctionOnSet(Purge, Orders) + Notional <= Limit IN
  /\ At(w, "reserve")
  /\ \/ /\ Purge[o] # 0 \/ fits
        /\ reserved' = [Purge EXCEPT ![o] = IF @ # 0 THEN @ ELSE Notional]
        /\ lapsed' = {} /\ purged' = purged \cup lapsed
        /\ Goto(w, "begin")
     \/ /\ Purge[o] = 0 /\ ~fits
        /\ Raise(w)
        /\ UNCHANGED <<reserved, lapsed, purged>>
  /\ UNCHANGED <<row, committed, world, undercut, faults, calls>>

\* reserve: lapsed rows are deleted first; a row of the same order is
\* returned as it is; without capacity the transaction is rolled back.
Reserve(w) ==
  LET o == Current(w)
      fits == Exposure + SumFunctionOnSet(Purge, Orders) + Notional <= Limit IN
  /\ At(w, "reserve")
  /\ \/ /\ Purge[o] # 0 \/ fits
        /\ reserved' = [Purge EXCEPT ![o] = IF @ # 0 THEN @ ELSE Notional]
        /\ lapsed' = {} /\ purged' = purged \cup lapsed
        /\ Goto(w, "begin")
     \/ /\ Purge[o] = 0 /\ ~fits
        /\ Raise(w)
        /\ UNCHANGED <<reserved, lapsed, purged>>
  /\ UNCHANGED <<row, committed, world, undercut, faults, calls>>

\* commit: the row must still be there, and hold what was filled.
Commit(w) ==
  LET o == Current(w)
      cost == worker[w].filled * worker[w].price IN
  /\ At(w, "commit")
  /\ \/ /\ reserved[o] # 0 /\ cost <= reserved[o]
        /\ committed' = [committed EXCEPT ![o] = @ + cost]
        /\ reserved' = [reserved EXCEPT ![o] = 0]
        /\ lapsed' = lapsed \ {o}
        /\ worker' = [worker EXCEPT ![w] =
             IF Len(@.todo) = 1 THEN Idle
             ELSE [Idle EXCEPT !.pc = "check", !.todo = Tail(worker[w].todo)]]
     \/ /\ reserved[o] = 0 \/ cost > reserved[o]
        /\ Raise(w)
        /\ UNCHANGED <<committed, reserved, lapsed>>
  /\ UNCHANGED <<row, world, histories>>

\* The reservation's thirty seconds pass.
Lapse(o) ==
  /\ reserved[o] # 0 /\ o \notin lapsed
  /\ lapsed' = lapsed \cup {o}
  /\ UNCHANGED <<row, reserved, committed, worker, world, histories>>

-----------------------------------------------------------------------------
(* The coordinator *)

\* execute_many takes a batch; execute alone is a batch of one.
ExecuteMany(w, batch) ==
  /\ At(w, "idle")
  /\ calls < MaxCalls /\ calls' = calls + 1
  /\ worker' = [worker EXCEPT ![w].pc = "check", ![w].todo = batch]
  /\ UNCHANGED <<row, admission, world, undercut, faults>>

\* The checks before the reservation: a quote, the gates, no unresolved row.
Check(w, price) ==
  /\ At(w, "check")
  /\ IF \E id \in Ids : Unresolved(id) THEN Raise(w)
     ELSE worker' = [worker EXCEPT ![w].pc = "reserve", ![w].price = price]
  /\ UNCHANGED <<row, admission, world, undercut, faults, calls>>

\* begin_submission of the parent, with reject_existing.
Begin(w) ==
  LET id == Parent(Current(w)) IN
  /\ At(w, "begin")
  /\ \/ /\ row[id] = NoRow
        /\ row' = [row EXCEPT ![id] = NewRow]
        /\ Goto(w, "route")
     \/ /\ row[id] # NoRow
        /\ worker' = [worker EXCEPT ![w].pc = "look", ![w].refused = TRUE]
        /\ UNCHANGED row
  /\ UNCHANGED <<admission, world, undercut, faults, calls>>

\* The OMS, the router and the schedule, all in memory; any may raise.
Route(w) ==
  /\ At(w, "route")
  /\ \/ worker' = [worker EXCEPT ![w].pc = "journal", ![w].i = 1]
     \/ Goto(w, "look")
  /\ UNCHANGED <<row, admission, world, undercut, faults, calls>>

\* Nothing was sent: a parent still SUBMITTING is cancelled ...
Look(w) ==
  /\ At(w, "look")
  /\ Goto(w, IF row[Parent(Current(w))].state = "SUBMITTING"
             THEN "cancel" ELSE "release")
  /\ UNCHANGED <<row, admission, world, undercut, faults, calls>>

\* ... if it still can be: the move raises otherwise, and nothing is released,
Cancel(w) ==
  LET o == Current(w) IN
  /\ At(w, "cancel")
  /\ Mark(Parent(o), "CANCELLED")
  /\ IF CanMove(Parent(o), "CANCELLED") THEN Goto(w, "release") ELSE Raise(w)
  /\ undercut' = IF worker[w].refused /\ CanMove(Parent(o), "CANCELLED")
                 THEN undercut \cup {o} ELSE undercut
  /\ UNCHANGED <<admission, world, faults, calls>>

\* ... and the order's reservation is released, whoever made it.
Release(w) ==
  LET o == Current(w) IN
  /\ At(w, "release")
  /\ reserved' = [reserved EXCEPT ![o] = 0]
  /\ lapsed' = lapsed \ {o}
  /\ undercut' = IF worker[w].refused /\ reserved[o] # 0
                 THEN undercut \cup {o} ELSE undercut
  /\ Raise(w)
  /\ UNCHANGED <<row, committed, purged, world, faults, calls>>

\* begin_submission of the child, before the broker hears of it.
JournalChild(w) ==
  /\ At(w, "journal")
  /\ row[Child(w)] = NoRow
  /\ row' = [row EXCEPT ![Child(w)] = NewRow]
  /\ Goto(w, "send")
  /\ UNCHANGED <<admission, world, undercut, faults, calls>>

\* Faulty variant: a call that raised is made again.
SendRetrying(w) ==
  LET c == Child(w) IN
  /\ At(w, "send")
  /\ sends' = [sends EXCEPT ![c] = @ + 1]
  /\ \/ /\ broker' = [broker EXCEPT ![c] = [open |-> TRUE, deals |-> {}]]
        /\ Goto(w, "working")
        /\ UNCHANGED faults
     \/ /\ faults < MaxFaults /\ faults' = faults + 1
        /\ UNCHANGED <<worker, broker>>
  /\ UNCHANGED <<row, admission, undercut, calls>>

\* venue.submit: accepted and answered, accepted in vain, or not accepted.
Send(w) ==
  LET c == Child(w) IN
  /\ At(w, "send")
  /\ sends' = [sends EXCEPT ![c] = @ + 1]
  /\ \/ /\ broker' = [broker EXCEPT ![c] = [open |-> TRUE, deals |-> {}]]
        /\ Goto(w, "working")
        /\ UNCHANGED faults
     \/ /\ faults < MaxFaults /\ faults' = faults + 1
        /\ broker' = [broker EXCEPT ![c] = [open |-> TRUE, deals |-> {}]]
        /\ Goto(w, "unknown")
     \/ /\ Goto(w, "unknown")
        /\ UNCHANGED <<broker, faults>>
  /\ UNCHANGED <<row, admission, undercut, calls>>

\* Faulty variant: an order whose call raised is taken for cancelled.
MarkChildCancelled(w) ==
  /\ At(w, "unknown")
  /\ Mark(Child(w), "CANCELLED")
  /\ Raise(w)
  /\ UNCHANGED <<admission, world, undercut, faults, calls>>

\* Faulty variant: the cleanup releases the reservation after a call, too.
MarkChildUnknownReleasing(w) ==
  /\ At(w, "unknown")
  /\ Mark(Child(w), "UNKNOWN")
  /\ Raise(w)
  /\ reserved' = [reserved EXCEPT ![Current(w)] = 0]
  /\ lapsed' = lapsed \ {Current(w)}
  /\ UNCHANGED <<committed, purged, world, undercut, faults, calls>>

MarkChildUnknown(w) ==
  /\ At(w, "unknown")
  /\ Mark(Child(w), "UNKNOWN")
  /\ Raise(w)
  /\ UNCHANGED <<admission, world, undercut, faults, calls>>

MarkChildWorking(w) ==
  /\ At(w, "working")
  /\ Mark(Child(w), "WORKING")
  /\ Goto(w, "deal")
  /\ UNCHANGED <<admission, world, undercut, faults, calls>>

Dealt(c) == Total(broker[c].deals)

\* venue.fill answers with a deal of the order, or raises.
Deal(w) ==
  LET c == Child(w) IN
  /\ At(w, "deal")
  /\ \/ \E d \in broker[c].deals :
          worker' = [worker EXCEPT ![w].pc = "fill", ![w].deal = d]
     \/ Raise(w)
  /\ UNCHANGED <<row, admission, world, undercut, faults, calls>>

FillChild(w) ==
  /\ At(w, "fill")
  /\ MarkFill(Child(w), worker[w].deal)
  /\ IF FillRaises(Child(w), worker[w].deal) THEN Raise(w) ELSE Goto(w, "total")
  /\ UNCHANGED <<admission, world, undercut, faults, calls>>

\* The parent's row, and then the OMS of this process.  The OMS knows a deal
\* by the venue's id alone: where the venue uses one again for a later child,
\* it takes the deal for a repetition and counts nothing.
FillParent(w) ==
  LET id == Parent(Current(w))
      d == worker[w].deal IN
  /\ At(w, "total")
  /\ MarkFill(id, d)
  /\ IF FillRaises(id, d) THEN Raise(w)
     ELSE \E q \in {d.qty} \cup (IF worker[w].filled > 0 THEN {0} ELSE {}) :
            worker' = [worker EXCEPT ![w].pc = "observe", ![w].filled = @ + q,
                                     ![w].deal = None]
  /\ UNCHANGED <<admission, world, undercut, faults, calls>>

\* venue.reconcile: the child must be filled in full there.
Observe(w) ==
  LET c == Child(w)
      next == IF worker[w].i < Slices[Current(w)] THEN "journal" ELSE "finish" IN
  /\ At(w, "observe")
  /\ \/ \E known \in BOOLEAN :
          worker' = [worker EXCEPT ![w].pc = next,
            ![w].i = IF next = "journal" THEN @ + 1 ELSE @,
            ![w].unmatched = @ \/ ~known \/ Dealt(c) # Requested(c)]
     \/ Raise(w)
  /\ UNCHANGED <<row, admission, world, undercut, faults, calls>>

ChildrenAgree(w) ==
  LET cs == ChildrenOf(Current(w)) IN
  /\ \A c \in cs : row[c] # NoRow /\ row[c].state = "FILLED"
  /\ SumFunctionOnSet([c \in cs |-> row[c].filled], cs) = worker[w].filled

\* Unmatched, or other in the journal than in the OMS: the parent is UNKNOWN.
Finish(w) ==
  LET id == Parent(Current(w)) IN
  /\ At(w, "finish")
  /\ \/ /\ worker[w].unmatched \/ ~ChildrenAgree(w)
        /\ Mark(id, "UNKNOWN")
        /\ Raise(w)
     \/ /\ ~worker[w].unmatched /\ ChildrenAgree(w)
        /\ Goto(w, "commit")
        /\ UNCHANGED row
  /\ UNCHANGED <<admission, world, undercut, faults, calls>>

Crash(w) ==
  /\ ~At(w, "idle")
  /\ faults < MaxFaults /\ faults' = faults + 1
  /\ Raise(w)
  /\ UNCHANGED <<row, admission, world, undercut, calls>>

-----------------------------------------------------------------------------
(* External: the broker, and who resolves what the coordinators left *)

BrokerDeals(c) ==
  /\ broker[c] # None /\ broker[c].open
  /\ \E q \in 1..(Requested(c) - Dealt(c)) :
       broker' = [broker EXCEPT
         ![c].deals = @ \cup {[child |-> c, no |-> Cardinality(@) + 1, qty |-> q]},
         ![c].open = Dealt(c) + q < Requested(c)]
  /\ UNCHANGED <<row, admission, worker, sends, undercut, faults, calls>>

BrokerCancels(c) ==
  /\ broker[c] # None /\ broker[c].open
  /\ broker' = [broker EXCEPT ![c].open = FALSE]
  /\ UNCHANGED <<row, admission, worker, sends, undercut, faults, calls>>

\* An unresolved order whose process is gone is marked UNKNOWN ...
MarkUnknown(id) ==
  /\ Unresolved(id) /\ row[id].state # "UNKNOWN"
  /\ \A w \in Workers : ~Owns(w, id[1])
  /\ Mark(id, "UNKNOWN")
  /\ UNCHANGED <<admission, worker, world, undercut, faults, calls>>

\* What the broker has of an order, child or parent.
Has(id) == {c \in (IF id[2] = 0 THEN ChildrenOf(id[1]) ELSE {id}) :
              broker[c] # None}
History(id) == UNION {broker[c].deals : c \in Has(id)}
OpenThere(id) == \E c \in Has(id) : broker[c].open

\* Faulty variant: the recovery keeps the quantity the row had.
RecoverStatus(id, withDeals) ==
  LET q == Total(History(id)) IN
  /\ row[id] # NoRow /\ row[id].state = "UNKNOWN"
  /\ \A w \in Workers : ~Owns(w, id[1])
  /\ row' = [row EXCEPT ![id] =
       [state |-> IF q = Requested(id) THEN "FILLED"
                  ELSE IF ~OpenThere(id) THEN "CANCELLED"
                  ELSE IF q > 0 THEN "PARTIALLY_FILLED" ELSE "WORKING",
        filled |-> @.filled,
        deals |-> IF withDeals THEN History(id) ELSE @.deals,
        complete |-> withDeals \/ q = 0 \/ (@.complete /\ Total(@.deals) = q)]]
  /\ UNCHANGED <<admission, worker, world, undercut, faults, calls>>

\* ... and recovered to what the broker says, with its deals or without.
Recover(id, withDeals) ==
  LET q == Total(History(id)) IN
  /\ row[id] # NoRow /\ row[id].state = "UNKNOWN"
  /\ \A w \in Workers : ~Owns(w, id[1])
  /\ row' = [row EXCEPT ![id] =
       [state |-> IF q = Requested(id) THEN "FILLED"
                  ELSE IF ~OpenThere(id) THEN "CANCELLED"
                  ELSE IF q > 0 THEN "PARTIALLY_FILLED" ELSE "WORKING",
        filled |-> q,
        deals |-> IF withDeals THEN History(id) ELSE @.deals,
        complete |-> withDeals \/ q = 0 \/ (@.complete /\ Total(@.deals) = q)]]
  /\ UNCHANGED <<admission, worker, world, undercut, faults, calls>>

-----------------------------------------------------------------------------

Batches == {<<o>> : o \in Orders} \cup
           ({<<o, p>> : o \in Orders, p \in Orders} \ {<<o, o>> : o \in Orders})

Step(w) ==
  \/ \E batch \in Batches : ExecuteMany(w, batch)
  \/ \E price \in Prices : Check(w, price)
  \/ Reserve(w) \/ Begin(w) \/ Route(w) \/ Look(w) \/ Cancel(w) \/ Release(w)
  \/ JournalChild(w) \/ Send(w) \/ MarkChildUnknown(w) \/ MarkChildWorking(w)
  \/ Deal(w) \/ FillChild(w) \/ FillParent(w) \/ Observe(w) \/ Finish(w)
  \/ Commit(w) \/ Crash(w)

Next ==
  \/ \E w \in Workers : Step(w)
  \/ \E o \in Orders : Lapse(o)
  \/ \E c \in Children : BrokerDeals(c) \/ BrokerCancels(c)
  \/ \E id \in Ids : MarkUnknown(id) \/ \E b \in BOOLEAN : Recover(id, b)

Spec == Init /\ [][Next]_vars

-----------------------------------------------------------------------------

\* No child order is sent to the broker twice, whatever is retried, lost or
\* restarted, and by whichever process (begin_submission, reject_existing).
SentOnce == \A c \in Children : sends[c] <= 1

\* The shared ledger never promises more than the portfolio's limit,
\* reservations that lapsed but still stand included.
AdmissionIsBounded == Held + Exposure <= Limit

\* An order the broker has is in the journal, and once the process that sent
\* it is gone it blocks new orders until the journal says what was dealt.
BrokerOrdersAreAccounted ==
  \A c \in Children : broker[c] # None =>
    /\ row[c] # NoRow
    /\ \/ \E w \in Workers : Owns(w, c[1])
       \/ Unresolved(c)
       \/ ~broker[c].open /\ row[c].filled = Dealt(c)

\* An order nobody works on and nothing is unresolved of has the broker's
\* deals in its parent row, unless another process cancelled it meanwhile.
ParentsAgree ==
  \A o \in Orders :
    \/ row[Parent(o)] = NoRow \/ o \in undercut
    \/ \E w \in Workers : Owns(w, o)
    \/ \E id \in {Parent(o)} \cup ChildrenOf(o) : Unresolved(id)
    \/ row[Parent(o)].filled = Total(History(Parent(o)))

\* What was dealt counts against the limit, reserved or committed, until its
\* reservation lapses or another process releases it.
DealsAreCounted ==
  \A o \in Orders : History(Parent(o)) # {} =>
    reserved[o] + committed[o] > 0 \/ o \in purged \cup undercut

=============================================================================
