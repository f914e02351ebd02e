------------------------ MODULE ReferenceExecutionProofs ------------------------
(***************************************************************************)
(* The reference execution stack, for any number of processes, orders and  *)
(* children, and any prices and limit.  Eight invariants, each proved from *)
(* those before it:                                                        *)
(*   JournalInv    a child is journaled before it is sent, and sent once   *)
(*   BrokerInv     the broker never deals more than was requested          *)
(*   WorkInv       what a process knows at each place of its code          *)
(*   AdmissionInv  reserved and committed together stay within the limit   *)
(*   OneOwner      an order that was begun has at most one owner, ever     *)
(*   CountedInv    what is at the broker counts against the limit          *)
(*   AccountInv    a child's row that is final says what the broker dealt  *)
(*   ParentInv     the same of the parent's row                            *)
(***************************************************************************)
EXTENDS ReferenceExecution, FiniteSetTheorems, SequenceTheorems, TLAPS

States == {"SUBMITTING", "UNKNOWN", "WORKING", "PARTIALLY_FILLED", "FILLED", "CANCELLED"}

Fields == {"pc", "todo", "i", "price", "filled", "deal", "refused", "unmatched"}

WorkersTyped ==
  /\ DOMAIN worker = Workers
  /\ \A w \in Workers : worker[w] = [f \in Fields |-> worker[w][f]]

RowsTyped ==
  /\ DOMAIN row = Ids
  /\ \A id \in Ids :
       /\ "state" \in DOMAIN row[id]
       /\ row[id] = [f \in DOMAIN row[id] |-> row[id][f]]
       /\ row[id] # NoRow => row[id].state \in States

(***************************************************************************)
(* The strengthening of SentOnce.  A child the broker was called for has a *)
(* row; a process about to call the broker has just written the row of a   *)
(* child never sent, and is the only one about to send it.                 *)
(***************************************************************************)
Sending(w, c) == worker[w].pc = "send" /\ Child(w) = c

JournaledFirst ==
  \A c \in Children :
    /\ sends[c] > 0 => row[c] # NoRow
    /\ \A w \in Workers : Sending(w, c) => row[c] # NoRow /\ sends[c] = 0
    /\ \A v, w \in Workers : Sending(v, c) /\ Sending(w, c) => v = w

JournalInv ==
  /\ WorkersTyped /\ RowsTyped
  /\ sends \in [Children -> Nat]
  /\ JournaledFirst /\ SentOnce

-----------------------------------------------------------------------------

LEMMA JournalInit == Init => JournalInv
<1> SUFFICES ASSUME Init PROVE JournalInv
  OBVIOUS
<1>1. WorkersTyped
  BY DEF Init, WorkersTyped, Idle, Fields
<1>2. RowsTyped
  BY DEF Init, RowsTyped, NoRow
<1>3. sends \in [Children -> Nat] /\ \A c \in Children : sends[c] = 0
  BY DEF Init
<1>4. \A w \in Workers : worker[w].pc = "idle"
  BY DEF Init, Idle
<1>5. JournaledFirst /\ SentOnce
  BY <1>3, <1>4 DEF JournaledFirst, SentOnce, Sending
<1> QED BY <1>1, <1>2, <1>3, <1>5 DEF JournalInv

(***************************************************************************)
(* Rows that exist stay, whatever a call makes of them.                    *)
(***************************************************************************)
RowsStay == RowsTyped' /\ \A id \in Ids : row[id] # NoRow => row'[id] # NoRow

LEMMA WrittenRowStays ==
  ASSUME RowsTyped, NEW id, NEW r,
         "state" \in DOMAIN r, r = [f \in DOMAIN r |-> r[f]], r.state \in States,
         row' = [row EXCEPT ![id] = r]
  PROVE  RowsStay
<1>1. r # NoRow
  BY DEF NoRow, States
<1> QED BY <1>1 DEF RowsStay, RowsTyped

LEMMA MarkKeepsRows ==
  ASSUME RowsTyped, NEW id, NEW s \in States, Mark(id, s)
  PROVE  RowsStay
<1>1. CASE row' = row
  BY <1>1 DEF RowsStay, RowsTyped
<1>2. CASE row' = [row EXCEPT ![id].state = s] /\ id \in Ids
  <2> DEFINE r == [row[id] EXCEPT !.state = s]
  <2>1. row' = [row EXCEPT ![id] = r]
    BY <1>2
  <2>2. "state" \in DOMAIN r /\ r = [f \in DOMAIN r |-> r[f]] /\ r.state = s
    BY <1>2 DEF RowsTyped
  <2> HIDE DEF r
  <2> QED BY <2>1, <2>2, WrittenRowStays
<1>3. CASE row' = [row EXCEPT ![id].state = s] /\ id \notin Ids
  BY <1>3 DEF RowsStay, RowsTyped
<1> QED BY <1>1, <1>2, <1>3 DEF Mark

LEMMA FillKeepsRows ==
  ASSUME RowsTyped, NEW id, NEW d, MarkFill(id, d)
  PROVE  RowsStay
<1> DEFINE s == FillState(id, row[id].filled + d.qty)
           r == [row[id] EXCEPT !.state = s, !.filled = @ + d.qty, !.deals = @ \cup {d}]
<1>1. CASE row' = row
  BY <1>1 DEF RowsStay, RowsTyped
<1>2. CASE row' # row /\ id \in Ids
  <2>1. row' = [row EXCEPT ![id] = r]
    BY <1>2 DEF MarkFill
  <2>2. s \in States
    BY DEF FillState, States
  <2> HIDE DEF s
  <2>3. "state" \in DOMAIN r /\ r = [f \in DOMAIN r |-> r[f]] /\ r.state = s
    BY <1>2 DEF RowsTyped
  <2> HIDE DEF r
  <2> QED BY <2>1, <2>2, <2>3, WrittenRowStays
<1>3. CASE row' # row /\ id \notin Ids
  BY <1>3 DEF MarkFill, RowsStay, RowsTyped
<1> QED BY <1>1, <1>2, <1>3

(***************************************************************************)
(* A process that does not stand before the broker's call, and sent        *)
(* nothing in this step, disturbs nothing.                                 *)
(***************************************************************************)
Moved(w) ==
  /\ DOMAIN worker' = Workers
  /\ \A v \in Workers : v # w => worker'[v] = worker[v]
  /\ worker'[w] = [f \in Fields |-> worker'[w][f]]
  /\ worker'[w].pc # "send"

LEMMA Harmless ==
  ASSUME JournalInv, NEW w \in Workers, Moved(w), RowsStay, UNCHANGED sends
  PROVE  JournalInv'
<1>1. WorkersTyped'
  BY DEF Moved, JournalInv, WorkersTyped
<1>2. \A v \in Workers, c \in Children : Sending(v, c)' => Sending(v, c)
  BY DEF Moved, Sending, Child, Current
<1>3. Children \subseteq Ids
  BY DEF Ids
<1>4. JournaledFirst' /\ SentOnce'
  BY <1>2, <1>3 DEF JournalInv, JournaledFirst, SentOnce, RowsStay
<1> QED BY <1>1, <1>4 DEF JournalInv, RowsStay

LEMMA NobodyMoved ==
  ASSUME JournalInv, RowsStay, UNCHANGED <<worker, sends>>
  PROVE  JournalInv'
<1>1. \A v \in Workers, c \in Children : Sending(v, c)' <=> Sending(v, c)
  BY DEF Sending, Child, Current
<1>2. Children \subseteq Ids
  BY DEF Ids
<1>3. JournaledFirst' /\ SentOnce'
  BY <1>1, <1>2 DEF JournalInv, JournaledFirst, SentOnce, RowsStay
<1> QED BY <1>3 DEF JournalInv, WorkersTyped, RowsStay

LEMMA RowsUnchanged ==
  ASSUME RowsTyped, UNCHANGED row
  PROVE  RowsStay
BY DEF RowsStay, RowsTyped

LEMMA GoneTo ==
  ASSUME WorkersTyped, NEW w \in Workers,
         Raise(w) \/ \E pc \in {"check", "reserve", "begin", "route", "journal", "unknown",
           "working", "deal", "fill", "total", "observe", "finish", "commit", "look",
           "cancel", "release"} : Goto(w, pc)
  PROVE  Moved(w)
<1>1. CASE Raise(w)
  BY <1>1 DEF Raise, Moved, WorkersTyped, Idle, Fields
<1>2. ASSUME NEW pc, pc # "send", Goto(w, pc) PROVE Moved(w)
  <2> DEFINE r == [worker[w] EXCEPT !.pc = pc]
  <2>1. worker' = [worker EXCEPT ![w] = r]
    BY <1>2 DEF Goto
  <2>2. r = [f \in Fields |-> r[f]] /\ r.pc = pc
    BY DEF WorkersTyped, Fields
  <2> HIDE DEF r
  <2> QED BY <1>2, <2>1, <2>2 DEF Moved, WorkersTyped
<1> QED BY <1>1, <1>2

-----------------------------------------------------------------------------
(* The steps of a process                                                   *)

\* Steps that leave the journal alone.
LEMMA QuietSteps ==
  ASSUME JournalInv, NEW w \in Workers,
         \/ \E batch \in Batches : ExecuteMany(w, batch)
         \/ \E price \in Prices : Check(w, price)
         \/ Reserve(w) \/ Route(w) \/ Look(w) \/ Release(w) \/ Deal(w) \/ Observe(w)
         \/ Commit(w) \/ Crash(w)
  PROVE  JournalInv'
<1> USE DEF JournalInv
<1>1. UNCHANGED <<row, sends>>
  BY DEF ExecuteMany, Check, Reserve, Route, Look, Release, Deal, Observe, Commit, Crash,
         world, admission
<1>2. ASSUME NEW batch \in Batches, ExecuteMany(w, batch) PROVE Moved(w)
  BY <1>2 DEF ExecuteMany, Moved, WorkersTyped, Fields
<1>3. ASSUME NEW price \in Prices, Check(w, price) PROVE Moved(w)
  <2>1. CASE Raise(w)
    BY <2>1, GoneTo
  <2>2. CASE worker' = [worker EXCEPT ![w].pc = "reserve", ![w].price = price]
    BY <2>2 DEF Moved, WorkersTyped, Fields
  <2> QED BY <1>3, <2>1, <2>2 DEF Check
<1>4. CASE Reserve(w)
  <2>1. Raise(w) \/ Goto(w, "begin")
    BY <1>4 DEF Reserve
  <2> QED BY <1>1, <2>1, GoneTo, RowsUnchanged, Harmless
<1>5. CASE Route(w)
  <2>1. CASE Goto(w, "look")
    BY <1>1, <2>1, GoneTo, RowsUnchanged, Harmless
  <2>2. CASE worker' = [worker EXCEPT ![w].pc = "journal", ![w].i = 1]
    <3>1. Moved(w)
      BY <2>2 DEF Moved, WorkersTyped, Fields
    <3> QED BY <1>1, <3>1, RowsUnchanged, Harmless
  <2> QED BY <1>5, <2>1, <2>2 DEF Route
<1>6. CASE Look(w) \/ Release(w) \/ Crash(w)
  <2>1. Raise(w) \/ Goto(w, "cancel") \/ Goto(w, "release")
    BY <1>6 DEF Look, Release, Crash
  <2> QED BY <1>1, <2>1, GoneTo, RowsUnchanged, Harmless
<1>7. CASE Deal(w)
  <2>1. CASE Raise(w)
    BY <1>1, <2>1, GoneTo, RowsUnchanged, Harmless
  <2>2. ASSUME NEW d, worker' = [worker EXCEPT ![w].pc = "fill", ![w].deal = d]
        PROVE  Moved(w)
    BY <2>2 DEF Moved, WorkersTyped, Fields
  <2> QED BY <1>1, <1>7, <2>1, <2>2, RowsUnchanged, Harmless DEF Deal
<1>8. CASE Observe(w)
  <2>1. CASE Raise(w)
    BY <1>1, <2>1, GoneTo, RowsUnchanged, Harmless
  <2>2. ASSUME NEW pc \in {"journal", "finish"}, NEW i, NEW u,
               worker' = [worker EXCEPT ![w].pc = pc, ![w].i = i, ![w].unmatched = u]
        PROVE  Moved(w)
    BY <2>2 DEF Moved, WorkersTyped, Fields
  <2>3. Raise(w) \/ \E pc \in {"journal", "finish"} : \E i, u :
           worker' = [worker EXCEPT ![w].pc = pc, ![w].i = i, ![w].unmatched = u]
    BY <1>8 DEF Observe
  <2> QED BY <1>1, <2>1, <2>2, <2>3, RowsUnchanged, Harmless
<1>9. CASE Commit(w)
  <2>1. CASE Raise(w)
    BY <1>1, <2>1, GoneTo, RowsUnchanged, Harmless
  <2>2. CASE ~Raise(w)
    <3> DEFINE next == [Idle EXCEPT !.pc = "check", !.todo = Tail(worker[w].todo)]
    <3>1. \/ worker' = [worker EXCEPT ![w] = Idle]
          \/ worker' = [worker EXCEPT ![w] = next]
      BY <1>9, <2>2 DEF Commit
    <3>2. /\ Idle = [f \in Fields |-> Idle[f]] /\ Idle.pc # "send"
          /\ next = [f \in Fields |-> next[f]] /\ next.pc # "send"
      BY DEF Idle, Fields
    <3> HIDE DEF next
    <3>3. Moved(w)
      BY <3>1, <3>2 DEF Moved, WorkersTyped
    <3> QED BY <1>1, <3>3, RowsUnchanged, Harmless
  <2> QED BY <2>1, <2>2
<1> QED
  BY <1>1, <1>2, <1>3, <1>4, <1>5, <1>6, <1>7, <1>8, <1>9, RowsUnchanged, Harmless

\* Steps that write a row, and are not about to call the broker.
LEMMA JournalSteps ==
  ASSUME JournalInv, NEW w \in Workers,
         \/ Begin(w) \/ Cancel(w) \/ MarkChildUnknown(w) \/ MarkChildWorking(w)
         \/ FillChild(w) \/ FillParent(w) \/ Finish(w)
  PROVE  JournalInv'
<1> USE DEF JournalInv
<1>1. UNCHANGED sends
  BY DEF Begin, Cancel, MarkChildUnknown, MarkChildWorking, FillChild, FillParent, Finish, world
<1>2. {"CANCELLED", "UNKNOWN", "WORKING"} \subseteq States
  BY DEF States
<1>3. CASE Begin(w)
  <2> DEFINE id == Parent(Current(w))
  <2>1. CASE row' = [row EXCEPT ![id] = NewRow] /\ Goto(w, "route")
    <3>1. "state" \in DOMAIN NewRow /\ NewRow = [f \in DOMAIN NewRow |-> NewRow[f]]
          /\ NewRow.state \in States
      BY DEF NewRow, States
    <3>2. RowsStay
      BY <2>1, <3>1, WrittenRowStays
    <3> QED BY <1>1, <2>1, <3>2, GoneTo, Harmless
  <2>2. CASE /\ UNCHANGED row
             /\ worker' = [worker EXCEPT ![w].pc = "look", ![w].refused = TRUE]
    <3>1. Moved(w)
      BY <2>2 DEF Moved, WorkersTyped, Fields
    <3> QED BY <1>1, <2>2, <3>1, RowsUnchanged, Harmless
  <2> QED BY <1>3, <2>1, <2>2 DEF Begin
<1>4. CASE Cancel(w)
  <2>1. RowsStay
    BY <1>2, <1>4, MarkKeepsRows DEF Cancel
  <2>2. Goto(w, "release") \/ Raise(w)
    BY <1>4 DEF Cancel
  <2> QED BY <1>1, <2>1, <2>2, GoneTo, Harmless
<1>5. CASE MarkChildUnknown(w) \/ MarkChildWorking(w)
  <2>1. RowsStay
    BY <1>2, <1>5, MarkKeepsRows DEF MarkChildUnknown, MarkChildWorking
  <2>2. Raise(w) \/ Goto(w, "deal")
    BY <1>5 DEF MarkChildUnknown, MarkChildWorking
  <2> QED BY <1>1, <2>1, <2>2, GoneTo, Harmless
<1>6. CASE FillChild(w)
  <2>1. RowsStay
    BY <1>6, FillKeepsRows DEF FillChild
  <2>2. Raise(w) \/ Goto(w, "total")
    BY <1>6 DEF FillChild
  <2> QED BY <1>1, <2>1, <2>2, GoneTo, Harmless
<1>7. CASE FillParent(w)
  <2>1. RowsStay
    BY <1>7, FillKeepsRows DEF FillParent
  <2>2. CASE Raise(w)
    BY <1>1, <2>1, <2>2, GoneTo, Harmless
  <2>3. CASE ~Raise(w)
    <3>1. PICK q : worker' = [worker EXCEPT ![w].pc = "observe", ![w].filled = @ + q,
                                            ![w].deal = None]
      BY <1>7, <2>3 DEF FillParent
    <3>2. Moved(w)
      BY <3>1 DEF Moved, WorkersTyped, Fields
    <3> QED BY <1>1, <2>1, <3>2, Harmless
  <2> QED BY <2>2, <2>3
<1>8. CASE Finish(w)
  <2>1. RowsStay
    BY <1>2, <1>8, MarkKeepsRows, RowsUnchanged DEF Finish
  <2>2. Raise(w) \/ Goto(w, "commit")
    BY <1>8 DEF Finish
  <2> QED BY <1>1, <2>1, <2>2, GoneTo, Harmless
<1> QED BY <1>3, <1>4, <1>5, <1>6, <1>7, <1>8

(***************************************************************************)
(* The two steps the theorem is about: the child's row is written, which   *)
(* only one process can do, and the broker is called.                      *)
(***************************************************************************)
LEMMA JournalChildStep ==
  ASSUME JournalInv, NEW w \in Workers, JournalChild(w)
  PROVE  JournalInv'
<1> USE DEF JournalInv
<1> DEFINE c == Child(w)
<1>1. /\ row[c] = NoRow /\ row' = [row EXCEPT ![c] = NewRow] /\ UNCHANGED sends
      /\ worker' = [worker EXCEPT ![w].pc = "send"]
  BY DEF JournalChild, Goto, world
<1>2. "state" \in DOMAIN NewRow /\ NewRow = [f \in DOMAIN NewRow |-> NewRow[f]]
      /\ NewRow.state \in States
  BY DEF NewRow, States
<1>3. RowsStay
  BY <1>1, <1>2, WrittenRowStays
<1>4. /\ DOMAIN worker' = Workers
      /\ \A v \in Workers : v # w => worker'[v] = worker[v]
      /\ worker'[w] = [worker[w] EXCEPT !.pc = "send"]
  BY <1>1 DEF WorkersTyped
<1>5. WorkersTyped'
  BY <1>4 DEF WorkersTyped, Fields
<1>6. worker'[w].todo = worker[w].todo /\ worker'[w].i = worker[w].i
  BY <1>4 DEF WorkersTyped, Fields
<1>7. Child(w)' = c
  BY <1>6 DEF Child, Current
<1>8. \A v \in Workers, k \in Children : Sending(v, k)' => Sending(v, k) \/ (v = w /\ k = c)
  BY <1>4, <1>7 DEF Sending, Child, Current
<1>9. c \in Children => row'[c] # NoRow /\ sends[c] = 0
                       /\ \A v \in Workers : ~Sending(v, c)
  <2>1. c \in Children => c \in Ids
    BY DEF Ids
  <2> QED BY <1>1, <2>1 DEF JournaledFirst, RowsTyped, NewRow, NoRow
<1>10. Children \subseteq Ids
  BY DEF Ids
<1>11. JournaledFirst' /\ SentOnce'
  <2> HIDE DEF c
  <2> QED BY <1>1, <1>3, <1>8, <1>9, <1>10 DEF JournaledFirst, SentOnce, RowsStay
<1> QED BY <1>1, <1>3, <1>5, <1>11 DEF RowsStay

LEMMA SendStep ==
  ASSUME JournalInv, NEW w \in Workers, Send(w)
  PROVE  JournalInv'
<1> USE DEF JournalInv
<1> DEFINE c == Child(w)
<1>1. /\ Sending(w, c) /\ UNCHANGED row /\ sends' = [sends EXCEPT ![c] = @ + 1]
      /\ Goto(w, "working") \/ Goto(w, "unknown")
  BY DEF Send, Sending, At
<1>2. Moved(w)
  BY <1>1, GoneTo
<1>3. WorkersTyped'
  BY <1>2 DEF Moved, WorkersTyped
<1>4. /\ sends' \in [Children -> Nat]
      /\ \A k \in Children : k # c => sends'[k] = sends[k]
      /\ c \in Children => sends[c] = 0 /\ sends'[c] = 1 /\ row[c] # NoRow
  <2>1. c \in Children => sends[c] = 0 /\ row[c] # NoRow
    BY <1>1 DEF JournaledFirst
  <2>2. sends \in [Children -> Nat]
    OBVIOUS
  <2>3. sends' = [sends EXCEPT ![c] = @ + 1]
    BY <1>1
  <2> HIDE DEF c
  <2>4. sends' = [k \in Children |-> IF k = c THEN sends[c] + 1 ELSE sends[k]]
    BY <2>2, <2>3
  <2> QED BY <2>1, <2>2, <2>4
<1>5. \A v \in Workers, k \in Children : Sending(v, k)' => Sending(v, k) /\ v # w
  BY <1>2 DEF Moved, Sending, Child, Current
<1>6. \A v \in Workers : c \in Children /\ Sending(v, c) => v = w
  BY <1>1 DEF JournaledFirst
<1>7. JournaledFirst' /\ SentOnce'
  <2> HIDE DEF c
  <2> QED BY <1>1, <1>4, <1>5, <1>6 DEF JournaledFirst, SentOnce
<1> QED BY <1>1, <1>3, <1>4, <1>7 DEF RowsTyped

-----------------------------------------------------------------------------

LEMMA JournalStep == JournalInv /\ [Next]_vars => JournalInv'
<1> SUFFICES ASSUME JournalInv, [Next]_vars PROVE JournalInv'
  OBVIOUS
<1>1. ASSUME NEW w \in Workers, Step(w) PROVE JournalInv'
  BY <1>1, QuietSteps, JournalSteps, JournalChildStep, SendStep DEF Step
<1>2. ASSUME UNCHANGED <<row, worker, sends>> PROVE JournalInv'
  BY <1>2, RowsUnchanged, NobodyMoved DEF JournalInv
<1>3. ASSUME NEW o \in Orders, Lapse(o) PROVE JournalInv'
  BY <1>2, <1>3 DEF Lapse, world
<1>4. ASSUME NEW c \in Children, BrokerDeals(c) \/ BrokerCancels(c) PROVE JournalInv'
  BY <1>2, <1>4 DEF BrokerDeals, BrokerCancels
<1>5. ASSUME NEW id \in Ids, MarkUnknown(id) PROVE JournalInv'
  <2>1. RowsStay
    BY <1>5, MarkKeepsRows DEF MarkUnknown, JournalInv, States
  <2> QED BY <1>5, <2>1, NobodyMoved DEF MarkUnknown, world
<1>6. ASSUME NEW id \in Ids, NEW b \in BOOLEAN, Recover(id, b) PROVE JournalInv'
  <2>1. PICK state \in States : \E filled, deals, complete :
          row' = [row EXCEPT ![id] = [state |-> state, filled |-> filled,
                                      deals |-> deals, complete |-> complete]]
    BY <1>6 DEF Recover, States
  <2>2. PICK filled, deals, complete :
          row' = [row EXCEPT ![id] = [state |-> state, filled |-> filled,
                                      deals |-> deals, complete |-> complete]]
    BY <2>1
  <2> DEFINE r == [state |-> state, filled |-> filled, deals |-> deals, complete |-> complete]
  <2>3. "state" \in DOMAIN r /\ r = [f \in DOMAIN r |-> r[f]] /\ r.state = state
    OBVIOUS
  <2>4. RowsStay
    <3> HIDE DEF r
    <3> QED BY <2>2, <2>3, WrittenRowStays DEF JournalInv, r
  <2> QED BY <1>6, <2>4, NobodyMoved DEF Recover, world
<1>7. CASE UNCHANGED vars
  BY <1>2, <1>7 DEF vars
<1> QED BY <1>1, <1>3, <1>4, <1>5, <1>6, <1>7 DEF Next

(***************************************************************************)
(* begin_submission and reject_existing: however many processes share the  *)
(* journal, and whatever crashes, is lost, retried or recovered, a child   *)
(* order is sent to the broker at most once.                               *)
(***************************************************************************)
THEOREM ChildrenAreSentOnce == Spec => []SentOnce
<1>1. JournalInv => SentOnce
  BY DEF JournalInv
<1> QED BY <1>1, JournalInit, JournalStep, PTL DEF Spec

-----------------------------------------------------------------------------
(***************************************************************************)
(* What a sum over a finite set does is proved in ExecutionLedgerProofs;   *)
(* an instance of it with an empty ledger says the same here.              *)
(***************************************************************************)
Sums == INSTANCE ExecutionLedgerProofs WITH
  Portfolios <- {}, Requests <- {}, Orders <- {}, Positions <- {}, Deals <- {}, Events <- {},
  Risks <- {}, Stops <- {}, MaxHeat <- 0, NoRef <- None,
  ledger <- <<>>, reservation <- <<>>, expired <- {}, deals <- <<>>, mods <- <<>>,
  Sessions <- {}, Reports <- {}, call <- <<>>, lock <- <<>>

LEMMA SameSums ==
  ASSUME NEW f, NEW S
  PROVE  Sums!SumFunctionOnSet(f, S) = SumFunctionOnSet(f, S)
BY DEF Sums!SumFunctionOnSet, SumFunctionOnSet, Sums!FoldFunctionOnSet, FoldFunctionOnSet,
       Sums!MapThenFoldSet, MapThenFoldSet

LEMMA SameSets ==
  ASSUME NEW S
  PROVE  /\ Sums!IsFiniteSet(S) <=> IsFiniteSet(S)
         /\ Sums!Cardinality(S) = Cardinality(S)
BY DEF Sums!IsFiniteSet, IsFiniteSet, Sums!Cardinality, Cardinality

LEMMA SumOfNone == \A f : SumFunctionOnSet(f, {}) = 0
BY Sums!SumOfNone, SameSums

LEMMA SumStep ==
  ASSUME NEW f, NEW S, IsFiniteSet(S), \A x \in S : f[x] \in Int, NEW x \in S
  PROVE  SumFunctionOnSet(f, S) = f[x] + SumFunctionOnSet(f, S \ {x})
<1>1. Sums!IsFiniteSet(S) /\ Sums!Integral(f, S)
  BY SameSets DEF Sums!Integral
<1> QED BY <1>1, Sums!SumStep, SameSums

LEMMA SumOfChanged ==
  ASSUME NEW f, NEW g, NEW S, IsFiniteSet(S), \A x \in S : f[x] \in Int, NEW x \in S,
         g[x] \in Int, \A y \in S \ {x} : g[y] = f[y]
  PROVE  SumFunctionOnSet(g, S) = SumFunctionOnSet(f, S) - f[x] + g[x]
<1>1. Sums!IsFiniteSet(S) /\ Sums!Integral(f, S)
  BY SameSets DEF Sums!Integral
<1> QED BY <1>1, Sums!SumOfChanged, SameSums

LEMMA SumsAgree ==
  ASSUME NEW f, NEW g, NEW S, IsFiniteSet(S), \A x \in S : f[x] = g[x]
  PROVE  SumFunctionOnSet(f, S) = SumFunctionOnSet(g, S)
BY Sums!SumsAgree, SameSums, SameSets

LEMMA SumsGrow ==
  ASSUME NEW f, NEW g, NEW S, IsFiniteSet(S), NEW R, R \subseteq S,
         \A x \in S : f[x] \in Nat /\ g[x] \in Nat, \A x \in R : f[x] <= g[x]
  PROVE  /\ SumFunctionOnSet(f, R) <= SumFunctionOnSet(g, S)
         /\ SumFunctionOnSet(f, R) \in Nat /\ SumFunctionOnSet(g, S) \in Nat
<1>1. Sums!IsFiniteSet(S)
  BY SameSets
<1>2. /\ Sums!SumFunctionOnSet(f, R) <= Sums!SumFunctionOnSet(g, S)
      /\ Sums!SumFunctionOnSet(f, R) \in Nat /\ Sums!SumFunctionOnSet(g, S) \in Nat
  BY <1>1, Sums!SumsGrow
<1> QED BY <1>2, SameSums

LEMMA SumCovers ==
  ASSUME NEW f, NEW S, IsFiniteSet(S), \A x \in S : f[x] \in Nat /\ f[x] >= 1
  PROVE  Cardinality(S) <= SumFunctionOnSet(f, S)
<1>1. Sums!IsFiniteSet(S)
  BY SameSets
<1>2. Sums!Cardinality(S) <= Sums!SumFunctionOnSet(f, S)
  BY <1>1, Sums!SumCovers
<1> QED BY <1>2, SameSums, SameSets

-----------------------------------------------------------------------------
(* What a set of deals adds up to                                           *)

Amount == [d \in Deals |-> d.qty]

FineDeals(ds) == IsFiniteSet(ds) /\ ds \subseteq Deals

LEMMA AmountOfDeal == \A d \in Deals : Amount[d] = d.qty /\ d.qty \in Nat \ {0}
BY ReferenceAssumption DEF Amount, Deals

LEMMA TotalIsSum ==
  ASSUME NEW ds, FineDeals(ds)
  PROVE  Total(ds) = SumFunctionOnSet(Amount, ds)
<1> DEFINE f == [d \in ds |-> d.qty]
<1>1. \A d \in ds : f[d] = Amount[d]
  BY AmountOfDeal DEF FineDeals
<1> HIDE DEF f
<1>2. SumFunctionOnSet(f, ds) = SumFunctionOnSet(Amount, ds)
  BY <1>1, SumsAgree DEF FineDeals
<1> QED BY <1>2 DEF Total, f

LEMMA TotalOfNone == Total({}) = 0 /\ FineDeals({})
BY SumOfNone, FS_EmptySet DEF Total, FineDeals

LEMMA TotalGrows ==
  ASSUME NEW S, FineDeals(S), NEW R, R \subseteq S
  PROVE  FineDeals(R) /\ Total(R) \in Nat /\ Total(S) \in Nat /\ Total(R) <= Total(S)
<1>1. FineDeals(R)
  BY FS_Subset DEF FineDeals
<1>2. \A d \in S : Amount[d] \in Nat
  BY AmountOfDeal DEF FineDeals
<1>3. \A d \in R : Amount[d] <= Amount[d]
  BY <1>2
<1>4. /\ SumFunctionOnSet(Amount, R) <= SumFunctionOnSet(Amount, S)
      /\ SumFunctionOnSet(Amount, R) \in Nat /\ SumFunctionOnSet(Amount, S) \in Nat
  BY <1>2, <1>3, SumsGrow DEF FineDeals
<1> QED BY <1>1, <1>4, TotalIsSum

LEMMA TotalOfMore ==
  ASSUME NEW ds, FineDeals(ds), NEW d \in Deals
  PROVE  /\ FineDeals(ds \cup {d})
         /\ d \notin ds => Total(ds \cup {d}) = Total(ds) + d.qty
         /\ Total(ds \cup {d}) <= Total(ds) + d.qty
<1>1. FineDeals(ds \cup {d})
  BY FS_AddElement DEF FineDeals
<1>2. Total(ds) \in Nat /\ d.qty \in Nat
  BY TotalGrows, AmountOfDeal
<1>3. ASSUME d \notin ds PROVE Total(ds \cup {d}) = Total(ds) + d.qty
  <2>1. \A e \in ds \cup {d} : Amount[e] \in Int
    BY AmountOfDeal DEF FineDeals
  <2>2. SumFunctionOnSet(Amount, ds \cup {d})
          = Amount[d] + SumFunctionOnSet(Amount, (ds \cup {d}) \ {d})
    BY <1>1, <2>1, SumStep DEF FineDeals
  <2>3. (ds \cup {d}) \ {d} = ds
    BY <1>3
  <2> QED BY <1>1, <1>2, <2>2, <2>3, TotalIsSum, AmountOfDeal
<1>4. d \in ds => ds \cup {d} = ds
  OBVIOUS
<1>5. Total(ds \cup {d}) <= Total(ds) + d.qty
  <2>1. CASE d \in ds
    <3>1. Total(ds \cup {d}) = Total(ds)
      BY <1>4, <2>1
    <3> QED BY <1>2, <3>1
  <2>2. CASE d \notin ds
    <3>1. Total(ds \cup {d}) = Total(ds) + d.qty
      BY <1>3, <2>2
    <3> QED BY <1>2, <3>1
  <2> QED BY <2>1, <2>2
<1> QED BY <1>1, <1>3, <1>5

LEMMA TotalCovers ==
  ASSUME NEW ds, FineDeals(ds)
  PROVE  Cardinality(ds) <= Total(ds) /\ Cardinality(ds) \in Nat
<1>1. \A d \in ds : Amount[d] \in Nat /\ Amount[d] >= 1
  BY AmountOfDeal DEF FineDeals
<1>2. Cardinality(ds) <= SumFunctionOnSet(Amount, ds)
  BY <1>1, SumCovers DEF FineDeals
<1> QED BY <1>2, TotalIsSum, FS_CardinalityType DEF FineDeals

LEMMA TotalOfOne ==
  ASSUME NEW ds, FineDeals(ds), NEW d \in ds
  PROVE  d.qty <= Total(ds)
<1>1. d \in Deals /\ {d} \subseteq ds /\ {d} = {} \cup {d}
  BY DEF FineDeals
<1>2. Total({d}) = d.qty
  <2>1. Total({} \cup {d}) = Total({}) + d.qty
    BY <1>1, TotalOfNone, TotalOfMore
  <2> QED BY <1>1, <2>1, TotalOfNone, AmountOfDeal
<1> QED BY <1>1, <1>2, TotalGrows

-----------------------------------------------------------------------------
(* The broker                                                               *)

\* What the broker has of an order, and that its deals never exceed it.
OrderFine(c) ==
  broker[c] # None =>
    /\ broker[c] \in BrokerOrder
    /\ IsFiniteSet(broker[c].deals)
    /\ \A d \in broker[c].deals : d.child = c
    /\ Dealt(c) <= Requested(c)
    /\ broker[c].open => Dealt(c) < Requested(c)
    /\ sends[c] > 0

BrokerInv ==
  /\ DOMAIN broker = Children
  /\ \A c \in Children : OrderFine(c)

\* Orders and deals the broker has stay there.
BrokerGrows ==
  \A c \in Children : broker[c] # None =>
    /\ broker'[c] # None
    /\ broker[c].deals \subseteq broker'[c].deals

LEMMA ChildIs ==
  ASSUME NEW c \in Children
  PROVE  /\ c[1] \in Orders /\ c[2] \in 1..Slices[c[1]] /\ c \in Ids
         /\ c \in ChildrenOf(c[1]) /\ c[2] # 0
BY ReferenceAssumption DEF Children, ChildrenOf, Ids

LEMMA RequestedOfChild ==
  ASSUME NEW c \in Children
  PROVE  /\ Requested(c) = Quantity \div Slices[c[1]]
         /\ Requested(c) \in Nat \ {0} /\ Requested(c) <= Quantity
         /\ Slices[c[1]] * Requested(c) = Quantity
<1>1. Slices[c[1]] \in Nat \ {0} /\ Quantity \in Nat \ {0} /\ Quantity % Slices[c[1]] = 0
  BY ChildIs, ReferenceAssumption
<1>2. \A q, s \in Nat \ {0} : q % s = 0 =>
        /\ q \div s \in Nat \ {0} /\ q \div s <= q /\ s * (q \div s) = q
  OBVIOUS
<1> QED BY <1>1, <1>2, ChildIs DEF Requested

\* Records of the broker's orders: what they hold, and what a change makes of one.
LEMMA OrderRecord ==
  ASSUME NEW b \in BOOLEAN, NEW ds, ds \subseteq Deals, NEW r, r = [open |-> b, deals |-> ds]
  PROVE  r \in BrokerOrder /\ r # None /\ (r.open <=> b) /\ r.deals = ds
<1>1. r \in BrokerOrder
  BY DEF BrokerOrder
<1>2. r # None
  BY <1>1, NullAssumption
<1>3. r.open <=> b
  OBVIOUS
<1>4. r.deals = ds
  OBVIOUS
<1> QED BY <1>1, <1>2, <1>3, <1>4

LEMMA OrderChanged ==
  ASSUME NEW r \in BrokerOrder, NEW b \in BOOLEAN, NEW ds
  PROVE  [[r EXCEPT !.deals = ds] EXCEPT !.open = b] = [open |-> b, deals |-> ds]
<1>1. r = [open |-> r.open, deals |-> r.deals]
  BY DEF BrokerOrder
<1>2. [r EXCEPT !.deals = ds] = [open |-> r.open, deals |-> ds]
  BY <1>1
<1>3. \A q : q = [open |-> r.open, deals |-> ds] =>
        [q EXCEPT !.open = b] = [open |-> b, deals |-> ds]
  OBVIOUS
<1> QED BY <1>2, <1>3

LEMMA BrokerInit == Init => BrokerInv
BY DEF Init, BrokerInv, OrderFine

LEMMA SameOrders ==
  ASSUME BrokerInv, UNCHANGED <<broker, sends>>
  PROVE  BrokerInv' /\ BrokerGrows
BY DEF BrokerInv, OrderFine, Dealt, BrokerGrows

\* A child whose process is about to send it is not at the broker yet.
LEMMA SentOrder ==
  ASSUME JournalInv, BrokerInv, NEW w \in Workers, Send(w)
  PROVE  BrokerInv' /\ BrokerGrows
<1> DEFINE c == Child(w)
           new == [open |-> TRUE, deals |-> {}]
<1>1. c \in Children => sends[c] = 0 /\ broker[c] = None
  <2>1. Sending(w, c)
    BY DEF Send, At, Sending
  <2> QED BY <2>1 DEF JournalInv, JournaledFirst, BrokerInv, OrderFine
<1>2. /\ broker' = [broker EXCEPT ![c] = new] \/ broker' = broker
      /\ sends' = [sends EXCEPT ![c] = @ + 1]
  BY DEF Send
<1>3. new \in BrokerOrder /\ new.deals = {} /\ Total(new.deals) = 0 /\ IsFiniteSet(new.deals)
  BY TotalOfNone, FS_EmptySet DEF BrokerOrder
<1> HIDE DEF c, new
<1>4. DOMAIN broker' = Children
  BY <1>2 DEF BrokerInv
<1>5. ASSUME NEW k \in Children PROVE OrderFine(k)'
  <2>1. CASE k # c
    <3>1. broker'[k] = broker[k] /\ sends'[k] = sends[k]
      BY <1>2, <2>1 DEF BrokerInv, JournalInv
    <3> QED BY <3>1 DEF BrokerInv, OrderFine, Dealt
  <2>2. CASE k = c
    <3>1. sends'[k] = 1
      BY <1>1, <1>2, <2>2 DEF JournalInv
    <3>2. broker'[k] = new \/ broker'[k] = None
      BY <1>1, <1>2, <2>2 DEF BrokerInv
    <3>3. Total(new.deals) <= Requested(k) /\ Total(new.deals) < Requested(k)
      BY <1>3, RequestedOfChild
    <3>4. \A d \in new.deals : d.child = k
      BY <1>3
    <3> QED BY <1>3, <3>1, <3>2, <3>3, <3>4 DEF OrderFine, Dealt
  <2> QED BY <2>1, <2>2
<1>6. BrokerGrows
  BY <1>1, <1>2 DEF BrokerGrows, BrokerInv
<1> QED BY <1>4, <1>5, <1>6 DEF BrokerInv

\* The broker deals no more than was requested, and closes what is full.
LEMMA DealtOrder ==
  ASSUME BrokerInv, NEW c \in Children, BrokerDeals(c)
  PROVE  BrokerInv' /\ BrokerGrows
<1> DEFINE ds == broker[c].deals
           no == Cardinality(ds) + 1
<1>1. PICK q \in 1..(Requested(c) - Dealt(c)) :
        broker' = [broker EXCEPT
          ![c].deals = ds \cup {[child |-> c, no |-> no, qty |-> q]},
          ![c].open = Dealt(c) + q < Requested(c)]
  BY DEF BrokerDeals, BrokerInv
<1> DEFINE d == [child |-> c, no |-> no, qty |-> q]
<1>0. PICK more \in BOOLEAN :
        /\ more <=> Dealt(c) + q < Requested(c)
        /\ broker' = [broker EXCEPT ![c].deals = ds \cup {d}, ![c].open = more]
  <2> DEFINE full == Dealt(c) + q < Requested(c)
  <2> SUFFICES \E more \in BOOLEAN :
                 /\ more <=> full
                 /\ broker' = [broker EXCEPT ![c].deals = ds \cup {d}, ![c].open = more]
    OBVIOUS
  <2> WITNESS full \in BOOLEAN
  <2> QED BY <1>1
<1> DEFINE new == [open |-> more, deals |-> ds \cup {d}]
<1>2. /\ broker[c] # None /\ broker[c] \in BrokerOrder /\ FineDeals(ds)
      /\ \A e \in ds : e.child = c
      /\ Dealt(c) = Total(ds) /\ Dealt(c) <= Requested(c) /\ sends[c] > 0
      /\ UNCHANGED sends
  BY DEF BrokerDeals, BrokerInv, OrderFine, FineDeals, BrokerOrder, Dealt
<1>3. broker' = [broker EXCEPT ![c] = new]
  <2>1. c \in DOMAIN broker
    BY DEF BrokerInv
  <2> DEFINE r == broker[c]
             X == ds \cup {d}
  <2>2. broker' = [broker EXCEPT ![c] = [[r EXCEPT !.deals = X] EXCEPT !.open = more]]
    BY <1>0, <2>1
  <2>3. [[r EXCEPT !.deals = X] EXCEPT !.open = more] = [open |-> more, deals |-> X]
    <3>1. r \in BrokerOrder
      BY <1>2
    <3> HIDE DEF r, X
    <3> QED BY <3>1, OrderChanged
  <2> QED BY <2>2, <2>3
<1>4. d \in Deals
  <2>1. /\ Cardinality(ds) <= Dealt(c) /\ Cardinality(ds) \in Nat
        /\ Dealt(c) \in Nat
    BY <1>2, TotalCovers, TotalGrows
  <2>2. no \in 1..Quantity /\ q \in 1..Quantity
    BY <2>1, RequestedOfChild, ReferenceAssumption
  <2> QED BY <2>2 DEF Deals
<1>5. /\ FineDeals(ds \cup {d}) /\ Total(ds \cup {d}) <= Dealt(c) + q
      /\ \A e \in ds \cup {d} : e.child = c
  BY <1>2, <1>4, TotalOfMore
<1>6. /\ Dealt(c) \in Nat /\ Total(ds \cup {d}) \in Nat /\ q \in Nat
      /\ Dealt(c) + q <= Requested(c) /\ Requested(c) \in Nat
  BY <1>2, <1>5, TotalGrows, RequestedOfChild
<1>7. new \in BrokerOrder /\ new # None /\ (new.open <=> more) /\ new.deals = ds \cup {d}
  <2>1. ds \cup {d} \subseteq Deals
    BY <1>5 DEF FineDeals
  <2> HIDE DEF d
  <2> QED BY <2>1, OrderRecord
<1>8. /\ IsFiniteSet(new.deals) /\ \A e \in new.deals : e.child = c
      /\ Total(new.deals) <= Requested(c)
      /\ new.open => Total(new.deals) < Requested(c)
  <2>1. more => Total(ds \cup {d}) < Requested(c)
    BY <1>0, <1>5, <1>6
  <2> HIDE DEF new, d, no
  <2> QED BY <1>5, <1>6, <1>7, <2>1 DEF FineDeals
<1>9. ds \subseteq new.deals
  BY <1>7
<1> HIDE DEF new, d, no
<1>10. ASSUME NEW k \in Children PROVE OrderFine(k)'
  <2>1. CASE k # c
    <3>1. broker'[k] = broker[k] /\ sends'[k] = sends[k]
      BY <1>2, <1>3, <2>1 DEF BrokerInv
    <3> QED BY <3>1 DEF BrokerInv, OrderFine, Dealt
  <2>2. CASE k = c
    <3>1. broker'[k] = new /\ sends'[k] > 0
      BY <1>2, <1>3, <2>2 DEF BrokerInv
    <3> QED BY <1>7, <1>8, <2>2, <3>1 DEF OrderFine, Dealt
  <2> QED BY <2>1, <2>2
<1>11. DOMAIN broker' = Children
  BY <1>3 DEF BrokerInv
<1>12. BrokerGrows
  BY <1>3, <1>7, <1>9 DEF BrokerGrows, BrokerInv
<1> QED BY <1>10, <1>11, <1>12 DEF BrokerInv

LEMMA CancelledOrder ==
  ASSUME BrokerInv, NEW c \in Children, BrokerCancels(c)
  PROVE  BrokerInv' /\ BrokerGrows
<1> DEFINE new == [open |-> FALSE, deals |-> broker[c].deals]
<1>1. /\ OrderFine(c) /\ broker[c] # None /\ broker[c] \in BrokerOrder
      /\ UNCHANGED sends
      /\ broker' = [broker EXCEPT ![c].open = FALSE]
  BY DEF BrokerCancels, BrokerInv, OrderFine
<1>2. broker' = [broker EXCEPT ![c] = new]
  <2> DEFINE r == broker[c]
  <2>1. broker' = [broker EXCEPT ![c] = [r EXCEPT !.open = FALSE]]
    BY <1>1 DEF BrokerInv
  <2>2. r \in BrokerOrder
    BY <1>1
  <2>3. [r EXCEPT !.open = FALSE] = [open |-> FALSE, deals |-> r.deals]
    <3> HIDE DEF r
    <3>1. \A b \in BOOLEAN : [r EXCEPT !.open = b] = [open |-> b, deals |-> r.deals]
      BY <2>2 DEF BrokerOrder
    <3> QED BY <3>1
  <2> QED BY <2>1, <2>3
<1>3. new \in BrokerOrder /\ new # None /\ new.deals = broker[c].deals /\ ~new.open
  <2>1. broker[c].deals \subseteq Deals
    BY <1>1 DEF BrokerOrder
  <2> DEFINE b == FALSE
  <2>2. b \in BOOLEAN /\ ~b /\ new = [open |-> b, deals |-> broker[c].deals]
    OBVIOUS
  <2> HIDE DEF b, new
  <2> QED BY <2>1, <2>2, OrderRecord
<1> HIDE DEF new
<1>4. ASSUME NEW k \in Children PROVE OrderFine(k)'
  <2>1. CASE k # c
    <3>1. broker'[k] = broker[k] /\ sends'[k] = sends[k]
      BY <1>1, <1>2, <2>1 DEF BrokerInv
    <3> QED BY <3>1 DEF BrokerInv, OrderFine, Dealt
  <2>2. CASE k = c
    <3>1. broker'[k] = new /\ sends'[k] = sends[k]
      BY <1>1, <1>2, <2>2 DEF BrokerInv
    <3> QED BY <1>1, <1>3, <2>2, <3>1 DEF OrderFine, Dealt
  <2> QED BY <2>1, <2>2
<1>5. DOMAIN broker' = Children
  BY <1>2 DEF BrokerInv
<1>6. BrokerGrows
  BY <1>2, <1>3 DEF BrokerGrows, BrokerInv
<1> QED BY <1>4, <1>5, <1>6 DEF BrokerInv

\* Of a process's steps only this call reaches the broker.
LEMMA OnlySendReaches ==
  ASSUME NEW w \in Workers, Step(w)
  PROVE  Send(w) \/ UNCHANGED <<broker, sends>>
BY DEF Step, ExecuteMany, Check, Reserve, Begin, Route, Look, Cancel, Release, JournalChild,
       MarkChildUnknown, MarkChildWorking, Deal, FillChild, FillParent, Observe, Finish, Commit,
       Crash, world

\* Every other step leaves the broker alone.
LEMMA BrokerStep == JournalInv /\ BrokerInv /\ [Next]_vars => BrokerInv' /\ BrokerGrows
<1> SUFFICES ASSUME JournalInv, BrokerInv, [Next]_vars PROVE BrokerInv' /\ BrokerGrows
  OBVIOUS
<1>1. ASSUME NEW w \in Workers, Step(w) PROVE Send(w) \/ UNCHANGED <<broker, sends>>
  BY <1>1, OnlySendReaches
<1>2. ASSUME NEW o \in Orders, Lapse(o) PROVE UNCHANGED <<broker, sends>>
  BY <1>2 DEF Lapse, world
<1>3. ASSUME NEW id \in Ids, MarkUnknown(id) \/ \E b \in BOOLEAN : Recover(id, b)
      PROVE  UNCHANGED <<broker, sends>>
  BY <1>3 DEF MarkUnknown, Recover, world
<1>4. CASE UNCHANGED vars
  BY <1>4, SameOrders DEF vars
<1> QED
  BY <1>1, <1>2, <1>3, <1>4, SentOrder, DealtOrder, CancelledOrder, SameOrders DEF Next

-----------------------------------------------------------------------------
(* The processes                                                            *)

\* Only w moved; it is at pc now, and kept the fields that are not changed.
Alone(w) ==
  /\ DOMAIN worker' = Workers
  /\ \A v \in Workers : v # w => worker'[v] = worker[v]

Stepped(w, from, to, changed) ==
  /\ worker[w].pc = from /\ worker'[w].pc = to
  /\ \A f \in Fields \ ({"pc"} \cup changed) : worker'[w][f] = worker[w][f]

Onwards ==
  {<<"reserve", "begin">>, <<"begin", "route">>, <<"route", "look">>, <<"look", "cancel">>,
   <<"look", "release">>, <<"cancel", "release">>, <<"journal", "send">>,
   <<"send", "unknown">>, <<"working", "deal">>, <<"fill", "total">>, <<"finish", "commit">>}

(***************************************************************************)
(* Where a process may go, and what it then knows.                         *)
(***************************************************************************)
Edge(w) ==
  \/ worker'[w] = Idle
  \/ \E batch \in Batches :
       Stepped(w, "idle", "check", {"todo"}) /\ worker'[w].todo = batch
  \/ \E price \in Prices :
       Stepped(w, "check", "reserve", {"price"}) /\ worker'[w].price = price
  \/ \E e \in Onwards : Stepped(w, e[1], e[2], {})
  \/ Stepped(w, "begin", "look", {"refused"}) /\ worker'[w].refused = TRUE
  \/ Stepped(w, "route", "journal", {"i"}) /\ worker'[w].i = 1
  \/ /\ Stepped(w, "send", "working", {})
     /\ broker' = [broker EXCEPT ![Child(w)] = [open |-> TRUE, deals |-> {}]]
  \/ /\ Stepped(w, "deal", "fill", {"deal"})
     /\ worker'[w].deal \in broker[Child(w)].deals
  \/ /\ Stepped(w, "total", "observe", {"filled", "deal"})
     /\ \/ worker'[w].filled = worker[w].filled + worker[w].deal.qty
        \/ worker'[w].filled = worker[w].filled + 0 /\ worker[w].filled > 0
  \/ /\ Stepped(w, "observe", "journal", {"i", "unmatched"})
     /\ worker[w].i < Slices[Current(w)] /\ worker'[w].i = worker[w].i + 1
  \/ Stepped(w, "observe", "finish", {"unmatched"})
  \/ /\ worker[w].pc = "commit" /\ Len(worker[w].todo) # 1
     /\ worker'[w] = [Idle EXCEPT !.pc = "check", !.todo = Tail(worker[w].todo)]

\* Without what it knows: from where to where a process goes within one order.
Passages ==
  Onwards \cup {<<"begin", "look">>, <<"route", "journal">>, <<"send", "working">>,
                <<"deal", "fill">>, <<"total", "observe">>, <<"observe", "journal">>,
                <<"observe", "finish">>}

LEMMA EdgeIsPassage ==
  ASSUME NEW w, Edge(w), worker'[w].pc \notin {"idle", "check", "reserve"}
  PROVE  <<worker[w].pc, worker'[w].pc>> \in Passages
<1>0. worker'[w].pc # "idle" /\ worker'[w].pc # "check" /\ worker'[w].pc # "reserve"
  OBVIOUS
<1>1. worker'[w] # Idle /\ worker'[w] # [Idle EXCEPT !.pc = "check", !.todo = Tail(worker[w].todo)]
  <2>1. worker'[w] # Idle
    BY <1>0 DEF Idle
  <2>2. worker'[w] # [Idle EXCEPT !.pc = "check", !.todo = Tail(worker[w].todo)]
    BY <1>0 DEF Idle
  <2> QED BY <2>1, <2>2
<1>2. ASSUME NEW e \in Onwards, Stepped(w, e[1], e[2], {})
      PROVE  <<worker[w].pc, worker'[w].pc>> \in Passages
  BY <1>2 DEF Stepped, Onwards, Passages
<1>3. \A from, to, changed :
        Stepped(w, from, to, changed) => worker[w].pc = from /\ worker'[w].pc = to
  BY DEF Stepped
<1>4. ~Stepped(w, "idle", "check", {"todo"}) /\ ~Stepped(w, "check", "reserve", {"price"})
  BY <1>0 DEF Stepped
<1>5. \/ \E e \in Onwards : Stepped(w, e[1], e[2], {})
      \/ Stepped(w, "begin", "look", {"refused"})
      \/ Stepped(w, "route", "journal", {"i"})
      \/ Stepped(w, "send", "working", {})
      \/ Stepped(w, "deal", "fill", {"deal"})
      \/ Stepped(w, "total", "observe", {"filled", "deal"})
      \/ Stepped(w, "observe", "journal", {"i", "unmatched"})
      \/ Stepped(w, "observe", "finish", {"unmatched"})
  BY <1>1, <1>4 DEF Edge
<1>6. CASE Stepped(w, "begin", "look", {"refused"})
  BY <1>3, <1>6 DEF Passages
<1>7. CASE Stepped(w, "route", "journal", {"i"})
  BY <1>3, <1>7 DEF Passages
<1>8. CASE Stepped(w, "send", "working", {})
  BY <1>3, <1>8 DEF Passages
<1>9. CASE Stepped(w, "deal", "fill", {"deal"})
  BY <1>3, <1>9 DEF Passages
<1>10. CASE Stepped(w, "total", "observe", {"filled", "deal"})
  BY <1>3, <1>10 DEF Passages
<1>11. CASE Stepped(w, "observe", "journal", {"i", "unmatched"})
  BY <1>3, <1>11 DEF Passages
<1>12. CASE Stepped(w, "observe", "finish", {"unmatched"})
  BY <1>3, <1>12 DEF Passages
<1> QED BY <1>2, <1>5, <1>6, <1>7, <1>8, <1>9, <1>10, <1>11, <1>12

LEMMA GotoSteps ==
  ASSUME WorkersTyped, NEW w \in Workers, NEW pc, Goto(w, pc)
  PROVE  Alone(w) /\ Stepped(w, worker[w].pc, pc, {})
BY DEF Goto, Alone, Stepped, WorkersTyped, Fields

LEMMA RaiseSteps ==
  ASSUME WorkersTyped, NEW w \in Workers, Raise(w)
  PROVE  Alone(w) /\ Edge(w)
BY DEF Raise, Alone, Edge, WorkersTyped

LEMMA OnwardsSteps ==
  ASSUME WorkersTyped, NEW w \in Workers, NEW e \in Onwards, At(w, e[1]), Goto(w, e[2])
  PROVE  Alone(w) /\ Edge(w)
BY GotoSteps DEF Edge, At

LEMMA Edges ==
  ASSUME WorkersTyped, NEW w \in Workers, Step(w)
  PROVE  Alone(w) /\ Edge(w)
<1>1. ASSUME NEW batch \in Batches, ExecuteMany(w, batch) PROVE Alone(w) /\ Edge(w)
  <2>1. Alone(w) /\ Stepped(w, "idle", "check", {"todo"}) /\ worker'[w].todo = batch
    BY <1>1 DEF ExecuteMany, At, Alone, Stepped, WorkersTyped, Fields
  <2> QED BY <2>1 DEF Edge
<1>2. ASSUME NEW price \in Prices, Check(w, price) PROVE Alone(w) /\ Edge(w)
  <2>1. CASE worker' = [worker EXCEPT ![w].pc = "reserve", ![w].price = price]
    <3>1. Alone(w) /\ Stepped(w, "check", "reserve", {"price"}) /\ worker'[w].price = price
      BY <1>2, <2>1 DEF Check, At, Alone, Stepped, WorkersTyped, Fields
    <3> QED BY <3>1 DEF Edge
  <2> QED BY <1>2, <2>1, RaiseSteps DEF Check
<1>3. CASE Reserve(w)
  <2>1. Raise(w) \/ (At(w, "reserve") /\ Goto(w, "begin"))
    BY <1>3 DEF Reserve
  <2>2. <<"reserve", "begin">> \in Onwards
    BY DEF Onwards
  <2> QED BY <2>1, <2>2, RaiseSteps, OnwardsSteps
<1>4. CASE Begin(w)
  <2>1. CASE worker' = [worker EXCEPT ![w].pc = "look", ![w].refused = TRUE]
    <3>1. Alone(w) /\ Stepped(w, "begin", "look", {"refused"}) /\ worker'[w].refused = TRUE
      BY <1>4, <2>1 DEF Begin, At, Alone, Stepped, WorkersTyped, Fields
    <3> QED BY <3>1 DEF Edge
  <2>2. CASE Goto(w, "route")
    <3>1. <<"begin", "route">> \in Onwards /\ At(w, "begin")
      BY <1>4 DEF Onwards, Begin
    <3> QED BY <2>2, <3>1, OnwardsSteps
  <2> QED BY <1>4, <2>1, <2>2 DEF Begin
<1>5. CASE Route(w)
  <2>1. CASE worker' = [worker EXCEPT ![w].pc = "journal", ![w].i = 1]
    <3>1. Alone(w) /\ Stepped(w, "route", "journal", {"i"}) /\ worker'[w].i = 1
      BY <1>5, <2>1 DEF Route, At, Alone, Stepped, WorkersTyped, Fields
    <3> QED BY <3>1 DEF Edge
  <2>2. CASE Goto(w, "look")
    <3>1. <<"route", "look">> \in Onwards /\ At(w, "route")
      BY <1>5 DEF Onwards, Route
    <3> QED BY <2>2, <3>1, OnwardsSteps
  <2> QED BY <1>5, <2>1, <2>2 DEF Route
<1>6. CASE Look(w)
  <2>1. At(w, "look") /\ (Goto(w, "cancel") \/ Goto(w, "release"))
    BY <1>6 DEF Look
  <2>2. <<"look", "cancel">> \in Onwards /\ <<"look", "release">> \in Onwards
    BY DEF Onwards
  <2> QED BY <2>1, <2>2, OnwardsSteps
<1>7. CASE Cancel(w)
  <2>1. Raise(w) \/ (At(w, "cancel") /\ Goto(w, "release"))
    BY <1>7 DEF Cancel
  <2>2. <<"cancel", "release">> \in Onwards
    BY DEF Onwards
  <2> QED BY <2>1, <2>2, RaiseSteps, OnwardsSteps
<1>8. CASE Release(w) \/ MarkChildUnknown(w) \/ Crash(w)
  BY <1>8, RaiseSteps DEF Release, MarkChildUnknown, Crash
<1>9. CASE JournalChild(w) \/ MarkChildWorking(w)
  <2>1. \/ At(w, "journal") /\ Goto(w, "send")
        \/ At(w, "working") /\ Goto(w, "deal")
    BY <1>9 DEF JournalChild, MarkChildWorking
  <2>2. <<"journal", "send">> \in Onwards /\ <<"working", "deal">> \in Onwards
    BY DEF Onwards
  <2> QED BY <2>1, <2>2, OnwardsSteps
<1>10. CASE Send(w)
  <2>1. CASE Goto(w, "unknown")
    <3>1. <<"send", "unknown">> \in Onwards /\ At(w, "send")
      BY <1>10 DEF Onwards, Send
    <3> QED BY <2>1, <3>1, OnwardsSteps
  <2>2. CASE /\ broker' = [broker EXCEPT ![Child(w)] = [open |-> TRUE, deals |-> {}]]
             /\ Goto(w, "working")
    <3>1. Alone(w) /\ Stepped(w, "send", "working", {})
      BY <1>10, <2>2, GotoSteps DEF Send, At
    <3> QED BY <2>2, <3>1 DEF Edge
  <2> QED BY <1>10, <2>1, <2>2 DEF Send
<1>11. CASE Deal(w)
  <2>1. ASSUME NEW d \in broker[Child(w)].deals,
               worker' = [worker EXCEPT ![w].pc = "fill", ![w].deal = d]
        PROVE  Alone(w) /\ Edge(w)
    <3>1. Alone(w) /\ Stepped(w, "deal", "fill", {"deal"}) /\ worker'[w].deal = d
      BY <1>11, <2>1 DEF Deal, At, Alone, Stepped, WorkersTyped, Fields
    <3> QED BY <3>1 DEF Edge
  <2> QED BY <1>11, <2>1, RaiseSteps DEF Deal
<1>12. CASE FillChild(w)
  <2>1. Raise(w) \/ (At(w, "fill") /\ Goto(w, "total"))
    BY <1>12 DEF FillChild
  <2>2. <<"fill", "total">> \in Onwards
    BY DEF Onwards
  <2> QED BY <2>1, <2>2, RaiseSteps, OnwardsSteps
<1>13. CASE FillParent(w)
  <2>1. ASSUME NEW q, worker' = [worker EXCEPT ![w].pc = "observe",
                                   ![w].filled = @ + q, ![w].deal = None],
               q = worker[w].deal.qty \/ (q = 0 /\ worker[w].filled > 0)
        PROVE  Alone(w) /\ Edge(w)
    <3>1. worker[w].pc = "total"
      BY <1>13 DEF FillParent, At
    <3>2. Alone(w)
      BY <2>1 DEF Alone, WorkersTyped
    <3>3. worker'[w] = [worker[w] EXCEPT !.pc = "observe", !.filled = @ + q,
                                         !.deal = None]
      BY <2>1 DEF WorkersTyped
    <3>4. /\ Stepped(w, "total", "observe", {"filled", "deal"})
          /\ worker'[w].filled = worker[w].filled + q
      BY <3>1, <3>3 DEF Stepped, WorkersTyped, Fields
    <3> QED BY <2>1, <3>2, <3>4 DEF Edge
  <2>2. \/ Raise(w)
        \/ \E q \in {worker[w].deal.qty} \cup (IF worker[w].filled > 0 THEN {0} ELSE {}) :
             worker' = [worker EXCEPT ![w].pc = "observe", ![w].filled = @ + q,
                                      ![w].deal = None]
    BY <1>13 DEF FillParent
  <2>3. CASE Raise(w)
    BY <1>13, <2>3, RaiseSteps DEF FillParent
  <2>4. CASE ~Raise(w)
    BY <2>1, <2>2, <2>4
  <2> QED BY <2>3, <2>4
<1>14. CASE Observe(w)
  <2>1. ASSUME NEW u, worker[w].i < Slices[Current(w)],
               worker' = [worker EXCEPT ![w].pc = "journal", ![w].i = @ + 1, ![w].unmatched = u]
        PROVE  Alone(w) /\ Edge(w)
    <3>1. /\ Alone(w) /\ Stepped(w, "observe", "journal", {"i", "unmatched"})
          /\ worker'[w].i = worker[w].i + 1
      BY <1>14, <2>1 DEF Observe, At, Alone, Stepped, WorkersTyped, Fields
    <3> QED BY <2>1, <3>1 DEF Edge
  <2>2. ASSUME NEW u,
               worker' = [worker EXCEPT ![w].pc = "finish", ![w].i = @, ![w].unmatched = u]
        PROVE  Alone(w) /\ Edge(w)
    <3>1. Alone(w) /\ Stepped(w, "observe", "finish", {"unmatched"})
      BY <1>14, <2>2 DEF Observe, At, Alone, Stepped, WorkersTyped, Fields
    <3> QED BY <3>1 DEF Edge
  <2>3. \/ Raise(w)
        \/ /\ worker[w].i < Slices[Current(w)]
           /\ \E u : worker' = [worker EXCEPT ![w].pc = "journal", ![w].i = @ + 1,
                                              ![w].unmatched = u]
        \/ \E u : worker' = [worker EXCEPT ![w].pc = "finish", ![w].i = @, ![w].unmatched = u]
    BY <1>14 DEF Observe
  <2> QED BY <2>1, <2>2, <2>3, RaiseSteps
<1>15. CASE Finish(w)
  <2>1. Raise(w) \/ (At(w, "finish") /\ Goto(w, "commit"))
    BY <1>15 DEF Finish
  <2>2. <<"finish", "commit">> \in Onwards
    BY DEF Onwards
  <2> QED BY <2>1, <2>2, RaiseSteps, OnwardsSteps
<1>16. CASE Commit(w)
  <2> DEFINE next == [Idle EXCEPT !.pc = "check", !.todo = Tail(worker[w].todo)]
  <2>1. \/ Raise(w)
        \/ Len(worker[w].todo) = 1 /\ worker' = [worker EXCEPT ![w] = Idle]
        \/ Len(worker[w].todo) # 1 /\ worker' = [worker EXCEPT ![w] = next]
    BY <1>16 DEF Commit
  <2>2. worker[w].pc = "commit"
    BY <1>16 DEF Commit, At
  <2>3. CASE Len(worker[w].todo) # 1 /\ worker' = [worker EXCEPT ![w] = next]
    <3>1. worker'[w] = next /\ Alone(w)
      <4> HIDE DEF next
      <4> QED BY <2>3 DEF WorkersTyped, Alone
    <3> QED BY <2>2, <2>3, <3>1 DEF Edge
  <2>4. Raise(w) <=> worker' = [worker EXCEPT ![w] = Idle]
    BY DEF Raise
  <2> QED BY <2>1, <2>3, <2>4, RaiseSteps
<1> QED
  BY <1>1, <1>2, <1>3, <1>4, <1>5, <1>6, <1>7, <1>8, <1>9, <1>10, <1>11, <1>12, <1>13, <1>14,
     <1>15, <1>16 DEF Step

AtChild == {"journal", "send", "unknown", "working", "deal", "fill", "total", "observe"}

WorkerFine(w) ==
  /\ worker[w].filled \in Nat
  /\ worker[w].refused \in BOOLEAN
  /\ worker[w].pc # "idle" => worker[w].todo \in Seq(Orders) /\ worker[w].todo # <<>>
  /\ worker[w].pc \notin {"idle", "check"} => worker[w].price \in Prices
  /\ worker[w].pc \in AtChild => worker[w].i \in 1..Slices[Current(w)]
  /\ worker[w].pc \in {"working", "deal", "fill", "total"} => broker[Child(w)] # None
  /\ worker[w].pc \in {"fill", "total"} => worker[w].deal \in broker[Child(w)].deals
  /\ worker[w].pc \in {"observe", "finish", "commit"} => worker[w].filled > 0
  /\ worker[w].refused => worker[w].pc \in {"look", "cancel", "release"}

WorkInv == \A w \in Workers : WorkerFine(w)

LEMMA HeadOfBatch ==
  ASSUME NEW w, worker[w].todo \in Seq(Orders), worker[w].todo # <<>>
  PROVE  Current(w) \in Orders
<1>1. \A s \in Seq(Orders) : s # <<>> => Head(s) \in Orders
  OBVIOUS
<1> QED BY <1>1 DEF Current

LEMMA ChildInRange ==
  ASSUME NEW w, Current(w) \in Orders, worker[w].i \in 1..Slices[Current(w)]
  PROVE  Child(w) \in Children /\ Child(w)[1] = Current(w)
BY DEF Child, Children, ChildrenOf

LEMMA IdleIsFine ==
  ASSUME NEW w, worker[w] = Idle
  PROVE  WorkerFine(w)
BY DEF WorkerFine, Idle, AtChild

LEMMA WorkInit == Init => WorkInv
<1> SUFFICES ASSUME Init, NEW w \in Workers PROVE WorkerFine(w)
  BY DEF WorkInv
<1>1. worker[w] = Idle
  BY DEF Init
<1> QED BY <1>1, IdleIsFine

\* A process that did not move still knows what it knew.
LEMMA RestingIsFine ==
  ASSUME BrokerGrows, NEW w, WorkerFine(w), worker'[w] = worker[w]
  PROVE  WorkerFine(w)'
<1>1. Child(w)' = Child(w) /\ Current(w)' = Current(w)
  BY DEF Child, Current
<1>2. worker[w].pc \in AtChild => Child(w) \in Children
  BY HeadOfBatch, ChildInRange DEF WorkerFine, AtChild
<1> HIDE DEF Child, Current
<1> QED BY <1>1, <1>2 DEF WorkerFine, BrokerGrows, AtChild

LEMMA BatchIsFine == \A batch \in Batches : batch \in Seq(Orders) /\ batch # <<>>
<1>1. \A o \in Orders : <<o>> \in Seq(Orders) /\ <<o>> # <<>>
  OBVIOUS
<1>2. \A o, p \in Orders : <<o, p>> \in Seq(Orders) /\ <<o, p>> # <<>>
  OBVIOUS
<1> DEFINE Single == {<<o>> : o \in Orders}
           Double == {<<o, p>> : o \in Orders, p \in Orders}
<1>3. \A batch \in Single : \E o \in Orders : batch = <<o>>
  OBVIOUS
<1>4. \A batch \in Double : \E o, p \in Orders : batch = <<o, p>>
  OBVIOUS
<1>5. Batches \subseteq Single \cup Double
  <2> DEFINE Twice == {<<o, o>> : o \in Orders}
  <2>1. Batches = Single \cup (Double \ Twice)
    BY DEF Batches
  <2> HIDE DEF Single, Double, Twice
  <2> QED BY <2>1
<1>6. \A batch \in Single : batch \in Seq(Orders) /\ batch # <<>>
  BY <1>1, <1>3
<1>7. \A batch \in Double : batch \in Seq(Orders) /\ batch # <<>>
  <2> SUFFICES ASSUME NEW batch \in Double PROVE batch \in Seq(Orders) /\ batch # <<>>
    OBVIOUS
  <2>1. PICK o \in Orders : \E p \in Orders : batch = <<o, p>>
    BY <1>4
  <2>2. PICK p \in Orders : batch = <<o, p>>
    BY <2>1
  <2> HIDE DEF Double
  <2> QED BY <1>2, <2>2
<1> HIDE DEF Single, Double
<1> QED BY <1>5, <1>6, <1>7

\* A step that keeps the batch and the child.
LEMMA KeptChild ==
  ASSUME NEW w, NEW from, NEW to, NEW changed, Stepped(w, from, to, changed)
  PROVE  /\ "todo" \notin changed => worker'[w].todo = worker[w].todo /\ Current(w)' = Current(w)
         /\ changed \cap {"todo", "i"} = {} =>
              worker'[w].i = worker[w].i /\ Child(w)' = Child(w)
         /\ "filled" \notin changed => worker'[w].filled = worker[w].filled
         /\ "price" \notin changed => worker'[w].price = worker[w].price
         /\ "deal" \notin changed => worker'[w].deal = worker[w].deal
         /\ "refused" \notin changed => worker'[w].refused = worker[w].refused
BY DEF Stepped, Fields, Current, Child

LEMMA MovingIsFine ==
  ASSUME BrokerInv, BrokerGrows, NEW w, WorkerFine(w), Edge(w)
  PROVE  WorkerFine(w)'
<1>0. worker[w].pc # "idle" => Current(w) \in Orders
  BY HeadOfBatch DEF WorkerFine
<1>1. CASE worker'[w] = Idle
  BY <1>1 DEF WorkerFine, Idle, AtChild
<1>2. ASSUME NEW batch \in Batches, Stepped(w, "idle", "check", {"todo"}),
             worker'[w].todo = batch
      PROVE  WorkerFine(w)'
  BY <1>2, BatchIsFine, KeptChild DEF WorkerFine, Stepped, AtChild
<1>3. ASSUME NEW price \in Prices, Stepped(w, "check", "reserve", {"price"}),
             worker'[w].price = price
      PROVE  WorkerFine(w)'
  BY <1>3, KeptChild DEF WorkerFine, Stepped, AtChild
<1>4. ASSUME NEW e \in Onwards, Stepped(w, e[1], e[2], {}) PROVE WorkerFine(w)'
  <2>1. /\ worker[w].pc = e[1] /\ worker'[w].pc = e[2]
        /\ worker[w].pc \in AtChild => Child(w) \in Children
    BY <1>0, <1>4, ChildInRange DEF Stepped, WorkerFine, AtChild
  <2>2. /\ e[1] # "idle" /\ e[2] \notin {"idle", "check"}
        /\ e[2] \in AtChild => e[1] \in AtChild
        /\ e[1] # "check"
        /\ e[2] \in {"working", "deal", "fill", "total"} =>
             e[1] \in {"working", "deal", "fill", "total"}
        /\ e[2] \in {"fill", "total"} => e[1] = "fill"
        /\ e[2] \in {"observe", "finish", "commit"} => e[1] = "finish"
        /\ e[1] \in {"look", "cancel", "release"} => e[2] \in {"look", "cancel", "release"}
    BY DEF Onwards, AtChild
  <2>3. /\ worker'[w].todo = worker[w].todo /\ Current(w)' = Current(w)
        /\ worker'[w].i = worker[w].i /\ Child(w)' = Child(w)
        /\ worker'[w].filled = worker[w].filled /\ worker'[w].price = worker[w].price
        /\ worker'[w].deal = worker[w].deal /\ worker'[w].refused = worker[w].refused
    BY <1>4, KeptChild
  <2> HIDE DEF Current, Child
  <2>4. worker'[w].pc \in {"working", "deal", "fill", "total"} =>
          worker[w].pc \in AtChild /\ broker[Child(w)] # None
    BY <2>1, <2>2 DEF WorkerFine, AtChild
  <2> QED BY <2>1, <2>2, <2>3, <2>4 DEF WorkerFine, BrokerGrows
<1>5. CASE Stepped(w, "begin", "look", {"refused"}) /\ worker'[w].refused = TRUE
  BY <1>5, KeptChild DEF WorkerFine, Stepped, AtChild
<1>6. CASE Stepped(w, "route", "journal", {"i"}) /\ worker'[w].i = 1
  <2>1. Slices[Current(w)] \in Nat \ {0} /\ 1 \in 1..Slices[Current(w)]
    BY <1>0, <1>6, ReferenceAssumption DEF Stepped
  <2>8. /\ worker[w].pc = "route" /\ worker'[w].pc = "journal"
        /\ worker'[w].todo = worker[w].todo /\ Current(w)' = Current(w)
        /\ worker'[w].price = worker[w].price /\ worker'[w].refused = worker[w].refused
        /\ worker'[w].filled = worker[w].filled
    BY <1>6 DEF Stepped, Fields, Current, Child
  <2> QED BY <1>6, <2>1, <2>8 DEF WorkerFine, AtChild
<1>7. CASE /\ Stepped(w, "send", "working", {})
           /\ broker' = [broker EXCEPT ![Child(w)] = [open |-> TRUE, deals |-> {}]]
  <2>1. Child(w) \in Children
    BY <1>0, <1>7, ChildInRange DEF Stepped, WorkerFine, AtChild
  <2>2. [open |-> TRUE, deals |-> {}] # None
    <3> DEFINE b == TRUE
    <3>1. b \in BOOLEAN
      OBVIOUS
    <3>2. [open |-> b, deals |-> {}] # None
      <4> HIDE DEF b
      <4> QED BY <3>1, OrderRecord
    <3> QED BY <3>2
  <2>3. broker'[Child(w)] # None
    BY <1>7, <2>1, <2>2 DEF BrokerInv
  <2>8. /\ worker[w].pc = "send" /\ worker'[w].pc = "working"
        /\ worker'[w].todo = worker[w].todo /\ Current(w)' = Current(w)
        /\ worker'[w].price = worker[w].price /\ worker'[w].refused = worker[w].refused
        /\ worker'[w].filled = worker[w].filled
        /\ worker'[w].i = worker[w].i /\ Child(w)' = Child(w)
    BY <1>7 DEF Stepped, Fields, Current, Child
  <2> QED BY <2>3, <2>8 DEF WorkerFine, AtChild
<1>8. CASE /\ Stepped(w, "deal", "fill", {"deal"})
           /\ worker'[w].deal \in broker[Child(w)].deals
  <2>1. Child(w) \in Children
    BY <1>0, <1>8, ChildInRange DEF Stepped, WorkerFine, AtChild
  <2>8. /\ worker[w].pc = "deal" /\ worker'[w].pc = "fill"
        /\ worker'[w].todo = worker[w].todo /\ Current(w)' = Current(w)
        /\ worker'[w].price = worker[w].price /\ worker'[w].refused = worker[w].refused
        /\ worker'[w].filled = worker[w].filled
        /\ worker'[w].i = worker[w].i /\ Child(w)' = Child(w)
    BY <1>8 DEF Stepped, Fields, Current, Child
  <2>9. broker'[Child(w)] # None /\ worker'[w].deal \in broker'[Child(w)].deals
    BY <1>8, <2>1, <2>8 DEF WorkerFine, BrokerGrows
  <2> HIDE DEF Child, Current
  <2> QED BY <2>8, <2>9 DEF WorkerFine, AtChild
<1>9. CASE /\ Stepped(w, "total", "observe", {"filled", "deal"})
           /\ \/ worker'[w].filled = worker[w].filled + worker[w].deal.qty
              \/ worker'[w].filled = worker[w].filled + 0 /\ worker[w].filled > 0
  <2>1. worker[w].deal.qty \in Nat \ {0}
    <3>1. Child(w) \in Children
      BY <1>0, <1>9, ChildInRange DEF Stepped, WorkerFine, AtChild
    <3>2. worker[w].deal \in broker[Child(w)].deals /\ broker[Child(w)] # None
      BY <1>9 DEF Stepped, WorkerFine
    <3>3. worker[w].deal \in Deals
      BY <3>1, <3>2 DEF BrokerInv, OrderFine, BrokerOrder
    <3> QED BY <3>3, AmountOfDeal
  <2>2. worker'[w].filled \in Nat /\ worker'[w].filled > 0
    BY <1>9, <2>1 DEF WorkerFine
  <2>8. /\ worker[w].pc = "total" /\ worker'[w].pc = "observe"
        /\ worker'[w].todo = worker[w].todo /\ Current(w)' = Current(w)
        /\ worker'[w].price = worker[w].price /\ worker'[w].refused = worker[w].refused
        /\ worker'[w].i = worker[w].i
    BY <1>9 DEF Stepped, Fields, Current, Child
  <2> QED BY <2>2, <2>8 DEF WorkerFine, AtChild
<1>10. CASE /\ Stepped(w, "observe", "journal", {"i", "unmatched"})
            /\ worker[w].i < Slices[Current(w)] /\ worker'[w].i = worker[w].i + 1
  <2>1. worker'[w].i \in 1..Slices[Current(w)]
    BY <1>0, <1>10, ReferenceAssumption DEF Stepped, WorkerFine, AtChild
  <2>8. /\ worker[w].pc = "observe" /\ worker'[w].pc = "journal"
        /\ worker'[w].todo = worker[w].todo /\ Current(w)' = Current(w)
        /\ worker'[w].price = worker[w].price /\ worker'[w].refused = worker[w].refused
        /\ worker'[w].filled = worker[w].filled
    BY <1>10 DEF Stepped, Fields, Current, Child
  <2> QED BY <2>1, <2>8 DEF WorkerFine, AtChild
<1>11. CASE Stepped(w, "observe", "finish", {"unmatched"})
  BY <1>11, KeptChild DEF WorkerFine, Stepped, AtChild
<1>12. CASE /\ worker[w].pc = "commit" /\ Len(worker[w].todo) # 1
            /\ worker'[w] = [Idle EXCEPT !.pc = "check", !.todo = Tail(worker[w].todo)]
  <2>1. \A s \in Seq(Orders) : s # <<>> /\ Len(s) # 1 => Tail(s) \in Seq(Orders) /\ Tail(s) # <<>>
    <3> SUFFICES ASSUME NEW s \in Seq(Orders), s # <<>>, Len(s) # 1
                 PROVE  Tail(s) \in Seq(Orders) /\ Tail(s) # <<>>
      OBVIOUS
    <3>1. Tail(s) \in Seq(Orders) /\ Len(Tail(s)) = Len(s) - 1
      BY HeadTailProperties
    <3>2. Len(s) \in Nat /\ \A t : Len(t) # 0 => t # <<>>
      BY LenProperties
    <3>3. Len(Tail(s)) # 0
      BY <3>1, <3>2
    <3> QED BY <3>1, <3>2, <3>3, Zenon
  <2>2. Tail(worker[w].todo) \in Seq(Orders) /\ Tail(worker[w].todo) # <<>>
    BY <1>12, <2>1 DEF WorkerFine
  <2>3. /\ worker'[w].pc = "check" /\ worker'[w].todo = Tail(worker[w].todo)
        /\ worker'[w].filled = 0 /\ worker'[w].refused = FALSE
    BY <1>12 DEF Idle
  <2>4. worker'[w].refused \in BOOLEAN /\ ~worker'[w].refused
    BY <2>3
  <2> QED BY <2>2, <2>3, <2>4 DEF WorkerFine, AtChild
<1> QED
  BY <1>1, <1>2, <1>3, <1>4, <1>5, <1>6, <1>7, <1>8, <1>9, <1>10, <1>11, <1>12 DEF Edge

LEMMA OnlyStepsMove ==
  ASSUME [Next]_vars
  PROVE  UNCHANGED worker \/ \E w \in Workers : Step(w)
BY DEF Next, vars, Lapse, BrokerDeals, BrokerCancels, MarkUnknown, Recover

LEMMA WorkStep ==
  ASSUME JournalInv, BrokerInv, WorkInv, [Next]_vars
  PROVE  WorkInv'
<1>1. BrokerGrows
  BY BrokerStep
<1>2. ASSUME NEW w \in Workers, Step(w), NEW v \in Workers PROVE WorkerFine(v)'
  <2>1. Alone(w) /\ Edge(w)
    BY <1>2, Edges DEF JournalInv
  <2>2. WorkerFine(v)
    BY DEF WorkInv
  <2> QED BY <1>1, <2>1, <2>2, RestingIsFine, MovingIsFine DEF Alone
<1>3. ASSUME UNCHANGED worker, NEW v \in Workers PROVE WorkerFine(v)'
  BY <1>1, <1>3, RestingIsFine DEF WorkInv
<1> QED BY <1>2, <1>3, OnlyStepsMove DEF WorkInv

-----------------------------------------------------------------------------
(* The limit of the portfolio                                               *)

AdmissionInv ==
  /\ reserved \in [Orders -> Nat] /\ committed \in [Orders -> Nat]
  /\ AdmissionIsBounded

LEMMA SumsOfOrders ==
  ASSUME NEW f \in [Orders -> Nat], NEW g \in [Orders -> Nat]
  PROVE  /\ SumFunctionOnSet(f, Orders) \in Nat
         /\ (\A o \in Orders : f[o] <= g[o]) =>
              SumFunctionOnSet(f, Orders) <= SumFunctionOnSet(g, Orders)
<1>1. \A o \in Orders : f[o] \in Nat /\ g[o] \in Nat /\ f[o] <= f[o]
  OBVIOUS
<1>2. SumFunctionOnSet(f, Orders) \in Nat
  BY <1>1, SumsGrow, ReferenceAssumption
<1>3. ASSUME \A o \in Orders : f[o] <= g[o]
      PROVE  SumFunctionOnSet(f, Orders) <= SumFunctionOnSet(g, Orders)
  BY <1>1, <1>3, SumsGrow, ReferenceAssumption
<1> QED BY <1>2, <1>3

LEMMA SumOfOneMore ==
  ASSUME NEW f \in [Orders -> Nat], NEW o \in Orders, NEW x \in Nat
  PROVE  SumFunctionOnSet([f EXCEPT ![o] = x], Orders) = SumFunctionOnSet(f, Orders) - f[o] + x
<1> DEFINE g == [f EXCEPT ![o] = x]
<1>1. g[o] = x /\ \A p \in Orders \ {o} : g[p] = f[p]
  OBVIOUS
<1>2. \A p \in Orders : f[p] \in Int
  OBVIOUS
<1>3. g[o] \in Int
  BY <1>1
<1> HIDE DEF g
<1>4. SumFunctionOnSet(g, Orders) = SumFunctionOnSet(f, Orders) - f[o] + g[o]
  BY <1>1, <1>2, <1>3, SumOfChanged, ReferenceAssumption
<1> QED BY <1>1, <1>4 DEF g

LEMMA AdmissionInit == Init => AdmissionInv
<1> SUFFICES ASSUME Init PROVE AdmissionInv
  OBVIOUS
<1>1. reserved \in [Orders -> Nat] /\ committed \in [Orders -> Nat]
  BY DEF Init
<1>2. \A f \in [Orders -> Nat] : (\A o \in Orders : f[o] = 0) => SumFunctionOnSet(f, Orders) = 0
  <2> SUFFICES ASSUME NEW f \in [Orders -> Nat], \A o \in Orders : f[o] = 0
               PROVE  SumFunctionOnSet(f, Orders) = 0
    OBVIOUS
  <2> DEFINE Bad == {T \in SUBSET Orders : SumFunctionOnSet(f, T) # 0}
  <2> SUFFICES ASSUME Bad # {} PROVE FALSE
    OBVIOUS
  <2>1. \A T \in Bad : IsFiniteSet(T)
    BY FS_Subset, ReferenceAssumption
  <2>2. PICK T \in Bad : \A U \in Bad : Cardinality(T) <= Cardinality(U)
    <3> HIDE DEF Bad
    <3> QED BY <2>1, Sums!SmallestMember, SameSets
  <2>3. PICK o \in T : TRUE
    BY SumOfNone
  <2>4. /\ IsFiniteSet(T \ {o}) /\ Cardinality(T \ {o}) = Cardinality(T) - 1
        /\ Cardinality(T) \in Nat /\ Cardinality(T \ {o}) \in Nat
    BY <2>1, <2>3, FS_RemoveElement, FS_CardinalityType
  <2>5. T \ {o} \notin Bad
    BY <2>2, <2>4
  <2>6. SumFunctionOnSet(f, T) = f[o] + SumFunctionOnSet(f, T \ {o})
    BY <2>1, <2>3, SumStep
  <2> QED BY <2>3, <2>5, <2>6
<1>3. Held = 0 /\ Exposure = 0
  BY <1>1, <1>2 DEF Init, Held, Exposure
<1> QED BY <1>1, <1>3, ReferenceAssumption DEF AdmissionInv, AdmissionIsBounded

\* A reservation is new and fits, or was there; lapsed ones only go away.
LEMMA ReserveBounded ==
  ASSUME WorkInv, AdmissionInv, NEW w \in Workers, Reserve(w)
  PROVE  AdmissionInv'
<1> DEFINE o == Current(w)
           kept == SumFunctionOnSet(Purge, Orders)
<1>1. o \in Orders /\ UNCHANGED committed
  BY HeadOfBatch DEF WorkInv, WorkerFine, Reserve, At
<1>2. /\ Purge \in [Orders -> Nat] /\ \A p \in Orders : Purge[p] <= reserved[p]
  BY DEF Purge, AdmissionInv
<1>3. kept \in Nat /\ Held \in Nat /\ Exposure \in Nat /\ kept <= Held
  BY <1>2, SumsOfOrders DEF Held, Exposure, AdmissionInv
<1>4. Exposure' = Exposure
  BY <1>1 DEF Exposure
<1>5. CASE UNCHANGED reserved
  BY <1>1, <1>4, <1>5 DEF AdmissionInv, AdmissionIsBounded, Held
<1>6. CASE Purge[o] # 0 /\ reserved' = [Purge EXCEPT ![o] = IF @ # 0 THEN @ ELSE Notional]
  <2>1. reserved' = Purge
    BY <1>1, <1>2, <1>6
  <2>2. Held' = kept
    BY <2>1 DEF Held
  <2> QED
    BY <1>1, <1>2, <1>3, <1>4, <2>1, <2>2, ReferenceAssumption DEF AdmissionInv, AdmissionIsBounded
<1>7. CASE /\ Purge[o] = 0 /\ Exposure + kept + Notional <= Limit
           /\ reserved' = [Purge EXCEPT ![o] = IF @ # 0 THEN @ ELSE Notional]
  <2>1. reserved' = [Purge EXCEPT ![o] = Notional] /\ Notional \in Nat
    BY <1>1, <1>2, <1>7, ReferenceAssumption DEF Notional
  <2>2. reserved' \in [Orders -> Nat]
    BY <1>2, <2>1
  <2>3. Held' = kept - Purge[o] + Notional
    BY <1>1, <1>2, <2>1, SumOfOneMore DEF Held
  <2>4. Held' = kept + Notional
    BY <1>3, <1>7, <2>1, <2>3
  <2>5. Held' + Exposure' <= Limit
    BY <1>3, <1>4, <1>7, <2>1, <2>4, ReferenceAssumption
  <2> QED BY <1>1, <2>2, <2>5 DEF AdmissionInv, AdmissionIsBounded
<1> QED BY <1>5, <1>6, <1>7 DEF Reserve

\* What a commit adds to the exposure it takes from the order's reservation.
LEMMA CommitBounded ==
  ASSUME WorkInv, AdmissionInv, NEW w \in Workers, Commit(w)
  PROVE  AdmissionInv'
<1> DEFINE o == Current(w)
           cost == worker[w].filled * worker[w].price
<1>1. o \in Orders /\ worker[w].filled \in Nat /\ worker[w].price \in Nat
  BY HeadOfBatch, ReferenceAssumption DEF WorkInv, WorkerFine, Commit, At
<1>2. cost \in Nat
  BY <1>1
<1>3. CASE UNCHANGED <<reserved, committed>>
  BY <1>3 DEF AdmissionInv, AdmissionIsBounded, Held, Exposure
<1>4. CASE /\ cost <= reserved[o]
           /\ committed' = [committed EXCEPT ![o] = @ + cost]
           /\ reserved' = [reserved EXCEPT ![o] = 0]
  <2> HIDE DEF cost, o
  <2>1. /\ reserved[o] \in Nat /\ committed[o] \in Nat
        /\ committed' = [committed EXCEPT ![o] = committed[o] + cost]
    BY <1>1, <1>4 DEF AdmissionInv, o
  <2>2. reserved' \in [Orders -> Nat] /\ committed' \in [Orders -> Nat]
    BY <1>1, <1>2, <1>4, <2>1 DEF AdmissionInv
  <2>3. o \in Orders /\ committed[o] + cost \in Nat
    BY <1>1, <1>2, <2>1 DEF o
  <2>4. Held' = Held - reserved[o] + 0
    BY <1>4, <2>3, SumOfOneMore DEF AdmissionInv, Held
  <2>5. Exposure' = Exposure - committed[o] + (committed[o] + cost)
    BY <2>1, <2>3, SumOfOneMore DEF AdmissionInv, Exposure
  <2>6. Held \in Nat /\ Exposure \in Nat
    BY SumsOfOrders DEF AdmissionInv, Held, Exposure
  <2>7. Held' + Exposure' <= Held + Exposure
    BY <1>2, <1>4, <2>1, <2>4, <2>5, <2>6
  <2>8. Held' + Exposure' <= Limit
    <3>1. Held' \in Int /\ Exposure' \in Int /\ Held + Exposure <= Limit
      BY <1>2, <2>1, <2>4, <2>5, <2>6 DEF AdmissionInv, AdmissionIsBounded
    <3>2. \A a, b \in Int : a <= b /\ b <= Limit => a <= Limit
      BY ReferenceAssumption
    <3>3. Held' + Exposure' \in Int /\ Held + Exposure \in Int
      BY <2>6, <3>1
    <3> QED BY <2>7, <3>1, <3>2, <3>3
  <2> QED BY <2>2, <2>8 DEF AdmissionInv, AdmissionIsBounded
<1> QED BY <1>3, <1>4 DEF Commit

LEMMA ReleaseBounded ==
  ASSUME WorkInv, AdmissionInv, NEW w \in Workers, Release(w)
  PROVE  AdmissionInv'
<1> DEFINE o == Current(w)
<1>1. /\ o \in Orders /\ UNCHANGED committed /\ reserved' = [reserved EXCEPT ![o] = 0]
  BY HeadOfBatch DEF WorkInv, WorkerFine, Release, At
<1>2. reserved' \in [Orders -> Nat] /\ \A p \in Orders : reserved'[p] <= reserved[p]
  BY <1>1 DEF AdmissionInv
<1>3. Held' <= Held /\ Held \in Nat /\ Held' \in Nat /\ Exposure \in Nat /\ Exposure' = Exposure
  BY <1>1, <1>2, SumsOfOrders DEF AdmissionInv, Held, Exposure
<1>4. Held' + Exposure' <= Limit
  <2>1. Held + Exposure <= Limit /\ Limit \in Nat
    BY ReferenceAssumption DEF AdmissionInv, AdmissionIsBounded
  <2>2. \A a, b, c \in Nat : a <= b /\ b + c <= Limit => a + c <= Limit
    BY <2>1
  <2> QED BY <1>3, <2>1, <2>2
<1> QED BY <1>1, <1>2, <1>4 DEF AdmissionInv, AdmissionIsBounded

LEMMA AdmissionStep ==
  ASSUME WorkInv, AdmissionInv, [Next]_vars
  PROVE  AdmissionInv'
<1>1. ASSUME UNCHANGED <<reserved, committed>> PROVE AdmissionInv'
  BY <1>1 DEF AdmissionInv, AdmissionIsBounded, Held, Exposure
<1>2. ASSUME NEW w \in Workers, Step(w)
      PROVE  Reserve(w) \/ Commit(w) \/ Release(w) \/ UNCHANGED <<reserved, committed>>
  BY <1>2 DEF Step, ExecuteMany, Check, Begin, Route, Look, Cancel, JournalChild, Send,
              MarkChildUnknown, MarkChildWorking, Deal, FillChild, FillParent, Observe, Finish,
              Crash, admission
<1>3. ASSUME NEW w \in Workers, Step(w) PROVE AdmissionInv'
  BY <1>1, <1>2, <1>3, ReserveBounded, CommitBounded, ReleaseBounded
<1>4. ASSUME ~(\E w \in Workers : Step(w)) PROVE UNCHANGED <<reserved, committed>>
  BY <1>4 DEF Next, vars, Lapse, BrokerDeals, BrokerCancels, MarkUnknown, Recover, admission
<1> QED BY <1>1, <1>3, <1>4

-----------------------------------------------------------------------------
(* Whose an order is                                                        *)

\* Rows that exist stay, in every step.
LEMMA RowsRemain ==
  ASSUME JournalInv, [Next]_vars
  PROVE  RowsStay
<1> USE DEF JournalInv
<1>1. ASSUME UNCHANGED row PROVE RowsStay
  BY <1>1, RowsUnchanged
<1>2. {"CANCELLED", "UNKNOWN", "WORKING"} \subseteq States
  BY DEF States
<1>3. ASSUME NEW r \in {NewRow} PROVE "state" \in DOMAIN r /\ r = [f \in DOMAIN r |-> r[f]]
                                      /\ r.state \in States
  BY DEF NewRow, States
<1>4. ASSUME NEW w \in Workers, Step(w) PROVE RowsStay
  <2>1. CASE Begin(w) \/ JournalChild(w)
    BY <1>1, <1>3, <2>1, WrittenRowStays DEF Begin, JournalChild
  <2>2. CASE Cancel(w) \/ MarkChildUnknown(w) \/ MarkChildWorking(w) \/ Finish(w)
    BY <1>1, <1>2, <2>2, MarkKeepsRows DEF Cancel, MarkChildUnknown, MarkChildWorking, Finish
  <2>3. CASE FillChild(w) \/ FillParent(w)
    BY <2>3, FillKeepsRows DEF FillChild, FillParent
  <2>4. \/ Begin(w) \/ JournalChild(w) \/ Cancel(w) \/ MarkChildUnknown(w)
        \/ MarkChildWorking(w) \/ Finish(w) \/ FillChild(w) \/ FillParent(w) \/ UNCHANGED row
    BY <1>4 DEF Step, ExecuteMany, Check, Reserve, Route, Look, Release, Send, Deal, Observe,
                Commit, Crash
  <2> QED BY <1>1, <2>1, <2>2, <2>3, <2>4
<1>5. ASSUME NEW id \in Ids, MarkUnknown(id) PROVE RowsStay
  BY <1>2, <1>5, MarkKeepsRows DEF MarkUnknown
<1>6. ASSUME NEW id \in Ids, NEW b \in BOOLEAN, Recover(id, b) PROVE RowsStay
  <2>1. PICK state \in States : \E filled, deals, complete :
          row' = [row EXCEPT ![id] = [state |-> state, filled |-> filled,
                                      deals |-> deals, complete |-> complete]]
    BY <1>6 DEF Recover, States
  <2>2. PICK filled, deals, complete :
          row' = [row EXCEPT ![id] = [state |-> state, filled |-> filled,
                                      deals |-> deals, complete |-> complete]]
    BY <2>1
  <2> DEFINE r == [state |-> state, filled |-> filled, deals |-> deals, complete |-> complete]
  <2>3. "state" \in DOMAIN r /\ r = [f \in DOMAIN r |-> r[f]] /\ r.state = state
    OBVIOUS
  <2> HIDE DEF r
  <2> QED BY <2>2, <2>3, WrittenRowStays DEF r
<1>7. ASSUME ~(\E w \in Workers : Step(w)),
             ~(\E id \in Ids : MarkUnknown(id) \/ \E b \in BOOLEAN : Recover(id, b))
      PROVE  UNCHANGED row
  BY <1>7 DEF Next, vars, Lapse, BrokerDeals, BrokerCancels
<1> QED BY <1>1, <1>4, <1>5, <1>6, <1>7

\* A process that is at a child owns the child's order.
LEMMA OwnerOfChild ==
  ASSUME WorkInv, NEW w \in Workers, worker[w].pc \in AtChild
  PROVE  /\ Child(w) \in Children /\ Child(w)[1] = Current(w) /\ Current(w) \in Orders
         /\ Owns(w, Current(w)) /\ Owns(w, Child(w)[1])
<1>1. /\ Current(w) \in Orders /\ worker[w].i \in 1..Slices[Current(w)] /\ ~worker[w].refused
  BY HeadOfBatch DEF WorkInv, WorkerFine, AtChild
<1>2. Child(w) \in Children /\ Child(w)[1] = Current(w)
  BY <1>1, ChildInRange
<1>3. Owns(w, Current(w))
  BY <1>1 DEF Owns, AtChild
<1> QED BY <1>1, <1>2, <1>3

\* An order a process owns after a step it owned before, or it has just begun it.
Begun(w, o) ==
  Begin(w) /\ Current(w) = o /\ row[Parent(o)] = NoRow /\ row'[Parent(o)] # NoRow

LEMMA OwnedBefore ==
  ASSUME JournalInv, WorkInv, [Next]_vars, NEW w \in Workers, NEW o \in Orders, Owns(w, o)'
  PROVE  Owns(w, o) \/ Begun(w, o)
<1>1. ASSUME worker'[w] = worker[w] PROVE Owns(w, o)
  BY <1>1 DEF Owns, Current
<1>2. ASSUME Step(w), ~Owns(w, o) PROVE Begun(w, o)
  <2>1. Edge(w) /\ WorkerFine(w)
    BY <1>2, Edges DEF JournalInv, WorkInv
  <2>2. Stepped(w, "begin", "route", {})
    <3>1. worker'[w].pc \notin {"idle", "check", "reserve", "begin"} /\ ~worker'[w].refused
      BY DEF Owns
    <3>2. ASSUME NEW from, NEW to, NEW changed, Stepped(w, from, to, changed),
                 changed \cap {"todo", "refused"} = {},
                 from \notin {"idle", "check", "reserve", "begin"}
          PROVE  Owns(w, o)
      BY <3>2 DEF Stepped, Fields, Owns, Current
    <3>3. ASSUME NEW e \in Onwards, Stepped(w, e[1], e[2], {}) PROVE e = <<"begin", "route">>
      <4>1. e[1] \in {"reserve", "begin"}
        BY <1>2, <3>2, <3>3 DEF Onwards
      <4>2. e[2] # "begin"
        BY <3>1, <3>3 DEF Stepped
      <4> QED BY <4>1, <4>2 DEF Onwards
    <3>4. worker'[w] # Idle /\ worker'[w].pc # "check" /\ worker'[w].pc # "reserve"
      BY <3>1 DEF Idle
    <3>5. worker'[w] # [Idle EXCEPT !.pc = "check", !.todo = Tail(worker[w].todo)]
      BY <3>4 DEF Idle
    <3>6. /\ ~Stepped(w, "idle", "check", {"todo"})
          /\ ~Stepped(w, "check", "reserve", {"price"})
          /\ ~(Stepped(w, "begin", "look", {"refused"}) /\ worker'[w].refused = TRUE)
      BY <3>1, <3>4 DEF Stepped
    <3>7. ASSUME NEW from, NEW to, NEW changed, Stepped(w, from, to, changed),
                 from \in {"route", "send", "deal", "total", "observe"},
                 changed \in {{}, {"i"}, {"deal"}, {"filled", "deal"}, {"i", "unmatched"},
                             {"unmatched"}}
          PROVE  FALSE
      <4>1. changed \cap {"todo", "refused"} = {}
        BY <3>7
      <4> QED BY <1>2, <3>2, <3>7, <4>1
    <3> QED BY <2>1, <3>3, <3>4, <3>5, <3>6, <3>7 DEF Edge
  <2>3. /\ Begin(w) /\ row[Parent(Current(w))] = NoRow
        /\ row' = [row EXCEPT ![Parent(Current(w))] = NewRow]
    <3>1. Begin(w)
      <4>1. worker[w].pc = "begin" /\ worker'[w].pc = "route"
        BY <2>2 DEF Stepped
      <4>2. ~Crash(w)
        BY <4>1 DEF Crash, Raise, Idle, JournalInv, WorkersTyped
      <4> QED BY <1>2, <4>1, <4>2 DEF Step, ExecuteMany, Check, Reserve, Route, Look, Cancel,
        Release, JournalChild, Send, MarkChildUnknown, MarkChildWorking, Deal, FillChild,
        FillParent, Observe, Finish, Commit, At
    <3>2. worker'[w].pc = "route"
      BY <2>2 DEF Stepped
    <3>3. worker' # [worker EXCEPT ![w].pc = "look", ![w].refused = TRUE]
      BY <3>2 DEF JournalInv, WorkersTyped, Fields
    <3> QED BY <3>1, <3>3 DEF Begin
  <2>4. Current(w) = o
    BY <2>2 DEF Stepped, Fields, Owns, Current
  <2>5. Parent(o) \in Ids /\ NewRow # NoRow
    BY DEF Ids, Parent, NewRow, NoRow
  <2> QED BY <2>3, <2>4, <2>5 DEF Begun, JournalInv, RowsTyped
<1>3. Step(w) \/ worker'[w] = worker[w]
  BY OnlyStepsMove, Edges DEF Alone, JournalInv
<1> QED BY <1>1, <1>2, <1>3

(***************************************************************************)
(* An order with a parent row has at most one owner, ever; the broker has  *)
(* only children of such orders, and none while their owner may still undo *)
(* its attempt.                                                            *)
(***************************************************************************)
Undoing == {"route", "look", "cancel", "release"}

OneOwner ==
  /\ \A w \in Workers, o \in Orders : Owns(w, o) => row[Parent(o)] # NoRow
  /\ \A v, w \in Workers, o \in Orders : Owns(v, o) /\ Owns(w, o) => v = w
  /\ \A c \in Children : broker[c] # None => row[Parent(c[1])] # NoRow
  /\ \A w \in Workers, c \in Children :
       Owns(w, c[1]) /\ worker[w].pc \in Undoing => broker[c] = None

\* A child new at the broker was sent by its owner.
LEMMA NewOrder ==
  ASSUME BrokerInv, WorkInv, [Next]_vars, NEW c \in Children, broker[c] = None, broker'[c] # None
  PROVE  \E w \in Workers : Step(w) /\ Send(w) /\ Child(w) = c /\ Owns(w, c[1])
<1>1. PICK w \in Workers : Step(w) /\ Send(w)
  <2>1. ~(\E k \in Children : BrokerDeals(k) \/ BrokerCancels(k))
    BY DEF BrokerDeals, BrokerCancels, BrokerInv
  <2>2. broker' # broker
    OBVIOUS
  <2> QED BY <2>1, <2>2, OnlySendReaches DEF Next, vars, Lapse, MarkUnknown, Recover, world
<1>2. Child(w) = c
  BY <1>1 DEF Send, BrokerInv
<1>3. worker[w].pc \in AtChild
  BY <1>1 DEF Send, At, AtChild
<1> QED BY <1>1, <1>2, <1>3, OwnerOfChild

LEMMA OwnerInit == Init => OneOwner
BY DEF Init, OneOwner, Owns, Idle

LEMMA OwnerStep ==
  ASSUME JournalInv, BrokerInv, WorkInv, OneOwner, [Next]_vars
  PROVE  OneOwner'
<1>1. \A o \in Orders : Parent(o) \in Ids
  BY DEF Ids, Parent
<1>2. \A o \in Orders : row[Parent(o)] # NoRow => row'[Parent(o)] # NoRow
  BY <1>1, RowsRemain DEF RowsStay
<1>3. \A w \in Workers, o \in Orders : Begun(w, o) => \A v \in Workers : ~Owns(v, o)
  BY DEF Begun, OneOwner
<1>4. ASSUME NEW w \in Workers, NEW o \in Orders, Owns(w, o)' PROVE row'[Parent(o)] # NoRow
  BY <1>2, <1>4, OwnedBefore DEF OneOwner, Begun
<1>5. ASSUME NEW v \in Workers, NEW w \in Workers, NEW o \in Orders, Owns(v, o)', Owns(w, o)'
      PROVE  v = w
  <2>1. ASSUME Begun(v, o), Begun(w, o) PROVE v = w
    <3>1. Step(v) /\ Step(w) /\ worker[v].pc = "begin" /\ worker[w].pc = "begin"
          /\ worker'[v].pc # "begin" /\ worker'[w].pc # "begin"
      BY <1>5, <2>1 DEF Begun, Step, Begin, At, Owns
    <3> QED BY <3>1, Edges DEF Alone, JournalInv
  <2> QED BY <1>3, <1>5, <2>1, OwnedBefore DEF OneOwner
<1>6. ASSUME NEW c \in Children, broker'[c] # None PROVE row'[Parent(c[1])] # NoRow
  BY <1>2, <1>6, NewOrder, ChildIs DEF OneOwner
<1>7. ASSUME NEW w \in Workers, NEW c \in Children, Owns(w, c[1])', worker'[w].pc \in Undoing
      PROVE  broker'[c] = None
  <2>1. ASSUME broker'[c] # None, broker[c] = None PROVE FALSE
    <3>1. PICK u \in Workers : Step(u) /\ Send(u) /\ Owns(u, c[1])
      BY <2>1, NewOrder
    <3>2. u = w
      <4>1. ~Begun(w, c[1])
        BY <1>3, <3>1, ChildIs
      <4> QED BY <1>7, <3>1, <4>1, OwnedBefore, ChildIs DEF OneOwner
    <3>3. worker'[w].pc \notin Undoing
      BY <3>1, <3>2, GotoSteps DEF Send, Stepped, Undoing, JournalInv
    <3> QED BY <1>7, <3>3
  <2>2. ASSUME Begun(w, c[1]) PROVE broker[c] = None
    BY <2>2, ChildIs DEF Begun, OneOwner
  <2>3. ASSUME Owns(w, c[1]) PROVE worker[w].pc \in Undoing
    <3>1. CASE worker'[w] = worker[w]
      BY <1>7, <3>1
    <3>2. CASE Edge(w)
      <4>1. worker[w].pc \notin {"idle", "check", "reserve", "begin"} /\ worker'[w].pc # "idle"
            /\ worker'[w].pc # "check" /\ worker'[w].pc # "reserve"
        BY <1>7, <2>3 DEF Owns, Undoing
      <4>2. <<worker[w].pc, worker'[w].pc>> \in Passages
        BY <3>2, <4>1, EdgeIsPassage
      <4> QED BY <1>7, <4>1, <4>2 DEF Passages, Onwards, Undoing
    <3>3. Edge(w) \/ worker'[w] = worker[w]
      BY OnlyStepsMove, Edges DEF Alone, JournalInv
    <3> QED BY <3>1, <3>2, <3>3
  <2> QED BY <1>7, <2>1, <2>2, <2>3, OwnedBefore, ChildIs DEF OneOwner
<1> QED BY <1>4, <1>5, <1>6, <1>7 DEF OneOwner

-----------------------------------------------------------------------------
(* What was dealt is counted                                                *)

Counted(o) == reserved[o] + committed[o] > 0 \/ o \in purged \cup undercut

(***************************************************************************)
(* An order counts from its reservation on: a process that is about to     *)
(* begin one that has no parent row yet has it counted, so has its owner   *)
(* until it undoes the attempt, and so is everything at the broker.        *)
(***************************************************************************)
CountedInv ==
  /\ \A w \in Workers : worker[w].pc = "begin" =>
       Counted(Current(w)) \/ row[Parent(Current(w))] # NoRow
  /\ \A w \in Workers, o \in Orders :
       Owns(w, o) /\ worker[w].pc \notin {"look", "cancel", "release"} => Counted(o)
  /\ \A c \in Children : broker[c] # None => Counted(c[1])

LEMMA CountedInit == Init => CountedInv
BY DEF Init, CountedInv, Owns, Idle

\* The one way out of the count: the owner releases what it reserved.
Undone(o) == \E w \in Workers : Step(w) /\ Release(w) /\ ~worker[w].refused /\ Current(w) = o

LEMMA CountStays ==
  ASSUME WorkInv, AdmissionInv, [Next]_vars, NEW o \in Orders, Counted(o), ~Undone(o)
  PROVE  Counted(o)'
<1>1. ASSUME UNCHANGED <<reserved, committed>>,
             purged \subseteq purged', undercut \subseteq undercut'
      PROVE  Counted(o)'
  BY <1>1 DEF Counted
<1>2. /\ reserved \in [Orders -> Nat] /\ committed \in [Orders -> Nat]
      /\ \A w \in Workers : worker[w].pc # "idle" => Current(w) \in Orders
  BY HeadOfBatch DEF AdmissionInv, WorkInv, WorkerFine
<1>3. ASSUME NEW w \in Workers, Reserve(w) PROVE Counted(o)'
  <2>1. CASE UNCHANGED reserved
    BY <1>1, <1>3, <2>1 DEF Reserve
  <2>2. CASE /\ reserved' = [Purge EXCEPT ![Current(w)] = IF @ # 0 THEN @ ELSE Notional]
             /\ purged' = purged \cup lapsed
    <3>1. UNCHANGED <<committed, undercut>> /\ Notional \in Nat
      BY <1>3, ReferenceAssumption DEF Reserve, Notional
    <3>2. o \in lapsed \/ reserved'[o] >= reserved[o]
      BY <1>2, <2>2, <3>1 DEF Purge
    <3>3. reserved'[o] \in Nat
      BY <1>2, <2>2, <3>1 DEF Purge
    <3> QED BY <1>2, <2>2, <3>1, <3>2, <3>3 DEF Counted
  <2> QED BY <1>3, <2>1, <2>2 DEF Reserve
<1>4. ASSUME NEW w \in Workers, Commit(w) PROVE Counted(o)'
  <2> DEFINE p == Current(w)
             cost == worker[w].filled * worker[w].price
  <2>1. p \in Orders /\ cost \in Nat \ {0}
    <3>1. /\ worker[w].filled \in Nat \ {0} /\ worker[w].price \in Nat \ {0}
      BY <1>4, ReferenceAssumption DEF Commit, At, WorkInv, WorkerFine
    <3>2. \A a, b \in Nat \ {0} : a * b \in Nat \ {0}
      OBVIOUS
    <3> QED BY <1>2, <1>4, <3>1, <3>2 DEF Commit, At
  <2>2. UNCHANGED <<purged, undercut>>
    BY <1>4 DEF Commit, histories
  <2>3. CASE UNCHANGED <<reserved, committed>>
    BY <1>1, <2>2, <2>3
  <2>4. CASE /\ committed' = [committed EXCEPT ![p] = @ + cost]
             /\ reserved' = [reserved EXCEPT ![p] = 0]
    <3> HIDE DEF p, cost
    <3>1. CASE o = p
      <4>1. committed'[o] > 0 /\ reserved'[o] = 0 /\ committed'[o] \in Nat
        BY <1>2, <2>1, <2>4, <3>1
      <4> QED BY <4>1 DEF Counted
    <3>2. CASE o # p
      <4>1. committed'[o] = committed[o] /\ reserved'[o] = reserved[o]
        BY <1>2, <2>4, <3>2
      <4> QED BY <2>2, <4>1 DEF Counted
    <3> QED BY <3>1, <3>2
  <2> QED BY <1>4, <2>3, <2>4 DEF Commit
<1>5. ASSUME NEW w \in Workers, Step(w), Release(w) PROVE Counted(o)'
  <2> DEFINE p == Current(w)
  <2>1. /\ reserved' = [reserved EXCEPT ![p] = 0] /\ UNCHANGED <<committed, purged>>
        /\ undercut' = IF worker[w].refused /\ reserved[p] # 0 THEN undercut \cup {p} ELSE undercut
    BY <1>5 DEF Release
  <2>2. o = p => worker[w].refused
    BY <1>5 DEF Undone
  <2>3. CASE o # p
    <3>1. committed'[o] = committed[o] /\ reserved'[o] = reserved[o] /\ undercut \subseteq undercut'
      BY <1>2, <2>1, <2>3
    <3> QED BY <2>1, <3>1 DEF Counted
  <2>4. CASE o = p /\ reserved[o] # 0
    BY <2>1, <2>2, <2>4 DEF Counted
  <2>5. CASE o = p /\ reserved[o] = 0
    <3>1. committed'[o] = committed[o] /\ reserved'[o] = reserved[o] /\ undercut \subseteq undercut'
      BY <1>2, <2>1, <2>5
    <3> QED BY <2>1, <3>1 DEF Counted
  <2> QED BY <2>3, <2>4, <2>5
<1>6. ASSUME NEW w \in Workers, Step(w), ~Reserve(w), ~Commit(w), ~Release(w)
      PROVE  /\ UNCHANGED <<reserved, committed>>
             /\ purged \subseteq purged' /\ undercut \subseteq undercut'
  BY <1>6 DEF Step, ExecuteMany, Check, Begin, Route, Look, Cancel, JournalChild, Send,
              MarkChildUnknown, MarkChildWorking, Deal, FillChild, FillParent, Observe, Finish,
              Crash, admission
<1>7. ASSUME ~(\E w \in Workers : Step(w))
      PROVE  UNCHANGED <<reserved, committed, purged, undercut>>
  BY <1>7 DEF Next, vars, Lapse, BrokerDeals, BrokerCancels, MarkUnknown, Recover, admission,
              histories
<1> QED BY <1>1, <1>3, <1>4, <1>5, <1>6, <1>7

LEMMA CountedStep ==
  ASSUME JournalInv, BrokerInv, WorkInv, AdmissionInv, OneOwner, CountedInv, [Next]_vars
  PROVE  CountedInv'
<1>1. \A o \in Orders : row[Parent(o)] # NoRow => row'[Parent(o)] # NoRow
  BY RowsRemain DEF RowsStay, Ids, Parent
<1>2. ASSUME NEW o \in Orders, Undone(o)
      PROVE  \E u \in Workers : /\ Step(u) /\ Owns(u, o) /\ worker[u].pc = "release"
                                /\ worker'[u] = Idle
  <2>1. PICK u \in Workers : Step(u) /\ Release(u) /\ ~worker[u].refused /\ Current(u) = o
    BY <1>2 DEF Undone
  <2> QED BY <2>1 DEF Owns, Release, At, Raise, JournalInv, WorkersTyped
<1>3. ASSUME NEW w \in Workers, worker'[w].pc = "begin"
      PROVE  Counted(Current(w))' \/ row'[Parent(Current(w)')] # NoRow
  <2>1. CASE worker'[w] = worker[w]
    <3>1. Current(w)' = Current(w) /\ Current(w) \in Orders
      BY <1>3, <2>1, HeadOfBatch DEF Current, WorkInv, WorkerFine
    <3>2. PICK o \in Orders : o = Current(w)
      BY <3>1
    <3>3. Counted(o) \/ row[Parent(o)] # NoRow
      BY <1>3, <2>1, <3>2 DEF CountedInv
    <3>4. Undone(o) => row[Parent(o)] # NoRow
      BY <1>2 DEF OneOwner
    <3>5. Counted(o)' \/ row'[Parent(o)] # NoRow
      BY <1>1, <3>3, <3>4, CountStays
    <3> QED BY <3>1, <3>2, <3>5 DEF Counted
  <2>2. CASE Step(w)
    <3>1. <<worker[w].pc, worker'[w].pc>> \in Passages
      BY <1>3, <2>2, Edges, EdgeIsPassage DEF JournalInv
    <3>2. worker[w].pc = "reserve"
      BY <1>3, <3>1 DEF Passages, Onwards
    <3>3. Reserve(w)
      <4>1. ~Crash(w)
        BY <1>3 DEF Crash, Raise, Idle, JournalInv, WorkersTyped
      <4> QED BY <2>2, <3>2, <4>1 DEF Step, ExecuteMany, Check, Begin, Route, Look, Cancel,
        Release, JournalChild, Send, MarkChildUnknown, MarkChildWorking, Deal, FillChild,
        FillParent, Observe, Finish, Commit, At
    <3>4. ~Raise(w)
      BY <1>3 DEF Raise, Idle, JournalInv, WorkersTyped
    <3>5. Current(w) \in Orders
      BY <3>2, HeadOfBatch DEF WorkInv, WorkerFine
    <3>6. PICK o \in Orders : o = Current(w)
      BY <3>5
    <3>7. reserved'[o] > 0 /\ reserved'[o] \in Nat /\ committed' = committed /\ committed[o] \in Nat
      <4>1. /\ reserved' = [Purge EXCEPT ![o] = IF @ # 0 THEN @ ELSE Notional]
            /\ UNCHANGED committed
        BY <3>3, <3>4, <3>6 DEF Reserve
      <4>2. Purge \in [Orders -> Nat] /\ Notional \in Nat \ {0} /\ committed[o] \in Nat
        BY ReferenceAssumption DEF Purge, AdmissionInv, Notional
      <4> QED BY <4>1, <4>2
    <3>8. Current(w)' = Current(w)
      BY <3>3, <3>4 DEF Reserve, Goto, Current, JournalInv, WorkersTyped, Fields
    <3> QED BY <3>6, <3>7, <3>8 DEF Counted
  <2> QED BY <2>1, <2>2, OnlyStepsMove, Edges DEF Alone, JournalInv
<1>4. ASSUME NEW w \in Workers, NEW o \in Orders, Owns(w, o)',
             worker'[w].pc \notin {"look", "cancel", "release"}
      PROVE  Counted(o)'
  <2>1. ~Undone(o)
    <3>1. ASSUME NEW u \in Workers, Step(u), Owns(u, o), worker[u].pc = "release",
                 worker'[u] = Idle
          PROVE  FALSE
      <4>1. ~Begun(w, o)
        BY <3>1 DEF Begun, OneOwner
      <4>2. u = w
        BY <1>4, <3>1, <4>1, OwnedBefore DEF OneOwner
      <4> QED BY <1>4, <3>1, <4>2 DEF Owns, Idle
    <3> QED BY <1>2, <3>1
  <2>2. CASE Begun(w, o)
    <3>1. worker[w].pc = "begin" /\ Current(w) = o /\ row[Parent(o)] = NoRow
      BY <2>2 DEF Begun, Begin, At
    <3> QED BY <2>1, <3>1, CountStays DEF CountedInv
  <2>3. CASE Owns(w, o)
    <3>1. worker[w].pc \notin {"look", "cancel", "release"}
      <4>1. CASE worker'[w] = worker[w]
        BY <1>4, <4>1
      <4>2. CASE Step(w)
        <5>1. worker'[w].pc \notin {"idle", "check", "reserve"}
          BY <1>4 DEF Owns
        <5>2. <<worker[w].pc, worker'[w].pc>> \in Passages
          BY <4>2, <5>1, Edges, EdgeIsPassage DEF JournalInv
        <5> QED BY <1>4, <5>2 DEF Passages, Onwards
      <4> QED BY <4>1, <4>2, OnlyStepsMove, Edges DEF Alone, JournalInv
    <3> QED BY <2>1, <2>3, <3>1, CountStays DEF CountedInv
  <2> QED BY <1>4, <2>2, <2>3, OwnedBefore
<1>5. ASSUME NEW c \in Children, broker'[c] # None PROVE Counted(c[1])'
  <2>1. c[1] \in Orders
    BY ChildIs
  <2>2. CASE broker[c] = None
    <3>1. PICK u \in Workers : Step(u) /\ Send(u) /\ Owns(u, c[1])
      BY <1>5, <2>2, NewOrder
    <3>2. Counted(c[1])
      BY <2>1, <3>1 DEF Send, At, CountedInv
    <3>3. UNCHANGED <<reserved, committed, purged, undercut>>
      BY <3>1 DEF Send, admission
    <3> QED BY <3>2, <3>3 DEF Counted
  <2>3. CASE broker[c] # None
    <3>1. ~Undone(c[1])
      BY <1>2, <2>1, <2>3 DEF OneOwner, Undoing
    <3> QED BY <2>1, <2>3, <3>1, CountStays DEF CountedInv
  <2> QED BY <2>2, <2>3
<1> QED BY <1>3, <1>4, <1>5 DEF CountedInv

-----------------------------------------------------------------------------
(* What the broker has is accounted for                                     *)

RowFields == {"state", "filled", "deals", "complete"}

RowFine(id) ==
  row[id] # NoRow =>
    /\ DOMAIN row[id] = RowFields
    /\ row[id].filled \in Nat
    /\ FineDeals(row[id].deals)

\* A row nothing was entered in.
Fresh(id, s) ==
  row[id] # NoRow /\ row[id].state = s /\ row[id].filled = 0 /\ row[id].deals = {}

\* A child that can no longer be dealt has the broker's quantity in its row.
Settled(c) == broker[c] = None \/ (~broker[c].open /\ row[c].filled = Dealt(c))

(***************************************************************************)
(* A child whose row is final is settled; a process that is to call the    *)
(* broker, or to enter the answer, has a row nothing is entered in yet.    *)
(***************************************************************************)
AccountInv ==
  /\ \A id \in Ids : RowFine(id)
  /\ \A c \in Children : broker[c] # None => row[c] # NoRow
  /\ \A c \in Children : row[c] # NoRow /\ row[c].state \in {"FILLED", "CANCELLED"} => Settled(c)
  /\ \A w \in Workers :
       /\ worker[w].pc \in {"send", "unknown", "working"} => Fresh(Child(w), "SUBMITTING")
       /\ worker[w].pc \in {"deal", "fill"} => Fresh(Child(w), "WORKING")

\* The ways a row changes.
Opened(id) == row[id] = NoRow /\ row'[id] = NewRow

Marked(id, s) ==
  /\ CanMove(id, s)
  /\ DOMAIN row'[id] = DOMAIN row[id] /\ row'[id].state = s
  /\ row'[id].filled = row[id].filled /\ row'[id].deals = row[id].deals

Entered(id, d) ==
  /\ d \notin row[id].deals /\ Fillable(id, d)
  /\ DOMAIN row'[id] = DOMAIN row[id]
  /\ row'[id].state = FillState(id, row[id].filled + d.qty)
  /\ row'[id].filled = row[id].filled + d.qty
  /\ row'[id].deals = row[id].deals \cup {d}

Recovered(id) ==
  /\ row[id] # NoRow /\ row[id].state = "UNKNOWN"
  /\ \A w \in Workers : ~Owns(w, id[1])
  /\ DOMAIN row'[id] = RowFields
  /\ row'[id].state = IF Total(History(id)) = Requested(id) THEN "FILLED"
                      ELSE IF ~OpenThere(id) THEN "CANCELLED"
                      ELSE IF Total(History(id)) > 0 THEN "PARTIALLY_FILLED" ELSE "WORKING"
  /\ row'[id].filled = Total(History(id))
  /\ row'[id].deals \in {History(id), row[id].deals}

LEMMA MarkChanges ==
  ASSUME RowsTyped, NEW k \in Ids, NEW s, Mark(k, s), NEW id \in Ids, row'[id] # row[id]
  PROVE  id = k /\ Marked(id, s)
<1>1. row' = [row EXCEPT ![k].state = s] /\ CanMove(k, s)
  BY DEF Mark
<1>2. id = k
  BY <1>1 DEF RowsTyped
<1>3. row'[id] = [row[id] EXCEPT !.state = s] /\ "state" \in DOMAIN row[id]
  BY <1>1, <1>2 DEF RowsTyped
<1> QED BY <1>1, <1>2, <1>3 DEF Marked

LEMMA FillChanges ==
  ASSUME RowsTyped, NEW k \in Ids, row[k] # NoRow, RowFine(k), NEW d, MarkFill(k, d),
         NEW id \in Ids, row'[id] # row[id]
  PROVE  id = k /\ Entered(id, d)
<1> DEFINE s == FillState(k, row[k].filled + d.qty)
           r == [row[k] EXCEPT !.state = s, !.filled = @ + d.qty, !.deals = @ \cup {d}]
<1>1. row' # row
  OBVIOUS
<1>2. row' = [row EXCEPT ![k] = r] /\ d \notin row[k].deals /\ Fillable(k, d)
  BY <1>1 DEF MarkFill, RowsTyped
<1>3. id = k /\ row'[id] = r
  BY <1>2 DEF RowsTyped
<1> HIDE DEF s
<1>4. /\ DOMAIN r = DOMAIN row[k] /\ r.state = s /\ r.filled = row[k].filled + d.qty
      /\ r.deals = row[k].deals \cup {d}
  BY DEF RowFine, RowFields
<1> HIDE DEF r
<1> QED BY <1>2, <1>3, <1>4 DEF Entered, s

LEMMA RecoverChanges ==
  ASSUME RowsTyped, NEW k \in Ids, NEW b \in BOOLEAN, Recover(k, b), NEW id \in Ids,
         row'[id] # row[id]
  PROVE  id = k /\ Recovered(id)
<1> DEFINE q == Total(History(k))
           s == IF q = Requested(k) THEN "FILLED" ELSE IF ~OpenThere(k) THEN "CANCELLED"
                ELSE IF q > 0 THEN "PARTIALLY_FILLED" ELSE "WORKING"
           ds == IF b THEN History(k) ELSE row[k].deals
<1>1. PICK complete : row' = [row EXCEPT ![k] =
                         [state |-> s, filled |-> q, deals |-> ds, complete |-> complete]]
  BY DEF Recover, RowsTyped
<1>2. ds \in {History(k), row[k].deals}
  OBVIOUS
<1>3. row[k] # NoRow /\ row[k].state = "UNKNOWN" /\ \A w \in Workers : ~Owns(w, k[1])
  BY DEF Recover
<1>4. id = k /\ row'[id] = [state |-> s, filled |-> q, deals |-> ds, complete |-> complete]
  <2> HIDE DEF q, s, ds
  <2> QED BY <1>1 DEF RowsTyped
<1>5. /\ DOMAIN row'[id] = RowFields /\ row'[id].state = s /\ row'[id].filled = q
      /\ row'[id].deals = ds
  <2> HIDE DEF q, s, ds
  <2> QED BY <1>4 DEF RowFields
<1>6. row'[id].state = s /\ row'[id].filled = q /\ row'[id].deals = ds
  BY <1>5
<1> QED BY <1>2, <1>3, <1>4, <1>5 DEF Recovered

\* Which step of a process writes which row, and how.
Writer(w, id) ==
  \/ Begin(w) /\ id = Parent(Current(w)) /\ Opened(id)
  \/ Cancel(w) /\ id = Parent(Current(w)) /\ Marked(id, "CANCELLED")
  \/ FillParent(w) /\ id = Parent(Current(w)) /\ Entered(id, worker[w].deal)
  \/ Finish(w) /\ id = Parent(Current(w)) /\ Marked(id, "UNKNOWN")
  \/ JournalChild(w) /\ id = Child(w) /\ Opened(id)
  \/ MarkChildUnknown(w) /\ id = Child(w) /\ Marked(id, "UNKNOWN")
  \/ MarkChildWorking(w) /\ id = Child(w) /\ Marked(id, "WORKING")
  \/ FillChild(w) /\ id = Child(w) /\ Entered(id, worker[w].deal)

LEMMA RowChange ==
  ASSUME JournalInv, WorkInv, OneOwner, AccountInv, [Next]_vars, NEW id \in Ids, row'[id] # row[id]
  PROVE  \/ \E w \in Workers : Step(w) /\ Writer(w, id)
         \/ Marked(id, "UNKNOWN") /\ MarkUnknown(id)
         \/ Recovered(id) /\ UNCHANGED <<broker, worker, undercut>>
<1> USE DEF JournalInv
<1>1. row' # row
  OBVIOUS
<1>2. \A w \in Workers : worker[w].pc # "idle" => Parent(Current(w)) \in Ids
  BY HeadOfBatch DEF WorkInv, WorkerFine, Ids, Parent
<1>3. \A w \in Workers : worker[w].pc \in AtChild => Child(w) \in Ids
  BY OwnerOfChild, ChildIs
<1>4. ASSUME NEW w \in Workers, Step(w) PROVE Writer(w, id)
  <2>1. \/ Begin(w) \/ JournalChild(w) \/ Cancel(w) \/ MarkChildUnknown(w)
        \/ MarkChildWorking(w) \/ Finish(w) \/ FillChild(w) \/ FillParent(w)
    BY <1>1, <1>4 DEF Step, ExecuteMany, Check, Reserve, Route, Look, Release, Send, Deal, Observe,
                Commit, Crash
  <2>2. CASE Begin(w)
    <3>1. row[Parent(Current(w))] = NoRow /\ row' = [row EXCEPT ![Parent(Current(w))] = NewRow]
      BY <1>1, <2>2 DEF Begin
    <3> QED BY <2>2, <3>1 DEF Writer, Opened, RowsTyped
  <2>3. CASE JournalChild(w)
    BY <2>3 DEF JournalChild, Writer, Opened, RowsTyped
  <2>4. CASE Cancel(w)
    <3>1. worker[w].pc # "idle" /\ Mark(Parent(Current(w)), "CANCELLED")
      BY <2>4 DEF Cancel, At
    <3> QED BY <1>2, <2>4, <3>1, MarkChanges DEF Writer
  <2>5. CASE Finish(w)
    <3>1. worker[w].pc # "idle" /\ Mark(Parent(Current(w)), "UNKNOWN")
      BY <1>1, <2>5 DEF Finish, At
    <3> QED BY <1>2, <2>5, <3>1, MarkChanges DEF Writer
  <2>6. CASE MarkChildUnknown(w)
    <3>1. worker[w].pc \in AtChild /\ Mark(Child(w), "UNKNOWN")
      BY <2>6 DEF MarkChildUnknown, At, AtChild
    <3> QED BY <1>3, <2>6, <3>1, MarkChanges DEF Writer
  <2>7. CASE MarkChildWorking(w)
    <3>1. worker[w].pc \in AtChild /\ Mark(Child(w), "WORKING")
      BY <2>7 DEF MarkChildWorking, At, AtChild
    <3> QED BY <1>3, <2>7, <3>1, MarkChanges DEF Writer
  <2>8. CASE FillChild(w)
    <3>1. worker[w].pc = "fill" /\ worker[w].pc \in AtChild /\ MarkFill(Child(w), worker[w].deal)
      BY <2>8 DEF FillChild, At, AtChild
    <3>2. row[Child(w)] # NoRow /\ RowFine(Child(w))
      BY <1>3, <3>1 DEF AccountInv, Fresh
    <3> QED BY <1>3, <2>8, <3>1, <3>2, FillChanges DEF Writer
  <2>9. CASE FillParent(w)
    <3>1. /\ worker[w].pc # "idle" /\ worker[w].pc \in AtChild
          /\ MarkFill(Parent(Current(w)), worker[w].deal)
      BY <2>9 DEF FillParent, At, AtChild
    <3>2. row[Parent(Current(w))] # NoRow /\ RowFine(Parent(Current(w)))
      BY <1>2, <3>1, OwnerOfChild DEF AccountInv, OneOwner
    <3> QED BY <1>2, <2>9, <3>1, <3>2, FillChanges DEF Writer
  <2> QED BY <2>1, <2>2, <2>3, <2>4, <2>5, <2>6, <2>7, <2>8, <2>9
<1>5. ASSUME NEW k \in Ids, MarkUnknown(k) PROVE Marked(id, "UNKNOWN") /\ MarkUnknown(id)
  BY <1>5, MarkChanges DEF MarkUnknown
<1>6. ASSUME NEW k \in Ids, NEW b \in BOOLEAN, Recover(k, b)
      PROVE  Recovered(id) /\ UNCHANGED <<broker, worker, undercut>>
  BY <1>6, RecoverChanges DEF Recover, world
<1>7. \/ \E w \in Workers : Step(w)
      \/ \E k \in Ids : MarkUnknown(k) \/ \E b \in BOOLEAN : Recover(k, b)
  BY <1>1 DEF Next, vars, Lapse, BrokerDeals, BrokerCancels
<1> QED BY <1>4, <1>5, <1>6, <1>7

\* What the broker has of an order changes while it is open, or it is sent.
LEMMA OrderChange ==
  ASSUME BrokerInv, WorkInv, [Next]_vars, NEW c \in Children, broker'[c] # broker[c]
  PROVE  \/ \E w \in Workers : Send(w) /\ Child(w) = c
         \/ broker[c] # None /\ broker[c].open
<1>1. broker' # broker
  OBVIOUS
<1>2. \/ \E w \in Workers : Send(w)
      \/ \E k \in Children : BrokerDeals(k) \/ BrokerCancels(k)
  BY <1>1, OnlySendReaches DEF Next, vars, Lapse, MarkUnknown, Recover, world
<1>3. ASSUME NEW w \in Workers, Send(w) PROVE Child(w) = c
  BY <1>3 DEF Send, BrokerInv
<1>4. ASSUME NEW k \in Children, BrokerDeals(k) \/ BrokerCancels(k)
      PROVE  broker[c] # None /\ broker[c].open
  BY <1>4 DEF BrokerDeals, BrokerCancels, BrokerInv
<1> QED BY <1>2, <1>3, <1>4

LEMMA TotalOfUnion ==
  ASSUME NEW S, FineDeals(S), NEW T, FineDeals(T)
  PROVE  FineDeals(S \cup T) /\ Total(S \cup T) <= Total(S) + Total(T)
<1>1. FineDeals(S \cup T)
  BY FS_Union DEF FineDeals
<1> DEFINE Bad == {U \in SUBSET T : ~(Total(S \cup U) <= Total(S) + Total(U))}
<1>2. ASSUME Bad # {} PROVE FALSE
  <2>1. \A U \in Bad : IsFiniteSet(U)
    BY FS_Subset DEF FineDeals
  <2>2. PICK U \in Bad : \A V \in Bad : Cardinality(U) <= Cardinality(V)
    <3> HIDE DEF Bad
    <3> QED BY <1>2, <2>1, Sums!SmallestMember, SameSets
  <2>3. U # {}
    <3>1. Total(S) \in Nat /\ Total(S) <= Total(S) + 0
      BY TotalGrows
    <3>2. S \cup {} = S /\ Total({}) = 0
      BY TotalOfNone
    <3>3. {} \notin Bad
      BY <3>1, <3>2
    <3> HIDE DEF Bad
    <3> QED BY <3>3
  <2>4. PICK d \in U : TRUE
    BY <2>3
  <2> DEFINE V == U \ {d}
  <2>5. /\ Cardinality(V) = Cardinality(U) - 1
        /\ Cardinality(U) \in Nat /\ Cardinality(V) \in Nat
    BY <2>1, <2>4, FS_RemoveElement, FS_CardinalityType
  <2>6. Total(S \cup V) <= Total(S) + Total(V)
    <3>1. V \notin Bad
      BY <2>2, <2>5
    <3> QED BY <3>1
  <2>7. FineDeals(U) /\ FineDeals(V) /\ FineDeals(S \cup V) /\ d \in Deals
    <3>1. FineDeals(U) /\ FineDeals(V)
      BY TotalGrows
    <3>2. FineDeals(S \cup V)
      BY <3>1, FS_Union DEF FineDeals
    <3> QED BY <2>4, <3>1, <3>2 DEF FineDeals
  <2>8. (S \cup V) \cup {d} = S \cup U /\ V \cup {d} = U /\ d \notin V
    BY <2>4
  <2> HIDE DEF V, Bad
  <2>9. Total(S \cup U) <= Total(S \cup V) + d.qty /\ Total(U) = Total(V) + d.qty
    <3>1. Total((S \cup V) \cup {d}) <= Total(S \cup V) + d.qty
      BY <2>7, TotalOfMore
    <3>2. Total(V \cup {d}) = Total(V) + d.qty
      BY <2>7, <2>8, TotalOfMore
    <3> QED BY <2>8, <3>1, <3>2
  <2>10. /\ Total(S) \in Nat /\ Total(V) \in Nat /\ Total(S \cup V) \in Nat
         /\ Total(U) \in Nat /\ Total(S \cup U) \in Nat /\ d.qty \in Nat
    <3>1. FineDeals(S \cup U)
      BY <2>7, <2>8, TotalOfMore
    <3> QED BY <2>7, <3>1, TotalGrows, AmountOfDeal
  <2>11. Total(S \cup U) <= Total(S) + Total(U)
    BY <2>6, <2>9, <2>10
  <2> QED BY <2>11 DEF Bad
<1> QED BY <1>1, <1>2

-----------------------------------------------------------------------------
(* The deals of several children                                            *)

Gathered(K) == UNION {broker[c].deals : c \in K}

\* At most what was requested of each of them.
LEMMA GatheredIsBounded ==
  ASSUME BrokerInv, NEW o \in Orders,
         NEW K, K \subseteq ChildrenOf(o), \A c \in K : broker[c] # None
  PROVE  /\ FineDeals(Gathered(K)) /\ IsFiniteSet(K)
         /\ Total(Gathered(K)) <= Cardinality(K) * (Quantity \div Slices[o])
<1> DEFINE r == Quantity \div Slices[o]
           Fits(J) == FineDeals(Gathered(J)) /\ Total(Gathered(J)) <= Cardinality(J) * r
           Bad == {J \in SUBSET K : ~Fits(J)}
<1>0. IsFiniteSet(K)
  <2>1. IsFiniteSet({o} \X (1..Slices[o]))
    <3>1. IsFiniteSet({o})
      BY FS_Singleton
    <3>2. Slices[o] \in Int
      BY ReferenceAssumption
    <3>3. IsFiniteSet(1..Slices[o])
      BY <3>2, FS_Interval
    <3> QED BY <3>1, <3>3, FS_Product
  <2> QED BY <2>1, FS_Subset DEF ChildrenOf
<1>1. r \in Nat
  BY ReferenceAssumption
<1>2. \A c \in K : c \in Children /\ c[1] = o
  BY DEF Children, ChildrenOf
<1>3. \A c \in K : /\ FineDeals(broker[c].deals) /\ Total(broker[c].deals) <= r
                   /\ Total(broker[c].deals) \in Nat
  <2> SUFFICES ASSUME NEW c \in K
               PROVE  /\ FineDeals(broker[c].deals) /\ Total(broker[c].deals) <= r
                      /\ Total(broker[c].deals) \in Nat
    OBVIOUS
  <2>1. FineDeals(broker[c].deals) /\ Dealt(c) <= Requested(c)
    BY <1>2 DEF BrokerInv, OrderFine, FineDeals, BrokerOrder
  <2> QED BY <1>2, <2>1, RequestedOfChild, TotalGrows DEF Dealt
<1> HIDE DEF r
<1>4. ASSUME Bad # {} PROVE FALSE
  <2>1. \A J \in Bad : IsFiniteSet(J)
    BY <1>0, FS_Subset
  <2>2. PICK J \in Bad : \A I \in Bad : Cardinality(J) <= Cardinality(I)
    <3> HIDE DEF Bad
    <3> QED BY <1>4, <2>1, Sums!SmallestMember, SameSets
  <2>3. J # {}
    <3>1. Gathered({}) = {} /\ Cardinality({}) = 0
      BY FS_EmptySet DEF Gathered
    <3> QED BY <1>1, <3>1, TotalOfNone
  <2>4. PICK c \in J : c \in K
    BY <2>3
  <2> DEFINE I == J \ {c}
  <2>5. /\ Cardinality(I) = Cardinality(J) - 1
        /\ Cardinality(J) \in Nat /\ Cardinality(I) \in Nat
    BY <2>1, <2>4, FS_RemoveElement, FS_CardinalityType
  <2>6. Fits(I)
    <3>1. I \notin Bad
      BY <2>2, <2>5
    <3> QED BY <3>1
  <2>7. Gathered(J) = Gathered(I) \cup broker[c].deals
    BY <2>4 DEF Gathered
  <2> HIDE DEF I
  <2>8. /\ FineDeals(Gathered(J))
        /\ Total(Gathered(J)) <= Total(Gathered(I)) + Total(broker[c].deals)
    BY <1>3, <2>4, <2>6, <2>7, TotalOfUnion
  <2>9. /\ Total(Gathered(J)) \in Nat /\ Total(Gathered(I)) \in Nat
        /\ Total(broker[c].deals) \in Nat /\ Total(broker[c].deals) <= r
    BY <1>3, <2>4, <2>6, <2>8, TotalGrows
  <2>10. Cardinality(J) * r = Cardinality(I) * r + r
    <3>1. \A n \in Nat, m \in Nat : n = m - 1 => m * r = n * r + r
      BY <1>1
    <3> QED BY <2>5, <3>1
  <2>11. Cardinality(I) * r \in Nat
    BY <1>1, <2>5
  <2>12. Total(Gathered(J)) <= Cardinality(J) * r
    <3> DEFINE a == Cardinality(I) * r
               b == Cardinality(J) * r
    <3>1. b = a + r /\ a \in Nat /\ Total(Gathered(I)) <= a
      BY <2>6, <2>10, <2>11
    <3> HIDE DEF a, b
    <3>2. Total(Gathered(J)) <= b
      BY <1>1, <2>8, <2>9, <3>1
    <3> QED BY <3>2 DEF b
  <2> QED BY <2>8, <2>12
<1>5. Fits(K)
  BY <1>4
<1> QED BY <1>0, <1>5 DEF r

\* The broker has no more of an order than its quantity.
LEMMA HistoryIsFine ==
  ASSUME BrokerInv, NEW id \in Ids
  PROVE  FineDeals(History(id)) /\ Total(History(id)) <= Quantity
<1>1. PICK o \in Orders : id[1] = o /\ Has(id) \subseteq ChildrenOf(o)
  BY ChildIs DEF Ids, Has
<1>2. \A c \in Has(id) : broker[c] # None
  BY DEF Has
<1>3. History(id) = Gathered(Has(id))
  BY DEF History, Gathered
<1>4. /\ FineDeals(Gathered(Has(id))) /\ IsFiniteSet(Has(id))
      /\ Total(Gathered(Has(id))) <= Cardinality(Has(id)) * (Quantity \div Slices[o])
  BY <1>1, <1>2, GatheredIsBounded
<1>5. Cardinality(Has(id)) <= Slices[o] /\ Cardinality(Has(id)) \in Nat
  <2>1. IsFiniteSet(1..Slices[o]) /\ Cardinality(1..Slices[o]) = Slices[o]
    <3>1. 1 \in Int /\ Slices[o] \in Int /\ ~(1 > Slices[o]) /\ Slices[o] - 1 + 1 = Slices[o]
      BY ReferenceAssumption
    <3>2. /\ IsFiniteSet(1..Slices[o])
          /\ Cardinality(1..Slices[o]) = IF 1 > Slices[o] THEN 0 ELSE Slices[o] - 1 + 1
      BY <3>1, FS_Interval
    <3> QED BY <3>1, <3>2
  <2>2. IsFiniteSet({o}) /\ Cardinality({o}) = 1
    BY FS_Singleton
  <2>3. /\ IsFiniteSet({o} \X (1..Slices[o]))
        /\ Cardinality({o} \X (1..Slices[o])) = 1 * Slices[o]
    <3>1. /\ IsFiniteSet({o} \X (1..Slices[o]))
          /\ Cardinality({o} \X (1..Slices[o])) = Cardinality({o}) * Cardinality(1..Slices[o])
      BY <2>1, <2>2, FS_Product
    <3> QED BY <2>1, <2>2, <3>1
  <2>4. IsFiniteSet(ChildrenOf(o)) /\ Cardinality(ChildrenOf(o)) = Slices[o]
    <3>1. Slices[o] \in Nat
      BY ReferenceAssumption
    <3>2. 1 * Slices[o] = Slices[o]
      BY <3>1
    <3> QED BY <2>3, <3>2 DEF ChildrenOf
  <2>5. IsFiniteSet(Has(id)) /\ Cardinality(Has(id)) <= Cardinality(ChildrenOf(o))
    BY <1>1, <2>4, FS_Subset
  <2> QED BY <2>4, <2>5, FS_CardinalityType
<1>6. Slices[o] * (Quantity \div Slices[o]) = Quantity /\ Quantity \div Slices[o] \in Nat
  <2>1. \A q, s \in Nat \ {0} : q % s = 0 => s * (q \div s) = q /\ q \div s \in Nat
    OBVIOUS
  <2> QED BY <2>1, ReferenceAssumption
<1>7. \A k, s, r \in Nat : k <= s => k * r <= s * r
  OBVIOUS
<1>8. Cardinality(Has(id)) * (Quantity \div Slices[o]) <= Slices[o] * (Quantity \div Slices[o])
  BY <1>5, <1>6, <1>7, ReferenceAssumption
<1>9. Total(Gathered(Has(id))) \in Nat
  BY <1>4, TotalGrows
<1> DEFINE k == Cardinality(Has(id)) * (Quantity \div Slices[o])
<1>10. k \in Nat /\ k <= Quantity /\ Total(Gathered(Has(id))) <= k
  BY <1>4, <1>5, <1>6, <1>8
<1>11. Quantity \in Nat
  BY ReferenceAssumption
<1> HIDE DEF k
<1> QED BY <1>3, <1>4, <1>9, <1>10, <1>11

-----------------------------------------------------------------------------
(* The rows and the broker                                                  *)

LEMMA ParentIsNoChild == \A o \in Orders, c \in Children : Parent(o) # c
BY ChildIs DEF Parent

LEMMA HistoryOfChild ==
  ASSUME NEW c \in Children, broker[c] # None
  PROVE  /\ Has(c) = {c} /\ History(c) = broker[c].deals /\ Total(History(c)) = Dealt(c)
         /\ OpenThere(c) <=> broker[c].open
<1>1. Has(c) = {c}
  BY ChildIs DEF Has
<1>2. History(c) = broker[c].deals
  BY <1>1 DEF History
<1> QED BY <1>1, <1>2 DEF Dealt, OpenThere

LEMMA AccountInit == Init => AccountInv
<1> SUFFICES ASSUME Init PROVE AccountInv
  OBVIOUS
<1>1. /\ \A id \in Ids : row[id] = NoRow
      /\ \A c \in Children : c \in Ids /\ broker[c] = None
      /\ \A w \in Workers : worker[w].pc = "idle"
  BY ChildIs DEF Init, Idle
<1> QED BY <1>1 DEF AccountInv, RowFine

\* The deal a process enters is one the broker gave its child.
LEMMA EnteredDeal ==
  ASSUME BrokerInv, WorkInv, NEW w \in Workers, worker[w].pc \in {"fill", "total"}
  PROVE  /\ worker[w].deal \in broker[Child(w)].deals /\ worker[w].deal \in Deals
         /\ worker[w].deal.qty \in Nat /\ Child(w) \in Children /\ broker[Child(w)] # None
<1>1. Child(w) \in Children /\ broker[Child(w)] # None
      /\ worker[w].deal \in broker[Child(w)].deals
  BY OwnerOfChild DEF WorkInv, WorkerFine, AtChild
<1>2. broker[Child(w)] \in BrokerOrder
  BY <1>1 DEF BrokerInv, OrderFine
<1>3. worker[w].deal \in Deals
  BY <1>1, <1>2 DEF BrokerOrder
<1> QED BY <1>1, <1>3, AmountOfDeal

LEMMA RowsStayFine ==
  ASSUME JournalInv, BrokerInv, WorkInv, OneOwner, AccountInv, [Next]_vars, NEW id \in Ids
  PROVE  RowFine(id)'
<1>0. RowFine(id)
  BY DEF AccountInv
<1>1. CASE row'[id] = row[id]
  BY <1>0, <1>1 DEF RowFine
<1>2. CASE Opened(id)
  BY <1>2, TotalOfNone DEF Opened, RowFine, NewRow, RowFields
<1>3. ASSUME NEW s, Marked(id, s) PROVE RowFine(id)'
  BY <1>0, <1>3 DEF Marked, CanMove, RowFine
<1>4. ASSUME NEW w \in Workers, worker[w].pc \in {"fill", "total"}, row[id] # NoRow,
             Entered(id, worker[w].deal)
      PROVE  RowFine(id)'
  <2>1. worker[w].deal \in Deals /\ worker[w].deal.qty \in Nat
    BY <1>4, EnteredDeal
  <2>2. FineDeals(row[id].deals \cup {worker[w].deal})
    BY <1>0, <1>4, <2>1, TotalOfMore DEF RowFine
  <2> QED BY <1>0, <1>4, <2>1, <2>2 DEF Entered, RowFine
<1>5. CASE Recovered(id)
  BY <1>0, <1>5, HistoryIsFine, TotalGrows DEF Recovered, RowFine
<1>6. ASSUME NEW w \in Workers, Writer(w, id) PROVE RowFine(id)'
  <2>1. CASE Opened(id) \/ Marked(id, "CANCELLED") \/ Marked(id, "UNKNOWN") \/ Marked(id, "WORKING")
    BY <1>2, <1>3, <2>1
  <2>2. CASE FillChild(w) /\ id = Child(w) /\ Entered(id, worker[w].deal)
    BY <1>4, <2>2 DEF FillChild, At, AccountInv, Fresh
  <2>3. CASE FillParent(w) /\ id = Parent(Current(w)) /\ Entered(id, worker[w].deal)
    <3>1. worker[w].pc = "total" /\ worker[w].pc \in AtChild
      BY <2>3 DEF FillParent, At, AtChild
    <3>2. row[id] # NoRow
      BY <2>3, <3>1, OwnerOfChild DEF OneOwner
    <3> QED BY <1>4, <2>3, <3>1, <3>2
  <2> QED BY <1>6, <2>1, <2>2, <2>3 DEF Writer
<1> QED BY <1>1, <1>3, <1>5, <1>6, RowChange

\* A child whose row becomes final, or was, is settled.
LEMMA ChildrenStaySettled ==
  ASSUME JournalInv, BrokerInv, WorkInv, OneOwner, AccountInv, [Next]_vars, NEW c \in Children,
         row'[c] # NoRow, row'[c].state \in {"FILLED", "CANCELLED"}
  PROVE  Settled(c)'
<1>0. c \in Ids
  BY ChildIs
<1>1. CASE row'[c] = row[c]
  <2>1. Settled(c) /\ row[c].state # "SUBMITTING"
    BY <1>1 DEF AccountInv
  <2>2. broker'[c] = broker[c]
    <3>1. ASSUME NEW w \in Workers, Send(w), Child(w) = c PROVE FALSE
      BY <2>1, <3>1 DEF Send, At, AccountInv, Fresh
    <3> QED BY <2>1, <3>1, OrderChange DEF Settled
  <2> QED BY <1>1, <2>1, <2>2 DEF Settled, Dealt
<1>2. ASSUME NEW w \in Workers, Step(w), Writer(w, c) PROVE Settled(c)'
  <2>1. FillChild(w) /\ Child(w) = c /\ Entered(c, worker[w].deal)
    <3>1. worker[w].pc # "idle" => Parent(Current(w)) # c
      BY HeadOfBatch, ParentIsNoChild DEF WorkInv, WorkerFine
    <3>2. ~((Begin(w) \/ Cancel(w) \/ FillParent(w) \/ Finish(w)) /\ c = Parent(Current(w)))
      BY <3>1 DEF Begin, Cancel, FillParent, Finish, At
    <3>3. ~Opened(c) /\ ~Marked(c, "UNKNOWN") /\ ~Marked(c, "WORKING")
      BY DEF Opened, Marked, NewRow
    <3> QED BY <1>2, <3>2, <3>3 DEF Writer
  <2>2. /\ worker[w].deal \in broker[c].deals /\ worker[w].deal.qty \in Nat /\ broker[c] # None
        /\ Fresh(c, "WORKING") /\ UNCHANGED broker
    BY <2>1, EnteredDeal DEF FillChild, At, AccountInv, world
  <2> DEFINE q == worker[w].deal.qty
  <2>3. row'[c].filled = 0 + q /\ row'[c].state = FillState(c, 0 + q)
    BY <2>1, <2>2 DEF Entered, Fresh
  <2>4. q \in Nat /\ 0 + q = q
    BY <2>2
  <2>5. q >= Requested(c)
    BY <2>3, <2>4 DEF FillState
  <2>6. /\ q <= Dealt(c) /\ Dealt(c) <= Requested(c) /\ Dealt(c) \in Nat
        /\ broker[c].open => Dealt(c) < Requested(c)
    <3>1. OrderFine(c) /\ broker[c].deals \subseteq Deals
      BY <2>2 DEF BrokerInv, OrderFine, BrokerOrder
    <3>2. FineDeals(broker[c].deals)
      BY <2>2, <3>1 DEF OrderFine, FineDeals
    <3> QED BY <2>2, <3>1, <3>2, TotalOfOne, TotalGrows DEF OrderFine, Dealt
  <2> HIDE DEF q
  <2>7. q = Dealt(c) /\ ~broker[c].open
    BY <2>4, <2>5, <2>6, RequestedOfChild
  <2> QED BY <2>2, <2>3, <2>4, <2>7 DEF Settled, Dealt
<1>3. ASSUME Marked(c, "UNKNOWN") PROVE FALSE
  BY <1>3 DEF Marked
<1>4. CASE Recovered(c) /\ UNCHANGED broker
  <2>1. CASE broker[c] = None
    BY <1>4, <2>1 DEF Settled
  <2>2. CASE broker[c] # None
    <3>1. /\ Total(History(c)) = Dealt(c) /\ (OpenThere(c) <=> broker[c].open)
          /\ broker[c].open => Dealt(c) < Requested(c)
      BY <2>2, HistoryOfChild DEF BrokerInv, OrderFine
    <3>2. row'[c].filled = Dealt(c)
      BY <1>4, <3>1 DEF Recovered
    <3>3. ~broker[c].open
      <4>1. row'[c].state = "FILLED" => Dealt(c) = Requested(c)
        BY <1>4, <3>1 DEF Recovered
      <4>2. row'[c].state = "CANCELLED" => ~OpenThere(c)
        BY <1>4, <3>1 DEF Recovered
      <4>3. Requested(c) \in Nat
        BY RequestedOfChild
      <4> QED BY <3>1, <4>1, <4>2, <4>3
    <3> QED BY <1>4, <3>2, <3>3 DEF Settled, Dealt
  <2> QED BY <2>1, <2>2
<1> QED BY <1>0, <1>1, <1>2, <1>3, <1>4, RowChange

\* What a process has just written nobody else changes.
LEMMA KeptFresh ==
  ASSUME JournalInv, WorkInv, OneOwner, AccountInv, [Next]_vars, NEW w \in Workers,
         ~Step(w), worker[w].pc \in AtChild
  PROVE  row'[Child(w)] = row[Child(w)]
<1>1. /\ Child(w) \in Children /\ Child(w) \in Ids /\ Current(w) \in Orders
      /\ Owns(w, Child(w)[1]) /\ Child(w)[1] \in Orders
  BY OwnerOfChild, ChildIs
<1>2. ASSUME NEW u \in Workers, Step(u), Writer(u, Child(w)) PROVE FALSE
  <2>1. worker[u].pc # "idle" => Parent(Current(u)) # Child(w)
    BY <1>1, HeadOfBatch, ParentIsNoChild DEF WorkInv, WorkerFine
  <2>2. ~((Begin(u) \/ Cancel(u) \/ FillParent(u) \/ Finish(u)) /\ Child(w) = Parent(Current(u)))
    BY <2>1 DEF Begin, Cancel, FillParent, Finish, At
  <2>3. JournalChild(u) \/ MarkChildUnknown(u) \/ MarkChildWorking(u) \/ FillChild(u)
    BY <1>2, <2>2 DEF Writer
  <2>4. Child(u) = Child(w)
    BY <1>2, <2>2 DEF Writer
  <2>5. worker[u].pc \in AtChild
    BY <2>3 DEF JournalChild, MarkChildUnknown, MarkChildWorking, FillChild, At, AtChild
  <2>6. Owns(u, Child(w)[1])
    BY <2>4, <2>5, OwnerOfChild
  <2>7. u = w
    BY <1>1, <2>6 DEF OneOwner
  <2> QED BY <1>2, <2>7
<1>3. ~MarkUnknown(Child(w)) /\ ~Recovered(Child(w))
  BY <1>1 DEF MarkUnknown, Recovered
<1> QED BY <1>1, <1>2, <1>3, RowChange

LEMMA GotoKeeps ==
  ASSUME WorkersTyped, NEW w \in Workers, NEW pc, Goto(w, pc)
  PROVE  worker'[w].pc = pc /\ Child(w)' = Child(w)
BY DEF Goto, WorkersTyped, Fields, Child, Current

\* The calls in between one child's rows, as that process makes them.
LEMMA FreshStep ==
  ASSUME JournalInv, BrokerInv, WorkInv, OneOwner, AccountInv, [Next]_vars, NEW w \in Workers
  PROVE  /\ worker'[w].pc \in {"send", "unknown", "working"} => Fresh(Child(w), "SUBMITTING")'
         /\ worker'[w].pc \in {"deal", "fill"} => Fresh(Child(w), "WORKING")'
<1> DEFINE Early == {"send", "unknown", "working"}
           Late == {"deal", "fill"}
<1>0. ASSUME worker'[w].pc \in Early \cup Late PROVE worker'[w].pc \in AtChild
  BY <1>0 DEF AtChild
<1>1. CASE ~Step(w)
  <2>1. worker'[w] = worker[w]
    BY <1>1, OnlyStepsMove, Edges DEF Alone, JournalInv
  <2>2. Child(w)' = Child(w)
    BY <2>1 DEF Child, Current
  <2>3. worker'[w].pc \in Early \cup Late => row'[Child(w)] = row[Child(w)]
    BY <1>0, <1>1, <2>1, KeptFresh
  <2> QED BY <2>1, <2>2, <2>3 DEF AccountInv, Fresh
<1>2. CASE Step(w) /\ worker'[w].pc \in Early \cup Late
  <2>1. /\ <<worker[w].pc, worker'[w].pc>> \in Passages
        /\ worker'[w].pc # "idle"
    BY <1>2, Edges, EdgeIsPassage DEF JournalInv
  <2>2. worker[w].pc \in {"journal", "send", "working", "deal"} /\ worker[w].pc \in AtChild
    BY <1>2, <2>1 DEF Passages, Onwards, AtChild
  <2>3. ~Crash(w) /\ ~Raise(w)
    BY <2>1 DEF Crash, Raise, Idle, JournalInv, WorkersTyped
  <2>4. \/ JournalChild(w) \/ Send(w) \/ MarkChildWorking(w) \/ Deal(w)
    BY <1>2, <2>2, <2>3 DEF Step, ExecuteMany, Check, Reserve, Begin, Route, Look, Cancel,
        Release, MarkChildUnknown, FillChild, FillParent, Observe, Finish, Commit, At
  <2>5. Child(w) \in Ids /\ Child(w)[1] \in Orders
    BY <2>2, OwnerOfChild, ChildIs
  <2>6. CASE JournalChild(w)
    <3>1. worker'[w].pc = "send" /\ Child(w)' = Child(w)
      BY <2>6, GotoKeeps DEF JournalChild, JournalInv
    <3>2. row'[Child(w)] = NewRow
      BY <2>5, <2>6 DEF JournalChild, JournalInv, RowsTyped
    <3>3. NewRow # NoRow /\ NewRow.state = "SUBMITTING" /\ NewRow.filled = 0 /\ NewRow.deals = {}
      BY DEF NewRow, NoRow
    <3> QED BY <3>1, <3>2, <3>3 DEF Fresh
  <2>7. CASE Send(w)
    <3>1. worker'[w].pc \in {"working", "unknown"} /\ Child(w)' = Child(w) /\ UNCHANGED row
      BY <2>7, GotoKeeps DEF Send, JournalInv
    <3>2. Fresh(Child(w), "SUBMITTING")
      BY <2>7 DEF Send, At, AccountInv
    <3> QED BY <3>1, <3>2 DEF Fresh
  <2>8. CASE MarkChildWorking(w)
    <3>1. worker'[w].pc = "deal" /\ Child(w)' = Child(w)
      BY <2>8, GotoKeeps DEF MarkChildWorking, JournalInv
    <3>2. Fresh(Child(w), "SUBMITTING")
      BY <2>8 DEF MarkChildWorking, At, AccountInv
    <3>3. CanMove(Child(w), "WORKING")
      BY <3>2 DEF Fresh, CanMove, Moves
    <3>4. row'[Child(w)] = [row[Child(w)] EXCEPT !.state = "WORKING"]
      BY <2>5, <2>8, <3>3 DEF MarkChildWorking, Mark, JournalInv, RowsTyped
    <3>5. DOMAIN row[Child(w)] = RowFields
      BY <2>5, <3>2 DEF AccountInv, RowFine, Fresh
    <3>6. /\ row'[Child(w)].state = "WORKING"
          /\ row'[Child(w)].filled = row[Child(w)].filled
          /\ row'[Child(w)].deals = row[Child(w)].deals
      BY <3>4, <3>5 DEF RowFields
    <3>7. row'[Child(w)] # NoRow
      <4>1. DOMAIN row'[Child(w)] = RowFields
        BY <3>4, <3>5
      <4> QED BY <4>1 DEF RowFields, NoRow
    <3> QED BY <3>1, <3>2, <3>6, <3>7 DEF Fresh
  <2>9. CASE Deal(w)
    <3>1. Stepped(w, "deal", "fill", {"deal"}) /\ UNCHANGED row
      BY <2>3, <2>9 DEF Deal, At, Stepped, Fields, JournalInv, WorkersTyped
    <3>2. worker'[w].pc = "fill" /\ Child(w)' = Child(w)
      BY <3>1 DEF Stepped, Fields, Child, Current
    <3>3. Fresh(Child(w), "WORKING")
      BY <2>9 DEF Deal, At, AccountInv
    <3> QED BY <3>1, <3>2, <3>3 DEF Fresh
  <2> QED BY <2>4, <2>6, <2>7, <2>8, <2>9
<1> QED BY <1>1, <1>2

LEMMA AccountStep ==
  ASSUME JournalInv, BrokerInv, WorkInv, OneOwner, AccountInv, [Next]_vars
  PROVE  AccountInv'
<1>1. \A id \in Ids : RowFine(id)'
  BY RowsStayFine
<1>2. ASSUME NEW c \in Children, broker'[c] # None PROVE row'[c] # NoRow
  <2>1. row[c] # NoRow
    <3>1. CASE broker[c] # None
      BY <3>1 DEF AccountInv
    <3>2. CASE broker[c] = None
      <4>1. PICK w \in Workers : Send(w) /\ Child(w) = c
        BY <1>2, <3>2, NewOrder
      <4> QED BY <4>1 DEF Send, At, AccountInv, Fresh
    <3> QED BY <3>1, <3>2
  <2> QED BY <2>1, RowsRemain, ChildIs DEF RowsStay
<1> QED BY <1>1, <1>2, ChildrenStaySettled, FreshStep DEF AccountInv

-----------------------------------------------------------------------------
(* The rows of the parents                                                  *)

(***************************************************************************)
(* While an order is owned its parent row has only deals of the broker and *)
(* adds them up.  A row that is FILLED says what the broker dealt, the     *)
(* whole quantity; one that is CANCELLED too, unless another process       *)
(* cancelled it, and no child of it can be dealt any more.                 *)
(***************************************************************************)
OwnedParent(o) ==
  \A w \in Workers : Owns(w, o) =>
    /\ row[Parent(o)].deals \subseteq History(Parent(o))
    /\ row[Parent(o)].filled = Total(row[Parent(o)].deals)

FilledParent(o) ==
  row[Parent(o)] # NoRow /\ row[Parent(o)].state = "FILLED" =>
    row[Parent(o)].filled = Quantity /\ Total(History(Parent(o))) = Quantity

CancelledParent(o) ==
  row[Parent(o)] # NoRow /\ row[Parent(o)].state = "CANCELLED" =>
    \/ o \in undercut
    \/ /\ ~OpenThere(Parent(o)) /\ row[Parent(o)].filled = Total(History(Parent(o)))
       /\ \A w \in Workers : Owns(w, o) => worker[w].pc \in {"look", "cancel", "release"}

ParentInv == \A o \in Orders : OwnedParent(o) /\ FilledParent(o) /\ CancelledParent(o)

LEMMA ParentInit == Init => ParentInv
<1> SUFFICES ASSUME Init PROVE ParentInv
  OBVIOUS
<1>1. /\ \A o \in Orders : row[Parent(o)] = NoRow
      /\ \A w \in Workers : worker[w].pc = "idle"
  BY DEF Init, Idle, Ids, Parent
<1> QED BY <1>1 DEF ParentInv, OwnedParent, FilledParent, CancelledParent, Owns

LEMMA HistoriesAreFine ==
  BrokerInv => \A o \in Orders : /\ FineDeals(History(Parent(o)))
                                 /\ Total(History(Parent(o))) <= Quantity
BY HistoryIsFine DEF Ids, Parent

LEMMA HistoriesStayFine ==
  (BrokerInv => \A o \in Orders : /\ FineDeals(History(Parent(o)))
                                  /\ Total(History(Parent(o))) <= Quantity)'
BY HistoriesAreFine, PTL

LEMMA HistoryOfParent ==
  ASSUME NEW o \in Orders
  PROVE  /\ Has(Parent(o)) = {c \in ChildrenOf(o) : broker[c] # None}
         /\ \A c \in ChildrenOf(o) :
              broker[c] # None => broker[c].deals \subseteq History(Parent(o))
         /\ (\A c \in ChildrenOf(o) : broker[c] = None) =>
              History(Parent(o)) = {} /\ ~OpenThere(Parent(o))
<1>1. Has(Parent(o)) = {c \in ChildrenOf(o) : broker[c] # None}
  BY DEF Has, Parent
<1> QED BY <1>1 DEF History, OpenThere

\* What the broker has of an order only grows.
LEMMA HistoryGrows ==
  ASSUME BrokerInv, BrokerInv', BrokerGrows, NEW o \in Orders
  PROVE  /\ History(Parent(o)) \subseteq History(Parent(o))'
         /\ Total(History(Parent(o))) <= Total(History(Parent(o))')
         /\ Total(History(Parent(o))) \in Nat /\ Total(History(Parent(o))') \in Nat
         /\ Total(History(Parent(o))') <= Quantity
<1>1. \A c \in ChildrenOf(o) : c \in Children
  BY DEF Children
<1>2. History(Parent(o)) \subseteq History(Parent(o))'
  BY <1>1 DEF BrokerGrows, History, Has, Parent
<1>3. FineDeals(History(Parent(o))') /\ Total(History(Parent(o))') <= Quantity
  <2>1. FineDeals(History(Parent(o)))' /\ (Total(History(Parent(o))) <= Quantity)'
    BY HistoriesStayFine
  <2> QED BY <2>1 DEF FineDeals, Total
<1> QED BY <1>2, <1>3, TotalGrows

\* Which steps change a parent's row, and what is known of them.
LEMMA ParentChange ==
  ASSUME JournalInv, BrokerInv, WorkInv, OneOwner, AccountInv, [Next]_vars, NEW o \in Orders,
         row'[Parent(o)] # row[Parent(o)]
  PROVE  \/ Opened(Parent(o))
         \/ \E w \in Workers : /\ Step(w) /\ Cancel(w) /\ Current(w) = o
                               /\ Marked(Parent(o), "CANCELLED")
         \/ \E w \in Workers : /\ Step(w) /\ FillParent(w) /\ Current(w) = o /\ Owns(w, o)
                               /\ Entered(Parent(o), worker[w].deal)
                               /\ worker[w].deal \in History(Parent(o))
                               /\ worker[w].deal \in Deals
         \/ Marked(Parent(o), "UNKNOWN")
         \/ Recovered(Parent(o)) /\ UNCHANGED <<broker, worker, undercut>>
<1>0. Parent(o) \in Ids /\ \A p \in Orders : Parent(p) = Parent(o) => p = o
  BY DEF Ids, Parent
<1>1. ASSUME NEW w \in Workers, Step(w), Writer(w, Parent(o))
      PROVE  \/ Opened(Parent(o))
             \/ Cancel(w) /\ Current(w) = o /\ Marked(Parent(o), "CANCELLED")
             \/ /\ FillParent(w) /\ Current(w) = o /\ Owns(w, o)
                /\ Entered(Parent(o), worker[w].deal)
                /\ worker[w].deal \in History(Parent(o)) /\ worker[w].deal \in Deals
             \/ Marked(Parent(o), "UNKNOWN")
  <2>1. worker[w].pc \in AtChild => Child(w) # Parent(o)
    BY OwnerOfChild, ParentIsNoChild
  <2>2. ~((JournalChild(w) \/ MarkChildUnknown(w) \/ MarkChildWorking(w) \/ FillChild(w))
           /\ Parent(o) = Child(w))
    BY <2>1 DEF JournalChild, MarkChildUnknown, MarkChildWorking, FillChild, At, AtChild
  <2>3. CASE Begin(w) /\ Opened(Parent(o))
    BY <2>3
  <2>4. CASE Cancel(w) /\ Parent(o) = Parent(Current(w)) /\ Marked(Parent(o), "CANCELLED")
    <3>1. Current(w) \in Orders
      BY <2>4, HeadOfBatch DEF Cancel, At, WorkInv, WorkerFine
    <3> QED BY <1>0, <2>4, <3>1
  <2>5. CASE FillParent(w) /\ Parent(o) = Parent(Current(w)) /\ Entered(Parent(o), worker[w].deal)
    <3>1. worker[w].pc \in AtChild /\ worker[w].pc \in {"fill", "total"}
      BY <2>5 DEF FillParent, At, AtChild
    <3>2. Current(w) = o /\ Owns(w, o) /\ Child(w) \in Children /\ Child(w)[1] = o
      BY <1>0, <2>5, <3>1, OwnerOfChild
    <3>3. /\ worker[w].deal \in broker[Child(w)].deals /\ worker[w].deal \in Deals
          /\ broker[Child(w)] # None
      BY <3>1, EnteredDeal
    <3>4. worker[w].deal \in History(Parent(o))
      BY <3>2, <3>3, ChildIs, HistoryOfParent
    <3> QED BY <2>5, <3>2, <3>3, <3>4
  <2>6. CASE Finish(w) /\ Marked(Parent(o), "UNKNOWN")
    BY <2>6
  <2> QED BY <1>1, <2>2, <2>3, <2>4, <2>5, <2>6 DEF Writer
<1> QED BY <1>0, <1>1, RowChange

\* The parent's deals and their sum after one more, which the row could take.
LEMMA EnteredParent ==
  ASSUME BrokerInv, AccountInv, NEW o \in Orders, NEW d \in Deals, d \in History(Parent(o)),
         row[Parent(o)] # NoRow, Entered(Parent(o), d),
         row[Parent(o)].deals \subseteq History(Parent(o)),
         row[Parent(o)].filled = Total(row[Parent(o)].deals)
  PROVE  /\ row'[Parent(o)].deals \subseteq History(Parent(o))
         /\ row'[Parent(o)].filled = Total(row'[Parent(o)].deals)
         /\ row'[Parent(o)].filled \in Nat /\ row'[Parent(o)].filled <= Quantity
         /\ row'[Parent(o)].filled <= Total(History(Parent(o)))
         /\ row'[Parent(o)].state = FillState(Parent(o), row'[Parent(o)].filled)
<1> DEFINE ds == row[Parent(o)].deals
<1>1. FineDeals(ds) /\ Parent(o) \in Ids
  BY DEF AccountInv, RowFine, Ids, Parent
<1>2. FineDeals(ds \cup {d}) /\ Total(ds \cup {d}) = Total(ds) + d.qty
  BY <1>1, TotalOfMore DEF Entered
<1>3. ds \cup {d} \subseteq History(Parent(o))
  OBVIOUS
<1>4. Total(ds \cup {d}) \in Nat /\ Total(ds \cup {d}) <= Total(History(Parent(o)))
  <2>1. FineDeals(History(Parent(o)))
    BY HistoriesAreFine
  <2> QED BY <1>3, <2>1, TotalGrows
<1>5. row'[Parent(o)].deals = ds \cup {d} /\ row'[Parent(o)].filled = Total(ds \cup {d})
  BY <1>2 DEF Entered
<1>6. Total(ds) + d.qty <= Quantity
  BY DEF Entered, Fillable, Requested, Parent
<1>7. row'[Parent(o)].state = FillState(Parent(o), Total(ds) + d.qty)
  BY DEF Entered
<1> HIDE DEF ds
<1> QED BY <1>2, <1>3, <1>4, <1>5, <1>6, <1>7

LEMMA OwnedParentStep ==
  ASSUME JournalInv, BrokerInv, WorkInv, OneOwner, AccountInv, ParentInv, [Next]_vars,
         BrokerInv', BrokerGrows, NEW o \in Orders
  PROVE  OwnedParent(o)'
<1> SUFFICES ASSUME NEW w \in Workers, Owns(w, o)'
             PROVE  /\ row'[Parent(o)].deals \subseteq History(Parent(o))'
                    /\ row'[Parent(o)].filled = Total(row'[Parent(o)].deals)
  BY DEF OwnedParent, Total, Parent
<1>1. History(Parent(o)) \subseteq History(Parent(o))'
  BY HistoryGrows
<1>2. CASE Begun(w, o)
  <2>1. row'[Parent(o)] = NewRow
    BY <1>2 DEF Begun, Begin, JournalInv, RowsTyped, Ids, Parent
  <2>2. NewRow.deals = {} /\ NewRow.filled = 0
    BY DEF NewRow
  <2> QED BY <2>1, <2>2, TotalOfNone
<1>3. CASE Owns(w, o)
  <2>1. /\ row[Parent(o)].deals \subseteq History(Parent(o))
        /\ row[Parent(o)].filled = Total(row[Parent(o)].deals)
        /\ row[Parent(o)] # NoRow
    BY <1>3 DEF ParentInv, OwnedParent, OneOwner
  <2>2. CASE row'[Parent(o)] = row[Parent(o)]
    BY <1>1, <2>1, <2>2
  <2>3. ASSUME NEW s, Marked(Parent(o), s)
        PROVE  /\ row'[Parent(o)].deals \subseteq History(Parent(o))'
               /\ row'[Parent(o)].filled = Total(row'[Parent(o)].deals)
    <3>1. row'[Parent(o)].filled = row[Parent(o)].filled
          /\ row'[Parent(o)].deals = row[Parent(o)].deals
      BY <2>3 DEF Marked
    <3> QED BY <1>1, <2>1, <3>1
  <2>4. ASSUME NEW u \in Workers, Entered(Parent(o), worker[u].deal),
               worker[u].deal \in History(Parent(o)), worker[u].deal \in Deals
        PROVE  /\ row'[Parent(o)].deals \subseteq History(Parent(o))'
               /\ row'[Parent(o)].filled = Total(row'[Parent(o)].deals)
    <3>1. /\ row'[Parent(o)].deals \subseteq History(Parent(o))
          /\ row'[Parent(o)].filled = Total(row'[Parent(o)].deals)
      BY <2>1, <2>4, EnteredParent
    <3> QED BY <1>1, <3>1
  <2>5. ~Opened(Parent(o)) /\ ~Recovered(Parent(o))
    BY <1>3, <2>1 DEF Opened, Recovered, Parent
  <2> QED BY <2>2, <2>3, <2>4, <2>5, ParentChange
<1> QED BY <1>2, <1>3, OwnedBefore

LEMMA FilledParentStep ==
  ASSUME JournalInv, BrokerInv, WorkInv, OneOwner, AccountInv, ParentInv, [Next]_vars,
         BrokerInv', BrokerGrows, NEW o \in Orders
  PROVE  FilledParent(o)'
<1> SUFFICES ASSUME row'[Parent(o)] # NoRow, row'[Parent(o)].state = "FILLED"
             PROVE  /\ row'[Parent(o)].filled = Quantity
                    /\ Total(History(Parent(o))') = Quantity
  BY DEF FilledParent, Total, Parent
<1>1. /\ Total(History(Parent(o))) <= Total(History(Parent(o))')
      /\ Total(History(Parent(o))) \in Nat /\ Total(History(Parent(o))') \in Nat
      /\ Total(History(Parent(o))') <= Quantity
  BY HistoryGrows
<1>2. Quantity \in Nat /\ Requested(Parent(o)) = Quantity
  BY ReferenceAssumption DEF Requested, Parent
<1>3. CASE row'[Parent(o)] = row[Parent(o)]
  <2>1. row[Parent(o)].filled = Quantity /\ Total(History(Parent(o))) = Quantity
    BY <1>3 DEF ParentInv, FilledParent
  <2> QED BY <1>1, <1>2, <1>3, <2>1
<1>4. ASSUME NEW w \in Workers, Owns(w, o), Entered(Parent(o), worker[w].deal),
             worker[w].deal \in History(Parent(o)), worker[w].deal \in Deals
      PROVE  /\ row'[Parent(o)].filled = Quantity
             /\ Total(History(Parent(o))') = Quantity
  <2>1. /\ row[Parent(o)].deals \subseteq History(Parent(o))
        /\ row[Parent(o)].filled = Total(row[Parent(o)].deals)
        /\ row[Parent(o)] # NoRow
    BY <1>4 DEF ParentInv, OwnedParent, OneOwner
  <2>2. /\ row'[Parent(o)].filled \in Nat /\ row'[Parent(o)].filled <= Quantity
        /\ row'[Parent(o)].filled <= Total(History(Parent(o)))
        /\ row'[Parent(o)].state = FillState(Parent(o), row'[Parent(o)].filled)
    BY <1>4, <2>1, EnteredParent
  <2>3. row'[Parent(o)].filled >= Quantity
    BY <1>2, <2>2 DEF FillState
  <2> QED BY <1>1, <1>2, <2>2, <2>3
<1>5. ~Opened(Parent(o)) /\ ~Marked(Parent(o), "CANCELLED") /\ ~Marked(Parent(o), "UNKNOWN")
  BY DEF Opened, Marked, NewRow
<1>6. CASE Recovered(Parent(o))
  <2>1. row'[Parent(o)].filled = Total(History(Parent(o)))
        /\ Total(History(Parent(o))) = Quantity
    BY <1>2, <1>6 DEF Recovered
  <2> QED BY <1>1, <1>2, <2>1
<1> QED BY <1>3, <1>4, <1>5, <1>6, ParentChange

\* Nothing of a cancelled order can change at the broker, nor who works on it.
LEMMA CancelledParentStep ==
  ASSUME JournalInv, BrokerInv, WorkInv, OneOwner, AccountInv, ParentInv, [Next]_vars,
         NEW o \in Orders
  PROVE  CancelledParent(o)'
<1> DEFINE Ending == {"look", "cancel", "release"}
           Parted == \A w \in Workers : Owns(w, o) => worker[w].pc \in Ending
<1> SUFFICES ASSUME row'[Parent(o)] # NoRow, row'[Parent(o)].state = "CANCELLED",
                    o \notin undercut'
             PROVE  /\ ~OpenThere(Parent(o))'
                    /\ row'[Parent(o)].filled = Total(History(Parent(o))')
                    /\ Parted'
  BY DEF CancelledParent, Total, Parent
<1>0. o \notin undercut
  <2>1. ASSUME NEW w \in Workers, Cancel(w) \/ Release(w) PROVE undercut \subseteq undercut'
    BY <2>1 DEF Cancel, Release
  <2>2. ASSUME NEW w \in Workers, Step(w) PROVE undercut \subseteq undercut'
    BY <2>1, <2>2 DEF Step, ExecuteMany, Check, Reserve, Begin, Route, Look, JournalChild, Send,
       MarkChildUnknown, MarkChildWorking, Deal, FillChild, FillParent, Observe, Finish, Commit,
       Crash, histories
  <2>3. (\E w \in Workers : Step(w)) \/ UNCHANGED undercut
    BY DEF Next, vars, Lapse, BrokerDeals, BrokerCancels, MarkUnknown, Recover, histories
  <2> QED BY <2>2, <2>3
<1>1. \A c \in ChildrenOf(o) : c \in Children /\ c[1] = o
  BY DEF Children, ChildrenOf
\* As long as its broker orders are the same, and nobody else begins.
<1>2. ASSUME row[Parent(o)] # NoRow, Parted, ~OpenThere(Parent(o))
      PROVE  Parted' /\ UNCHANGED <<Has(Parent(o)), History(Parent(o)), OpenThere(Parent(o))>>
  <2>1. ASSUME NEW w \in Workers, Owns(w, o)' PROVE worker'[w].pc \in Ending
    <3>1. Owns(w, o) /\ worker[w].pc \in Ending
      BY <1>2, <2>1, OwnedBefore DEF Begun
    <3>2. CASE worker'[w] = worker[w]
      BY <3>1, <3>2
    <3>3. CASE Edge(w)
      <4>1. worker'[w].pc # "idle" /\ worker'[w].pc # "check" /\ worker'[w].pc # "reserve"
        BY <2>1 DEF Owns
      <4>2. <<worker[w].pc, worker'[w].pc>> \in Passages
        BY <3>3, <4>1, EdgeIsPassage
      <4> QED BY <3>1, <4>2 DEF Passages, Onwards
    <3>4. Edge(w) \/ worker'[w] = worker[w]
      BY OnlyStepsMove, Edges DEF Alone, JournalInv
    <3> QED BY <3>2, <3>3, <3>4
  <2>2. ASSUME NEW c \in ChildrenOf(o) PROVE broker'[c] = broker[c]
    <3>1. ASSUME NEW w \in Workers, Send(w), Child(w) = c PROVE FALSE
      <4>1. worker[w].pc = "send" /\ worker[w].pc \in AtChild
        BY <3>1 DEF Send, At, AtChild
      <4>2. Owns(w, o)
        BY <1>1, <3>1, <4>1, OwnerOfChild
      <4> QED BY <1>2, <4>1, <4>2
    <3>2. ~(broker[c] # None /\ broker[c].open)
      BY <1>2, HistoryOfParent DEF OpenThere
    <3> QED BY <1>1, <3>1, <3>2, OrderChange
  <2>3. UNCHANGED Has(Parent(o))
    BY <2>2 DEF Has, Parent
  <2>4. \A c \in Has(Parent(o)) : broker'[c] = broker[c]
    BY <2>2, HistoryOfParent
  <2>5. UNCHANGED <<History(Parent(o)), OpenThere(Parent(o))>>
    BY <2>3, <2>4 DEF History, OpenThere
  <2> QED BY <2>1, <2>3, <2>5
<1>3. ASSUME Parted, ~OpenThere(Parent(o)), row[Parent(o)] # NoRow,
             row'[Parent(o)].filled = Total(History(Parent(o)))
      PROVE  /\ ~OpenThere(Parent(o))' /\ row'[Parent(o)].filled = Total(History(Parent(o))')
             /\ Parted'
  BY <1>2, <1>3
<1>4. CASE row'[Parent(o)] = row[Parent(o)]
  BY <1>0, <1>3, <1>4 DEF ParentInv, CancelledParent
<1>5. ASSUME NEW w \in Workers, Cancel(w), Current(w) = o, Marked(Parent(o), "CANCELLED"),
             row'[Parent(o)] # row[Parent(o)]
      PROVE  /\ ~OpenThere(Parent(o))' /\ row'[Parent(o)].filled = Total(History(Parent(o))')
             /\ Parted'
  <2>0. CanMove(Parent(o), "CANCELLED")
    BY <1>5 DEF Cancel, Mark
  <2>1. ~worker[w].refused /\ worker[w].pc = "cancel"
    BY <1>5, <2>0 DEF Cancel, At
  <2>2. Owns(w, o)
    BY <1>5, <2>1 DEF Owns
  <2>3. Parted
    BY <2>1, <2>2 DEF OneOwner
  <2>4. \A c \in ChildrenOf(o) : broker[c] = None
    BY <1>1, <2>1, <2>2 DEF OneOwner, Undoing
  <2>5. History(Parent(o)) = {} /\ ~OpenThere(Parent(o))
    BY <2>4, HistoryOfParent
  <2>6. row[Parent(o)].filled = Total(row[Parent(o)].deals)
        /\ row[Parent(o)].deals \subseteq {} /\ row[Parent(o)] # NoRow
    BY <2>2, <2>5 DEF ParentInv, OwnedParent, OneOwner
  <2>7. row[Parent(o)].deals = {}
    BY <2>6
  <2>8. row'[Parent(o)].filled = Total(History(Parent(o)))
    BY <1>5, <2>5, <2>6, <2>7 DEF Marked
  <2> HIDE DEF Parted
  <2> QED BY <1>3, <2>3, <2>5, <2>6, <2>8
<1>6. \A d : ~Entered(Parent(o), d)
  BY DEF Entered, FillState
<1>7. ~Opened(Parent(o)) /\ ~Marked(Parent(o), "UNKNOWN")
  BY DEF Opened, Marked, NewRow
<1>8. CASE Recovered(Parent(o)) /\ UNCHANGED <<broker, worker, undercut>>
  <2>1. \A w \in Workers : ~Owns(w, o)
    BY <1>8 DEF Recovered, Parent
  <2>2. row'[Parent(o)].filled = Total(History(Parent(o))) /\ ~OpenThere(Parent(o))
        /\ row[Parent(o)] # NoRow
    BY <1>8 DEF Recovered
  <2>3. Parted
    BY <2>1
  <2> HIDE DEF Parted
  <2> QED BY <1>3, <2>2, <2>3
<1> HIDE DEF Parted
<1> QED BY <1>4, <1>5, <1>6, <1>7, <1>8, ParentChange

LEMMA ParentStep ==
  ASSUME JournalInv, BrokerInv, WorkInv, OneOwner, AccountInv, ParentInv, [Next]_vars
  PROVE  ParentInv'
<1>1. BrokerInv' /\ BrokerGrows
  BY BrokerStep
<1> QED BY <1>1, OwnedParentStep, FilledParentStep, CancelledParentStep DEF ParentInv

-----------------------------------------------------------------------------
(* The theorems                                                             *)

StackInv ==
  /\ JournalInv /\ BrokerInv /\ WorkInv /\ AdmissionInv /\ OneOwner /\ CountedInv /\ AccountInv
  /\ ParentInv

LEMMA StackInvariant == Spec => []StackInv
<1>1. Init => StackInv
  BY JournalInit, BrokerInit, WorkInit, AdmissionInit, OwnerInit, CountedInit, AccountInit,
     ParentInit
     DEF StackInv
<1>2. StackInv /\ [Next]_vars => StackInv'
  BY JournalStep, BrokerStep, WorkStep, AdmissionStep, OwnerStep, CountedStep, AccountStep,
     ParentStep
     DEF StackInv
<1> QED BY <1>1, <1>2, PTL DEF Spec

\* What the shared admission ledger has reserved and committed stays within
\* the portfolio's limit, whoever reserves, commits, lapses or crashes
\* (ExecutionAdmissionLedger.reserve and commit).
THEOREM PortfolioStaysBounded == Spec => []AdmissionIsBounded
<1>1. StackInv => AdmissionIsBounded
  BY DEF StackInv, AdmissionInv
<1> QED BY <1>1, StackInvariant, PTL

\* What the broker dealt for an order counts against the limit until its
\* reservation lapses or another process cancels or releases it.
THEOREM DealsStayCounted == Spec => []DealsAreCounted
<1>1. StackInv => DealsAreCounted
  <2> SUFFICES ASSUME StackInv, NEW o \in Orders, History(Parent(o)) # {} PROVE Counted(o)
    BY DEF DealsAreCounted, Counted
  <2>1. PICK c \in ChildrenOf(o) : broker[c] # None
    BY DEF History, Has, Parent
  <2>2. c \in Children /\ c[1] = o
    BY DEF Children, ChildrenOf
  <2> QED BY <2>1, <2>2 DEF StackInv, CountedInv
<1> QED BY <1>1, StackInvariant, PTL

\* An order the broker has is in the journal; once nobody works on it, it
\* blocks new orders or its row says what was dealt (begin_submission,
\* unresolved_records, recover).
THEOREM BrokerStaysAccounted == Spec => []BrokerOrdersAreAccounted
<1>1. StackInv => BrokerOrdersAreAccounted
  <2> SUFFICES ASSUME StackInv, NEW c \in Children, broker[c] # None
               PROVE  /\ row[c] # NoRow
                      /\ Unresolved(c) \/ (~broker[c].open /\ row[c].filled = Dealt(c))
    BY DEF BrokerOrdersAreAccounted
  <2>1. row[c] # NoRow
    BY DEF StackInv, AccountInv
  <2>2. row[c].state \in States
    BY <2>1, ChildIs DEF StackInv, JournalInv, RowsTyped
  <2>3. CASE row[c].state \in {"FILLED", "CANCELLED"}
    BY <2>1, <2>3 DEF StackInv, AccountInv, Settled
  <2>4. CASE row[c].state \notin {"FILLED", "CANCELLED"}
    BY <2>1, <2>2, <2>4 DEF States, Unresolved
  <2> QED BY <2>1, <2>3, <2>4
<1> QED BY <1>1, StackInvariant, PTL

\* An order nobody works on and nothing is unresolved of has the broker's
\* deals in its parent row, unless another process cancelled it meanwhile
\* (mark_fill of the parent, recover, mark_cancelled).
THEOREM ParentsStayInAgreement == Spec => []ParentsAgree
<1>1. StackInv => ParentsAgree
  <2> SUFFICES ASSUME StackInv, NEW o \in Orders, row[Parent(o)] # NoRow, o \notin undercut,
                      ~Unresolved(Parent(o))
               PROVE  row[Parent(o)].filled = Total(History(Parent(o)))
    BY DEF ParentsAgree
  <2>1. row[Parent(o)].state \in States
    BY DEF StackInv, JournalInv, RowsTyped, Ids, Parent
  <2>2. row[Parent(o)].state \in {"FILLED", "CANCELLED"}
    BY <2>1 DEF States, Unresolved
  <2>3. FilledParent(o) /\ CancelledParent(o)
    BY DEF StackInv, ParentInv
  <2> QED BY <2>2, <2>3 DEF FilledParent, CancelledParent
<1> QED BY <1>1, StackInvariant, PTL

=============================================================================
