---------------------------- MODULE MembershipProofs ----------------------------
(***************************************************************************)
(* The accounting of paid time, the service it pays for and the master     *)
(* switch of Membership, for any users, charges and calls, and any lengths *)
(* of the periods.                                                         *)
(***************************************************************************)
EXTENDS Membership, FiniteSetTheorems, TLAPS

LEMMA IdleTyped == Idle \in ProcType /\ NoRow \in Row /\ Idle.pc = "idle"
<1>1. NoRow \in Row
  BY DEF NoRow, Row
<1>2. [u \in Users |-> NoRow] \in [Users -> Row]
  BY <1>1
<1> QED BY <1>1, <1>2 DEF Idle, ProcType

LEMMA RowsTyped ==
  /\ \A row \in Row : Created(row) \in Row /\ Created(row).end = row.end
  /\ \A rows \in [Users -> Row], p \in ProcType :
       /\ Marked(rows, p) \in [Users -> Row]
       /\ \A u \in Users : Marked(rows, p)[u].end = rows[u].end
  /\ \A row, old, new \in Row :
       /\ Written(row, old, new) \in Row
       /\ Written(row, old, new).end = IF new.end = old.end THEN row.end ELSE new.end
<1>1. \A row \in Row : Created(row) \in Row /\ Created(row).end = row.end
  BY DEF Created, Row
<1>2. ASSUME NEW rows \in [Users -> Row], NEW p \in ProcType
      PROVE  /\ Marked(rows, p) \in [Users -> Row]
             /\ \A u \in Users : Marked(rows, p)[u].end = rows[u].end
  BY DEF Marked, Row
<1>3. ASSUME NEW row \in Row, NEW old \in Row, NEW new \in Row
      PROVE  /\ Written(row, old, new) \in Row
             /\ Written(row, old, new).end = IF new.end = old.end THEN row.end ELSE new.end
  BY DEF Written, Row
<1> QED BY <1>1, <1>2, <1>3

LEMMA PaidRows ==
  ASSUME now \in Nat, NEW row \in Row
  PROVE  /\ PaidRow(row) \in Row
         /\ PaidRow(row).end = (IF row.end > now THEN row.end ELSE now) + Period
         /\ PaidRow(row).end # row.end
<1>1. Period \in Nat \ {0} /\ row.end \in Nat
  BY MembershipAssumption DEF Row
<1> QED BY <1>1 DEF PaidRow, Row

-----------------------------------------------------------------------------
(* Shapes *)

ChargeNamed == \A c \in Calls : proc[c].pc \in {"pay", "reply"} => proc[c].charge \in Charges

TypeInv == TypeOK /\ ChargeNamed

LEMMA TypesInit == Init => TypeInv
<1> SUFFICES ASSUME Init PROVE TypeInv
  OBVIOUS
<1>1. now \in 0..MaxTime
  BY MembershipAssumption DEF Init
<1>2. sub \in [Users -> Row] /\ proc \in [Calls -> ProcType]
  BY IdleTyped DEF Init
<1>3. ChargeNamed
  BY IdleTyped DEF Init, ChargeNamed
<1> QED BY <1>1, <1>2, <1>3 DEF Init, TypeOK, TypeInv

LEMMA Becoming ==
  ASSUME TypeInv, NEW c \in Calls, NEW x \in ProcType, Become(c, x),
         x.pc \in {"pay", "reply"} => x.charge \in Charges
  PROVE  /\ proc' \in [Calls -> ProcType] /\ ChargeNamed'
         /\ proc'[c] = x /\ \A d \in Calls : d # c => proc'[d] = proc[d]
BY DEF Become, TypeInv, TypeOK, ChargeNamed

LEMMA PaymentTypes ==
  ASSUME TypeInv, NEW c \in Calls,
         \/ \E a \in Charges : ReceivePayment(c, a)
         \/ RecordPayment(c) \/ Reply(c)
  PROVE  TypeInv'
<1> USE DEF TypeInv, TypeOK, members, switch
<1>1. ASSUME NEW a \in Charges, ReceivePayment(c, a) PROVE TypeInv'
  <2> DEFINE x == [Idle EXCEPT !.pc = "pay", !.charge = a, !.seen[Buyer[a]] = Created(sub[Buyer[a]])]
  <2>1. Buyer[a] \in Users /\ Created(sub[Buyer[a]]) \in Row
    BY MembershipAssumption, RowsTyped
  <2>2. x \in ProcType /\ x.charge = a
    BY <2>1, IdleTyped DEF ProcType
  <2>3. Become(c, x)
    BY <1>1 DEF ReceivePayment
  <2> HIDE DEF x
  <2>4. proc' \in [Calls -> ProcType] /\ ChargeNamed'
    BY <2>2, <2>3, Becoming
  <2> QED BY <1>1, <2>1, <2>4 DEF ReceivePayment
<1>2. CASE RecordPayment(c)
  <2> DEFINE a == proc[c].charge
             u == Buyer[a]
             old == proc[c].seen[u]
             x == [Idle EXCEPT !.pc = "reply", !.charge = a,
                     !.welcome = PaidRow(old).status = "removed"]
  <2>1. a \in Charges /\ u \in Users
    BY <1>2, MembershipAssumption DEF RecordPayment, ChargeNamed
  <2>2. CASE a \in payments
    BY <1>2, <2>2, IdleTyped, Becoming DEF RecordPayment
  <2>3. CASE a \notin payments
    <3>1. old \in Row
      BY <2>1 DEF ProcType
    <3>2. Written(sub[u], old, PaidRow(old)) \in Row
      BY <2>1, <3>1, PaidRows, RowsTyped
    <3>3. x \in ProcType /\ x.charge = a
      BY <2>1, IdleTyped DEF ProcType
    <3>4. /\ Become(c, x) /\ payments' = payments \cup {a}
          /\ sub' = [sub EXCEPT ![u] = Written(@, old, PaidRow(old))]
          /\ stale' \subseteq stale \cup {u} /\ UNCHANGED <<now, group, switch>>
      BY <1>2, <2>3 DEF RecordPayment
    <3> HIDE DEF x, old
    <3>5. proc' \in [Calls -> ProcType] /\ ChargeNamed'
      BY <2>1, <3>3, <3>4, Becoming
    <3> QED BY <2>1, <3>2, <3>4, <3>5
  <2> QED BY <2>2, <2>3
<1>3. CASE Reply(c)
  BY <1>3, IdleTyped, Becoming DEF Reply
<1> QED BY <1>1, <1>2, <1>3

LEMMA SweepTypes ==
  ASSUME TypeInv, NEW c \in Calls,
         \/ SelectDue(c) \/ Flush(c) \/ Commit(c)
         \/ \E u \in Users, done \in BOOLEAN : Ban(c, u, done) \/ Unban(c, u, done)
  PROVE  TypeInv'
<1> USE DEF TypeInv, TypeOK, members, switch
<1> DEFINE p == proc[c]
<1>1. p \in ProcType
  OBVIOUS
<1>2. ASSUME NEW x \in ProcType, Become(c, x), x.pc \notin {"pay", "reply"},
             UNCHANGED <<now, payments, switch>>, sub' \in [Users -> Row],
             group' \in [Users -> {"in", "out", "banned"}], stale' \subseteq Users
      PROVE  TypeInv'
  BY <1>2, Becoming
<1>3. CASE SelectDue(c)
  <2> DEFINE x == [Idle EXCEPT !.pc = "flush", !.time = now, !.seen = sub,
                     !.warn = ToWarn(sub, now), !.expire = ToExpire(sub, now)]
  <2>1. ToWarn(sub, now) \in SUBSET Users /\ ToExpire(sub, now) \in SUBSET Users /\ now \in Nat
    BY DEF ToWarn, ToExpire
  <2>2. x \in ProcType /\ x.pc = "flush"
    BY <2>1, IdleTyped DEF ProcType
  <2>3. Become(c, x) /\ UNCHANGED <<now, members, switch>>
    BY <1>3 DEF SelectDue
  <2> HIDE DEF x
  <2> QED BY <1>2, <2>2, <2>3
<1>4. CASE Flush(c)
  <2> DEFINE x == [p EXCEPT !.pc = "commit", !.seen = sub,
                     !.remove = ToRemove(Marked(sub, p), p.time)]
  <2>1. ToRemove(Marked(sub, p), p.time) \in SUBSET Users
    BY DEF ToRemove
  <2>2. x \in ProcType /\ x.pc = "commit"
    BY <1>1, <2>1 DEF ProcType
  <2>3. /\ Become(c, x) /\ UNCHANGED <<now, sub, payments, group, switch>>
        /\ stale' \subseteq Users
    BY <1>1, <1>4 DEF Flush, ChangedSince, ProcType
  <2> HIDE DEF x
  <2> QED BY <1>2, <2>2, <2>3
<1>5. CASE Commit(c)
  <2> DEFINE x == [Idle EXCEPT !.pc = "ban", !.remove = p.remove, !.seen = sub']
  <2>1. sub' \in [Users -> Row] /\ stale' \subseteq Users
    BY <1>1, <1>5, RowsTyped DEF Commit, ChangedSince, ProcType
  <2>2. x \in ProcType /\ x.pc = "ban"
    BY <1>1, <2>1, IdleTyped DEF ProcType
  <2>3. (Become(c, x) \/ Become(c, Idle)) /\ UNCHANGED <<now, payments, group, switch>>
    BY <1>5 DEF Commit
  <2> HIDE DEF x
  <2> QED BY <1>2, <2>1, <2>2, <2>3, IdleTyped
<1>6. ASSUME NEW u \in Users, NEW done \in BOOLEAN, Ban(c, u, done) PROVE TypeInv'
  <2> DEFINE x == [p EXCEPT !.pc = "unban", !.expire = {u}]
  <2>1. x \in ProcType /\ x.pc = "unban"
    BY <1>1 DEF ProcType
  <2>2. /\ Become(c, x) /\ UNCHANGED <<now, sub, payments, switch>>
        /\ stale' \subseteq Users /\ group' \in [Users -> {"in", "out", "banned"}]
    BY <1>6 DEF Ban, ChangedSince
  <2> HIDE DEF x
  <2> QED BY <1>2, <2>1, <2>2
<1>7. ASSUME NEW u \in Users, NEW done \in BOOLEAN, Unban(c, u, done) PROVE TypeInv'
  <2> DEFINE x == [p EXCEPT !.pc = "ban", !.remove = p.remove \ {u}, !.expire = {}]
  <2>1. x \in ProcType /\ x.pc = "ban"
    BY <1>1 DEF ProcType
  <2>2. /\ Become(c, x) \/ Become(c, Idle)
        /\ UNCHANGED <<now, sub, payments, stale, switch>>
        /\ group' \in [Users -> {"in", "out", "banned"}]
    BY <1>7 DEF Unban
  <2> HIDE DEF x
  <2> QED BY <1>2, <2>1, <2>2, IdleTyped
<1> QED BY <1>3, <1>4, <1>5, <1>6, <1>7

LEMMA OtherTypes ==
  ASSUME TypeInv,
         \/ \E c \in Calls : TurnOff(c) \/ ClearPending(c) \/ Yes(c) \/ Enable(c) \/ Fail(c)
         \/ \E u \in Users : Subscribe(u) \/ Join(u)
         \/ RequestOn \/ LapseRequest \/ Tick \/ UNCHANGED vars
  PROVE  TypeInv'
<1> USE DEF TypeInv, TypeOK, members, switch
<1>1. ASSUME NEW c \in Calls,
             TurnOff(c) \/ ClearPending(c) \/ Yes(c) \/ Enable(c) \/ Fail(c)
      PROVE  TypeInv'
  <2> DEFINE x(pc) == [Idle EXCEPT !.pc = pc]
  <2>1. /\ x("clear") \in ProcType /\ x("clear").pc = "clear"
        /\ x("enable") \in ProcType /\ x("enable").pc = "enable"
    BY IdleTyped DEF ProcType
  <2>2. Become(c, x("clear")) \/ Become(c, x("enable")) \/ Become(c, Idle)
    BY <1>1 DEF TurnOff, ClearPending, Yes, Enable, Fail
  <2> HIDE DEF x
  <2>3. proc' \in [Calls -> ProcType] /\ ChargeNamed'
    BY <2>1, <2>2, IdleTyped, Becoming
  <2>4. /\ UNCHANGED <<now, sub, payments, group, stale>>
        /\ on' \in BOOLEAN /\ off' \in BOOLEAN /\ pending' \in {"none", "fresh", "lapsed"}
    BY <1>1 DEF TurnOff, ClearPending, Yes, Enable, Fail
  <2> QED BY <2>3, <2>4
<1>2. ASSUME NEW u \in Users, Subscribe(u) \/ Join(u) PROVE TypeInv'
  <2>1. UNCHANGED <<now, payments, stale, switch, proc>>
    BY <1>2 DEF Subscribe, Join
  <2>2. sub' \in [Users -> Row]
    <3>1. sub' = sub \/ sub' = [sub EXCEPT ![u] = Created(sub[u])]
      BY <1>2 DEF Subscribe, Join
    <3>2. Created(sub[u]) \in Row
      BY RowsTyped
    <3> QED BY <3>1, <3>2
  <2>3. group' \in [Users -> {"in", "out", "banned"}]
    BY <1>2 DEF Subscribe, Join
  <2> QED BY <2>1, <2>2, <2>3 DEF ChargeNamed
<1>3. CASE RequestOn \/ LapseRequest \/ UNCHANGED vars
  BY <1>3 DEF RequestOn, LapseRequest, vars, ChargeNamed
<1>4. CASE Tick
  BY <1>4, MembershipAssumption DEF Tick, ChargeNamed
<1> QED BY <1>1, <1>2, <1>3, <1>4

LEMMA TypesStep == TypeInv /\ [Next]_vars => TypeInv'
BY PaymentTypes, SweepTypes, OtherTypes DEF Next, Call

-----------------------------------------------------------------------------
(***************************************************************************)
(* Paid time.  The strengthening: no call holds a row that promises more   *)
(* than what was paid for.                                                 *)
(***************************************************************************)
Paid(u) == Period * Cardinality(PaidBy(u))

Counted ==
  \A u \in Users :
    /\ sub[u].end <= now + Paid(u)
    /\ u \notin stale => Paid(u) <= sub[u].end
    /\ \A c \in Calls : proc[c].seen[u].end <= now + Paid(u)

LEMMA PaidTyped ==
  ASSUME TypeInv
  PROVE  /\ now \in Nat /\ Period \in Nat \ {0}
         /\ \A u \in Users :
              /\ IsFiniteSet(PaidBy(u)) /\ Cardinality(PaidBy(u)) \in Nat
              /\ Paid(u) \in Nat /\ sub[u].end \in Nat
              /\ \A c \in Calls : proc[c].seen[u].end \in Nat
<1>1. now \in Nat /\ Period \in Nat \ {0}
  BY MembershipAssumption DEF TypeInv, TypeOK
<1>2. ASSUME NEW u \in Users
      PROVE  IsFiniteSet(PaidBy(u)) /\ Cardinality(PaidBy(u)) \in Nat
  <2>1. PaidBy(u) \subseteq Charges /\ IsFiniteSet(Charges)
    BY MembershipAssumption DEF PaidBy, TypeInv, TypeOK
  <2> QED BY <2>1, FS_Subset, FS_CardinalityType
<1>3. \A u \in Users : sub[u].end \in Nat /\ \A c \in Calls : proc[c].seen[u].end \in Nat
  BY DEF TypeInv, TypeOK, Row, ProcType
<1>4. \A u \in Users : Paid(u) \in Nat
  BY <1>1, <1>2 DEF Paid
<1> QED BY <1>1, <1>2, <1>3, <1>4

LEMMA CountedInit == Init => Counted
<1> SUFFICES ASSUME Init PROVE Counted
  OBVIOUS
<1>1. \A u \in Users : PaidBy(u) = {} /\ Cardinality(PaidBy(u)) = 0
  BY FS_EmptySet DEF Init, PaidBy
<1>2. \A u \in Users : Paid(u) = 0
  BY <1>1, MembershipAssumption DEF Paid
<1> QED BY <1>2 DEF Init, Counted, NoRow, Idle

(***************************************************************************)
(* A step that records no payment keeps every end, and what calls hold are *)
(* rows as they are, or were.                                              *)
(***************************************************************************)
LEMMA Uncounted ==
  ASSUME TypeInv, Counted, TypeInv',
         UNCHANGED payments, now <= now', stale \subseteq stale',
         \A u \in Users : sub'[u].end = sub[u].end,
         \A u \in Users, c \in Calls :
           proc'[c].seen[u].end \in {proc[c].seen[u].end, sub[u].end, 0}
  PROVE  Counted'
<1>1. \A u \in Users : Paid(u)' = Paid(u)
  BY DEF Paid, PaidBy
<1>2. now' \in Nat
  BY DEF TypeInv, TypeOK
<1> QED BY <1>1, <1>2, PaidTyped DEF Counted

LEMMA RecordPaymentCounts ==
  ASSUME TypeInv, Counted, TypeInv', NEW c \in Calls, RecordPayment(c)
  PROVE  Counted'
<1>0. PICK a \in Charges : a = proc[c].charge
  BY DEF RecordPayment, TypeInv, ChargeNamed
<1>u. PICK u \in Users : u = Buyer[a]
  BY MembershipAssumption
<1> DEFINE old == proc[c].seen[u]
           new == PaidRow(old)
<1>1. old \in Row /\ sub[u] \in Row
  BY DEF TypeInv, TypeOK, ProcType
<1>2. /\ \A d \in Calls : d # c => proc'[d] = proc[d]
      /\ \A v \in Users : proc'[c].seen[v].end = 0
  <2> DEFINE x == [Idle EXCEPT !.pc = "reply", !.charge = a,
                     !.welcome = new.status = "removed"]
  <2>1. (Become(c, x) \/ Become(c, Idle)) /\ x.seen = Idle.seen
    BY <1>0, <1>u DEF RecordPayment, Idle
  <2>2. \A v \in Users : Idle.seen[v].end = 0
    BY DEF Idle, NoRow
  <2> QED BY <2>1, <2>2 DEF Become, TypeInv, TypeOK
<1>3. \A d \in Calls, v \in Users : proc'[d].seen[v].end \in {proc[d].seen[v].end, 0}
  BY <1>2 DEF TypeInv, TypeOK
<1>4. CASE a \in payments
  <2>1. UNCHANGED <<now, sub, payments, stale>>
    BY <1>0, <1>4 DEF RecordPayment
  <2> QED BY <1>3, <2>1, PaidTyped, Uncounted
<1>5. CASE a \notin payments
  <2>1. /\ payments' = payments \cup {a} /\ now' = now
        /\ sub' = [sub EXCEPT ![u] = Written(@, old, new)]
        /\ stale' = stale \cup (IF sub[u] = old THEN {} ELSE {u})
    BY <1>0, <1>u, <1>5 DEF RecordPayment
  <2> HIDE DEF old, new
  <2>2. \A v \in Users : v # u => PaidBy(v)' = PaidBy(v)
    BY <1>u, <2>1 DEF PaidBy
  <2>3. PaidBy(u)' = PaidBy(u) \cup {a} /\ a \notin PaidBy(u)
    BY <1>u, <1>5, <2>1 DEF PaidBy
  <2>4. Cardinality(PaidBy(u)') = Cardinality(PaidBy(u)) + 1
    BY <1>1, <2>3, PaidTyped, FS_AddElement
  <2>5. Paid(u)' = Paid(u) + Period /\ \A v \in Users : v # u => Paid(v)' = Paid(v)
    <3>1. Period * (Cardinality(PaidBy(u)) + 1) = Period * Cardinality(PaidBy(u)) + Period
      BY <1>1, PaidTyped
    <3> QED BY <2>2, <2>4, <3>1 DEF Paid
  <2>6. /\ new \in Row /\ new.end = (IF old.end > now THEN old.end ELSE now) + Period
        /\ new.end # old.end
    BY <1>1, PaidTyped, PaidRows DEF new
  <2>7. sub'[u].end = new.end /\ \A v \in Users : v # u => sub'[v] = sub[v]
    BY <1>1, <2>1, <2>6, RowsTyped DEF TypeInv, TypeOK
  <2>8. old.end \in Nat /\ old.end <= now + Paid(u)
    BY <1>1, PaidTyped DEF Counted, old, Row
  <2>9. sub'[u].end <= now' + Paid(u)'
    BY <1>1, <2>1, <2>5, <2>6, <2>7, <2>8, PaidTyped
  <2>10. u \notin stale' => Paid(u)' <= sub'[u].end
    <3> SUFFICES ASSUME u \notin stale' PROVE Paid(u) + Period <= new.end
      BY <2>5, <2>7
    <3>1. u \notin stale /\ sub[u] = old
      BY <2>1
    <3>2. Paid(u) <= old.end
      BY <1>1, <3>1 DEF Counted
    <3> QED BY <1>1, <2>6, <2>8, <3>2, PaidTyped
  <2>11. \A d \in Calls, v \in Users : proc'[d].seen[v].end <= now' + Paid(v)'
    BY <1>1, <1>3, <2>1, <2>5, PaidTyped DEF Counted
  <2>12. ASSUME NEW v \in Users, v # u
         PROVE  sub'[v].end <= now' + Paid(v)' /\ (v \notin stale' => Paid(v)' <= sub'[v].end)
    BY <2>1, <2>5, <2>7, <2>12 DEF Counted
  <2> QED BY <2>9, <2>10, <2>11, <2>12 DEF Counted
<1> QED BY <1>4, <1>5

LEMMA CountedStep == TypeInv /\ Counted /\ [Next]_vars => Counted'
<1> SUFFICES ASSUME TypeInv, Counted, [Next]_vars PROVE Counted'
  OBVIOUS
<1>1. TypeInv'
  BY TypesStep
<1> USE DEF members, switch
\* One call moves on, no row changes its end.
<1>2. ASSUME NEW c \in Calls, NEW x, Become(c, x),
             \A u \in Users : x.seen[u].end \in {proc[c].seen[u].end, sub[u].end, 0},
             UNCHANGED <<now, payments>>, stale \subseteq stale',
             \A u \in Users : sub'[u].end = sub[u].end
      PROVE  Counted'
  <2>1. \A u \in Users, d \in Calls :
          proc'[d].seen[u].end \in {proc[d].seen[u].end, sub[u].end, 0}
    BY <1>2 DEF Become, TypeInv, TypeOK
  <2>2. now <= now'
    BY <1>2, PaidTyped
  <2> QED BY <1>1, <1>2, <2>1, <2>2, Uncounted
<1>3. \A u \in Users : Idle.seen[u].end = 0
  BY DEF Idle, NoRow
<1>4. ASSUME NEW c \in Calls, Become(c, Idle), UNCHANGED <<now, payments>>,
             stale \subseteq stale', \A u \in Users : sub'[u].end = sub[u].end
      PROVE  Counted'
  BY <1>2, <1>3, <1>4
<1>5. ASSUME NEW c \in Calls, NEW a \in Charges, ReceivePayment(c, a) PROVE Counted'
  <2> DEFINE u == Buyer[a]
             x == [Idle EXCEPT !.pc = "pay", !.charge = a, !.seen[u] = Created(sub[u])]
  <2>1. u \in Users /\ Created(sub[u]).end = sub[u].end
    BY MembershipAssumption, RowsTyped DEF TypeInv, TypeOK
  <2>2. \A v \in Users : x.seen[v].end \in {sub[v].end, 0}
    BY <2>1 DEF Idle, NoRow
  <2>3. /\ Become(c, x) /\ UNCHANGED <<now, payments, stale>>
        /\ sub' = [sub EXCEPT ![u] = Created(sub[u])]
    BY <1>5 DEF ReceivePayment
  <2>4. \A v \in Users : sub'[v].end = sub[v].end
    BY <2>1, <2>3 DEF TypeInv, TypeOK
  <2> HIDE DEF x
  <2> QED BY <1>2, <2>2, <2>3, <2>4
<1>6. ASSUME NEW c \in Calls, RecordPayment(c) PROVE Counted'
  BY <1>1, <1>6, RecordPaymentCounts
<1>7. ASSUME NEW c \in Calls, Reply(c) \/ Fail(c) PROVE Counted'
  BY <1>4, <1>7 DEF Reply, Fail
<1>8. ASSUME NEW c \in Calls, SelectDue(c) \/ Flush(c) PROVE Counted'
  <2>1. UNCHANGED <<now, payments, sub>> /\ stale \subseteq stale'
    BY <1>8 DEF SelectDue, Flush
  <2>2. CASE SelectDue(c)
    <3> DEFINE x == [Idle EXCEPT !.pc = "flush", !.time = now, !.seen = sub,
                       !.warn = ToWarn(sub, now), !.expire = ToExpire(sub, now)]
    <3>1. Become(c, x)
      BY <2>2 DEF SelectDue
    <3>2. x.seen = sub
      BY DEF Idle
    <3> HIDE DEF x
    <3> QED BY <1>2, <2>1, <3>1, <3>2
  <2>3. CASE Flush(c)
    <3> DEFINE x == [proc[c] EXCEPT !.pc = "commit", !.seen = sub,
                       !.remove = ToRemove(Marked(sub, proc[c]), proc[c].time)]
    <3>1. Become(c, x)
      BY <2>3 DEF Flush
    <3>2. x.seen = sub
      BY DEF TypeInv, TypeOK, ProcType
    <3> HIDE DEF x
    <3> QED BY <1>2, <2>1, <3>1, <3>2
  <2> QED BY <1>8, <2>2, <2>3
<1>9. ASSUME NEW c \in Calls, Commit(c) PROVE Counted'
  <2>1. UNCHANGED <<now, payments>> /\ stale \subseteq stale' /\ sub' = Marked(sub, proc[c])
    BY <1>9 DEF Commit
  <2>2. \A u \in Users : sub'[u].end = sub[u].end
    BY <2>1, RowsTyped DEF TypeInv, TypeOK
  <2> DEFINE x == [Idle EXCEPT !.pc = "ban", !.remove = proc[c].remove, !.seen = sub']
  <2>3. x.seen = sub' /\ (Become(c, x) \/ Become(c, Idle))
    BY <1>9 DEF Commit, Idle
  <2> HIDE DEF x
  <2> QED BY <1>2, <1>4, <2>1, <2>2, <2>3
<1>10. ASSUME NEW c \in Calls, NEW u \in Users, NEW done \in BOOLEAN,
              Ban(c, u, done) \/ Unban(c, u, done)
       PROVE  Counted'
  <2> DEFINE x == [proc[c] EXCEPT !.pc = "unban", !.expire = {u}]
             y == [proc[c] EXCEPT !.pc = "ban", !.remove = @ \ {u}, !.expire = {}]
  <2>1. Become(c, x) \/ Become(c, y) \/ Become(c, Idle)
    BY <1>10 DEF Ban, Unban
  <2>2. x.seen = proc[c].seen /\ y.seen = proc[c].seen
    BY DEF TypeInv, TypeOK, ProcType
  <2>3. UNCHANGED <<now, payments, sub>> /\ stale \subseteq stale'
    BY <1>10 DEF Ban, Unban
  <2> HIDE DEF x, y
  <2> QED BY <1>2, <1>4, <2>1, <2>2, <2>3
<1>11. ASSUME NEW c \in Calls, TurnOff(c) \/ ClearPending(c) \/ Yes(c) \/ Enable(c)
       PROVE  Counted'
  <2> DEFINE x(pc) == [Idle EXCEPT !.pc = pc]
  <2>1. Become(c, x("clear")) \/ Become(c, x("enable")) \/ Become(c, Idle)
    BY <1>11 DEF TurnOff, ClearPending, Yes, Enable
  <2>2. x("clear").seen = Idle.seen /\ x("enable").seen = Idle.seen
    BY DEF Idle
  <2>3. UNCHANGED <<now, payments, sub, stale>>
    BY <1>11 DEF TurnOff, ClearPending, Yes, Enable
  <2> HIDE DEF x
  <2> QED BY <1>2, <1>3, <1>4, <2>1, <2>2, <2>3
<1>12. CASE \/ \E u \in Users : Subscribe(u) \/ Join(u)
            \/ RequestOn \/ LapseRequest \/ Tick \/ UNCHANGED vars
  <2>1. /\ UNCHANGED <<payments, proc, stale>> /\ now <= now'
        /\ \A u \in Users : sub'[u].end = sub[u].end
    <3>1. now <= now /\ now <= now + 1
      BY PaidTyped
    <3>2. ASSUME NEW u \in Users, Subscribe(u)
          PROVE  UNCHANGED <<payments, proc, stale, now>> /\ \A v \in Users : sub'[v].end = sub[v].end
      BY <3>2, RowsTyped DEF Subscribe, TypeInv, TypeOK
    <3> QED BY <1>12, <3>1, <3>2 DEF Join, RequestOn, LapseRequest, Tick, vars
  <2> QED BY <1>1, <2>1, Uncounted
<1> QED
  BY <1>5, <1>6, <1>7, <1>8, <1>9, <1>10, <1>11, <1>12 DEF Next, Call

(***************************************************************************)
(* record_payment: for any periods, users, charges and calls, redelivered  *)
(* and raced as they may be, nobody reads the feed for longer than was     *)
(* paid for, and a renewal on a row nobody changed meanwhile adds the whole*)
(* period to what was left.                                                *)
(***************************************************************************)
THEOREM EveryChargeCountsOnce == Spec => []PaidTimeIsCounted
<1>1. TypeInv /\ Counted => PaidTimeIsCounted
  BY DEF Counted, PaidTimeIsCounted, Paid
<1> QED BY <1>1, TypesInit, TypesStep, CountedInit, CountedStep, PTL DEF Spec

-----------------------------------------------------------------------------
(***************************************************************************)
(* The master switch.  After an answered OFF there is no request to        *)
(* confirm and no confirmation under way.                                  *)
(***************************************************************************)
SwitchInv ==
  /\ TypeInv /\ OffHolds
  /\ off => pending = "none" /\ \A c \in Calls : proc[c].pc # "enable"

LEMMA SwitchStep == SwitchInv /\ [Next]_vars => SwitchInv'
<1> SUFFICES ASSUME SwitchInv, [Next]_vars PROVE SwitchInv'
  OBVIOUS
<1>1. TypeInv'
  BY TypesStep DEF SwitchInv
<1> USE DEF SwitchInv, OffHolds, members, switch
<1>2. ASSUME UNCHANGED <<on, off>>, off => pending' = "none",
             \A c \in Calls : off /\ proc'[c].pc = "enable" => proc[c].pc = "enable"
      PROVE  SwitchInv'
  BY <1>1, <1>2
<1>3. CASE RequestOn \/ LapseRequest \/ Tick \/ UNCHANGED vars
  BY <1>1, <1>2, <1>3 DEF RequestOn, LapseRequest, Tick, vars
<1>4. ASSUME NEW u \in Users, Subscribe(u) \/ Join(u) PROVE SwitchInv'
  BY <1>2, <1>4 DEF Subscribe, Join
<1>5. ASSUME NEW c \in Calls, NEW x, Become(c, x), x.pc # "enable" \/ ~off,
             UNCHANGED <<on, off>>, pending' \in {pending, "none"}
      PROVE  SwitchInv'
  BY <1>1, <1>5 DEF Become, TypeInv, TypeOK
<1>6. ASSUME NEW c \in Calls, Enable(c) PROVE SwitchInv'
  BY <1>1, <1>6, IdleTyped DEF Enable, Become, TypeInv, TypeOK
<1>7. ASSUME NEW c \in Calls, ClearPending(c) PROVE SwitchInv'
  BY <1>1, <1>7, IdleTyped DEF ClearPending, Become, TypeInv, TypeOK
<1>8. ASSUME NEW c \in Calls, TurnOff(c) PROVE SwitchInv'
  BY <1>1, <1>8, IdleTyped DEF TurnOff, Become, TypeInv, TypeOK, ProcType
<1>9. ASSUME NEW c \in Calls, Yes(c) PROVE SwitchInv'
  <2>1. ~off
    BY <1>9 DEF Yes
  <2> QED BY <1>5, <1>9, <2>1 DEF Yes
<1>10. ASSUME NEW c \in Calls,
              \/ \E a \in Charges : ReceivePayment(c, a)
              \/ RecordPayment(c) \/ Reply(c) \/ SelectDue(c) \/ Flush(c) \/ Commit(c)
              \/ \E u \in Users, done \in BOOLEAN : Ban(c, u, done) \/ Unban(c, u, done)
              \/ Fail(c)
       PROVE  SwitchInv'
  <2>1. UNCHANGED <<on, off, pending>>
    BY <1>10 DEF ReceivePayment, RecordPayment, Reply, SelectDue, Flush, Commit, Ban, Unban, Fail
  <2>2. \A d \in Calls : d # c => proc'[d] = proc[d]
    BY <1>10 DEF ReceivePayment, RecordPayment, Reply, SelectDue, Flush, Commit, Ban, Unban, Fail,
                 Become, TypeInv, TypeOK
  <2>3. proc'[c].pc # "enable"
    <3>1. ASSUME NEW x, Become(c, x), x.pc # "enable" PROVE proc'[c].pc # "enable"
      BY <3>1 DEF Become, TypeInv, TypeOK
    <3>2. Idle.pc # "enable"
      BY DEF Idle
    <3>3. ASSUME NEW a \in Charges, ReceivePayment(c, a) PROVE proc'[c].pc # "enable"
      <4> DEFINE x == [Idle EXCEPT !.pc = "pay", !.charge = a,
                         !.seen[Buyer[a]] = Created(sub[Buyer[a]])]
      <4>1. Become(c, x)
        BY <3>3 DEF ReceivePayment
      <4>2. x.pc = "pay"
        BY DEF Idle
      <4> HIDE DEF x
      <4> QED BY <3>1, <4>1, <4>2
    <3>4. ASSUME RecordPayment(c) PROVE proc'[c].pc # "enable"
      <4> DEFINE x == [Idle EXCEPT !.pc = "reply", !.charge = proc[c].charge,
                         !.welcome = PaidRow(proc[c].seen[Buyer[proc[c].charge]]).status
                                       = "removed"]
      <4>1. Become(c, x) \/ Become(c, Idle)
        BY <3>4 DEF RecordPayment
      <4>2. x.pc = "reply"
        BY DEF Idle
      <4> HIDE DEF x
      <4> QED BY <3>1, <3>2, <4>1, <4>2
    <3>5. ASSUME SelectDue(c) PROVE proc'[c].pc # "enable"
      <4> DEFINE x == [Idle EXCEPT !.pc = "flush", !.time = now, !.seen = sub,
                         !.warn = ToWarn(sub, now), !.expire = ToExpire(sub, now)]
      <4>1. Become(c, x)
        BY <3>5 DEF SelectDue
      <4>2. x.pc = "flush"
        BY DEF Idle
      <4> HIDE DEF x
      <4> QED BY <3>1, <4>1, <4>2
    <3>6. ASSUME Flush(c) PROVE proc'[c].pc # "enable"
      <4> DEFINE x == [proc[c] EXCEPT !.pc = "commit", !.seen = sub,
                         !.remove = ToRemove(Marked(sub, proc[c]), proc[c].time)]
      <4>1. Become(c, x)
        BY <3>6 DEF Flush
      <4>2. x.pc = "commit"
        BY DEF TypeInv, TypeOK, ProcType
      <4> HIDE DEF x
      <4> QED BY <3>1, <4>1, <4>2
    <3>7. ASSUME Commit(c) PROVE proc'[c].pc # "enable"
      <4> DEFINE x == [Idle EXCEPT !.pc = "ban", !.remove = proc[c].remove, !.seen = sub']
      <4>1. Become(c, x) \/ Become(c, Idle)
        BY <3>7 DEF Commit
      <4>2. x.pc = "ban"
        BY DEF Idle
      <4> HIDE DEF x
      <4> QED BY <3>1, <3>2, <4>1, <4>2
    <3>8. ASSUME NEW u \in Users, NEW done \in BOOLEAN, Ban(c, u, done) \/ Unban(c, u, done)
          PROVE  proc'[c].pc # "enable"
      <4> DEFINE x == [proc[c] EXCEPT !.pc = "unban", !.expire = {u}]
                 y == [proc[c] EXCEPT !.pc = "ban", !.remove = @ \ {u}, !.expire = {}]
      <4>1. Become(c, x) \/ Become(c, y) \/ Become(c, Idle)
        BY <3>8 DEF Ban, Unban
      <4>2. x.pc = "unban" /\ y.pc = "ban"
        BY DEF TypeInv, TypeOK, ProcType
      <4> HIDE DEF x, y
      <4> QED BY <3>1, <3>2, <4>1, <4>2
    <3>9. ASSUME Reply(c) \/ Fail(c) PROVE proc'[c].pc # "enable"
      BY <3>1, <3>2, <3>9 DEF Reply, Fail
    <3> QED BY <1>10, <3>3, <3>4, <3>5, <3>6, <3>7, <3>8, <3>9
  <2> QED BY <1>2, <2>1, <2>2, <2>3
<1> QED
  BY <1>3, <1>4, <1>6, <1>7, <1>8, <1>9, <1>10 DEF Next, Call

(***************************************************************************)
(* /copytrading off: however confirmations and OFFs interleave, after an   *)
(* answered OFF nobody copies until ON is asked for again.                 *)
(***************************************************************************)
THEOREM OffStaysOff == Spec => []OffHolds
<1>1. Init => SwitchInv
  BY TypesInit DEF Init, SwitchInv, OffHolds
<1>2. SwitchInv => OffHolds
  BY DEF SwitchInv
<1> QED BY <1>1, <1>2, SwitchStep, PTL DEF Spec

-----------------------------------------------------------------------------
(***************************************************************************)
(* Who has paid time left is served.  The strengthening: a sweep that has  *)
(* flushed holds the rows it expires, so their period has ended whatever   *)
(* is paid meanwhile; those it removes had ended when it selected them.    *)
(***************************************************************************)
SweepFine(c) ==
  LET p == proc[c] IN
  /\ p.pc \in {"flush", "commit"} => p.time <= now
  /\ p.pc = "flush" => \A u \in p.expire : p.seen[u].end <= now
  /\ p.pc = "commit" =>
       /\ \A u \in p.expire : u \in stale \/ sub[u].end <= now
       /\ \A u \in p.remove : p.seen[u].end <= now

Served(u) == u \notin stale /\ sub[u].end > now => sub[u].status = "active"

ServedInv ==
  /\ TypeInv
  /\ \A u \in Users : Served(u)
  /\ \A c \in Calls : SweepFine(c)

LEMMA ServedInit == Init => ServedInv
<1> SUFFICES ASSUME Init PROVE ServedInv
  OBVIOUS
<1>1. \A u \in Users : sub[u].end = 0 /\ now = 0
  BY DEF Init, NoRow
<1>2. \A c \in Calls : proc[c].pc = "idle"
  BY IdleTyped DEF Init
<1> QED BY <1>1, <1>2, TypesInit DEF ServedInv, Served, SweepFine

\* Only these two leave a call in the middle of a sweep.
LEMMA NotSweeping ==
  ASSUME TypeInv, NEW c \in Calls, Call(c), ~SelectDue(c), ~Flush(c)
  PROVE  /\ \A d \in Calls : d # c => proc'[d] = proc[d]
         /\ proc'[c].pc \notin {"flush", "commit"}
<1> DEFINE Quiet == /\ \A d \in Calls : d # c => proc'[d] = proc[d]
                    /\ proc'[c].pc \notin {"flush", "commit"}
<1>1. ASSUME NEW x, Become(c, x), x.pc \notin {"flush", "commit"} PROVE Quiet
  BY <1>1 DEF Become, TypeInv, TypeOK
<1>2. Idle.pc \notin {"flush", "commit"}
  BY DEF Idle
<1>3. ASSUME NEW a \in Charges, ReceivePayment(c, a) PROVE Quiet
  <2> DEFINE x == [Idle EXCEPT !.pc = "pay", !.charge = a,
                     !.seen[Buyer[a]] = Created(sub[Buyer[a]])]
  <2>1. Become(c, x)
    BY <1>3 DEF ReceivePayment
  <2>2. x.pc = "pay"
    BY DEF Idle
  <2> HIDE DEF x, Quiet
  <2> QED BY <1>1, <2>1, <2>2
<1>4. ASSUME RecordPayment(c) PROVE Quiet
  <2> DEFINE x == [Idle EXCEPT !.pc = "reply", !.charge = proc[c].charge,
                     !.welcome = PaidRow(proc[c].seen[Buyer[proc[c].charge]]).status = "removed"]
  <2>1. Become(c, x) \/ Become(c, Idle)
    BY <1>4 DEF RecordPayment
  <2>2. x.pc = "reply"
    BY DEF Idle
  <2> HIDE DEF x, Quiet
  <2> QED BY <1>1, <1>2, <2>1, <2>2
<1>5. ASSUME Commit(c) PROVE Quiet
  <2> DEFINE x == [Idle EXCEPT !.pc = "ban", !.remove = proc[c].remove, !.seen = sub']
  <2>1. Become(c, x) \/ Become(c, Idle)
    BY <1>5 DEF Commit
  <2>2. x.pc = "ban"
    BY DEF Idle
  <2> HIDE DEF x, Quiet
  <2> QED BY <1>1, <1>2, <2>1, <2>2
<1>6. ASSUME NEW u \in Users, NEW done \in BOOLEAN, Ban(c, u, done) \/ Unban(c, u, done)
      PROVE  Quiet
  <2> DEFINE x == [proc[c] EXCEPT !.pc = "unban", !.expire = {u}]
             y == [proc[c] EXCEPT !.pc = "ban", !.remove = @ \ {u}, !.expire = {}]
  <2>1. Become(c, x) \/ Become(c, y) \/ Become(c, Idle)
    BY <1>6 DEF Ban, Unban
  <2>2. x.pc = "unban" /\ y.pc = "ban"
    BY DEF TypeInv, TypeOK, ProcType
  <2> HIDE DEF x, y, Quiet
  <2> QED BY <1>1, <1>2, <2>1, <2>2
<1>7. ASSUME TurnOff(c) \/ ClearPending(c) \/ Yes(c) \/ Enable(c) \/ Reply(c) \/ Fail(c)
      PROVE  Quiet
  <2> DEFINE x(pc) == [Idle EXCEPT !.pc = pc]
  <2>1. Become(c, x("clear")) \/ Become(c, x("enable")) \/ Become(c, Idle)
    BY <1>7 DEF TurnOff, ClearPending, Yes, Enable, Reply, Fail
  <2>2. x("clear").pc = "clear" /\ x("enable").pc = "enable"
    BY DEF Idle
  <2> HIDE DEF x, Quiet
  <2> QED BY <1>1, <1>2, <2>1, <2>2
<1> HIDE DEF Quiet
<1>8. Quiet
  BY <1>3, <1>4, <1>5, <1>6, <1>7 DEF Call
<1> QED BY <1>8 DEF Quiet

(***************************************************************************)
(* A step that moves no end, and takes "active" only from a period that    *)
(* has ended or a row acted on when changed.                               *)
(***************************************************************************)
LEMMA Unserved ==
  ASSUME ServedInv, TypeInv', now <= now', stale \subseteq stale',
         \A u \in Users : sub'[u].end = sub[u].end,
         \A u \in Users : sub[u].status = "active" /\ sub'[u].status # "active" =>
                            u \in stale' \/ sub[u].end <= now,
         \A c \in Calls : \/ proc'[c] = proc[c]
                          \/ proc'[c].pc \notin {"flush", "commit"}
                          \/ SweepFine(c)'
  PROVE  ServedInv'
<1>0. /\ now \in Nat /\ now' \in Nat /\ \A u \in Users : sub[u].end \in Nat
      /\ \A c \in Calls : /\ proc[c].time \in Nat /\ proc[c].expire \subseteq Users
                          /\ proc[c].remove \subseteq Users
                          /\ \A u \in Users : proc[c].seen[u].end \in Nat
  BY DEF ServedInv, TypeInv, TypeOK, Row, ProcType
<1>1. ASSUME NEW u \in Users PROVE Served(u)'
  BY <1>0 DEF ServedInv, Served
<1>2. ASSUME NEW c \in Calls PROVE SweepFine(c)'
  <2>1. CASE proc'[c] = proc[c]
    <3>1. SweepFine(c)
      BY DEF ServedInv
    <3> QED BY <1>0, <2>1, <3>1 DEF SweepFine
  <2>2. CASE proc'[c].pc \notin {"flush", "commit"}
    BY <2>2 DEF SweepFine
  <2> QED BY <2>1, <2>2
<1> QED BY <1>1, <1>2 DEF ServedInv

LEMMA RecordPaymentServes ==
  ASSUME ServedInv, TypeInv', NEW c \in Calls, RecordPayment(c)
  PROVE  ServedInv'
<1> USE DEF ServedInv
<1>1. /\ \A d \in Calls : d # c => proc'[d] = proc[d]
      /\ proc'[c].pc \notin {"flush", "commit"}
  <2>1. Call(c) /\ ~SelectDue(c) /\ ~Flush(c)
    BY IdleTyped DEF RecordPayment, Call, SelectDue, Flush
  <2> QED BY <2>1, NotSweeping
<1>2. PICK a \in Charges : a = proc[c].charge
  BY DEF RecordPayment, TypeInv, ChargeNamed
<1>3. PICK u \in Users : u = Buyer[a]
  BY MembershipAssumption
<1> DEFINE old == proc[c].seen[u]
           new == PaidRow(old)
<1>4. old \in Row /\ sub[u] \in Row /\ now \in Nat
  BY DEF TypeInv, TypeOK, ProcType
<1>5. CASE a \in payments
  <2>1. UNCHANGED <<now, sub, stale>>
    BY <1>2, <1>5 DEF RecordPayment
  <2> QED BY <1>1, <1>4, <2>1, Unserved
<1>6. CASE a \notin payments
  <2>1. /\ now' = now /\ ~Locked(u)
        /\ sub' = [sub EXCEPT ![u] = Written(sub[u], old, new)]
        /\ stale' = stale \cup (IF sub[u] = old THEN {} ELSE {u})
    BY <1>2, <1>3, <1>6 DEF RecordPayment
  <2>2. \A v \in Users : v # u => sub'[v] = sub[v]
    BY <2>1 DEF TypeInv, TypeOK
  <2>3. Served(u)'
    <3> SUFFICES ASSUME u \notin stale' PROVE sub'[u].status = "active"
      BY DEF Served
    <3>1. sub[u] = old
      BY <2>1
    <3>2. sub'[u] = Written(old, old, new)
      BY <2>1, <3>1 DEF TypeInv, TypeOK
    <3>3. new.status = "active"
      BY DEF PaidRow
    <3>4. Written(old, old, new).status = new.status
      <4>1. "status" \in DOMAIN old
        BY <1>4 DEF Row
      <4> HIDE DEF old, new
      <4> QED BY <4>1 DEF Written
    <3> QED BY <3>2, <3>3, <3>4
  <2>4. ASSUME NEW v \in Users PROVE Served(v)'
    BY <2>1, <2>2, <2>3, <2>4 DEF Served
  <2>5. ASSUME NEW d \in Calls PROVE SweepFine(d)'
    <3>1. CASE d = c
      BY <1>1, <3>1 DEF SweepFine
    <3>2. CASE d # c
      <4>1. proc'[d] = proc[d] /\ SweepFine(d)
        BY <1>1, <3>2
      <4>2. proc[d].pc = "commit" => u \notin proc[d].expire
        BY <2>1 DEF Locked
      <4>3. proc[d].expire \subseteq Users
        BY DEF TypeInv, TypeOK, ProcType
      <4> HIDE DEF old, new
      <4> QED BY <2>1, <2>2, <4>1, <4>2, <4>3 DEF SweepFine
    <3> QED BY <3>1, <3>2
  <2> QED BY <2>4, <2>5
<1> QED BY <1>5, <1>6

\* A sweep takes "active" only from rows whose period has ended.
LEMMA SweepServes ==
  ASSUME ServedInv, TypeInv', NEW c \in Calls, SelectDue(c) \/ Flush(c) \/ Commit(c)
  PROVE  ServedInv'
<1> USE DEF ServedInv
<1> DEFINE p == proc[c]
<1>0. /\ p \in ProcType /\ now \in Nat /\ SweepFine(c)
      /\ p.time \in Nat /\ p.expire \subseteq Users /\ p.remove \subseteq Users
      /\ \A u \in Users : sub[u].end \in Nat /\ sub[u] \in Row
      /\ Grace \in Nat
  BY MembershipAssumption DEF TypeInv, TypeOK, ProcType, Row
<1>1. CASE SelectDue(c)
  <2> DEFINE x == [Idle EXCEPT !.pc = "flush", !.time = now, !.seen = sub,
                     !.warn = ToWarn(sub, now), !.expire = ToExpire(sub, now)]
  <2>1. Become(c, x) /\ UNCHANGED <<now, sub, stale>>
    BY <1>1 DEF SelectDue, members
  <2>2. x.pc = "flush" /\ x.time = now /\ x.seen = sub /\ x.expire = ToExpire(sub, now)
    BY DEF Idle
  <2> HIDE DEF x
  <2>3. proc'[c] = x /\ \A d \in Calls : d # c => proc'[d] = proc[d]
    BY <2>1 DEF Become, TypeInv, TypeOK
  <2>4. SweepFine(c)'
    BY <1>0, <2>1, <2>2, <2>3 DEF SweepFine, ToExpire
  <2> QED BY <1>0, <2>1, <2>3, <2>4, Unserved
<1>2. CASE Flush(c)
  <2> DEFINE x == [p EXCEPT !.pc = "commit", !.seen = sub,
                     !.remove = ToRemove(Marked(sub, p), p.time)]
  <2>1. /\ Become(c, x) /\ UNCHANGED <<now, sub>> /\ p.pc = "flush"
        /\ stale' = stale \cup ChangedSince(p, p.warn \cup p.expire)
    BY <1>2 DEF Flush
  <2>2. /\ x.pc = "commit" /\ x.time = p.time /\ x.seen = sub /\ x.expire = p.expire
        /\ x.remove = ToRemove(Marked(sub, p), p.time)
    BY <1>0 DEF ProcType
  <2> HIDE DEF x
  <2>3. proc'[c] = x /\ \A d \in Calls : d # c => proc'[d] = proc[d]
    BY <2>1 DEF Become, TypeInv, TypeOK
  <2>4. \A u \in x.expire : u \in stale' \/ sub[u].end <= now
    BY <1>0, <2>1, <2>2 DEF SweepFine, ChangedSince
  <2>5. \A u \in x.remove : sub[u].end <= now
    <3> SUFFICES ASSUME NEW u \in x.remove PROVE sub[u].end <= now
      OBVIOUS
    <3>1. u \in Users /\ Marked(sub, p)[u].end + Grace <= p.time
      BY <2>2 DEF ToRemove
    <3>2. Marked(sub, p)[u].end = sub[u].end
      BY <1>0, <3>1, RowsTyped DEF TypeInv, TypeOK
    <3>3. p.time <= now
      BY <1>0, <2>1 DEF SweepFine
    <3> QED BY <1>0, <3>1, <3>2, <3>3
  <2>6. SweepFine(c)'
    BY <1>0, <2>1, <2>2, <2>3, <2>4, <2>5 DEF SweepFine
  <2> QED BY <1>0, <2>1, <2>3, <2>6, Unserved
<1>3. CASE Commit(c)
  <2>1. /\ sub' = Marked(sub, p) /\ now' = now /\ p.pc = "commit"
        /\ stale' = stale \cup ChangedSince(p, p.remove)
    BY <1>3 DEF Commit
  <2>2. /\ \A d \in Calls : d # c => proc'[d] = proc[d]
        /\ proc'[c].pc \notin {"flush", "commit"}
    <3>1. Call(c) /\ ~SelectDue(c) /\ ~Flush(c)
      BY <1>3, IdleTyped DEF Commit, Call, SelectDue, Flush
    <3> QED BY <3>1, NotSweeping
  <2>3. \A u \in Users : sub'[u].end = sub[u].end
    BY <1>0, <2>1, RowsTyped DEF TypeInv, TypeOK
  <2>4. ASSUME NEW u \in Users, sub[u].status = "active", sub'[u].status # "active"
        PROVE  u \in stale' \/ sub[u].end <= now
    <3>1. u \in p.remove \/ u \in p.expire
      BY <1>0, <2>1, <2>4 DEF Marked, Row
    <3>2. u \in p.expire => u \in stale' \/ sub[u].end <= now
      BY <1>0, <2>1 DEF SweepFine
    <3>3. u \in p.remove => u \in stale' \/ sub[u].end <= now
      BY <1>0, <2>1 DEF SweepFine, ChangedSince
    <3> QED BY <3>1, <3>2, <3>3
  <2> HIDE DEF p
  <2> QED BY <1>0, <2>1, <2>2, <2>3, <2>4, Unserved
<1> QED BY <1>1, <1>2, <1>3

LEMMA ServedStep == ServedInv /\ [Next]_vars => ServedInv'
<1> SUFFICES ASSUME ServedInv, [Next]_vars PROVE ServedInv'
  OBVIOUS
<1>1. TypeInv' /\ now \in Nat
  BY TypesStep DEF ServedInv, TypeInv, TypeOK
<1> USE DEF members, switch
<1>2. ASSUME NEW c \in Calls, Call(c), ~RecordPayment(c), ~SelectDue(c), ~Flush(c), ~Commit(c)
      PROVE  ServedInv'
  <2>1. /\ \A d \in Calls : d # c => proc'[d] = proc[d]
        /\ proc'[c].pc \notin {"flush", "commit"}
    BY <1>2, NotSweeping DEF ServedInv
  <2>2. CASE \E a \in Charges : ReceivePayment(c, a)
    <3>1. PICK a \in Charges : ReceivePayment(c, a)
      BY <2>2
    <3>2. PICK u \in Users : u = Buyer[a]
      BY MembershipAssumption
    <3>3. sub' = [sub EXCEPT ![u] = Created(sub[u])] /\ UNCHANGED <<now, stale>>
      BY <3>1, <3>2 DEF ReceivePayment
    <3>4. /\ Created(sub[u]).end = sub[u].end
          /\ sub[u].status = "active" => Created(sub[u]).status = "active"
      BY RowsTyped DEF ServedInv, TypeInv, TypeOK, Created
    <3>5. \A v \in Users : /\ sub'[v].end = sub[v].end
                           /\ sub[v].status = "active" => sub'[v].status = "active"
      BY <3>3, <3>4 DEF ServedInv, TypeInv, TypeOK
    <3> QED BY <1>1, <2>1, <3>3, <3>5, Unserved
  <2>3. CASE ~\E a \in Charges : ReceivePayment(c, a)
    <3>1. UNCHANGED <<now, sub>> /\ stale \subseteq stale'
      BY <1>2, <2>3 DEF Call, Reply, Ban, Unban, TurnOff, ClearPending, Yes, Enable, Fail
    <3> QED BY <1>1, <2>1, <3>1, Unserved
  <2> QED BY <2>2, <2>3
<1>3. CASE \/ \E u \in Users : Subscribe(u) \/ Join(u)
           \/ RequestOn \/ LapseRequest \/ Tick \/ UNCHANGED vars
  <2>1. /\ UNCHANGED <<proc, stale>> /\ now <= now'
        /\ \A v \in Users : /\ sub'[v].end = sub[v].end
                            /\ sub[v].status = "active" => sub'[v].status = "active"
    <3>1. now <= now /\ now <= now + 1
      BY <1>1
    <3>2. ASSUME NEW u \in Users, Subscribe(u)
          PROVE  /\ UNCHANGED <<proc, stale, now>>
                 /\ \A v \in Users : /\ sub'[v].end = sub[v].end
                                     /\ sub[v].status = "active" => sub'[v].status = "active"
      BY <3>2, RowsTyped DEF Subscribe, ServedInv, TypeInv, TypeOK
    <3> QED BY <1>3, <3>1, <3>2 DEF Join, RequestOn, LapseRequest, Tick, vars
  <2> QED BY <1>1, <2>1, Unserved
<1> QED BY <1>1, <1>2, <1>3, RecordPaymentServes, SweepServes DEF Next

(***************************************************************************)
(* sweep_subscriber_statuses and record_payment: in whatever order         *)
(* payments and sweeps come, and however many overlap, who has paid time   *)
(* left may read the feed while the switch is on, unless a call acted on a *)
(* row of theirs that another had changed.                                 *)
(***************************************************************************)
THEOREM PaidStayServed == Spec => []PaidIsServed
<1>1. ServedInv => PaidIsServed
  BY DEF ServedInv, Served, PaidIsServed, CanCopy, Entitled
<1> QED BY <1>1, ServedInit, ServedStep, PTL DEF Spec

=============================================================================
